SPECIFICATION FairSpec
CONSTANTS
    Client = {c1, c2}
    Endings <- MCEndings
    MaxJobs = 3
INVARIANTS TypeOK OwnRulesets NoRulesetsIsTrue
PROPERTIES PollingEndsUnlessWarned
