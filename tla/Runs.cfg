SPECIFICATION FairSpec
CONSTANTS
    Run <- MCRun
    NoRun = NoRun
INVARIANTS TypeOK StartVerdictFits DefaultsOnlyIfAsked CancelVerdictFits
PROPERTIES WatchEnds
