SPECIFICATION FairSpec
CONSTANTS
    Client = {c1, c2}
    Endings <- MCEndings
    MaxJobs = 2
PROPERTIES PollingEnds
