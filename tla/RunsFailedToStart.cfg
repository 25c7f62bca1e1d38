SPECIFICATION Spec
CONSTANTS
    Run <- MCRun
    NoRun = NoRun
INVARIANTS FailedToStartMeansNoRun
