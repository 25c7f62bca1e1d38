SPECIFICATION SweepSpec
CONSTANTS
    Run = {r1, r2, r3}
    Conn = {k1, k2}
    NoRun = NoRun
    NoConn = NoConn
SYMMETRY Symmetry
INVARIANTS SweepTypeOK SweepReportsLiveRuns QuietSweepComplete
