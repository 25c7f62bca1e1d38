SPECIFICATION SweepSpec
CONSTANTS
    Run = {r1, r2}
    Conn = {k1, k2}
    NoRun = NoRun
    NoConn = NoConn
SYMMETRY Symmetry
INVARIANTS QuietSweepReportsAll
