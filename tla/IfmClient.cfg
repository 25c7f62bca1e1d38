SPECIFICATION FairSpec
CONSTANTS
    t1 = t1
    t2 = t2
    t3 = t3
    Token = {t1, t2, t3}
    NoToken = NoToken
    Errors <- MCErrors
INVARIANTS TypeOK FaultFreeCallSucceeds NoNeedlessLogin
PROPERTIES ImplementsApiCall CallReturns
