\* Every terminal tool shape, gated by the user; the pass run.
CONSTANTS
    c1 = c1
    c2 = c2
    c3 = c3
    t1 = t1
    t2 = t2
    t3 = t3
    Calls <- MCCalls
    Ids <- MCIds
    Kinds <- MCKinds
    AutoApprove = {}
SPECIFICATION Spec
INVARIANT TypeOK
INVARIANT CommandsNeedConsent
CHECK_DEADLOCK FALSE
