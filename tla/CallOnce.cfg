CONSTANTS
    Thread = {t1, t2, t3, t4}
    Func = {f}
    NullFunc = none
SPECIFICATION FairSpec
INVARIANTS RunsOnce ReturnedAfterRun
PROPERTIES EveryCallReturns
CHECK_DEADLOCK FALSE
