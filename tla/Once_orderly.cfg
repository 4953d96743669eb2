\* ForFree calls never overlap an allocation.
CONSTANTS
    Thread = {t1, t2, t3}
    UintptrMax = 7
    AllocResult = {0, 1, 2, 7}
    FreeAnytime = FALSE
SPECIFICATION FairSpec
INVARIANTS FreedAtMostOnce
PROPERTIES ImplementsCell EveryCallReturns
