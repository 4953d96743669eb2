CONSTANTS
    Thread = {t1, t2, t3}
    UintptrMax = 7
    AllocResult = {0, 1, 7}
    FreeAnytime = TRUE
SPECIFICATION Spec
INVARIANTS FreedAtMostOnce
