\* ForFree calls come at any time.
CONSTANTS
    Thread = {t1, t2, t3, t4}
    UintptrMax = 7
    AllocResult = {0, 1, 2, 7}
    FreeAnytime = TRUE
SYMMETRY Symmetry
SPECIFICATION Spec
INVARIANTS OneOwner Agreement NoLeak
PROPERTIES WordForward EmptyOnlyIfLost
