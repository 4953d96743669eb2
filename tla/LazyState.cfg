\* Init routines use the lazily created state, or do not.
CONSTANTS
    Thread = {t1, t2}
    NoThread = none
    DllMainUses = TRUE
SPECIFICATION FairSpec
INVARIANTS OneAllocator DeadlockNeedsInit
PROPERTIES ImplementsCells CallsReturn
CHECK_DEADLOCK FALSE
