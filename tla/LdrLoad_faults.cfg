\* Every call that may fail does, on every family of versions.
CONSTANTS
    Dll = {d1, d2, d3}
    Epochs = {"nt5", "nt6", "win8", "win10"}
    Relocs = {"good"}
    Faults = {"section", "view", "protect", "entry", "imports", "name", "index", "ddag", "init"}
SPECIFICATION FairSpec
INVARIANTS HeldAtRest LinkedEntriesAreLive LoadedIsFound CrashIsKnown DanglingIsKnown
PROPERTIES  AttachOnce LoadsEnd
CHECK_DEADLOCK FALSE
