CONSTANTS
    Dll = {d1}
    Epochs = {"win10"}
    Relocs = {"good", "bad"}
    Faults = {}
SPECIFICATION Spec
INVARIANTS LoadedIsRelocated
CHECK_DEADLOCK FALSE
