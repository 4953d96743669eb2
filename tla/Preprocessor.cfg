CONSTANTS
    Name = {x, y}
    Value = {zero, one}
    Zero = zero
    Undefined = undefined
    Forms = {"plain", "blank", "attached", "hidden"}
    MaxDepth = 3
    MaxSaved = 1
SPECIFICATION Spec
INVARIANTS ObeysWhatCObeys
CHECK_DEADLOCK FALSE
