\* The names of the two modules start alike.
CONSTANTS
    File = {f1, f2}
    func = func
    mf = mf
    mfplat = mfplat
    Name = {func}
    Module <- MCModule
    DllNameList <- MCDllNameList
    Prefix <- MCPrefix
    ApisToIgnore = {}
    Byte <- MCByte
    MaxText = 4
    MaxPattern = 2
    Terminated = TRUE
    Bytes <- MCBytes
    FunctionPrefixTable <- MCTable
    Blanks <- MCBlanks
    Braces = {}
    Open <- MCOpen
    Close <- MCClose
    Semicolon <- MCSemicolon
SPECIFICATION SpecAll
INVARIANTS ThunkNamesItsModule
CHECK_DEADLOCK FALSE
