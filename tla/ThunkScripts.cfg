\* All texts of up to four bytes, all files of exports of two modules.
CONSTANTS
    Byte <- MCByte
    MaxText = 4
    MaxPattern = 2
    Terminated = TRUE
    File = {f1, f2}
    func = func
    mf = mf
    mfplat = mfplat
    Name = {func}
    Module <- MCModule
    DllNameList <- MCDllNameList
    Prefix <- MCPrefix
    ApisToIgnore = {}
    Bytes <- MCBytes
    FunctionPrefixTable <- MCTable
    Blanks <- MCBlanks
    Braces = {}
    Open <- MCOpen
    Close <- MCClose
    Semicolon <- MCSemicolon
SPECIFICATION SpecAll
INVARIANTS SuffixesSorted SearchFindsAll EachHasOneThunk BasicIsInEveryVersion 
SYMMETRY Symmetry
CHECK_DEADLOCK FALSE
