CONSTANTS
    \* bitmap
    SizeOfBitMap = 28
    NumbersToFind = {1, 8, 11, 17}
    MaxOwned = 3
    \* relocation
    Word = 64
    Mapped = 63
    TableSizes = {0, 3, 8, 17, 20, 30, 32}
    BlockSizes = {0, 4, 7, 8, 9, 10, 12, 16, 20, 22, 40, 62, 63}
    \* indexes
    Release <- MCRelease
    Heap = {h1, h2}
    ProcessHeap = h1
    ntdll = ntdll
    kernel32 = kernel32
    kernelbase = kernelbase
    copy1 = copy1
    copy2 = copy2
    Windows <- MCWindows
    Memory <- MCMemory
    DllBase <- MCDllBase
    TimeDateStamp <- MCTimeDateStamp
    SizeOfImage <- MCSizeOfImage
    BaseDllName <- MCBaseDllName
    DataWords = 6
    Null = Null
    \* exports
    TypeSizes = {0, 2, 6}
    MaxFunctions = 3
    MaxArguments = 2
SPECIFICATION PartsSpec
INVARIANTS
    BitsAreTheNumbersOut
    SuccessMeansWholeTable
    FoundIsRight
    IndexesAgree
    RowsAreComplete
CHECK_DEADLOCK FALSE
