CONSTANTS
    Chars <- MCChars
    Width = 4
    Height = 4
    Chunk = 3
    LongPrint = 12
    Junk <- MCJunk
    Letters = {"a", "b"}
    Programs <- MCPrograms
    MaxLine = 7
    ArgSize = 3
    MaxAllocations = 3
    PrintSizes = {0, 3, 5, 13}
    MaxKeys = 7
    MaxPrints = 1
    None = None
SPECIFICATION Spec
CHECK_DEADLOCK FALSE
INVARIANTS LongPrintsWhole
