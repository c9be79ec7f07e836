SPECIFICATION Spec
CONSTANTS
    PageSize = 4
    Tables = 4
    Entries = 4
    Procs = {p1, p2}
    Lost = Lost
    None = None
    Images <- MCImages
    HeapPages = {10, 11, 12, 13, 14}
    ProgramPage = 3
    StackPage = 2
    StackPages = 1
    Sizes = {3, 5}
    StringLength = 2
CHECK_DEADLOCK FALSE
SYMMETRY ProcSymmetry
INVARIANTS
    PagesExact
    ImageMapped
    OwnWritable
    CopyReadsTask
