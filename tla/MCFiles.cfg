SPECIFICATION Spec
CONSTANTS
    A = A
    B = B
    C = C
    Files = {A, B, C}
    Deleted = Deleted
    End = End
    None = None
    SectorSize = 2
    SectorsPerCluster = 2
    ReservedSectors = 2
    FatCopies = 2
    SectorsPerFat = 6
    RootEntries = 4
    EntrySize = 2
    MaxFds = 2
    Disks <- MCDisks
    Paths <- OpenPaths
    Modes = {"r", "w"}
    Sizes = {0, 2, 5}
    Counts = {1, 2}
    Offsets = {1, 3}
    MaxOpens = 3
    MaxPos = 7
INVARIANTS
    NumbersAreStable
    OpenFilesBacked
    LookupFinds
    ReadsTheFile
    ShortReadsSucceed
