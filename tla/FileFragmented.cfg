SPECIFICATION Spec
CONSTANTS
    A = A
    B = B
    C = C
    Files = {A, B, C}
    Deleted = Deleted
    End = End
    None = None
    SectorSize = 2
    SectorsPerCluster = 2
    ReservedSectors = 2
    FatCopies = 2
    SectorsPerFat = 6
    RootEntries = 4
    EntrySize = 2
    MaxFds = 1
    Disks <- ReadDisks
    Paths <- ReadPaths
    Modes = {"r"}
    Sizes = {0, 1, 2, 3, 5}
    Counts = {1, 2}
    Offsets = {0, 1, 3, 6, 7}
    MaxOpens = 1
    MaxPos = 7
INVARIANT SuccessMeansTheFile
