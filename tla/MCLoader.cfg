SPECIFICATION LoaderSpec
CONSTANTS
    Prog = Prog
    Flat = Flat
    Other = Other
    Wrap = Wrap
    Long = Long
    Absent = Absent
    Files = {Prog, Flat, Other, Wrap, Long, Absent}
    Deleted = Deleted
    End = End
    None = None
    SectorSize = 2
    SectorsPerCluster = 2
    ReservedSectors = 2
    FatCopies = 2
    SectorsPerFat = 6
    RootEntries = 6
    EntrySize = 2
    MaxFds = 2
    Volumes <- MCVolumes
    Programs <- MCPrograms
    MaxProcesses = 2
    MaxLoads = 5
CHECK_DEADLOCK FALSE
INVARIANTS
    LoadsKeepWorking
    ObjectsAccounted
