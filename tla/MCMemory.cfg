SPECIFICATION MemorySpec
CONSTANTS
    TotalEntries = 5
    BlockSize = 2
    HeapBase = 5
    AddrBlocks = 12
    Clients = {c1, c2, c3}
    Sizes = {0, 1, 3, 6, 11, 14, 23}
    Nobody = Nobody
    Processes = {p1, p2}
    MaxAllocations = 2
    Requests = {1, 3}
SYMMETRY Perms
INVARIANTS TypeOK Exclusive TableExact ScanIsFirstFit UserTypeOK Isolation NothingLost
PROPERTIES NeighboursKept ImplementsPool OthersKept
