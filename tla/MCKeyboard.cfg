SPECIFICATION Spec
CONSTANTS
    Processes = {p1, p2}
    BufferSize = 2
    CounterRange = 4
    Letters = {a}
    Others = {}
    Caps = caps
    Unmapped = unmapped
    PastTable = past
SYMMETRY ProcessSymmetry
INVARIANT Window
PROPERTY ImplementsKeyQueue
