\* Pages of two records, two of which move while they are asked for.
CONSTANTS
    i1 = i1
    i2 = i2
    i3 = i3
    i4 = i4
    Ids = {i1, i2, i3, i4}
    PageSize = 2
    MaxTime = 1
    MaxMoves = 2
SPECIFICATION Spec
SYMMETRY Symmetry
INVARIANTS
    PagesPartition
    SkipsAtMostMoved
