SPECIFICATION Spec
CONSTANTS
    p1 = p1
    p2 = p2
    Procs <- MCProcs
    Published <- MCPublished
    PointBytes = 2
    Word = 32
    FirstCaches <- MCCaches
    RowCounts <- SmallRows
    MaxStarts = 1

INVARIANTS FetchesPublished
CHECK_DEADLOCK FALSE
