SPECIFICATION Spec
CONSTANTS
    p1 = p1
    p2 = p2
    Procs <- MCProcs
    Published <- MCPublished
    PointBytes = 2
    Word = 32
    FirstCaches <- MCCaches
    RowCounts <- MCRows
    MaxStarts = 4

SYMMETRY Symmetry
INVARIANTS TypeOK CoversRows OwnCacheIsGood
\* Once every process has ended nothing is left to do.
CHECK_DEADLOCK FALSE
