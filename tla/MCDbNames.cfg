SPECIFICATION Spec
CONSTANTS
    t1 = t1
    t2 = t2
    c1 = c1
    good = good
    other = other
    bad = bad
    x = x
    y = y
    Torn = Torn
    Missing = Missing
    Tables <- OneTable
    Callers <- MCCallers
    Schemas <- OneSchema
    Committable <- OneSchema
    Batches <- OneRow
    Capacities <- Ample
    MaxFiles = 4
    MaxFaults = 0
    Radix = 3
    Padded = 3

INVARIANTS InsertAppends
