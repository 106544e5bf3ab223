SPECIFICATION Spec
CONSTANTS
    t1 = t1
    t2 = t2
    c1 = c1
    good = good
    x = x
    Torn = Torn
    Missing = Missing
    Tables <- OneTable
    Callers <- MCCallers
    Schemas <- MCSchemas
    Committable <- MCSchemas
    Batches <- MCBatches
    Capacities <- MCCapacities
    MaxFiles = 3
    MaxFaults = 1
    Radix = 10
    Padded = 1000000

INVARIANTS GrownRefuses
