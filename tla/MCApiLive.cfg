SPECIFICATION FairSpec
CONSTANTS
    t1 = t1
    t2 = t2
    r1 = r1
    r2 = r2
    r3 = r3
    good = good
    bad = bad
    x = x
    y = y
    Torn = Torn
    Missing = Missing
    NoRequest = NoRequest
    Schemas <- MCSchemas
    Committable <- MCCommittable
    Batches <- MCBatches
    Capacities <- MCCapacities
    Radix = 10
    Padded = 1000000
    Tables <- OneTable
    Requests <- ThreeRequests
    Bodies <- LiveBodies
    NumWorkers = 2
    MaxFiles = 4
    MaxFaults = 1

PROPERTIES Answered
