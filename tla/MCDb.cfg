SPECIFICATION Spec
CONSTANTS
    t1 = t1
    t2 = t2
    c1 = c1
    good = good
    other = other
    bad = bad
    x = x
    y = y
    Torn = Torn
    Missing = Missing
    Tables <- MCTables
    Callers <- MCCallers
    Schemas <- MCSchemas
    Committable <- MCCommittable
    Batches <- MCBatches
    Capacities <- MCCapacities
    MaxFiles = 3
    MaxFaults = 2
    Radix = 10
    Padded = 1000000

SYMMETRY Symmetric
INVARIANTS TypeOK CommitMatchesData CommitIsAcked AckedSurvives LengthTells Inv
PROPERTIES AppendOnly ImplementsLedger
