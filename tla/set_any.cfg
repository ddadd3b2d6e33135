\* All three operations, delivered in any order and any number of times.
SPECIFICATION Spec
CONSTANTS
    r1 = r1
    r2 = r2
    k1 = k1
    k2 = k2
    Replica = {r1, r2}
    Key = {k1, k2}
    Stamp = {1, 2, 3, 4}
    Kinds = {"add", "remove", "clear"}
    CausalDelivery = FALSE
SYMMETRY Symmetry
INVARIANTS
    TypeOK
    SizeIsAliveCount
    Idempotence
    AddRemoveConvergence
    AddRemoveLastWord
PROPERTIES
    TimestampsGrow
    ResultsTellVisibleChange
