\* A map of registers: every operation and updates, in any order and any number of times.
SPECIFICATION FairSpec
CONSTANTS
    r1 = r1
    r2 = r2
    k1 = k1
    k2 = k2
    v0 = v0
    v1 = v1
    v2 = v2
    Replica = {r1, r2}
    Key = {k1, k2}
    Value = {v1, v2}
    Default = v0
    Stamp = {1, 2, 3}
    Kinds = {"add", "remove", "clear", "update"}
    CausalDelivery = FALSE
INVARIANTS
    TypeOK
    ValuesAreLastWrites
    IterationVisitsLiving
    UpdatesAddNoKey
    Convergence
PROPERTIES
    EventualConsistency
