\* Three replicas, three updates of two values, delivered in any order.
SPECIFICATION FairSpec
CONSTANTS
    r1 = r1
    r2 = r2
    r3 = r3
    v1 = v1
    v2 = v2
    Replica = {r1, r2, r3}
    Value = {v1, v2}
    Stamp = {1, 2, 3}
    Kinds = {"update"}
    CausalDelivery = FALSE
INVARIANTS
    TypeOK
    LastWriterWins
PROPERTIES
    EventualAgreement
