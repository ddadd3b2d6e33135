\* All three operations; causal delivery, and users remove known keys only.
SPECIFICATION FairSpec
CONSTANTS
    r1 = r1
    r2 = r2
    k1 = k1
    k2 = k2
    Replica = {r1, r2}
    Key = {k1, k2}
    Stamp = {1, 2, 3, 4}
    Kinds = {"add", "remove", "clear"}
    CausalDelivery = TRUE
INVARIANTS
    Convergence
PROPERTIES
    ImplementsLWWOrder
    EventualConsistency
