\* All three operations, delivered in any order, as the doc comment allows.
SPECIFICATION Spec
CONSTANTS
    r1 = r1
    r2 = r2
    k1 = k1
    Replica = {r1, r2}
    Key = {k1}
    Stamp = {1, 2, 3}
    Kinds = {"add", "remove", "clear"}
    CausalDelivery = FALSE
INVARIANTS
    UserConvergence
