\* An edge added late between vertices, one of which was removed and added again.
SPECIFICATION Spec
CONSTANTS
    r1 = r1
    r2 = r2
    v1 = v1
    v2 = v2
    Replica = {r1, r2}
    Vertex = {v1, v2}
    Stamp = {1, 2, 3}
    Kinds = {"add_vertex", "remove_vertex", "add_edge"}
    CausalDelivery = FALSE
INVARIANTS
    UserConvergence
