\* No vertex is removed; causal delivery, and users act on what they know.
SPECIFICATION FairSpec
CONSTANTS
    r1 = r1
    r2 = r2
    v1 = v1
    v2 = v2
    Replica = {r1, r2}
    Vertex = {v1, v2}
    Stamp = {1, 2, 3}
    Kinds = {"add_vertex", "add_edge", "remove_edge", "clear_vertex_edges"}
    CausalDelivery = TRUE
INVARIANTS
    Convergence
PROPERTIES
    ImplementsGraphOrder
    EventualConsistency
