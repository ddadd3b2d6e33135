\* A clear of a vertex's edges newer than the removal of the vertex; loops stand for edges.
SPECIFICATION Spec
CONSTANTS
    r1 = r1
    r2 = r2
    v1 = v1
    Replica = {r1, r2}
    Vertex = {v1}
    Stamp = {1, 2, 3, 4, 5}
    Kinds = {"remove_vertex", "add_edge", "remove_edge", "clear_vertex_edges"}
    CausalDelivery = FALSE
SYMMETRY Symmetry
PROPERTIES
    RemovedWithItsEdges
