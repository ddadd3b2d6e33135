\* Every operation of the graph, delivered in any order and any number of times.
SPECIFICATION Spec
CONSTANTS
    r1 = r1
    r2 = r2
    v1 = v1
    v2 = v2
    Replica = {r1, r2}
    Vertex = {v1, v2}
    Stamp = {1, 2, 3}
    Kinds = {"add_vertex", "remove_vertex", "add_edge", "remove_edge", "clear_vertex_edges", "clear_vertices"}
    CausalDelivery = FALSE
SYMMETRY Symmetry
INVARIANTS
    TypeOK
    SizesAreAliveCounts
    EdgeCountIsEdges
    EdgesLeadSomewhere
    NoDanglingEdge
    VerticesAreLastWord
    RemovedEdgesStay
    LatestEdgesShown
    EdgeConvergence
    RemembersAll
PROPERTIES
    TimestampsGrow
    ResultsTellVisibleChange
