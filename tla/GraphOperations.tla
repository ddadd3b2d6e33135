--------------------------- MODULE GraphOperations ---------------------------
(***************************************************************************)
(* The operations users issue on a replicated graph.                       *)
(***************************************************************************)
EXTENDS Broadcast

CONSTANT Vertex

VertexOp == [kind : {"add_vertex", "remove_vertex", "clear_vertex_edges"},
             vertex : Vertex, stamp : Stamp]
EdgeOp == [kind : {"add_edge", "remove_edge"}, from : Vertex, to : Vertex, stamp : Stamp]
ClearOp == [kind : {"clear_vertices"}, stamp : Stamp]

Op == VertexOp \cup EdgeOp \cup ClearOp

\* An add_edge adds both its vertices.
AddsVertex(op, v) ==
    \/ op.kind = "add_vertex" /\ op.vertex = v
    \/ op.kind = "add_edge" /\ v \in {op.from, op.to}

RemovesVertex(op, v) ==
    \/ op.kind = "remove_vertex" /\ op.vertex = v
    \/ op.kind = "clear_vertices"

\* The vertices and the edge an operation names: those entered in the graph, even as removed
\* ones.  A clear enters none.
NamesVertex(op, v) ==
    \/ op.kind \in {"add_vertex", "remove_vertex"} /\ op.vertex = v
    \/ op.kind \in {"add_edge", "remove_edge"} /\ v \in {op.from, op.to}

NamesEdge(op, from, to) ==
    op.kind \in {"add_edge", "remove_edge"} /\ op.from = from /\ op.to = to

\* The vertices a graph must hold after the operations of D, in whatever order.
VertexView(D) ==
    {v \in Vertex : \E op \in D :
        /\ AddsVertex(op, v)
        /\ \A o \in D : RemovesVertex(o, v) => o.stamp < op.stamp}

\* A clear_vertex_edges removes the edges out of its vertex.
AddsEdge(op, from, to) == op.kind = "add_edge" /\ NamesEdge(op, from, to)

RemovesEdge(op, from, to) ==
    \/ op.kind = "remove_edge" /\ NamesEdge(op, from, to)
    \/ op.kind = "clear_vertex_edges" /\ op.vertex = from

\* The edges a graph must hold after the operations of D, none of which removes a vertex.
EdgeView(D) ==
    {e \in Vertex \X Vertex : \E op \in D :
        /\ AddsEdge(op, e[1], e[2])
        /\ \A o \in D : RemovesEdge(o, e[1], e[2]) => o.stamp < op.stamp}

\* What may hide an edge from `from` to `to` after the operations of D: a removal of the edge
\* and, once one of its ends was removed, whatever added or removed either of them.
EndRemoved(D, from, to) == \E o \in D : RemovesVertex(o, from) \/ RemovesVertex(o, to)

ChangesEnd(o, from, to) ==
    \E v \in {from, to} : AddsVertex(o, v) \/ RemovesVertex(o, v)

HidesEdge(o, D, from, to) ==
    \/ RemovesEdge(o, from, to)
    \/ ChangesEnd(o, from, to) /\ EndRemoved(D, from, to)

\* The edges a graph must hold after the operations of D, in whatever order.
LastingEdges(D) ==
    {e \in Vertex \X Vertex : \E op \in D :
        /\ AddsEdge(op, e[1], e[2])
        /\ \A o \in D \ {op} : HidesEdge(o, D, e[1], e[2]) => o.stamp < op.stamp}
===============================================================================
