------------------------------- MODULE LWWGraph -------------------------------
(***************************************************************************)
(* The container LWWGraph<Key, T, U> of include/collabserver/datatypes/    *)
(* CmRDT/LWWGraph.h: an LWWMap from each vertex to the LWWSet of the       *)
(* vertices its edges lead to.  A vertex's content is left out: no         *)
(* modifier reads or writes it, only operator== of a vertex compares it.   *)
(***************************************************************************)
EXTENDS LWWMap, Functions

NewGraph == NewMap

\* The edges out of vertex v, and the graph with these edges replaced.
Edges(g, v) == g.value[v]
WithEdges(g, v, e) == SetValue(g, v, e)

-------------------------------------------------------------------------------
(* Lookup. *)

HasVertex(g, v) == FindKey(g, v)

\* What begin() to end() of the graph go through.
Vertices(g) == Living(g)

\* count_edge(): an edge out of a removed vertex is not in the graph; the vertex it
\* leads to is not looked at.
HasEdge(g, from, to) == HasVertex(g, from) /\ Find(Edges(g, from), to)

\* crdt_has_edge(): removed vertices and edges count.
CrdtHasEdge(g, from, to) == CrdtFind(g, from) /\ to \in DOMAIN Edges(g, from).map

\* crdt_has_vertex().
CrdtHasVertex(g, v) == CrdtFind(g, v)

\* size_edges(): the edges out of living vertices; crdt_size_edges(): all, removed or not.
SizeEdges(g) == SumFunction([v \in Vertices(g) |-> Edges(g, v).sizeAlive])
CrdtSizeEdges(g) == SumFunction([v \in CrdtKeys(g) |-> Cardinality(DOMAIN Edges(g, v).map)])

\* operator== of Vertex: the living edges; the contents, equal as long as the user has not
\* changed them, are left out.  The vertices equal on both sides.
SameVertex(lhs, rhs) == SameSet(lhs, rhs)
EqualVertices(lhs, rhs) ==
    {v \in CrdtKeys(lhs) \cap CrdtKeys(rhs) : SameVertex(CrdtAt(lhs, v), CrdtAt(rhs, v))}

\* operator==, through LWWMap and Vertex: the living vertices and their living edges.
SameGraph(lhs, rhs) == SameMap(lhs, rhs, EqualVertices(lhs, rhs))

\* crdt_equal(): that of the map, which compares vertices by operator==, then edges in turn.
CrdtEqualGraph(g, other) ==
    /\ CrdtEqualMap(g, other, EqualVertices(g, other))
    /\ \A v \in CrdtKeys(g) : CrdtEqual(Edges(g, v), Edges(other, v))

-------------------------------------------------------------------------------
(* Modifiers.  The Result operators are the returned booleans. *)

AddVertex(g, v, stamp) == AddKey(g, v, stamp, NewSet)
AddVertexResult(g, v, stamp) == AddResult(g.keys, v, stamp)

RemoveVertexResult(g, v, stamp) == RemoveResult(g.keys, v, stamp)

\* remove_vertex(): the edges out of v are cleared and those to v removed, even when
\* the removal of v itself came too late.
RemoveVertex(g, v, stamp) ==
    LET h == RemoveKey(g, v, stamp, NewSet)
    IN  MapState(h.keys,
            [x \in DOMAIN h.value |->
                IF x = v THEN Clear(Edges(h, x), stamp)
                ELSE IF Find(Edges(h, x), v) THEN Remove(Edges(h, x), v, stamp)
                ELSE Edges(h, x)])

\* clear_vertices(): the loop visits living vertices only, before any is cleared.
ClearVertices(g, stamp) ==
    LET Cut == [x \in DOMAIN g.value |->
                   IF HasVertex(g, x) THEN Clear(Edges(g, x), stamp) ELSE Edges(g, x)]
    IN  ClearKeys(MapState(g.keys, Cut), stamp)

\* clear_vertex_edges(): nothing is kept of a call on a vertex not seen yet.
ClearVertexEdges(g, v, stamp) ==
    IF CrdtFind(g, v) THEN WithEdges(g, v, Clear(Edges(g, v), stamp)) ELSE g

\* The later of the two endpoints' timestamps, an add's or a remove's.
HighTime(g, from, to) ==
    LET from_time == g.keys.map[from].timestamp
        to_time == g.keys.map[to].timestamp
    IN  IF from_time > to_time THEN from_time ELSE to_time

\* The last part of add_edge(): a living edge with a removed endpoint is withdrawn.
WithdrawEdge(g, from, to) ==
    IF /\ Find(Edges(g, from), to)
       /\ g.keys.map[from].isRemoved \/ g.keys.map[to].isRemoved
    THEN WithEdges(g, from, Remove(Edges(g, from), to, HighTime(g, from, to)))
    ELSE g

\* Slip of add_edge(): the edge is not checked against removed vertices.
AddEdgeUnchecked(g, from, to, stamp) ==
    LET h == AddVertex(AddVertex(g, from, stamp), to, stamp)
    IN  WithEdges(h, from, Add(Edges(h, from), to, stamp))

\* Slip of add_edge()'s result: it is not taken back when the edge is withdrawn.
AddEdgeInfoKept(g, from, to, stamp) ==
    LET f == AddVertex(g, from, stamp)
        h == AddVertex(f, to, stamp)
    IN  [isFromAdded |-> AddVertexResult(g, from, stamp),
         isToAdded |-> from # to /\ AddVertexResult(f, to, stamp),
         isEdgeAdded |-> AddResult(Edges(h, from), to, stamp)]

\* Slips of remove_edge(): no entry for the far end; placeholders at the edge's stamp.
RemoveEdgeOneEnd(g, from, to, stamp) ==
    LET h == RemoveKey(g, from, 0, NewSet)
    IN  WithEdges(h, from, Remove(Edges(h, from), to, stamp))
RemoveEdgeStamped(g, from, to, stamp) ==
    LET h == RemoveKey(RemoveKey(g, from, stamp, NewSet), to, stamp, NewSet)
    IN  WithEdges(h, from, Remove(Edges(h, from), to, stamp))

\* add_edge(): both vertices are added first; the second add of a loop does nothing.
AddEdge(g, from, to, stamp) ==
    LET h == AddVertex(AddVertex(g, from, stamp), to, stamp)
    IN  WithdrawEdge(WithEdges(h, from, Add(Edges(h, from), to, stamp)), from, to)

\* What add_edge() returns: an edge added and withdrawn was not added.
AddEdgeInfo(g, from, to, stamp) ==
    LET f == AddVertex(g, from, stamp)
        h == AddVertex(f, to, stamp)
    IN  [isFromAdded |-> AddVertexResult(g, from, stamp),
         isToAdded |-> from # to /\ AddVertexResult(f, to, stamp),
         isEdgeAdded |-> /\ AddResult(Edges(h, from), to, stamp)
                         /\ HasVertex(h, from) /\ HasVertex(h, to)]

\* remove_edge(): unknown vertices enter as removed at the minimal timestamp.
RemoveEdge(g, from, to, stamp) ==
    LET h == RemoveKey(RemoveKey(g, from, 0, NewSet), to, 0, NewSet)
    IN  WithEdges(h, from, Remove(Edges(h, from), to, stamp))

RemoveEdgeResult(g, from, to, stamp) ==
    LET h == RemoveKey(RemoveKey(g, from, 0, NewSet), to, 0, NewSet)
    IN  RemoveResult(Edges(h, from), to, stamp)
===============================================================================
