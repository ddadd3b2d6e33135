--------------------------- MODULE LWWGraphReplicas ---------------------------
(***************************************************************************)
(* Replicas of one LWWGraph.  Every call is either a user's, applied       *)
(* locally and broadcast, or the replay of an operation issued elsewhere   *)
(* (or here, once more); the code runs the same method.                    *)
(***************************************************************************)
EXTENDS GraphOperations, LWWGraph

VARIABLE graph  \* graph[r]: the LWWGraph of replica r

vars == <<issued, delivered, context, graph>>

Init ==
    /\ NetInit
    /\ graph = [r \in Replica |-> NewGraph]

add_vertex(r, op) ==
    /\ op.kind = "add_vertex"
    /\ Call(r, op)
    /\ graph' = [graph EXCEPT ![r] = AddVertex(@, op.vertex, op.stamp)]

remove_vertex(r, op) ==
    /\ op.kind = "remove_vertex"
    /\ Call(r, op)
    /\ graph' = [graph EXCEPT ![r] = RemoveVertex(@, op.vertex, op.stamp)]

add_edge(r, op) ==
    /\ op.kind = "add_edge"
    /\ Call(r, op)
    /\ graph' = [graph EXCEPT ![r] = AddEdge(@, op.from, op.to, op.stamp)]

\* With CausalDelivery users are disciplined as well: they remove known edges, and clear
\* the edges of known vertices.
remove_edge(r, op) ==
    /\ op.kind = "remove_edge"
    /\ CausalDelivery /\ op \notin issued => CrdtHasEdge(graph[r], op.from, op.to)
    /\ Call(r, op)
    /\ graph' = [graph EXCEPT ![r] = RemoveEdge(@, op.from, op.to, op.stamp)]

clear_vertex_edges(r, op) ==
    /\ op.kind = "clear_vertex_edges"
    /\ CausalDelivery /\ op \notin issued => CrdtFind(graph[r], op.vertex)
    /\ Call(r, op)
    /\ graph' = [graph EXCEPT ![r] = ClearVertexEdges(@, op.vertex, op.stamp)]

clear_vertices(r, op) ==
    /\ op.kind = "clear_vertices"
    /\ Call(r, op)
    /\ graph' = [graph EXCEPT ![r] = ClearVertices(@, op.stamp)]

Step(r, op) ==
    \/ add_vertex(r, op)
    \/ remove_vertex(r, op)
    \/ add_edge(r, op)
    \/ remove_edge(r, op)
    \/ clear_vertex_edges(r, op)
    \/ clear_vertices(r, op)

Next == \E r \in Replica : \E op \in Op : Step(r, op)

Spec == Init /\ [][Next]_vars

\* The transport gives up on no operation.
Delivery(r) == \E op \in issued \ delivered[r] : Step(r, op)

FairSpec == Spec /\ \A r \in Replica : WF_vars(Delivery(r))

-------------------------------------------------------------------------------
(* Properties. *)

\* The type of a set whose keys are vertices.
VertexSet(s) ==
    /\ s = SetState(s.map, s.sizeAlive, s.lastClearTime)
    /\ DOMAIN s.map \subseteq Vertex
    /\ s.map \in [DOMAIN s.map -> Metadata]
    /\ s.sizeAlive \in Nat
    /\ s.lastClearTime \in Nat

\* Type correctness of the whole state.
TypeOK ==
    /\ issued \subseteq Op
    /\ delivered \in [Replica -> SUBSET Op]
    /\ context \in [Stamp -> SUBSET Op]
    /\ DOMAIN graph = Replica
    /\ \A r \in Replica :
          /\ graph[r] = MapState(graph[r].keys, graph[r].value)
          /\ VertexSet(graph[r].keys)
          /\ DOMAIN graph[r].value = DOMAIN graph[r].keys.map
          /\ \A v \in DOMAIN graph[r].value : VertexSet(Edges(graph[r], v))

EdgesOf(g) == {e \in Vertex \X Vertex : HasEdge(g, e[1], e[2])}

\* Both levels of counters agree with what an iteration visits: size_vertex() and the size
\* of every edge set.  remove_vertex and add_edge go through several of them in one call.
SizesAreAliveCounts ==
    \A r \in Replica :
        /\ graph[r].keys.sizeAlive = Cardinality(Vertices(graph[r]))
        /\ \A v \in DOMAIN graph[r].value :
              Edges(graph[r], v).sizeAlive = Cardinality(Alive(Edges(graph[r], v)))

\* size_edges(), added up from these counters, is the number of edges has_edge finds, and
\* crdt_size_edges() never less.
EdgeCountIsEdges ==
    \A r \in Replica :
        /\ SizeEdges(graph[r]) = Cardinality(EdgesOf(graph[r]))
        /\ CrdtSizeEdges(graph[r]) >= SizeEdges(graph[r])

\* Every vertex an edge leads to, removed edges too, has an entry of its own: what the
\* assertions of add_edge (LWWGraph.h:512-513) ask for.
EdgesLeadSomewhere ==
    \A r \in Replica : \A v \in DOMAIN graph[r].value :
        DOMAIN Edges(graph[r], v).map \subseteq DOMAIN graph[r].value

\* No timestamp goes back, at either level, whatever late call is applied.
NoOlder(s, t) ==
    /\ t.lastClearTime >= s.lastClearTime
    /\ \A k \in DOMAIN s.map :
          k \in DOMAIN t.map /\ t.map[k].timestamp >= s.map[k].timestamp

TimestampsGrow ==
    [][\A r \in Replica :
          /\ NoOlder(graph[r].keys, graph'[r].keys)
          /\ \A v \in DOMAIN graph[r].value :
                NoOlder(Edges(graph[r], v), Edges(graph'[r], v))]_vars

\* Neither clear_vertices nor clear_vertex_edges has reached replica r (see the README for
\* what they would do).
NotCleared(r) ==
    \A op \in delivered[r] : op.kind \notin {"clear_vertices", "clear_vertex_edges"}

\* An edge still in a vertex's set has both its ends in the graph: remove_vertex takes
\* the edges of the vertex with it and a late add_edge is withdrawn.
NoDanglingEdge ==
    \A r \in Replica : NotCleared(r) =>
        \A from \in DOMAIN graph[r].value : \A to \in Alive(Edges(graph[r], from)) :
            HasVertex(graph[r], from) /\ HasVertex(graph[r], to)

\* Every vertex whose last word is an add, of an edge too, is in the graph, clears included,
\* and no vertex whose last word, clears aside, is a remove_vertex.  Without a
\* clear_vertices both bounds are equal.
VerticesAreLastWord ==
    \A r \in Replica :
        /\ VertexView(delivered[r]) \subseteq Vertices(graph[r])
        /\ Vertices(graph[r]) \subseteq VertexView(delivered[r] \ ClearOp)

\* An edge in a vertex's set, for all six operations in any order, was added, and is newer
\* than every remove_edge of it: one that came before the add_edge it removes, and before
\* its vertices, is not lost, and no withdrawal, removal or clear brings an edge back.
RemovedEdgesStay ==
    \A r \in Replica : \A from \in DOMAIN graph[r].value :
        \A to \in Alive(Edges(graph[r], from)) :
            <<from, to>> \in EdgeView({op \in delivered[r] : op.kind # "clear_vertex_edges"})

\* And every edge whose add_edge is newer than all that may hide it is shown, for all six
\* operations in any order: one withdrawn before is marked with nothing newer than what its
\* ends went through (LWWGraph.h:518-522), and no late removal of an end takes it.
LatestEdgesShown ==
    \A r \in Replica : LastingEdges(delivered[r]) \subseteq EdgesOf(graph[r])

\* What a call that takes graph g to graph h returns, and what the user sees change.
AddVertexTells(g, h, op) ==
    /\ AddVertexResult(g, op.vertex, op.stamp) <=> Vertices(h) \ Vertices(g) = {op.vertex}
    /\ EdgesOf(h) \ EdgesOf(g) = {}

RemoveVertexTells(g, h, op) ==
    RemoveVertexResult(g, op.vertex, op.stamp) <=> Vertices(g) \ Vertices(h) = {op.vertex}

AddEdgeTells(g, h, op) ==
    LET info == AddEdgeInfo(g, op.from, op.to, op.stamp)
        NewVertices == Vertices(h) \ Vertices(g)
    IN  /\ info.isFromAdded <=> op.from \in NewVertices
        /\ info.isToAdded <=> op.to \in NewVertices \ {op.from}
        /\ EdgesOf(h) \ EdgesOf(g) = IF info.isEdgeAdded THEN {<<op.from, op.to>>} ELSE {}

RemoveEdgeTells(g, h, op) ==
    RemoveEdgeResult(g, op.from, op.to, op.stamp)
        <=> EdgesOf(g) \ EdgesOf(h) = {<<op.from, op.to>>}

\* The returned values tell what appears and disappears for the user, and nothing else
\* does: an edge that was withdrawn is not reported, a vertex that comes back brings no
\* edge, and a call reports both ends only if both are new (LWWGraph.h:92-96).
ResultsTellVisibleChange ==
    [][\A r \in Replica : NotCleared(r) => \A op \in Op :
          /\ add_vertex(r, op) => AddVertexTells(graph[r], graph'[r], op)
          /\ remove_vertex(r, op) => RemoveVertexTells(graph[r], graph'[r], op)
          /\ add_edge(r, op) => AddEdgeTells(graph[r], graph'[r], op)
          /\ remove_edge(r, op) => RemoveEdgeTells(graph[r], graph'[r], op)]_vars

\* Replicas that applied the same operations, in whatever orders, show the same graph:
\* "All operations on this container are commutative!" (LWWGraph.h:32).
UserConvergence ==
    \A r1, r2 \in Replica :
        delivered[r1] = delivered[r2] => SameGraph(graph[r1], graph[r2])

\* They also hold the same metadata, and so stay equal under whatever comes next.
Convergence ==
    UserConvergence /\
    \A r1, r2 \in Replica :
        delivered[r1] = delivered[r2] =>
            graph[r1] = graph[r2] /\ CrdtEqualGraph(graph[r1], graph[r2])

\* The same without causal order, whatever the timestamps, for the operations that remove
\* no vertex and clear nothing: a remove_edge that comes first is not lost.
NothingRemoved(r) ==
    \A op \in delivered[r] : op.kind \in {"add_vertex", "add_edge", "remove_edge"}

EdgeConvergence ==
    \A r1, r2 \in Replica :
        NothingRemoved(r1) /\ delivered[r1] = delivered[r2] => graph[r1] = graph[r2]

\* A graph whose vertices are never removed shows the edges whose last word is an add_edge:
\* "order of operations is not important" (LWWGraph.h:34-35), only their timestamps are.
Order == INSTANCE GraphOrder
    WITH view <- [r \in Replica |-> [vertices |-> Vertices(graph[r]), edges |-> EdgesOf(graph[r])]]
ImplementsGraphOrder == Order!OrderSpec

\* The graph forgets nothing and makes nothing up: crdt_find and crdt_has_edge find the
\* vertices and the edges that the operations applied so far name, late ones included.
RemembersAll ==
    \A r \in Replica :
        /\ CrdtKeys(graph[r]) = {v \in Vertex : \E op \in delivered[r] : NamesVertex(op, v)}
        /\ \A from, to \in Vertex :
              CrdtHasEdge(graph[r], from, to) <=> \E op \in delivered[r] : NamesEdge(op, from, to)

\* "If vertex actually removed, also remove all edges that implies this vertex"
\* (LWWGraph.h:437-438): after a remove_vertex that returned true, no edge in the sets of
\* the graph comes from the vertex or leads to it.
RemovedWithItsEdges ==
    [][\A r \in Replica : \A op \in Op :
          remove_vertex(r, op) /\ RemoveVertexResult(graph[r], op.vertex, op.stamp) =>
              \A from \in DOMAIN graph'[r].value : \A to \in Alive(Edges(graph'[r], from)) :
                  op.vertex \notin {from, to}]_vars

\* "Duplicate calls with same stamp is idempotent" (LWWGraph.h:444): a remove_vertex that
\* a replica applied already changes nothing.
RemoveVertexIdempotent ==
    \A r \in Replica : \A op \in delivered[r] :
        op.kind = "remove_vertex" => RemoveVertex(graph[r], op.vertex, op.stamp) = graph[r]

\* Every replica ends up with the same graph, for good, once the users stop.
EventualConsistency ==
    <>[](\A r1, r2 \in Replica : graph[r1] = graph[r2])
===============================================================================
