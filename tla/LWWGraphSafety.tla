---------------------------- MODULE LWWGraphSafety ----------------------------
(***************************************************************************)
(* What a graph guarantees in any order of delivery.  Its vertices lie     *)
(* between the last words of its operations with the clears and without.   *)
(* As long as no clear reached it no edge outlives a vertex, and results   *)
(* tell what the user sees change.  It remembers what it was told of,      *)
(* keeps no edge older than a removal of it, and shows every edge newer    *)
(* than all that may hide it.  Graphs converge, and implement GraphOrder,  *)
(* while no vertex is removed.                                             *)
(* For every set of replicas, vertices and timestamps.                     *)
(***************************************************************************)
EXTENDS LWWGraphProofs

(***************************************************************************)
(* The vertices.  Marked(s, D): every timestamp and mark of s comes from   *)
(* an operation of D, or from remove_edge, which enters vertices as        *)
(* removed at 0.  Absorbed(s, D): s is as recent as all of D, but for the  *)
(* clears, which older vertices may be seen after.                         *)
(***************************************************************************)
Marked(s, D) ==
    /\ \/ s.lastClearTime = 0
       \/ \E op \in D : op.kind = "clear_vertices" /\ op.stamp = s.lastClearTime
    /\ \A v \in DOMAIN s.map :
          IF s.map[v].isRemoved
          THEN \/ s.map[v].timestamp = 0
               \/ \E op \in D : RemovesVertex(op, v) /\ op.stamp = s.map[v].timestamp
          ELSE \E op \in D : AddsVertex(op, v) /\ op.stamp = s.map[v].timestamp

Absorbed(s, D) ==
    \A op \in D : \A v \in Vertex :
        op.kind # "clear_vertices" /\ (AddsVertex(op, v) \/ RemovesVertex(op, v)) =>
            Recent(s, v, op.stamp)

LEMMA MarkedByMore ==
    ASSUME NEW s, NEW D, NEW E, D \subseteq E, Marked(s, D)
    PROVE  Marked(s, E)
  <1>1. ASSUME NEW v \in DOMAIN s.map
        PROVE  IF s.map[v].isRemoved
               THEN \/ s.map[v].timestamp = 0
                    \/ \E op \in E : RemovesVertex(op, v) /\ op.stamp = s.map[v].timestamp
               ELSE \E op \in E : AddsVertex(op, v) /\ op.stamp = s.map[v].timestamp
    BY DEF Marked
  <1>2. \/ s.lastClearTime = 0
        \/ \E op \in E : op.kind = "clear_vertices" /\ op.stamp = s.lastClearTime
    BY DEF Marked
  <1> QED BY <1>1, <1>2 DEF Marked

LEMMA AddMarked ==
    ASSUME NEW s, WellFormed(s), NEW D, Marked(s, D), NEW op \in D, NEW v,
           AddsVertex(op, v), op.stamp \in Nat, op.stamp > 0
    PROVE  Marked(Add(s, v, op.stamp), D)
  <1> DEFINE u == Add(s, v, op.stamp)
  <1>1. CASE u = s
    BY <1>1
  <1>2. CASE Binds(s, u, v, Added(op.stamp))
    <2> HIDE DEF u
    <2>1. Marked(u, D)
      BY <1>2, MetaType DEF Binds, Marked
    <2> QED BY <2>1 DEF u
  <1>3. CASE Binds(s, u, v, Removed(s.lastClearTime)) /\ op.stamp <= s.lastClearTime
    <2> HIDE DEF u
    <2>1. s.lastClearTime \in Nat /\ s.lastClearTime # 0
      BY <1>3, FieldTypes
    <2>2. \E o \in D : RemovesVertex(o, v) /\ o.stamp = s.lastClearTime
      BY <2>1 DEF Marked, RemovesVertex
    <2>3. Marked(u, D)
      BY <1>3, <2>1, <2>2, MetaType DEF Binds, Marked
    <2> QED BY <2>3 DEF u
  <1> QED BY <1>1, <1>2, <1>3, AddEffect

LEMMA RemoveMarked ==
    ASSUME NEW s, WellFormed(s), NEW D, Marked(s, D), NEW v, NEW t \in Nat,
           t = 0 \/ \E op \in D : RemovesVertex(op, v) /\ op.stamp = t
    PROVE  Marked(Remove(s, v, t), D)
  <1> DEFINE u == Remove(s, v, t)
  <1>1. CASE u = s
    BY <1>1
  <1>2. CASE Binds(s, u, v, Removed(t))
    <2> HIDE DEF u
    <2>1. Marked(u, D)
      BY <1>2, MetaType DEF Binds, Marked
    <2> QED BY <2>1 DEF u
  <1> QED BY <1>1, <1>2, RemoveEffect

LEMMA ClearMarked ==
    ASSUME NEW s, WellFormed(s), NEW D, Marked(s, D), NEW op \in D,
           op.kind = "clear_vertices", op.stamp \in Nat,
           NEW u, u = Clear(s, op.stamp)
    PROVE  Marked(u, D)
  <1>1. CASE u = s
    BY <1>1
  <1>2. CASE Clears(s, u, op.stamp)
    <2>1. \A v : RemovesVertex(op, v)
      BY DEF RemovesVertex
    <2> QED BY <1>2, <2>1, MetaType DEF Clears, Marked
  <1> QED BY <1>1, <1>2, ClearEffect

LEMMA RecentStays ==
    ASSUME NEW s, WellFormed(s), NEW u, WellFormed(u), Grows(s, u), NEW v, NEW t \in Nat,
           Recent(s, v, t)
    PROVE  Recent(u, v, t)
  BY FieldTypes DEF Grows, Recent

\* Adding both ends of an edge.
LEMMA AddBoth ==
    ASSUME NEW s, WellFormed(s), NEW from \in Vertex, NEW to \in Vertex, NEW t \in Nat
    PROVE  /\ WellFormed(Add(s, from, t))
           /\ WellFormed(Add(Add(s, from, t), to, t))
           /\ Recent(Add(s, from, t), from, t)
           /\ Recent(Add(Add(s, from, t), to, t), from, t)
           /\ Recent(Add(Add(s, from, t), to, t), to, t)
  <1> DEFINE a == Add(s, from, t)
  <1>1. WellFormed(a) /\ Recent(a, from, t)
    BY AddOK, AddGrows
  <1> HIDE DEF a
  <1>2. WellFormed(Add(a, to, t)) /\ Recent(Add(a, to, t), to, t) /\ Grows(a, Add(a, to, t))
    BY <1>1, AddOK, AddGrows
  <1>3. Recent(Add(a, to, t), from, t)
    BY <1>1, <1>2, RecentStays
  <1> QED BY <1>1, <1>2, <1>3 DEF a

LEMMA AppliedMarked ==
    ASSUME NEW g, GraphOK(g), NEW D, Marked(g.keys, D),
           NEW op \in Op
    PROVE  Marked(Applied(g, op).keys, D \cup {op})
  <1> DEFINE E == D \cup {op}
             s == g.keys
  <1>1. WellFormed(s) /\ Marked(s, E) /\ op \in E
    BY KeysWellFormed, MarkedByMore
  <1>2. op.stamp \in Nat /\ op.stamp > 0
    BY OpType
  <1> HIDE DEF E
  <1>3. CASE op.kind = "add_vertex"
    <2>1. Applied(g, op).keys = Add(s, op.vertex, op.stamp) /\ AddsVertex(op, op.vertex)
      BY <1>3, OpType, AddVertexOK DEF Applied, AddsVertex
    <2>2. Marked(Applied(g, op).keys, E)
      BY <1>1, <1>2, <2>1, AddMarked
    <2> QED BY <2>2 DEF E
  <1>4. CASE op.kind = "remove_vertex"
    <2>1. Applied(g, op).keys = Remove(s, op.vertex, op.stamp) /\ RemovesVertex(op, op.vertex)
      BY <1>4, OpType, RemoveVertexOK DEF Applied, RemovesVertex
    <2>2. Marked(Applied(g, op).keys, E)
      BY <1>1, <1>2, <2>1, RemoveMarked
    <2> QED BY <2>2 DEF E
  <1>5. CASE op.kind = "add_edge"
    <2>1. op.from \in Vertex /\ op.to \in Vertex
      BY <1>5, OpType
    <2>2. Applied(g, op).keys = Add(Add(s, op.from, op.stamp), op.to, op.stamp)
      BY <1>2, <1>5, <2>1, AddEdgeOK DEF Applied
    <2>3. AddsVertex(op, op.from) /\ AddsVertex(op, op.to)
      BY <1>5 DEF AddsVertex
    <2>4. Marked(Add(s, op.from, op.stamp), E) /\ WellFormed(Add(s, op.from, op.stamp))
      BY <1>1, <1>2, <2>1, <2>3, AddMarked, AddBoth
    <2>5. Marked(Applied(g, op).keys, E)
      BY <1>1, <1>2, <2>2, <2>3, <2>4, AddMarked
    <2> QED BY <2>5 DEF E
  <1>6. CASE op.kind = "remove_edge"
    <2> DEFINE f == WithPlaceholders(g, op.from, op.to)
    <2>1. op.from \in Vertex /\ op.to \in Vertex
      BY <1>6, OpType
    <2>2. Applied(g, op).keys = Remove(Remove(s, op.from, 0), op.to, 0)
      BY <1>2, <1>6, <2>1, RemoveEdgeOK, WithPlaceholdersOK DEF Applied
    <2>3. WellFormed(Remove(s, op.from, 0))
      BY <1>1, <2>1, RemoveOK
    <2>4. Marked(Remove(s, op.from, 0), E)
      BY <1>1, RemoveMarked
    <2>5. Marked(Applied(g, op).keys, E)
      BY <2>2, <2>3, <2>4, RemoveMarked
    <2> QED BY <2>5 DEF E
  <1>7. CASE op.kind = "clear_vertex_edges"
    <2>1. Applied(g, op).keys = s
      BY <1>7, OpType, ClearVertexEdgesOK DEF Applied
    <2> QED BY <1>1, <2>1 DEF E
  <1>8. CASE op.kind = "clear_vertices"
    <2>1. Applied(g, op).keys = Clear(s, op.stamp)
      BY <1>2, <1>8, ClearVerticesOK DEF Applied
    <2>2. Marked(Applied(g, op).keys, E)
      BY <1>1, <1>2, <1>8, <2>1, ClearMarked
    <2> QED BY <2>2 DEF E
  <1> QED BY <1>3, <1>4, <1>5, <1>6, <1>7, <1>8, OpType

LEMMA AppliedAbsorbs ==
    ASSUME NEW g, GraphOK(g), NEW D \in SUBSET Op, Absorbed(g.keys, D), NEW op \in Op
    PROVE  Absorbed(Applied(g, op).keys, D \cup {op})
  <1> DEFINE s == g.keys
             u == Applied(g, op).keys
  <1>1. WellFormed(s) /\ WellFormed(u) /\ Grows(s, u)
    BY AppliedOK, KeysWellFormed DEF GraphGrows
  <1>2. op.stamp \in Nat
    BY OpType
  <1>3. ASSUME NEW v \in Vertex, op.kind # "clear_vertices",
               AddsVertex(op, v) \/ RemovesVertex(op, v)
        PROVE  Recent(u, v, op.stamp)
    <2>1. CASE op.kind = "add_vertex"
      <3>1. u = Add(s, v, op.stamp)
        BY <1>3, <2>1, OpType, AddVertexOK DEF Applied, AddsVertex, RemovesVertex
      <3> QED BY <1>1, <1>2, <3>1, AddGrows
    <2>2. CASE op.kind = "remove_vertex"
      <3>1. u = Remove(s, v, op.stamp)
        BY <1>3, <2>2, OpType, RemoveVertexOK DEF Applied, AddsVertex, RemovesVertex
      <3> QED BY <1>1, <1>2, <3>1, RemoveGrows
    <2>3. CASE op.kind = "add_edge"
      <3>1. op.from \in Vertex /\ op.to \in Vertex /\ v \in {op.from, op.to}
        BY <1>3, <2>3, OpType DEF AddsVertex, RemovesVertex
      <3>2. u = Add(Add(s, op.from, op.stamp), op.to, op.stamp)
        BY <1>2, <2>3, <3>1, AddEdgeOK DEF Applied
      <3> QED BY <1>1, <1>2, <3>1, <3>2, AddBoth
    <2> QED BY <1>3, <2>1, <2>2, <2>3 DEF AddsVertex, RemovesVertex
  <1> HIDE DEF s, u
  <1>4. ASSUME NEW o \in D, NEW v \in Vertex, o.kind # "clear_vertices",
               AddsVertex(o, v) \/ RemovesVertex(o, v)
        PROVE  Recent(u, v, o.stamp)
    <2>1. Recent(s, v, o.stamp) /\ o.stamp \in Nat
      BY <1>4, OpType DEF Absorbed, s
    <2> QED BY <1>1, <2>1, RecentStays
  <1>5. Absorbed(u, D \cup {op})
    BY <1>3, <1>4 DEF Absorbed
  <1> QED BY <1>5 DEF u

\* A graph whose vertices absorbed D, and hold nothing else, shows vertices between the
\* last words of D and those of D without its clears.
LEMMA VerticesBetweenViews ==
    ASSUME NEW g, GraphOK(g), NEW D \in SUBSET Op, UniqueStamps(D),
           Marked(g.keys, D), Absorbed(g.keys, D)
    PROVE  /\ VertexView(D) \subseteq Vertices(g)
           /\ Vertices(g) \subseteq VertexView(D \ ClearOp)
  <1> DEFINE s == g.keys
  <1>1. WellFormed(s) /\ DOMAIN s.map \subseteq Vertex /\ \A v : v \in Vertices(g) <=> Find(s, v)
    BY AliveIsFound DEF GraphOK, Vertices, Living
  <1>2. \A o \in D : o \in ClearOp <=> o.kind = "clear_vertices"
    BY DEF Op, VertexOp, EdgeOp, ClearOp
  <1>3. ASSUME NEW v, Find(s, v)
        PROVE  v \in VertexView(D \ ClearOp)
    <2>1. v \in DOMAIN s.map /\ ~ s.map[v].isRemoved /\ v \in Vertex
      BY <1>1, <1>3 DEF Find
    <2>2. PICK op \in D : AddsVertex(op, v) /\ op.stamp = s.map[v].timestamp
      BY <2>1 DEF Marked
    <2>3. ASSUME NEW o \in D \ ClearOp, RemovesVertex(o, v)
          PROVE  o.stamp < op.stamp
      <3>1. o.stamp <= op.stamp
        BY <1>2, <2>1, <2>2, <2>3 DEF Absorbed, Recent
      <3>2. o # op
        BY <2>2, <2>3 DEF AddsVertex, RemovesVertex
      <3>3. o.stamp # op.stamp
        BY <3>2 DEF UniqueStamps
      <3> QED BY <3>1, <3>3, OpType
    <2>4. op \in D \ ClearOp
      BY <1>2, <2>2 DEF AddsVertex
    <2> QED BY <2>1, <2>2, <2>3, <2>4 DEF VertexView
  <1>4. ASSUME NEW v \in VertexView(D)
        PROVE  Find(s, v)
    <2>1. v \in Vertex
      BY DEF VertexView
    <2>2. PICK op \in D : AddsVertex(op, v) /\ \A o \in D : RemovesVertex(o, v) => o.stamp < op.stamp
      BY <1>4 DEF VertexView
    <2>3. Recent(s, v, op.stamp) /\ op.stamp \in Nat /\ op.stamp > 0
      BY <2>1, <2>2, OpType DEF Absorbed, AddsVertex
    <2>4. s.map[v].timestamp \in Nat /\ v \in DOMAIN s.map /\ op.stamp <= s.map[v].timestamp
      BY <1>1, <2>3, FieldTypes DEF Recent
    <2>5. ~ s.map[v].isRemoved
      <3>1. ASSUME s.map[v].isRemoved
            PROVE  FALSE
        <4>1. PICK o \in D : RemovesVertex(o, v) /\ o.stamp = s.map[v].timestamp
          BY <2>3, <2>4, <3>1 DEF Marked
        <4> QED BY <2>2, <2>3, <2>4, <4>1
      <3> QED BY <3>1
    <2> QED BY <2>4, <2>5 DEF Find
  <1> QED BY <1>1, <1>3, <1>4

\* Without a clear both are the same.
LEMMA VerticesAreView ==
    ASSUME NEW g, GraphOK(g), NEW D \in SUBSET Op, UniqueStamps(D),
           \A o \in D : o.kind # "clear_vertices",
           Marked(g.keys, D), Absorbed(g.keys, D)
    PROVE  Vertices(g) = VertexView(D)
  <1>1. D \ ClearOp = D
    BY DEF ClearOp
  <1>2. /\ VertexView(D) \subseteq Vertices(g)
        /\ Vertices(g) \subseteq VertexView(D \ ClearOp)
    BY VerticesBetweenViews
  <1> QED BY <1>1, <1>2

-------------------------------------------------------------------------------
(***************************************************************************)
(* The edges.  What the graph must hold for remove_vertex and a late       *)
(* add_edge to take the right edges away: no edge set was cleared later    *)
(* than its vertex changed, and no edge is newer than its two ends.        *)
(***************************************************************************)
EdgeHeld(g, from, to) ==
    /\ HasVertex(g, from) /\ HasVertex(g, to)
    /\ Edges(g, from).map[to].timestamp <= g.keys.map[from].timestamp
    /\ Edges(g, from).map[to].timestamp <= g.keys.map[to].timestamp

EdgesHeld(g) ==
    \A from \in DOMAIN g.value :
        /\ Edges(g, from).lastClearTime <= g.keys.map[from].timestamp
        /\ \A to : Find(Edges(g, from), to) => EdgeHeld(g, from, to)

LEMMA EdgeTypes ==
    ASSUME NEW g, GraphOK(g), NEW from \in DOMAIN g.value
    PROVE  /\ WellFormed(Edges(g, from))
           /\ Edges(g, from).lastClearTime \in Nat
           /\ g.keys.map[from].timestamp \in Nat
           /\ \A to : Find(Edges(g, from), to) =>
                 /\ to \in DOMAIN g.value
                 /\ Edges(g, from).map[to].timestamp \in Nat
                 /\ g.keys.map[to].timestamp \in Nat
  BY EdgesOK, KeysWellFormed, FieldTypes DEF Find

\* The living edges of f are among those of e, with the same timestamps.
NoNewEdge(e, f) ==
    /\ f.lastClearTime = e.lastClearTime
    /\ \A k : Find(f, k) => Find(e, k) /\ f.map[k].timestamp = e.map[k].timestamp

\* Calls that remove no vertex and bind no edge: new vertices have no edges.
LEMMA EdgesHeldStays ==
    ASSUME NEW g, GraphOK(g), EdgesHeld(g), NEW h, GraphOK(h),
           Grows(g.keys, h.keys), \A v : HasVertex(g, v) => HasVertex(h, v),
           \A v \in DOMAIN g.value : NoNewEdge(Edges(g, v), Edges(h, v)),
           \A v \in DOMAIN h.value : v \notin DOMAIN g.value => NoNewEdge(NewSet, Edges(h, v))
    PROVE  EdgesHeld(h)
  <1> SUFFICES ASSUME NEW from \in DOMAIN h.value
               PROVE  /\ Edges(h, from).lastClearTime <= h.keys.map[from].timestamp
                      /\ \A to : Find(Edges(h, from), to) => EdgeHeld(h, from, to)
    BY DEF EdgesHeld
  <1>1. h.keys.map[from].timestamp \in Nat
    BY EdgeTypes
  <1>2. CASE from \in DOMAIN g.value
    <2>1. /\ NoNewEdge(Edges(g, from), Edges(h, from))
          /\ from \in DOMAIN g.keys.map
          /\ h.keys.map[from].timestamp >= g.keys.map[from].timestamp
          /\ Edges(g, from).lastClearTime <= g.keys.map[from].timestamp
      BY <1>2, KeysWellFormed DEF Grows, EdgesHeld
    <2>2. Edges(h, from).lastClearTime <= h.keys.map[from].timestamp
      BY <1>1, <1>2, <2>1, EdgeTypes DEF NoNewEdge
    <2>3. ASSUME NEW to, Find(Edges(h, from), to)
          PROVE  EdgeHeld(h, from, to)
      <3>1. /\ Find(Edges(g, from), to)
            /\ Edges(h, from).map[to].timestamp = Edges(g, from).map[to].timestamp
        BY <2>1, <2>3 DEF NoNewEdge
      <3>2. EdgeHeld(g, from, to)
        BY <1>2, <3>1 DEF EdgesHeld
      <3>3. /\ to \in DOMAIN g.keys.map
            /\ h.keys.map[to].timestamp >= g.keys.map[to].timestamp
        BY <1>2, <3>1, EdgeTypes, KeysWellFormed DEF Grows
      <3>4. h.keys.map[to].timestamp \in Nat
        BY <2>3, EdgeTypes
      <3> QED BY <1>1, <1>2, <2>1, <3>1, <3>2, <3>3, <3>4, EdgeTypes DEF EdgeHeld
    <2> QED BY <2>2, <2>3
  <1>3. CASE from \notin DOMAIN g.value
    <2>1. NoNewEdge(NewSet, Edges(h, from))
      BY <1>3
    <2>2. NewSet.lastClearTime = 0 /\ \A k : ~ Find(NewSet, k)
      BY NewSetFields DEF Find
    <2> QED BY <1>1, <2>1, <2>2 DEF NoNewEdge
  <1> QED BY <1>2, <1>3

LEMMA NoNewEdgeCases ==
    ASSUME NEW e, WellFormed(e), NEW k, NEW t \in Nat
    PROVE  NoNewEdge(e, e) /\ NoNewEdge(e, Remove(e, k, t))
  <1> DEFINE u == Remove(e, k, t)
  <1>1. CASE u = e
    BY <1>1 DEF NoNewEdge
  <1>2. CASE Binds(e, u, k, Removed(t))
    BY <1>2, MetaType DEF Binds, NoNewEdge, Find
  <1> QED BY <1>1, <1>2, RemoveEffect DEF NoNewEdge

LEMMA AddVertexHolds ==
    ASSUME NEW g, GraphOK(g), EdgesHeld(g), NEW v \in Vertex, NEW t \in Nat
    PROVE  EdgesHeld(AddVertex(g, v, t))
  <1> DEFINE h == AddVertex(g, v, t)
  <1>1. /\ GraphOK(h)
        /\ h.keys = Add(g.keys, v, t)
        /\ DOMAIN h.value = DOMAIN g.value \cup {v}
        /\ \A x \in DOMAIN g.value : Edges(h, x) = Edges(g, x)
        /\ v \notin DOMAIN g.value => Edges(h, v) = NewSet
    BY AddVertexOK
  <1>2. Grows(g.keys, h.keys) /\ \A x : Find(g.keys, x) => Find(h.keys, x)
    BY <1>1, KeysWellFormed, AddGrows, AddVisible
  <1> HIDE DEF h
  <1>3. \A x \in DOMAIN g.value : NoNewEdge(Edges(g, x), Edges(h, x))
    BY <1>1 DEF NoNewEdge
  <1>4. \A x \in DOMAIN h.value : x \notin DOMAIN g.value => NoNewEdge(NewSet, Edges(h, x))
    BY <1>1 DEF NoNewEdge
  <1>5. EdgesHeld(h)
    BY <1>1, <1>2, <1>3, <1>4, EdgesHeldStays DEF HasVertex, FindKey
  <1> QED BY <1>5 DEF h

\* A removal at 0 is never seen.
LEMMA RemoveAtZero ==
    ASSUME NEW s, WellFormed(s), NEW k
    PROVE  \A x : Find(Remove(s, k, 0), x) <=> Find(s, x)
  <1>1. ~ RemoveResult(s, k, 0)
    BY FieldTypes DEF RemoveResult, Find, Newer
  <1> QED BY <1>1, RemoveVisible

LEMMA PlaceholdersHold ==
    ASSUME NEW g, GraphOK(g), NEW from \in Vertex, NEW to \in Vertex
    PROVE  /\ WellFormed(WithPlaceholders(g, from, to).keys)
           /\ Grows(g.keys, WithPlaceholders(g, from, to).keys)
           /\ \A v : HasVertex(WithPlaceholders(g, from, to), v) <=> HasVertex(g, v)
  <1> DEFINE s == g.keys
             a == Remove(s, from, 0)
             b == Remove(a, to, 0)
  <1>1. WellFormed(s)
    BY KeysWellFormed
  <1>2. WithPlaceholders(g, from, to).keys = b
    BY WithPlaceholdersOK
  <1>3. WellFormed(a) /\ \A v : Find(a, v) <=> Find(s, v)
    BY <1>1, RemoveOK, RemoveAtZero
  <1>4. Grows(s, b)
    BY <1>1, TwiceGrows
  <1> HIDE DEF a
  <1>5. WellFormed(b) /\ \A v : Find(b, v) <=> Find(a, v)
    BY <1>3, RemoveOK, RemoveAtZero
  <1> QED BY <1>2, <1>3, <1>4, <1>5 DEF HasVertex, FindKey

LEMMA RemoveEdgeHolds ==
    ASSUME NEW g, GraphOK(g), EdgesHeld(g), NEW from \in Vertex, NEW to \in Vertex,
           NEW t \in Nat
    PROVE  EdgesHeld(RemoveEdge(g, from, to, t))
  <1> DEFINE f == WithPlaceholders(g, from, to)
             h == RemoveEdge(g, from, to, t)
  <1>1. /\ GraphOK(f)
        /\ DOMAIN f.value = DOMAIN g.value \cup {from, to}
        /\ \A x \in DOMAIN g.value : Edges(f, x) = Edges(g, x)
        /\ \A x \in {from, to} : x \notin DOMAIN g.value => Edges(f, x) = NewSet
    BY WithPlaceholdersOK
  <1>2. /\ GraphOK(h)
        /\ h.keys = f.keys
        /\ DOMAIN h.value = DOMAIN f.value
        /\ Edges(h, from) = Remove(Edges(f, from), to, t)
        /\ \A x \in DOMAIN f.value : x # from => Edges(h, x) = Edges(f, x)
    BY RemoveEdgeOK
  <1>3. Grows(g.keys, f.keys) /\ \A v : HasVertex(f, v) <=> HasVertex(g, v)
    BY PlaceholdersHold
  <1> HIDE DEF f, h
  <1>4. ASSUME NEW x \in DOMAIN f.value
        PROVE  NoNewEdge(Edges(f, x), Edges(h, x))
    BY <1>1, <1>2, EdgesOK, NoNewEdgeCases
  <1>5. \A v : HasVertex(g, v) => HasVertex(h, v)
    BY <1>2, <1>3 DEF HasVertex, FindKey
  <1>6. \A x \in DOMAIN g.value : NoNewEdge(Edges(g, x), Edges(h, x))
    BY <1>1, <1>4
  <1>7. \A x \in DOMAIN h.value : x \notin DOMAIN g.value => NoNewEdge(NewSet, Edges(h, x))
    BY <1>1, <1>2, <1>4
  <1>8. EdgesHeld(h)
    BY <1>2, <1>3, <1>5, <1>6, <1>7, EdgesHeldStays
  <1> QED BY <1>8 DEF h

\* The keys of a graph with both ends of an edge added.
LEMMA EndsHold ==
    ASSUME NEW g, GraphOK(g), EdgesHeld(g), NEW from \in Vertex, NEW to \in Vertex,
           NEW t \in Nat
    PROVE  EdgesHeld(WithEnds(g, from, to, t))
  <1> DEFINE f == AddVertex(g, from, t)
  <1>1. GraphOK(f) /\ EdgesHeld(f)
    BY AddVertexOK, AddVertexHolds
  <1> HIDE DEF f
  <1>2. EdgesHeld(AddVertex(f, to, t))
    BY <1>1, AddVertexHolds
  <1> QED BY <1>2 DEF f, WithEnds

(***************************************************************************)
(* The last part of add_edge.  f has both ends; the edge is bound in e and *)
(* withdrawn, if it dangles, in the result.                                *)
(***************************************************************************)
\* No vertex was removed at t.
NotRemovedAt(s, t) == \A v \in DOMAIN s.map : s.map[v].isRemoved => s.map[v].timestamp # t

\* An edge that dangles is older than one of its ends, so that its withdrawal is applied.
LEMMA DanglingIsOlder ==
    ASSUME NEW f, GraphOK(f), EdgesHeld(f), NEW from, NEW to, NEW t \in Nat,
           Recent(f.keys, from, t), Recent(f.keys, to, t), NotRemovedAt(f.keys, t),
           NEW h, h = BoundEdge(f, from, to, t), Dangles(h, from, to)
    PROVE  Edges(h, from).map[to].timestamp < HighTime(h, from, to)
  <1>1. from \in DOMAIN f.value /\ to \in DOMAIN f.value
    BY KeysWellFormed DEF Recent
  <1>2. /\ GraphOK(h) /\ h.keys = f.keys /\ DOMAIN h.value = DOMAIN f.value
        /\ Edges(h, from) = Add(Edges(f, from), to, t)
    BY <1>1, BoundEdgeOK
  <1> DEFINE e == Edges(f, from)
             u == Edges(h, from)
             high == HighTime(h, from, to)
  <1>3. WellFormed(e) /\ u = Add(e, to, t) /\ Find(u, to)
    BY <1>1, <1>2, EdgesOK DEF Dangles
  <1>4. /\ high \in Nat
        /\ high >= f.keys.map[from].timestamp /\ f.keys.map[from].timestamp \in Nat
        /\ high >= f.keys.map[to].timestamp /\ f.keys.map[to].timestamp \in Nat
    BY <1>1, <1>2, HighTimeType, KeysWellFormed, FieldTypes
  <1>5. /\ t <= f.keys.map[from].timestamp
        /\ t <= f.keys.map[to].timestamp
        /\ f.keys.map[from].isRemoved \/ f.keys.map[to].isRemoved
        /\ f.keys.map[from].isRemoved => f.keys.map[from].timestamp # t
        /\ f.keys.map[to].isRemoved => f.keys.map[to].timestamp # t
    BY <1>2 DEF Recent, Dangles, NotRemovedAt
  <1> HIDE DEF e, u, high
  <1>6. CASE u = e
    <2>1. EdgeHeld(f, from, to)
      BY <1>1, <1>3, <1>6 DEF EdgesHeld, e
    <2> QED BY <1>5, <2>1 DEF EdgeHeld, HasVertex, FindKey, Find
  <1>7. CASE Binds(e, u, to, Added(t))
    <2>1. u.map[to].timestamp = t
      BY <1>7, MetaType DEF Binds
    <2>2. u.map[to].timestamp < high
      BY <1>4, <1>5, <2>1
    <2> QED BY <2>2 DEF u, high
  <1>8. CASE Binds(e, u, to, Removed(e.lastClearTime))
    BY <1>3, <1>8, FieldTypes, MetaType DEF Binds, Find
  <1> QED BY <1>3, <1>6, <1>7, <1>8, AddEffect

\* What add_edge does with the edges out of from.
LEMMA FinalEdges ==
    ASSUME NEW f, GraphOK(f), EdgesHeld(f), NEW from, NEW to, NEW t \in Nat,
           Recent(f.keys, from, t), Recent(f.keys, to, t), NotRemovedAt(f.keys, t),
           NEW w, w = WithdrawEdge(BoundEdge(f, from, to, t), from, to)
    PROVE  /\ GraphOK(w) /\ w.keys = f.keys /\ DOMAIN w.value = DOMAIN f.value
           /\ \A x \in DOMAIN f.value : x # from => Edges(w, x) = Edges(f, x)
           /\ Edges(w, from).lastClearTime = Edges(f, from).lastClearTime
           /\ \A k : k # to /\ Find(Edges(w, from), k) =>
                 /\ Find(Edges(f, from), k)
                 /\ Edges(w, from).map[k].timestamp = Edges(f, from).map[k].timestamp
           /\ Find(Edges(w, from), to) =>
                 /\ HasVertex(f, from) /\ HasVertex(f, to)
                 /\ Edges(w, from) = Add(Edges(f, from), to, t)
           /\ HasVertex(f, from) /\ HasVertex(f, to) =>
                 Edges(w, from) = Add(Edges(f, from), to, t)
  <1> DEFINE h == BoundEdge(f, from, to, t)
             e == Edges(f, from)
             u == Edges(h, from)
             high == HighTime(h, from, to)
  <1>1. from \in DOMAIN f.value /\ to \in DOMAIN f.value
    BY KeysWellFormed DEF Recent
  <1>2. h = BoundEdge(f, from, to, t)
    OBVIOUS
  <1> HIDE DEF h
  <1>3. /\ GraphOK(h) /\ h.keys = f.keys /\ DOMAIN h.value = DOMAIN f.value
        /\ u = Add(e, to, t)
        /\ \A x \in DOMAIN f.value : x # from => Edges(h, x) = Edges(f, x)
    BY <1>1, <1>2, BoundEdgeOK
  <1>4. w = WithdrawEdge(h, from, to) /\ from \in DOMAIN h.value /\ to \in DOMAIN h.value
    BY <1>1, <1>3 DEF h
  <1>5. /\ GraphOK(w) /\ w.keys = h.keys /\ DOMAIN w.value = DOMAIN h.value
        /\ Edges(w, from) = IF Dangles(h, from, to) THEN Remove(u, to, high) ELSE u
        /\ \A x \in DOMAIN h.value : x # from => Edges(w, x) = Edges(h, x)
    BY <1>3, <1>4, WithdrawEdgeOK
  <1>6. WellFormed(e) /\ WellFormed(u) /\ high \in Nat
    BY <1>1, <1>3, EdgesOK, HighTimeType
  <1>7. /\ u.lastClearTime = e.lastClearTime
        /\ \A k : k # to /\ Find(u, k) => Find(e, k) /\ u.map[k].timestamp = e.map[k].timestamp
    BY <1>3, <1>6, AddEffect DEF Binds, Find
  <1>8. CASE Dangles(h, from, to)
    <2> DEFINE z == Remove(u, to, high)
    <2>1. u.map[to].timestamp < high /\ u.map[to].timestamp \in Nat
      BY <1>1, <1>2, <1>3, <1>6, <1>8, DanglingIsOlder, FieldTypes DEF Dangles, Find
    <2>2. Binds(u, z, to, Removed(high))
      BY <1>6, <2>1, RemoveEffect DEF Recent
    <2> HIDE DEF z
    <2>3. /\ ~ Find(z, to)
          /\ z.lastClearTime = u.lastClearTime
          /\ \A k : k # to /\ Find(z, k) => Find(u, k) /\ z.map[k].timestamp = u.map[k].timestamp
      BY <1>6, <2>2, MetaType DEF Binds, Find
    <2>4. Edges(w, from) = z
      BY <1>5, <1>8 DEF z
    <2>5. ~ (HasVertex(f, from) /\ HasVertex(f, to))
      BY <1>3, <1>8 DEF Dangles, HasVertex, FindKey, Find
    <2> QED BY <1>3, <1>5, <1>7, <2>3, <2>4, <2>5
  <1>9. CASE ~ Dangles(h, from, to)
    <2>1. Edges(w, from) = u
      BY <1>5, <1>9
    <2>2. Find(u, to) => HasVertex(f, from) /\ HasVertex(f, to)
      BY <1>1, <1>3, <1>9, KeysWellFormed DEF Dangles, HasVertex, FindKey, Find
    <2> QED BY <1>3, <1>5, <1>7, <2>1, <2>2
  <1> QED BY <1>8, <1>9

\* A late add_edge to a removed vertex leaves no edge.
LEMMA FinalHolds ==
    ASSUME NEW f, GraphOK(f), EdgesHeld(f), NEW from, NEW to, NEW t \in Nat,
           Recent(f.keys, from, t), Recent(f.keys, to, t), NotRemovedAt(f.keys, t),
           NEW w, w = WithdrawEdge(BoundEdge(f, from, to, t), from, to)
    PROVE  EdgesHeld(w)
  <1>1. /\ GraphOK(w) /\ w.keys = f.keys /\ DOMAIN w.value = DOMAIN f.value
        /\ \A x \in DOMAIN f.value : x # from => Edges(w, x) = Edges(f, x)
        /\ Edges(w, from).lastClearTime = Edges(f, from).lastClearTime
        /\ \A k : k # to /\ Find(Edges(w, from), k) =>
              /\ Find(Edges(f, from), k)
              /\ Edges(w, from).map[k].timestamp = Edges(f, from).map[k].timestamp
        /\ Find(Edges(w, from), to) =>
              /\ HasVertex(f, from) /\ HasVertex(f, to)
              /\ Edges(w, from) = Add(Edges(f, from), to, t)
    BY FinalEdges
  <1>2. from \in DOMAIN f.value /\ WellFormed(Edges(f, from))
    BY KeysWellFormed, EdgesOK DEF Recent
  <1>3. ASSUME NEW x \in DOMAIN f.value, NEW k, Find(Edges(w, x), k)
        PROVE  EdgeHeld(w, x, k)
    <2>1. CASE x # from
      <3>1. EdgeHeld(f, x, k) /\ Edges(w, x) = Edges(f, x)
        BY <1>1, <1>3, <2>1 DEF EdgesHeld
      <3> QED BY <1>1, <3>1 DEF EdgeHeld, HasVertex, FindKey
    <2>2. CASE x = from /\ k # to
      <3>1. /\ Edges(w, x).map[k].timestamp = Edges(f, x).map[k].timestamp
            /\ EdgeHeld(f, x, k)
        BY <1>1, <1>3, <2>2 DEF EdgesHeld
      <3> QED BY <1>1, <3>1 DEF EdgeHeld, HasVertex, FindKey
    <2>3. CASE x = from /\ k = to
      <3> DEFINE e == Edges(f, from)
                 u == Edges(w, from)
      <3>1. HasVertex(f, from) /\ HasVertex(f, to) /\ u = Add(e, to, t) /\ Find(u, to)
        BY <1>1, <1>3, <2>3
      <3>2. \/ u = e
            \/ u.map[to].timestamp = t
        <4>1. ~ Binds(e, u, to, Removed(e.lastClearTime))
          BY <1>2, <3>1, FieldTypes, MetaType DEF Binds, Find
        <4> QED BY <1>2, <3>1, <4>1, AddEffect, MetaType DEF Binds
      <3>3. CASE u = e
        <4>1. EdgeHeld(f, from, to)
          BY <1>2, <3>1, <3>3 DEF EdgesHeld
        <4> QED BY <1>1, <2>3, <3>3, <4>1 DEF EdgeHeld, HasVertex, FindKey
      <3>4. CASE u.map[to].timestamp = t
        BY <1>1, <2>3, <3>1, <3>4 DEF EdgeHeld, HasVertex, FindKey, Recent
      <3> QED BY <3>2, <3>3, <3>4
    <2> QED BY <2>1, <2>2, <2>3
  <1>4. \A x \in DOMAIN f.value : Edges(w, x).lastClearTime <= w.keys.map[x].timestamp
    BY <1>1 DEF EdgesHeld
  <1> QED BY <1>1, <1>3, <1>4 DEF EdgesHeld

LEMMA AddEdgeHolds ==
    ASSUME NEW g, GraphOK(g), EdgesHeld(g), NEW from \in Vertex, NEW to \in Vertex,
           NEW t \in Nat, NotRemovedAt(WithEnds(g, from, to, t).keys, t)
    PROVE  EdgesHeld(AddEdge(g, from, to, t))
  <1> DEFINE f == WithEnds(g, from, to, t)
  <1>1. /\ GraphOK(f) /\ EdgesHeld(f) /\ NotRemovedAt(f.keys, t)
        /\ f.keys = Add(Add(g.keys, from, t), to, t)
    BY WithEndsOK, EndsHold
  <1>2. Recent(f.keys, from, t) /\ Recent(f.keys, to, t)
    BY <1>1, KeysWellFormed, AddBoth
  <1> HIDE DEF f
  <1>3. EdgesHeld(WithdrawEdge(BoundEdge(f, from, to, t), from, to))
    BY <1>1, <1>2, FinalHolds
  <1> QED BY <1>3, AddEdgeIs DEF f

\* A removal that comes too late for the vertex, of which edges are left, changes no vertex.
LEMMA TooLate ==
    ASSUME NEW s, WellFormed(s), NEW v \in DOMAIN s.map, NEW t \in Nat,
           t <= s.map[v].timestamp
    PROVE  Remove(s, v, t) = s
  BY FieldTypes DEF Remove, Newer

\* The edges remove_vertex leaves are edges of vertices it leaves.
LEMMA RemoveVertexHolds ==
    ASSUME NEW g, GraphOK(g), EdgesHeld(g), NEW v \in Vertex, NEW t \in Nat
    PROVE  EdgesHeld(RemoveVertex(g, v, t))
  <1> DEFINE h == RemoveVertex(g, v, t)
             s == g.keys
             u == Remove(s, v, t)
  <1>1. /\ GraphOK(h)
        /\ h.keys = u
        /\ DOMAIN h.value = DOMAIN g.value \cup {v}
        /\ \A x \in DOMAIN g.value : Edges(h, x) = PrunedEdges(g, x, v, t)
        /\ v \notin DOMAIN g.value => Edges(h, v) = Clear(NewSet, t)
    BY RemoveVertexOK
  <1>2. /\ WellFormed(s) /\ DOMAIN g.value = DOMAIN s.map
        /\ Grows(s, u) /\ Recent(u, v, t) /\ WellFormed(u)
    BY KeysWellFormed, RemoveOK, RemoveGrows
  <1>3. \A x : x # v => (Find(u, x) <=> Find(s, x))
    BY <1>2, RemoveVisible
  <1>4. \A x \in DOMAIN s.map : x # v => u.map[x] = s.map[x]
    BY <1>2, RemoveEffect DEF Binds
  <1> HIDE DEF h, u
  <1>5. ASSUME v \notin DOMAIN g.value
        PROVE  Edges(h, v).lastClearTime <= t /\ \A k : ~ Find(Edges(h, v), k)
    <2> DEFINE z == Clear(NewSet, t)
    <2>1. z.lastClearTime <= t
      BY NewSetOK, NewSetFields, ClearEffect DEF Clears
    <2>2. \A k : ~ Find(z, k)
      BY NewSetOK, NewSetFields, ClearVisible DEF Find
    <2> QED BY <1>1, <1>5, <2>1, <2>2
  <1>6. ASSUME NEW x \in DOMAIN g.value
        PROVE  Edges(h, x).lastClearTime <= u.map[x].timestamp
    <2> DEFINE e == Edges(g, x)
    <2>1. /\ WellFormed(e) /\ e.lastClearTime \in Nat /\ s.map[x].timestamp \in Nat
          /\ e.lastClearTime <= s.map[x].timestamp
          /\ u.map[x].timestamp >= s.map[x].timestamp
          /\ u.map[x].timestamp \in Nat
      BY <1>2, EdgeTypes, FieldTypes DEF EdgesHeld, Grows
    <2>2. e.lastClearTime <= u.map[x].timestamp
      BY <2>1
    <2>3. CASE x = v
      <3>1. Edges(h, x) = Clear(e, t) /\ t <= u.map[x].timestamp
        BY <1>1, <1>2, <2>3 DEF PrunedEdges, Recent
      <3>2. Clear(e, t).lastClearTime \in {e.lastClearTime, t}
        BY <2>1, ClearEffect DEF Clears
      <3> QED BY <2>2, <3>1, <3>2
    <2>4. CASE x # v
      <3>1. Edges(h, x) \in {e, Remove(e, v, t)}
        BY <1>1, <2>4 DEF PrunedEdges
      <3>2. Remove(e, v, t).lastClearTime = e.lastClearTime
        BY <2>1, RemoveEffect DEF Binds
      <3> QED BY <2>2, <3>1, <3>2
    <2> QED BY <2>3, <2>4
  <1>7. ASSUME NEW x \in DOMAIN g.value, NEW y, Find(Edges(h, x), y)
        PROVE  EdgeHeld(h, x, y)
    <2> DEFINE e == Edges(g, x)
               z == Edges(h, x)
    <2>1. WellFormed(e) /\ z = PrunedEdges(g, x, v, t)
      BY <1>1, EdgesOK
    <2>2. Find(e, y) /\ (z.map[y] = e.map[y])
      <3>1. CASE x = v
        <4>1. z = Clear(e, t)
          BY <2>1, <3>1 DEF PrunedEdges
        <4> QED BY <1>7, <2>1, <4>1, ClearVisible, ClearEffect, MetaType DEF Clears, Find
      <3>2. CASE x # v /\ Find(e, v)
        <4>1. z = Remove(e, v, t)
          BY <2>1, <3>2 DEF PrunedEdges
        <4> QED BY <1>7, <2>1, <4>1, RemoveEffect, MetaType DEF Binds, Find
      <3>3. CASE x # v /\ ~ Find(e, v)
        BY <1>7, <2>1, <3>3 DEF PrunedEdges
      <3> QED BY <3>1, <3>2, <3>3
    <2>3. EdgeHeld(g, x, y)
      BY <2>2 DEF EdgesHeld
    <2>4. CASE x # v /\ y # v
      <3>1. y \in DOMAIN s.map /\ u.map[x] = s.map[x] /\ u.map[y] = s.map[y]
        BY <1>2, <1>4, <2>2, <2>4, EdgeTypes
      <3> QED BY <1>1, <1>3, <2>2, <2>3, <2>4, <3>1 DEF EdgeHeld, HasVertex, FindKey
    <2>5. CASE x = v \/ y = v
      <3>1. v \in DOMAIN s.map /\ t <= s.map[v].timestamp
        <4>1. e.map[y].timestamp \in Nat /\ y \in DOMAIN s.map /\ v \in DOMAIN s.map
          BY <1>2, <2>2, <2>5, EdgeTypes
        <4>2. /\ e.map[y].timestamp <= s.map[v].timestamp
              /\ e.lastClearTime \in Nat /\ s.map[v].timestamp \in Nat
              /\ x = v => e.lastClearTime <= s.map[v].timestamp
          BY <1>2, <2>3, <2>5, <4>1, EdgeTypes, FieldTypes DEF EdgeHeld, EdgesHeld
        <4>3. CASE x = v
          <5>1. z = Clear(e, t)
            BY <2>1, <4>3 DEF PrunedEdges
          <5>2. t <= e.lastClearTime \/ t <= e.map[y].timestamp
            BY <1>7, <2>1, <2>2, <5>1, ClearEffect, MetaType DEF Clears, Find
          <5> QED BY <4>1, <4>2, <4>3, <5>2
        <4>4. CASE x # v
          <5>1. z = Remove(e, v, t) /\ y = v
            BY <2>1, <2>2, <2>5, <4>4 DEF PrunedEdges
          <5>2. t <= e.map[y].timestamp
            BY <1>7, <2>1, <5>1, RemoveEffect, MetaType DEF Binds, Find, Recent
          <5> QED BY <4>1, <4>2, <5>2
        <4> QED BY <4>3, <4>4
      <3>2. u = s
        BY <1>2, <3>1, TooLate DEF u
      <3> QED BY <1>1, <2>2, <2>3, <3>2 DEF EdgeHeld, HasVertex, FindKey
    <2> QED BY <2>4, <2>5
  <1>8. EdgesHeld(h)
    <2> SUFFICES ASSUME NEW x \in DOMAIN h.value
                 PROVE  /\ Edges(h, x).lastClearTime <= h.keys.map[x].timestamp
                        /\ \A y : Find(Edges(h, x), y) => EdgeHeld(h, x, y)
      BY DEF EdgesHeld
    <2>1. CASE x \in DOMAIN g.value
      BY <1>1, <1>6, <1>7, <2>1
    <2>2. CASE x \notin DOMAIN g.value
      <3>1. x = v /\ t <= u.map[x].timestamp /\ u.map[x].timestamp \in Nat
        BY <1>1, <1>2, <2>2, FieldTypes DEF Recent
      <3>2. Edges(h, x).lastClearTime \in Nat
        BY <1>1, EdgeTypes
      <3> QED BY <1>1, <1>5, <2>2, <3>1, <3>2
    <2> QED BY <2>1, <2>2
  <1> QED BY <1>8 DEF h

\* No vertex bears the mark of a removal at the timestamp of an add_edge.
LEMMA EndsNotRemoved ==
    ASSUME NEW g, GraphOK(g), NEW D \in SUBSET Op, Marked(g.keys, D),
           NEW op \in Op, op.kind = "add_edge", UniqueStamps(D \cup {op})
    PROVE  NotRemovedAt(WithEnds(g, op.from, op.to, op.stamp).keys, op.stamp)
  <1> DEFINE E == D \cup {op}
             u == WithEnds(g, op.from, op.to, op.stamp).keys
  <1>1. op.from \in Vertex /\ op.to \in Vertex /\ op.stamp \in Nat /\ op.stamp > 0
    BY OpType
  <1>2. Applied(g, op).keys = u
    <2>1. u = Add(Add(g.keys, op.from, op.stamp), op.to, op.stamp)
      BY <1>1, WithEndsOK
    <2>2. Applied(g, op).keys = Add(Add(g.keys, op.from, op.stamp), op.to, op.stamp)
      BY <1>1, AddEdgeOK DEF Applied
    <2> QED BY <2>1, <2>2
  <1>3. Marked(u, E)
    BY <1>2, AppliedMarked
  <1> HIDE DEF u
  <1>4. ASSUME NEW v \in DOMAIN u.map, u.map[v].isRemoved, u.map[v].timestamp = op.stamp
        PROVE  FALSE
    <2>1. PICK o \in E : RemovesVertex(o, v) /\ o.stamp = op.stamp
      BY <1>1, <1>3, <1>4 DEF Marked
    <2>2. o = op
      BY <2>1 DEF UniqueStamps
    <2> QED BY <2>1, <2>2 DEF RemovesVertex
  <1> QED BY <1>4 DEF NotRemovedAt, u

LEMMA AppliedHolds ==
    ASSUME NEW g, GraphOK(g), EdgesHeld(g), NEW D \in SUBSET Op, Marked(g.keys, D),
           NEW op \in Op, UniqueStamps(D \cup {op}),
           op.kind \notin {"clear_vertices", "clear_vertex_edges"}
    PROVE  EdgesHeld(Applied(g, op))
  <1>1. CASE op.kind = "add_vertex"
    BY <1>1, OpType, AddVertexHolds DEF Applied
  <1>2. CASE op.kind = "remove_vertex"
    BY <1>2, OpType, RemoveVertexHolds DEF Applied
  <1>3. CASE op.kind = "add_edge"
    BY <1>3, OpType, EndsNotRemoved, AddEdgeHolds DEF Applied
  <1>4. CASE op.kind = "remove_edge"
    BY <1>4, OpType, RemoveEdgeHolds DEF Applied
  <1> QED BY <1>1, <1>2, <1>3, <1>4, OpType

-------------------------------------------------------------------------------
(***************************************************************************)
(* The replicas.                                                           *)
(***************************************************************************)
UniqueHistory ==
    /\ UniqueStamps(issued)
    /\ \A r \in Replica : delivered[r] \subseteq issued

VerticesKnown ==
    \A r \in Replica :
        Marked(graph[r].keys, delivered[r]) /\ Absorbed(graph[r].keys, delivered[r])

AllEdgesHeld == \A r \in Replica : NotCleared(r) => EdgesHeld(graph[r])

SafetyInv == StateOK /\ UniqueHistory /\ VerticesKnown /\ AllEdgesHeld

LEMMA InitSafetyInv == Init => SafetyInv
  <1> SUFFICES ASSUME Init
               PROVE  SafetyInv
    OBVIOUS
  <1>1. issued = {} /\ \A r \in Replica : delivered[r] = {} /\ graph[r] = NewGraph
    BY DEF Init, NetInit
  <1>2. UniqueHistory
    BY <1>1 DEF UniqueHistory, UniqueStamps
  <1>3. VerticesKnown
    BY <1>1, NewGraphFields, NewSetFields DEF VerticesKnown, Marked, Absorbed
  <1>4. AllEdgesHeld
    BY <1>1, NewGraphFields DEF AllEdgesHeld, EdgesHeld
  <1> QED BY <1>2, <1>3, <1>4, InitStateOK DEF SafetyInv

LEMMA StepUniqueHistory ==
    ASSUME SafetyInv, NEW r \in Replica, NEW op \in Op, Step(r, op)
    PROVE  UniqueHistory' /\ UniqueStamps(delivered[r] \cup {op})
  <1>1. /\ Call(r, op)
        /\ delivered' = [delivered EXCEPT ![r] = delivered[r] \cup {op}]
        /\ DOMAIN delivered = Replica
    BY StepApplies, CallNetOK DEF SafetyInv, StateOK, NetOK
  <1>2. CASE Receive(r, op)
    BY <1>1, <1>2 DEF Receive, SafetyInv, UniqueHistory, UniqueStamps
  <1>3. CASE Originate(r, op)
    <2>1. issued' = issued \cup {op} /\ \A o \in issued : o.stamp # op.stamp
      BY <1>3 DEF Originate
    <2>2. UniqueStamps(issued') /\ delivered[r] \subseteq issued
      BY <2>1 DEF SafetyInv, UniqueHistory, UniqueStamps
    <2>3. UniqueStamps(delivered[r] \cup {op})
      BY <2>1, <2>2 DEF UniqueStamps
    <2> QED BY <1>1, <2>1, <2>2, <2>3 DEF SafetyInv, UniqueHistory
  <1> QED BY <1>1, <1>2, <1>3 DEF Call

LEMMA NextSafetyInv == SafetyInv /\ [Next]_vars => SafetyInv'
  <1> SUFFICES ASSUME SafetyInv, [Next]_vars
               PROVE  SafetyInv'
    OBVIOUS
  <1>1. StateOK'
    BY NextStateOK DEF SafetyInv
  <1>2. ASSUME NEW r \in Replica, NEW op \in Op, Step(r, op)
        PROVE  SafetyInv'
    <2>1. /\ graph' = [graph EXCEPT ![r] = Applied(graph[r], op)]
          /\ delivered' = [delivered EXCEPT ![r] = delivered[r] \cup {op}]
          /\ DOMAIN graph = Replica /\ DOMAIN delivered = Replica
          /\ GraphOK(graph[r]) /\ delivered[r] \in SUBSET Op
      BY <1>2, StepApplies, CallNetOK DEF SafetyInv, StateOK, NetOK, GraphsOK
    <2>2. UniqueHistory' /\ UniqueStamps(delivered[r] \cup {op})
      BY <1>2, StepUniqueHistory
    <2>3. ASSUME NEW q \in Replica
          PROVE  Marked(graph'[q].keys, delivered'[q]) /\ Absorbed(graph'[q].keys, delivered'[q])
      <3>1. CASE q = r
        <4>1. /\ graph'[q] = Applied(graph[r], op) /\ delivered'[q] = delivered[r] \cup {op}
              /\ Marked(graph[r].keys, delivered[r])
              /\ Absorbed(graph[r].keys, delivered[r])
          BY <2>1, <3>1 DEF SafetyInv, VerticesKnown
        <4>2. Marked(Applied(graph[r], op).keys, delivered[r] \cup {op})
          BY <2>1, <4>1, AppliedMarked
        <4>3. Absorbed(Applied(graph[r], op).keys, delivered[r] \cup {op})
          BY <2>1, <4>1, AppliedAbsorbs
        <4> QED BY <4>1, <4>2, <4>3
      <3>2. CASE q # r
        BY <2>1, <3>2 DEF SafetyInv, VerticesKnown
      <3> QED BY <3>1, <3>2
    <2>4. ASSUME NEW q \in Replica,
                 \A o \in delivered'[q] : o.kind \notin {"clear_vertices", "clear_vertex_edges"}
          PROVE  EdgesHeld(graph'[q])
      <3>1. CASE q = r
        <4>1. /\ graph'[q] = Applied(graph[r], op)
              /\ NotCleared(r)
              /\ op.kind \notin {"clear_vertices", "clear_vertex_edges"}
          BY <2>1, <2>4, <3>1 DEF NotCleared
        <4>2. Marked(graph[r].keys, delivered[r]) /\ EdgesHeld(graph[r])
          BY <4>1 DEF SafetyInv, VerticesKnown, AllEdgesHeld
        <4> QED BY <2>1, <2>2, <4>1, <4>2, AppliedHolds
      <3>2. CASE q # r
        BY <2>1, <2>4, <3>2 DEF SafetyInv, AllEdgesHeld, NotCleared
      <3> QED BY <3>1, <3>2
    <2> QED BY <1>1, <2>2, <2>3, <2>4
        DEF SafetyInv, VerticesKnown, AllEdgesHeld, NotCleared
  <1>3. CASE UNCHANGED vars
    BY <1>1, <1>3
    DEF vars, SafetyInv, UniqueHistory, VerticesKnown, AllEdgesHeld, NotCleared
  <1> QED BY <1>2, <1>3 DEF Next

\* The inductive invariant behind the safety properties: operations have timestamps of
\* their own, vertices bear the timestamps and marks operations gave them, and, until a
\* clear comes, no edge is newer than its ends nor outlives them.
THEOREM SafetyInvHolds == Spec => []SafetyInv
  BY InitSafetyInv, NextSafetyInv, PTL DEF Spec

\* Whatever the order in which remove_vertex, add_edge and the others are applied, and
\* however often, an edge in a vertex's set has both its ends in the graph.
THEOREM NoDanglingEdgeCorrect == Spec => []NoDanglingEdge
  <1>1. SafetyInv => NoDanglingEdge
    BY AliveIsFound DEF SafetyInv, AllEdgesHeld, EdgesHeld, EdgeHeld, NoDanglingEdge
  <1> QED BY <1>1, SafetyInvHolds, PTL

\* Whatever is delivered in whatever order, clears included, a graph has every vertex whose
\* last word is an add, of an edge too, and no vertex whose last word, clears aside, is a
\* remove_vertex.
THEOREM VerticesAreLastWordCorrect == Spec => []VerticesAreLastWord
  <1>1. ASSUME SafetyInv, NEW r \in Replica
        PROVE  /\ VertexView(delivered[r]) \subseteq Vertices(graph[r])
               /\ Vertices(graph[r]) \subseteq VertexView(delivered[r] \ ClearOp)
    <2>1. /\ GraphOK(graph[r]) /\ delivered[r] \in SUBSET Op
          /\ UniqueStamps(delivered[r])
          /\ Marked(graph[r].keys, delivered[r]) /\ Absorbed(graph[r].keys, delivered[r])
      BY <1>1 DEF SafetyInv, StateOK, NetOK, GraphsOK, UniqueHistory, UniqueStamps, VerticesKnown
    <2> QED BY <2>1, VerticesBetweenViews
  <1>2. SafetyInv => VerticesAreLastWord
    BY <1>1 DEF VerticesAreLastWord
  <1> QED BY <1>2, SafetyInvHolds, PTL

-------------------------------------------------------------------------------
(***************************************************************************)
(* The results.  On a graph whose edges are held, what a user sees appear  *)
(* or disappear is what the call returns.                                  *)
(***************************************************************************)
LEMMA SeenIsFound ==
    ASSUME NEW g, GraphOK(g)
    PROVE  /\ \A v : v \in Vertices(g) <=> Find(g.keys, v)
           /\ \A a, b : <<a, b>> \in EdgesOf(g) <=>
                 a \in DOMAIN g.value /\ Find(g.keys, a) /\ Find(Edges(g, a), b)
           /\ EdgesOf(g) \subseteq Vertex \X Vertex
  <1>1. \A v : v \in Vertices(g) <=> Find(g.keys, v)
    BY AliveIsFound DEF Vertices, Living
  <1>2. \A a : Find(g.keys, a) => a \in DOMAIN g.value /\ a \in Vertex
    BY DEF GraphOK, Find
  <1>3. \A a, b : a \in DOMAIN g.value /\ Find(Edges(g, a), b) => b \in Vertex
    BY EdgeTypes DEF GraphOK
  <1>4. \A a, b : HasEdge(g, a, b) <=> Find(g.keys, a) /\ Find(Edges(g, a), b)
    BY DEF HasEdge, HasVertex, FindKey
  <1>5. \A a, b : <<a, b>> \in EdgesOf(g) <=> a \in Vertex /\ b \in Vertex /\ HasEdge(g, a, b)
    BY DEF EdgesOf
  <1>6. EdgesOf(g) \subseteq Vertex \X Vertex
    BY DEF EdgesOf
  <1> QED BY <1>1, <1>2, <1>3, <1>4, <1>5, <1>6

\* An edge in a set of a graph whose edges are held is in the graph.
LEMMA HeldIsSeen ==
    ASSUME NEW g, GraphOK(g), EdgesHeld(g), NEW a \in DOMAIN g.value, NEW b,
           Find(Edges(g, a), b)
    PROVE  <<a, b>> \in EdgesOf(g)
  BY SeenIsFound DEF EdgesHeld, EdgeHeld, HasVertex, FindKey

LEMMA AddVertexResultCorrect ==
    ASSUME NEW g, GraphOK(g), EdgesHeld(g), NEW v \in Vertex, NEW t \in Nat,
           NEW h, h = AddVertex(g, v, t)
    PROVE  /\ AddVertexResult(g, v, t) <=> Vertices(h) \ Vertices(g) = {v}
           /\ EdgesOf(h) \ EdgesOf(g) = {}
  <1>1. /\ GraphOK(h)
        /\ h.keys = Add(g.keys, v, t)
        /\ DOMAIN h.value = DOMAIN g.value \cup {v}
        /\ \A x \in DOMAIN g.value : Edges(h, x) = Edges(g, x)
        /\ v \notin DOMAIN g.value => Edges(h, v) = NewSet
    BY AddVertexOK
  <1>2. /\ AddVertexResult(g, v, t) <=> Find(h.keys, v) /\ ~ Find(g.keys, v)
        /\ \A x : x # v => (Find(h.keys, x) <=> Find(g.keys, x))
    BY <1>1, KeysWellFormed, AddVisible DEF AddVertexResult
  <1>3. \A x : x \in Vertices(h) \ Vertices(g) <=> Find(h.keys, x) /\ ~ Find(g.keys, x)
    BY <1>1, SeenIsFound
  <1>4. AddVertexResult(g, v, t) <=> Vertices(h) \ Vertices(g) = {v}
    BY <1>2, <1>3
  <1>5. ASSUME NEW a, NEW b, <<a, b>> \in EdgesOf(h)
        PROVE  <<a, b>> \in EdgesOf(g)
    <2>1. a \in DOMAIN h.value /\ Find(Edges(h, a), b)
      BY <1>1, <1>5, SeenIsFound
    <2>2. ~ Find(NewSet, b)
      BY NewSetFields DEF Find
    <2> QED BY <1>1, <2>1, <2>2, HeldIsSeen
  <1>6. EdgesOf(h) \subseteq Vertex \X Vertex
    BY <1>1, SeenIsFound
  <1> QED BY <1>4, <1>5, <1>6

LEMMA RemoveVertexResultCorrect ==
    ASSUME NEW g, GraphOK(g), NEW v \in Vertex, NEW t \in Nat,
           NEW h, h = RemoveVertex(g, v, t)
    PROVE  RemoveVertexResult(g, v, t) <=> Vertices(g) \ Vertices(h) = {v}
  <1>1. GraphOK(h) /\ h.keys = Remove(g.keys, v, t)
    BY RemoveVertexOK
  <1>2. /\ RemoveVertexResult(g, v, t) <=> Find(g.keys, v) /\ ~ Find(h.keys, v)
        /\ \A x : x # v => (Find(h.keys, x) <=> Find(g.keys, x))
    BY <1>1, KeysWellFormed, RemoveVisible DEF RemoveVertexResult
  <1>3. \A x : x \in Vertices(g) \ Vertices(h) <=> Find(g.keys, x) /\ ~ Find(h.keys, x)
    BY <1>1, SeenIsFound
  <1> QED BY <1>2, <1>3

LEMMA RemoveEdgeResultCorrect ==
    ASSUME NEW g, GraphOK(g), EdgesHeld(g), NEW from \in Vertex, NEW to \in Vertex,
           NEW t \in Nat, NEW h, h = RemoveEdge(g, from, to, t)
    PROVE  RemoveEdgeResult(g, from, to, t) <=> EdgesOf(g) \ EdgesOf(h) = {<<from, to>>}
  <1> DEFINE f == WithPlaceholders(g, from, to)
             e == Edges(f, from)
             u == Edges(h, from)
  <1>1. /\ GraphOK(f)
        /\ DOMAIN f.value = DOMAIN g.value \cup {from, to}
        /\ \A x \in DOMAIN g.value : Edges(f, x) = Edges(g, x)
        /\ \A x \in {from, to} : x \notin DOMAIN g.value => Edges(f, x) = NewSet
    BY WithPlaceholdersOK
  <1>2. /\ GraphOK(h)
        /\ h.keys = f.keys
        /\ DOMAIN h.value = DOMAIN f.value
        /\ u = Remove(e, to, t)
        /\ \A x \in DOMAIN f.value : x # from => Edges(h, x) = Edges(f, x)
    BY RemoveEdgeOK
  <1>3. \A v : Find(f.keys, v) <=> Find(g.keys, v)
    BY PlaceholdersHold DEF HasVertex, FindKey
  <1>4. RemoveEdgeResult(g, from, to, t) <=> RemoveResult(e, to, t)
    BY DEF RemoveEdgeResult, WithPlaceholders
  <1> HIDE DEF f
  <1>5. WellFormed(e)
    BY <1>1, EdgesOK
  <1>6. /\ RemoveResult(e, to, t) <=> Find(e, to) /\ ~ Find(u, to)
        /\ \A k : k # to => (Find(u, k) <=> Find(e, k))
    BY <1>2, <1>5, RemoveVisible
  <1>7. \A k : Find(e, k) => from \in DOMAIN g.value /\ e = Edges(g, from)
    <2>1. \A k : ~ Find(NewSet, k)
      BY NewSetFields DEF Find
    <2> QED BY <1>1, <2>1
  <1>8. ASSUME NEW a, NEW b
        PROVE  <<a, b>> \in EdgesOf(g) \ EdgesOf(h)
                  <=> a = from /\ b = to /\ Find(e, to) /\ ~ Find(u, to)
    <2>1. /\ <<a, b>> \in EdgesOf(g) <=>
                a \in DOMAIN g.value /\ Find(g.keys, a) /\ Find(Edges(g, a), b)
          /\ <<a, b>> \in EdgesOf(h) <=>
                a \in DOMAIN h.value /\ Find(h.keys, a) /\ Find(Edges(h, a), b)
      BY <1>2, SeenIsFound
    <2>2. CASE a # from
      BY <1>1, <1>2, <1>3, <2>1, <2>2
    <2>3. CASE a = from
      <3>1. from \in DOMAIN g.value => e = Edges(g, from)
        BY <1>1
      <3>2. Find(e, to) => <<from, to>> \in EdgesOf(g)
        BY <1>7, HeldIsSeen
      <3> QED BY <1>1, <1>2, <1>3, <1>6, <2>1, <2>3, <3>1, <3>2
    <2> QED BY <2>2, <2>3
  <1>9. EdgesOf(g) \subseteq Vertex \X Vertex
    BY SeenIsFound
  <1> HIDE DEF e, u
  <1>10. ASSUME NEW p \in EdgesOf(g) \ EdgesOf(h)
         PROVE  p = <<from, to>> /\ Find(e, to) /\ ~ Find(u, to)
    <2>1. PICK a \in Vertex, b \in Vertex : p = <<a, b>>
      BY <1>9
    <2> QED BY <1>8, <2>1
  <1>11. Find(e, to) /\ ~ Find(u, to) => <<from, to>> \in EdgesOf(g) \ EdgesOf(h)
    BY <1>8
  <1>12. CASE Find(e, to) /\ ~ Find(u, to)
    <2>1. EdgesOf(g) \ EdgesOf(h) = {<<from, to>>}
      BY <1>10, <1>11, <1>12, Zenon
    <2> QED BY <1>4, <1>6, <1>12, <2>1
  <1>13. CASE ~ (Find(e, to) /\ ~ Find(u, to))
    <2>1. <<from, to>> \notin EdgesOf(g) \ EdgesOf(h)
      BY <1>10, <1>13
    <2>2. EdgesOf(g) \ EdgesOf(h) # {<<from, to>>}
      BY <2>1
    <2> QED BY <1>4, <1>6, <1>13, <2>2
  <1> QED BY <1>12, <1>13

LEMMA AddAgain ==
    ASSUME NEW s, WellFormed(s), NEW k, NEW t \in Nat, Recent(s, k, t)
    PROVE  Add(s, k, t) = s
  BY FieldTypes DEF Recent, Add, Newer

\* What add_edge tells of its ends.
LEMMA EndsResultCorrect ==
    ASSUME NEW s, WellFormed(s), NEW from \in Vertex, NEW to \in Vertex, NEW t \in Nat,
           NEW f, f = Add(s, from, t), NEW u, u = Add(f, to, t)
    PROVE  /\ AddResult(s, from, t) <=> Find(u, from) /\ ~ Find(s, from)
           /\ from # to => (AddResult(f, to, t) <=> Find(u, to) /\ ~ Find(s, to))
  <1>1. WellFormed(f) /\ Recent(f, from, t)
    BY AddBoth
  <1>2. /\ AddResult(s, from, t) <=> Find(f, from) /\ ~ Find(s, from)
        /\ \A x : x # from => (Find(f, x) <=> Find(s, x))
    BY AddVisible
  <1>3. CASE from = to
    <2>1. u = f
      BY <1>1, <1>3, AddAgain
    <2> QED BY <1>2, <1>3, <2>1
  <1>4. CASE from # to
    <2>1. /\ AddResult(f, to, t) <=> Find(u, to) /\ ~ Find(f, to)
          /\ \A x : x # to => (Find(u, x) <=> Find(f, x))
      BY <1>1, AddVisible
    <2> QED BY <1>2, <1>4, <2>1
  <1> QED BY <1>3, <1>4

\* What add_edge tells of the edge: f is the graph with both ends, h its result.
LEMMA NewEdgeCorrect ==
    ASSUME NEW g, GraphOK(g), EdgesHeld(g), NEW from \in Vertex, NEW to \in Vertex,
           NEW t \in Nat, NEW f, f = WithEnds(g, from, to, t), NotRemovedAt(f.keys, t),
           NEW h, h = AddEdge(g, from, to, t), NEW a, NEW b
    PROVE  <<a, b>> \in EdgesOf(h) \ EdgesOf(g) <=>
                /\ a = from /\ b = to
                /\ AddResult(Edges(f, from), to, t)
                /\ HasVertex(f, from) /\ HasVertex(f, to)
  <1> DEFINE e == Edges(f, from)
             u == Add(e, to, t)
  <1>1. /\ GraphOK(f) /\ EdgesHeld(f)
        /\ f.keys = Add(Add(g.keys, from, t), to, t)
        /\ DOMAIN f.value = DOMAIN g.value \cup {from, to}
        /\ \A x \in DOMAIN g.value : Edges(f, x) = Edges(g, x)
        /\ \A x \in {from, to} : x \notin DOMAIN g.value => Edges(f, x) = NewSet
    BY WithEndsOK, EndsHold
  <1>2. Recent(f.keys, from, t) /\ Recent(f.keys, to, t)
    BY <1>1, KeysWellFormed, AddBoth
  <1>3. h = WithdrawEdge(BoundEdge(f, from, to, t), from, to)
    BY AddEdgeIs
  <1>4. /\ GraphOK(h) /\ h.keys = f.keys /\ DOMAIN h.value = DOMAIN f.value
        /\ \A x \in DOMAIN f.value : x # from => Edges(h, x) = Edges(f, x)
        /\ \A k : k # to /\ Find(Edges(h, from), k) => Find(e, k)
        /\ Find(Edges(h, from), to) =>
              HasVertex(f, from) /\ HasVertex(f, to) /\ Edges(h, from) = u
        /\ HasVertex(f, from) /\ HasVertex(f, to) => Edges(h, from) = u
    BY <1>1, <1>2, <1>3, FinalEdges
  <1>5. WellFormed(e)
    BY <1>1, EdgesOK
  <1>6. AddResult(e, to, t) <=> Find(u, to) /\ ~ Find(e, to)
    BY <1>5, AddVisible
  <1> HIDE DEF u
  <1>7. \A x \in DOMAIN f.value : \A k :
            Find(Edges(f, x), k) => x \in DOMAIN g.value /\ Edges(f, x) = Edges(g, x)
    <2>1. \A k : ~ Find(NewSet, k)
      BY NewSetFields DEF Find
    <2> QED BY <1>1, <2>1
  <1>8. \A x \in DOMAIN f.value : \A k : Find(Edges(f, x), k) => <<x, k>> \in EdgesOf(g)
    BY <1>7, HeldIsSeen
  <1>9. <<a, b>> \in EdgesOf(h) <=>
            a \in DOMAIN h.value /\ Find(h.keys, a) /\ Find(Edges(h, a), b)
    BY <1>4, SeenIsFound
  <1>10. CASE a # from
    BY <1>4, <1>8, <1>9, <1>10
  <1>11. CASE a = from /\ b # to
    BY <1>1, <1>4, <1>8, <1>9, <1>11
  <1>12. CASE a = from /\ b = to
    <2>1. <<from, to>> \in EdgesOf(g) => Find(e, to)
      <3>1. <<from, to>> \in EdgesOf(g) =>
                from \in DOMAIN g.value /\ Find(Edges(g, from), to)
        BY SeenIsFound
      <3> QED BY <1>1, <3>1
    <2>2. Find(e, to) => <<from, to>> \in EdgesOf(g)
      BY <1>1, <1>8
    <2>3. HasVertex(f, from) <=> Find(h.keys, from)
      BY <1>4 DEF HasVertex, FindKey
    <2> QED BY <1>1, <1>4, <1>6, <1>9, <1>12, <2>1, <2>2, <2>3
  <1> QED BY <1>10, <1>11, <1>12

-------------------------------------------------------------------------------
LEMMA AddVertexTellsCorrect ==
    ASSUME NEW g, GraphOK(g), EdgesHeld(g), NEW op \in Op, op.kind = "add_vertex"
    PROVE  AddVertexTells(g, Applied(g, op), op)
  BY OpType, AddVertexResultCorrect DEF Applied, AddVertexTells

LEMMA RemoveVertexTellsCorrect ==
    ASSUME NEW g, GraphOK(g), NEW op \in Op, op.kind = "remove_vertex"
    PROVE  RemoveVertexTells(g, Applied(g, op), op)
  BY OpType, RemoveVertexResultCorrect DEF Applied, RemoveVertexTells

LEMMA RemoveEdgeTellsCorrect ==
    ASSUME NEW g, GraphOK(g), EdgesHeld(g), NEW op \in Op, op.kind = "remove_edge"
    PROVE  RemoveEdgeTells(g, Applied(g, op), op)
  BY OpType, RemoveEdgeResultCorrect DEF Applied, RemoveEdgeTells

LEMMA AddEdgeTellsCorrect ==
    ASSUME NEW g, GraphOK(g), EdgesHeld(g), NEW D \in SUBSET Op, Marked(g.keys, D),
           NEW op \in Op, op.kind = "add_edge", UniqueStamps(D \cup {op})
    PROVE  AddEdgeTells(g, Applied(g, op), op)
  <1> DEFINE from == op.from
             to == op.to
             t == op.stamp
             h == Applied(g, op)
             f == WithEnds(g, from, to, t)
             info == AddEdgeInfo(g, from, to, t)
             s == Add(g.keys, from, t)
  <1>1. from \in Vertex /\ to \in Vertex /\ t \in Nat
    BY OpType
  <1>2. h = AddEdge(g, from, to, t)
    BY DEF Applied
  <1>3. NotRemovedAt(f.keys, t)
    BY EndsNotRemoved
  <1>4. GraphOK(h) /\ h.keys = Add(s, to, t)
    BY <1>1, <1>2, AddEdgeOK
  <1>5. AddVertex(g, from, t).keys = s
    BY <1>1, AddVertexOK
  <1>6. /\ info.isFromAdded <=> AddResult(g.keys, from, t)
        /\ info.isToAdded <=> from # to /\ AddResult(s, to, t)
        /\ info.isEdgeAdded <=> /\ AddResult(Edges(f, from), to, t)
                                /\ HasVertex(f, from) /\ HasVertex(f, to)
    BY <1>5 DEF AddEdgeInfo, AddVertexResult, WithEnds
  <1> HIDE DEF from, to, t, f, h, s, info
  <1>7. /\ AddResult(g.keys, from, t) <=> Find(h.keys, from) /\ ~ Find(g.keys, from)
        /\ from # to => (AddResult(s, to, t) <=> Find(h.keys, to) /\ ~ Find(g.keys, to))
    BY <1>1, <1>4, KeysWellFormed, EndsResultCorrect DEF s
  <1>8. \A x : x \in Vertices(h) \ Vertices(g) <=> Find(h.keys, x) /\ ~ Find(g.keys, x)
    BY <1>4, SeenIsFound
  <1>9. ASSUME NEW a, NEW b
        PROVE  <<a, b>> \in EdgesOf(h) \ EdgesOf(g) <=>
                   a = from /\ b = to /\ info.isEdgeAdded
    <2>1. f = WithEnds(g, from, to, t)
      BY DEF f
    <2>2. <<a, b>> \in EdgesOf(h) \ EdgesOf(g) <=>
                /\ a = from /\ b = to
                /\ AddResult(Edges(f, from), to, t)
                /\ HasVertex(f, from) /\ HasVertex(f, to)
      BY <1>1, <1>2, <1>3, <2>1, NewEdgeCorrect
    <2> QED BY <1>6, <2>2
  <1>10. \A p \in EdgesOf(h) \ EdgesOf(g) : p = <<from, to>> /\ info.isEdgeAdded
    <2> SUFFICES ASSUME NEW p \in EdgesOf(h) \ EdgesOf(g)
                 PROVE  p = <<from, to>> /\ info.isEdgeAdded
      OBVIOUS
    <2>1. PICK a \in Vertex, b \in Vertex : p = <<a, b>>
      BY <1>4, SeenIsFound
    <2> QED BY <1>9, <2>1
  <1>11. info.isEdgeAdded => EdgesOf(h) \ EdgesOf(g) = {<<from, to>>}
    <2>1. info.isEdgeAdded => <<from, to>> \in EdgesOf(h) \ EdgesOf(g)
      BY <1>9
    <2> QED BY <1>10, <2>1
  <1>12. ~ info.isEdgeAdded => EdgesOf(h) \ EdgesOf(g) = {}
    BY <1>10
  <1>13. EdgesOf(h) \ EdgesOf(g) = IF info.isEdgeAdded THEN {<<from, to>>} ELSE {}
    BY <1>11, <1>12
  <1>14. /\ info.isFromAdded <=> from \in Vertices(h) \ Vertices(g)
         /\ info.isToAdded <=> to \in (Vertices(h) \ Vertices(g)) \ {from}
    BY <1>6, <1>7, <1>8
  <1> QED BY <1>13, <1>14 DEF AddEdgeTells, from, to, t, h, info

\* What the methods of a graph return is what its user sees appear and disappear, in any
\* order of delivery, as long as no clear has reached it.
THEOREM GraphResultsCorrect == Spec => ResultsTellVisibleChange
  <1>1. SafetyInv /\ [Next]_vars =>
          [\A r \in Replica : NotCleared(r) => \A op \in Op :
              /\ add_vertex(r, op) => AddVertexTells(graph[r], graph'[r], op)
              /\ remove_vertex(r, op) => RemoveVertexTells(graph[r], graph'[r], op)
              /\ add_edge(r, op) => AddEdgeTells(graph[r], graph'[r], op)
              /\ remove_edge(r, op) => RemoveEdgeTells(graph[r], graph'[r], op)]_vars
    <2> SUFFICES ASSUME SafetyInv, NEW r \in Replica, NotCleared(r), NEW op \in Op, Step(r, op)
                 PROVE  /\ op.kind = "add_vertex" => AddVertexTells(graph[r], graph'[r], op)
                        /\ op.kind = "remove_vertex" => RemoveVertexTells(graph[r], graph'[r], op)
                        /\ op.kind = "add_edge" => AddEdgeTells(graph[r], graph'[r], op)
                        /\ op.kind = "remove_edge" => RemoveEdgeTells(graph[r], graph'[r], op)
      BY DEF Step, add_vertex, remove_vertex, add_edge, remove_edge
    <2>1. /\ GraphOK(graph[r]) /\ DOMAIN graph = Replica /\ delivered[r] \in SUBSET Op
          /\ EdgesHeld(graph[r])
          /\ Marked(graph[r].keys, delivered[r])
      BY DEF SafetyInv, StateOK, GraphsOK, NetOK, AllEdgesHeld, VerticesKnown,
             NotCleared
    <2>2. graph'[r] = Applied(graph[r], op)
      BY <2>1, StepApplies
    <2>3. UniqueStamps(delivered[r] \cup {op})
      BY StepUniqueHistory
    <2> QED BY <2>1, <2>2, <2>3, AddVertexTellsCorrect, RemoveVertexTellsCorrect,
               AddEdgeTellsCorrect, RemoveEdgeTellsCorrect
  <1> QED BY <1>1, SafetyInvHolds, PTL DEF Spec, ResultsTellVisibleChange

-------------------------------------------------------------------------------
(***************************************************************************)
(* Memory.  Seen(g, D): the graph has an entry for every vertex and every  *)
(* edge the operations of D name, and no other.                            *)
(***************************************************************************)
\* The edges out of v, none for a vertex not seen yet.
EdgesOut(g, v) == IF v \in DOMAIN g.value THEN Edges(g, v) ELSE NewSet

Seen(g, D) ==
    /\ \A v : v \in DOMAIN g.value <=> \E op \in D : NamesVertex(op, v)
    /\ \A v, to : to \in DOMAIN EdgesOut(g, v).map <=> \E op \in D : NamesEdge(op, v, to)

LEMMA EdgesOutOK ==
    ASSUME NEW g, GraphOK(g), NEW v
    PROVE  WellFormed(EdgesOut(g, v))
  BY EdgesOK, NewSetOK DEF EdgesOut

\* An edge of h is withdrawn at this time: the later one of its ends, one of them removed.
WithdrawnAt(h, from, to, high) ==
    /\ h.keys.map[from].isRemoved \/ h.keys.map[to].isRemoved
    /\ high = HighTime(h, from, to)

\* What add_edge does to the edges: all is as before but for the edge it binds, which is
\* withdrawn if it dangles.
LEMMA AddEdgeEdges ==
    ASSUME NEW g, GraphOK(g), NEW from \in Vertex, NEW to \in Vertex, NEW t \in Nat,
           NEW h, h = AddEdge(g, from, to, t)
    PROVE  /\ DOMAIN h.value = DOMAIN g.value \cup {from, to}
           /\ \A x : x # from => EdgesOut(h, x) = EdgesOut(g, x)
           /\ DOMAIN EdgesOut(h, from).map = DOMAIN EdgesOut(g, from).map \cup {to}
           /\ HasVertex(h, from) /\ HasVertex(h, to) =>
                 EdgesOut(h, from) = Add(EdgesOut(g, from), to, t)
           /\ \/ EdgesOut(h, from) = Add(EdgesOut(g, from), to, t)
              \/ \E high \in Nat :
                    /\ WithdrawnAt(h, from, to, high)
                    /\ EdgesOut(h, from) = Remove(Add(EdgesOut(g, from), to, t), to, high)
  <1> DEFINE f == WithEnds(g, from, to, t)
             b == BoundEdge(f, from, to, t)
             e == EdgesOut(g, from)
             high == HighTime(b, from, to)
  <1>1. /\ GraphOK(f)
        /\ DOMAIN f.value = DOMAIN g.value \cup {from, to}
        /\ \A x \in DOMAIN g.value : Edges(f, x) = Edges(g, x)
        /\ \A x \in {from, to} : x \notin DOMAIN g.value => Edges(f, x) = NewSet
    BY WithEndsOK
  <1>2. h = WithdrawEdge(b, from, to) /\ b = BoundEdge(f, from, to, t)
    BY AddEdgeIs
  <1> HIDE DEF f, b
  <1>3. from \in DOMAIN f.value /\ to \in DOMAIN f.value
    BY <1>1
  <1>4. /\ GraphOK(b) /\ b.keys = f.keys /\ DOMAIN b.value = DOMAIN f.value
        /\ Edges(b, from) = Add(Edges(f, from), to, t)
        /\ \A x \in DOMAIN f.value : x # from => Edges(b, x) = Edges(f, x)
    BY <1>1, <1>2, <1>3, BoundEdgeOK
  <1>5. /\ GraphOK(h) /\ h.keys = b.keys /\ DOMAIN h.value = DOMAIN b.value
        /\ Edges(h, from) = IF Dangles(b, from, to)
                            THEN Remove(Edges(b, from), to, high) ELSE Edges(b, from)
        /\ \A x \in DOMAIN b.value : x # from => Edges(h, x) = Edges(b, x)
    BY <1>2, <1>3, <1>4, WithdrawEdgeOK
  <1>6. \A x \in DOMAIN f.value : Edges(f, x) = EdgesOut(g, x)
    BY <1>1 DEF EdgesOut
  <1>7. \A x : x # from => EdgesOut(h, x) = EdgesOut(g, x)
    <2> SUFFICES ASSUME NEW x, x # from
                 PROVE  EdgesOut(h, x) = EdgesOut(g, x)
      OBVIOUS
    <2>1. CASE x \in DOMAIN f.value
      BY <1>4, <1>5, <1>6, <2>1 DEF EdgesOut
    <2>2. CASE x \notin DOMAIN f.value
      BY <1>1, <1>4, <1>5, <2>2 DEF EdgesOut
    <2> QED BY <2>1, <2>2
  <1>8. WellFormed(e) /\ high \in Nat
    BY <1>3, <1>4, EdgesOutOK, HighTimeType
  <1>16. Dangles(b, from, to) => WithdrawnAt(h, from, to, high)
    BY <1>5 DEF Dangles, WithdrawnAt, HighTime
  <1> HIDE DEF e, high
  <1>9. Edges(b, from) = Add(e, to, t) /\ WellFormed(Edges(b, from))
    BY <1>3, <1>4, <1>6, EdgesOK DEF e
  <1>10. DOMAIN Add(e, to, t).map = DOMAIN e.map \cup {to}
    BY <1>8, AddGrows
  <1>11. DOMAIN Remove(Edges(b, from), to, high).map = DOMAIN Edges(b, from).map \cup {to}
    BY <1>8, <1>9, RemoveGrows
  <1>12. EdgesOut(h, from) = Edges(h, from)
    BY <1>3, <1>4, <1>5 DEF EdgesOut
  <1>13. DOMAIN EdgesOut(h, from).map = DOMAIN e.map \cup {to}
    BY <1>5, <1>9, <1>10, <1>11, <1>12
  <1>14. HasVertex(h, from) /\ HasVertex(h, to) => EdgesOut(h, from) = Add(e, to, t)
    BY <1>5, <1>9, <1>12 DEF Dangles, HasVertex, FindKey, Find
  <1>15. \/ EdgesOut(h, from) = Add(e, to, t)
         \/ \E x \in Nat : /\ WithdrawnAt(h, from, to, x)
                            /\ EdgesOut(h, from) = Remove(Add(e, to, t), to, x)
    BY <1>5, <1>8, <1>9, <1>12, <1>16
  <1> QED BY <1>1, <1>4, <1>5, <1>7, <1>13, <1>14, <1>15 DEF e

\* The same of remove_edge.
LEMMA RemoveEdgeEdges ==
    ASSUME NEW g, GraphOK(g), NEW from \in Vertex, NEW to \in Vertex, NEW t \in Nat,
           NEW h, h = RemoveEdge(g, from, to, t)
    PROVE  /\ DOMAIN h.value = DOMAIN g.value \cup {from, to}
           /\ \A x : x # from => EdgesOut(h, x) = EdgesOut(g, x)
           /\ EdgesOut(h, from) = Remove(EdgesOut(g, from), to, t)
  <1> DEFINE f == WithPlaceholders(g, from, to)
  <1>1. /\ GraphOK(f)
        /\ DOMAIN f.value = DOMAIN g.value \cup {from, to}
        /\ \A x \in DOMAIN g.value : Edges(f, x) = Edges(g, x)
        /\ \A x \in {from, to} : x \notin DOMAIN g.value => Edges(f, x) = NewSet
    BY WithPlaceholdersOK
  <1>2. /\ GraphOK(h) /\ DOMAIN h.value = DOMAIN f.value
        /\ Edges(h, from) = Remove(Edges(f, from), to, t)
        /\ \A x \in DOMAIN f.value : x # from => Edges(h, x) = Edges(f, x)
    BY RemoveEdgeOK
  <1> HIDE DEF f
  <1>3. \A x \in DOMAIN f.value : Edges(f, x) = EdgesOut(g, x)
    BY <1>1 DEF EdgesOut
  <1>4. \A x : x # from => EdgesOut(h, x) = EdgesOut(g, x)
    <2> SUFFICES ASSUME NEW x, x # from
                 PROVE  EdgesOut(h, x) = EdgesOut(g, x)
      OBVIOUS
    <2>1. CASE x \in DOMAIN f.value
      BY <1>2, <1>3, <2>1 DEF EdgesOut
    <2>2. CASE x \notin DOMAIN f.value
      BY <1>1, <1>2, <2>2 DEF EdgesOut
    <2> QED BY <2>1, <2>2
  <1>5. from \in DOMAIN f.value /\ EdgesOut(h, from) = Edges(h, from)
    BY <1>1, <1>2 DEF EdgesOut
  <1> QED BY <1>1, <1>2, <1>3, <1>4, <1>5

(***************************************************************************)
(* The edges of all six operations in any order.  An edge in a set bears   *)
(* the timestamp of an add_edge that was applied, and no timestamp of an   *)
(* edge is older than an add_edge or a remove_edge of it.                  *)
(***************************************************************************)
EdgesMarked(g, D) ==
    \A v, to : Find(EdgesOut(g, v), to) =>
        \E op \in D : AddsEdge(op, v, to) /\ op.stamp = EdgesOut(g, v).map[to].timestamp

EdgesAbsorbed(g, D) ==
    \A op \in D : \A v, to : NamesEdge(op, v, to) => Recent(EdgesOut(g, v), to, op.stamp)

\* The edges of f are among those of e, with the same timestamps.
Keeps(e, f) ==
    \A k : Find(f, k) => Find(e, k) /\ f.map[k].timestamp = e.map[k].timestamp

LEMMA RemovalsKeep ==
    ASSUME NEW e, WellFormed(e), NEW k, NEW t \in Nat
    PROVE  Keeps(e, e) /\ Keeps(e, Remove(e, k, t)) /\ Keeps(e, Clear(e, t))
  <1>1. Keeps(e, e)
    BY DEF Keeps
  <1>2. ASSUME NEW u, u = Remove(e, k, t)
        PROVE  Keeps(e, u)
    <2>1. CASE Binds(e, u, k, Removed(t))
      BY <2>1, MetaType DEF Binds, Keeps, Find
    <2> QED BY <1>1, <1>2, <2>1, RemoveEffect
  <1>3. ASSUME NEW u, u = Clear(e, t)
        PROVE  Keeps(e, u)
    <2>1. CASE Clears(e, u, t)
      BY <2>1, MetaType DEF Clears, Keeps, Find
    <2> QED BY <1>1, <1>3, <2>1, ClearEffect
  <1> QED BY <1>1, <1>2, <1>3

\* The edges of f are among those of e, but for k, which may be there with timestamp t.
KeepsBut(e, f, k, t) ==
    \A x : Find(f, x) => \/ Find(e, x) /\ f.map[x].timestamp = e.map[x].timestamp
                         \/ x = k /\ f.map[x].timestamp = t

LEMMA AddKeepsBut ==
    ASSUME NEW e, WellFormed(e), NEW k, NEW t \in Nat, NEW u, u = Add(e, k, t)
    PROVE  KeepsBut(e, u, k, t)
  <1>1. CASE u = e
    BY <1>1 DEF KeepsBut
  <1>2. CASE Binds(e, u, k, Added(t))
    BY <1>2, MetaType DEF Binds, KeepsBut, Find
  <1>3. CASE Binds(e, u, k, Removed(e.lastClearTime))
    BY <1>3, MetaType, FieldTypes DEF Binds, KeepsBut, Find
  <1> QED BY <1>1, <1>2, <1>3, AddEffect

LEMMA KeepsTwice ==
    ASSUME NEW e, NEW u, NEW w, NEW k, NEW t, KeepsBut(e, u, k, t), Keeps(u, w)
    PROVE  KeepsBut(e, w, k, t)
  BY DEF KeepsBut, Keeps

\* An operation brings in the edge it adds, with its timestamp, and no other.
LEMMA AppliedBrings ==
    ASSUME NEW g, GraphOK(g), NEW op \in Op, NEW h, h = Applied(g, op), NEW v
    PROVE  \/ Keeps(EdgesOut(g, v), EdgesOut(h, v))
           \/ /\ op.kind = "add_edge" /\ op.from = v
              /\ KeepsBut(EdgesOut(g, v), EdgesOut(h, v), op.to, op.stamp)
  <1> DEFINE e == EdgesOut(g, v)
             t == op.stamp
  <1>1. WellFormed(e) /\ t \in Nat
    BY EdgesOutOK, OpType
  <1>2. \A k : Keeps(e, e) /\ Keeps(e, Remove(e, k, t)) /\ Keeps(e, Clear(e, t))
    BY <1>1, RemovalsKeep
  <1>3. CASE op.kind = "add_vertex"
    <2>1. h = AddVertex(g, op.vertex, op.stamp) /\ op.vertex \in Vertex
      BY <1>3, OpType DEF Applied
    <2>2. EdgesOut(h, v) = e
      BY <1>1, <2>1, AddVertexOK DEF EdgesOut
    <2> QED BY <1>2, <2>2
  <1>4. CASE op.kind = "remove_vertex"
    <2>1. h = RemoveVertex(g, op.vertex, op.stamp) /\ op.vertex \in Vertex
      BY <1>4, OpType DEF Applied
    <2>2. /\ DOMAIN h.value = DOMAIN g.value \cup {op.vertex}
          /\ \A x \in DOMAIN g.value : Edges(h, x) = PrunedEdges(g, x, op.vertex, t)
          /\ op.vertex \notin DOMAIN g.value => Edges(h, op.vertex) = Clear(NewSet, t)
      BY <1>1, <2>1, RemoveVertexOK
    <2>3. CASE v \in DOMAIN g.value
      <3>1. EdgesOut(h, v) = PrunedEdges(g, v, op.vertex, t) /\ e = Edges(g, v)
        BY <2>2, <2>3 DEF EdgesOut
      <3>2. EdgesOut(h, v) \in {e, Remove(e, op.vertex, t), Clear(e, t)}
        BY <3>1 DEF PrunedEdges
      <3> QED BY <1>2, <3>2
    <2>4. CASE v \notin DOMAIN g.value
      <3>1. e = NewSet /\ EdgesOut(h, v) \in {NewSet, Clear(NewSet, t)}
        BY <2>2, <2>4 DEF EdgesOut
      <3> QED BY <1>2, <3>1
    <2> QED BY <2>3, <2>4
  <1>5. CASE op.kind = "add_edge"
    <2>1. h = AddEdge(g, op.from, op.to, op.stamp) /\ op.from \in Vertex /\ op.to \in Vertex
      BY <1>5, OpType DEF Applied
    <2>2. /\ \A x : x # op.from => EdgesOut(h, x) = EdgesOut(g, x)
          /\ \/ EdgesOut(h, op.from) = Add(EdgesOut(g, op.from), op.to, t)
             \/ \E high \in Nat :
                   EdgesOut(h, op.from) = Remove(Add(EdgesOut(g, op.from), op.to, t), op.to, high)
      BY <1>1, <2>1, AddEdgeEdges
    <2>3. CASE v # op.from
      BY <1>2, <2>2, <2>3
    <2>4. CASE v = op.from
      <3> DEFINE u == Add(e, op.to, t)
      <3>1. WellFormed(u) /\ KeepsBut(e, u, op.to, t)
        BY <1>1, AddOK, AddKeepsBut
      <3>2. EdgesOut(h, v) = u \/ \E high \in Nat : EdgesOut(h, v) = Remove(u, op.to, high)
        BY <2>2, <2>4
      <3> HIDE DEF u
      <3>3. \A high \in Nat : Keeps(u, Remove(u, op.to, high))
        BY <3>1, RemovalsKeep
      <3>4. KeepsBut(e, EdgesOut(h, v), op.to, t)
        BY <3>1, <3>2, <3>3, KeepsTwice
      <3> QED BY <1>5, <2>4, <3>4
    <2> QED BY <2>3, <2>4
  <1>6. CASE op.kind = "remove_edge"
    <2>1. h = RemoveEdge(g, op.from, op.to, op.stamp) /\ op.from \in Vertex /\ op.to \in Vertex
      BY <1>6, OpType DEF Applied
    <2>2. /\ \A x : x # op.from => EdgesOut(h, x) = EdgesOut(g, x)
          /\ EdgesOut(h, op.from) = Remove(EdgesOut(g, op.from), op.to, t)
      BY <1>1, <2>1, RemoveEdgeEdges
    <2>3. EdgesOut(h, v) \in {e, Remove(e, op.to, t)}
      BY <2>2
    <2> QED BY <1>2, <2>3
  <1>7. CASE op.kind = "clear_vertex_edges"
    <2>1. h = ClearVertexEdges(g, op.vertex, op.stamp) /\ op.vertex \in Vertex
      BY <1>7, OpType DEF Applied
    <2>2. EdgesOut(h, v) \in {e, Clear(e, t)}
      BY <1>1, <2>1, ClearVertexEdgesOK DEF EdgesOut
    <2> QED BY <1>2, <2>2
  <1>8. CASE op.kind = "clear_vertices"
    <2>1. h = ClearVertices(g, op.stamp)
      BY <1>8 DEF Applied
    <2>2. EdgesOut(h, v) \in {e, Clear(e, t)}
      BY <1>1, <2>1, ClearVerticesOK DEF EdgesOut
    <2> QED BY <1>2, <2>2
  <1> QED BY <1>3, <1>4, <1>5, <1>6, <1>7, <1>8, OpType

LEMMA AppliedEdgesMarked ==
    ASSUME NEW g, GraphOK(g), NEW D, EdgesMarked(g, D), NEW op \in Op
    PROVE  EdgesMarked(Applied(g, op), D \cup {op})
  <1> DEFINE h == Applied(g, op)
  <1>1. ASSUME NEW v, NEW to, Find(EdgesOut(h, v), to)
        PROVE  \E o \in D \cup {op} :
                   AddsEdge(o, v, to) /\ o.stamp = EdgesOut(h, v).map[to].timestamp
    <2>1. \/ Keeps(EdgesOut(g, v), EdgesOut(h, v))
          \/ /\ op.kind = "add_edge" /\ op.from = v
             /\ KeepsBut(EdgesOut(g, v), EdgesOut(h, v), op.to, op.stamp)
      BY AppliedBrings
    <2> HIDE DEF h
    <2>2. \/ /\ Find(EdgesOut(g, v), to)
             /\ EdgesOut(h, v).map[to].timestamp = EdgesOut(g, v).map[to].timestamp
          \/ AddsEdge(op, v, to) /\ op.stamp = EdgesOut(h, v).map[to].timestamp
      BY <1>1, <2>1 DEF Keeps, KeepsBut, AddsEdge, NamesEdge
    <2> QED BY <2>2 DEF EdgesMarked
  <1> QED BY <1>1 DEF EdgesMarked

LEMMA AppliedEdgesGrow ==
    ASSUME NEW g, GraphOK(g), NEW op \in Op, NEW h, h = Applied(g, op), NEW v
    PROVE  Grows(EdgesOut(g, v), EdgesOut(h, v))
  <1>1. GraphOK(h) /\ GraphGrows(g, h)
    BY AppliedOK
  <1>2. /\ DOMAIN g.value = DOMAIN g.keys.map
        /\ DOMAIN h.value = DOMAIN h.keys.map
        /\ WellFormed(EdgesOut(h, v))
    BY <1>1, KeysWellFormed, EdgesOutOK
  <1>3. CASE v \in DOMAIN g.value
    <2>1. v \in DOMAIN h.value /\ Grows(Edges(g, v), Edges(h, v))
      BY <1>1, <1>2, <1>3 DEF GraphGrows, Grows
    <2> QED BY <1>3, <2>1 DEF EdgesOut
  <1>4. CASE v \notin DOMAIN g.value
    <2>1. EdgesOut(g, v) = NewSet /\ EdgesOut(h, v).lastClearTime \in Nat
      BY <1>2, <1>4, FieldTypes DEF EdgesOut
    <2> QED BY <2>1, NewSetFields DEF Grows
  <1> QED BY <1>3, <1>4

LEMMA AppliedEdgesAbsorb ==
    ASSUME NEW g, GraphOK(g), NEW D \in SUBSET Op, EdgesAbsorbed(g, D), NEW op \in Op
    PROVE  EdgesAbsorbed(Applied(g, op), D \cup {op})
  <1> DEFINE h == Applied(g, op)
  <1>1. \A v : /\ WellFormed(EdgesOut(g, v)) /\ WellFormed(EdgesOut(h, v))
               /\ Grows(EdgesOut(g, v), EdgesOut(h, v))
    BY AppliedOK, EdgesOutOK, AppliedEdgesGrow
  <1>2. op.stamp \in Nat
    BY OpType
  <1>3. ASSUME NEW v, NEW to, NamesEdge(op, v, to)
        PROVE  Recent(EdgesOut(h, v), to, op.stamp)
    <2> DEFINE e == EdgesOut(g, v)
    <2>1. op.from = v /\ op.to = to /\ v \in Vertex /\ to \in Vertex /\ WellFormed(e)
      BY <1>1, <1>3, OpType DEF NamesEdge
    <2>2. CASE op.kind = "add_edge"
      <3> DEFINE u == Add(e, to, op.stamp)
      <3>1. h = AddEdge(g, v, to, op.stamp)
        BY <2>1, <2>2 DEF Applied
      <3>2. EdgesOut(h, v) = u \/ \E high \in Nat : EdgesOut(h, v) = Remove(u, to, high)
        BY <1>2, <2>1, <3>1, AddEdgeEdges
      <3>3. WellFormed(u) /\ Recent(u, to, op.stamp)
        BY <1>2, <2>1, AddOK, AddGrows
      <3> HIDE DEF u
      <3>4. \A high \in Nat : WellFormed(Remove(u, to, high)) /\ Grows(u, Remove(u, to, high))
        BY <3>3, RemoveOK, RemoveGrows
      <3> QED BY <1>2, <3>2, <3>3, <3>4, RecentStays
    <2>3. CASE op.kind = "remove_edge"
      <3>1. h = RemoveEdge(g, v, to, op.stamp)
        BY <2>1, <2>3 DEF Applied
      <3>2. EdgesOut(h, v) = Remove(e, to, op.stamp)
        BY <1>2, <2>1, <3>1, RemoveEdgeEdges
      <3> HIDE DEF e
      <3> QED BY <1>2, <2>1, <3>2, RemoveGrows
    <2> QED BY <1>3, <2>2, <2>3 DEF NamesEdge
  <1> HIDE DEF h
  <1>4. ASSUME NEW o \in D, NEW v, NEW to, NamesEdge(o, v, to)
        PROVE  Recent(EdgesOut(h, v), to, o.stamp)
    <2>1. Recent(EdgesOut(g, v), to, o.stamp) /\ o.stamp \in Nat
      BY <1>4, OpType DEF EdgesAbsorbed
    <2> QED BY <1>1, <2>1, RecentStays
  <1>5. EdgesAbsorbed(h, D \cup {op})
    BY <1>3, <1>4 DEF EdgesAbsorbed
  <1> QED BY <1>5 DEF h

EdgesBounded ==
    \A r \in Replica :
        EdgesMarked(graph[r], delivered[r]) /\ EdgesAbsorbed(graph[r], delivered[r])

EdgeInv == SafetyInv /\ EdgesBounded

LEMMA InitEdgeInv == Init => EdgeInv
  <1> SUFFICES ASSUME Init
               PROVE  EdgeInv
    OBVIOUS
  <1>1. \A r \in Replica : delivered[r] = {} /\ graph[r] = NewGraph
    BY DEF Init, NetInit
  <1>2. \A v : EdgesOut(NewGraph, v) = NewSet
    BY NewGraphFields DEF EdgesOut
  <1>3. EdgesBounded
    BY <1>1, <1>2, NewSetFields DEF EdgesBounded, EdgesMarked, EdgesAbsorbed, Find
  <1> QED BY <1>3, InitSafetyInv DEF EdgeInv

LEMMA NextEdgeInv == EdgeInv /\ [Next]_vars => EdgeInv'
  <1> SUFFICES ASSUME EdgeInv, [Next]_vars
               PROVE  EdgeInv'
    OBVIOUS
  <1>1. SafetyInv'
    BY NextSafetyInv DEF EdgeInv
  <1>2. ASSUME NEW r \in Replica, NEW op \in Op, Step(r, op)
        PROVE  EdgeInv'
    <2>1. /\ graph' = [graph EXCEPT ![r] = Applied(graph[r], op)]
          /\ delivered' = [delivered EXCEPT ![r] = delivered[r] \cup {op}]
          /\ DOMAIN graph = Replica /\ DOMAIN delivered = Replica
          /\ GraphOK(graph[r]) /\ delivered[r] \in SUBSET Op
      BY <1>2, StepApplies, CallNetOK DEF EdgeInv, SafetyInv, StateOK, NetOK, GraphsOK
    <2>2. EdgesMarked(graph[r], delivered[r]) /\ EdgesAbsorbed(graph[r], delivered[r])
      BY DEF EdgeInv, EdgesBounded
    <2>3. EdgesMarked(Applied(graph[r], op), delivered[r] \cup {op})
      BY <2>1, <2>2, AppliedEdgesMarked
    <2>4. EdgesAbsorbed(Applied(graph[r], op), delivered[r] \cup {op})
      BY <2>1, <2>2, AppliedEdgesAbsorb
    <2> QED BY <1>1, <2>1, <2>3, <2>4 DEF EdgeInv, EdgesBounded
  <1>3. CASE UNCHANGED vars
    BY <1>1, <1>3 DEF vars, EdgeInv, EdgesBounded
  <1> QED BY <1>2, <1>3 DEF Next

\* The inductive invariant behind the edges: those in a set were added, and every call on
\* an edge left its timestamp.
THEOREM EdgeInvHolds == Spec => []EdgeInv
  BY InitEdgeInv, NextEdgeInv, PTL DEF Spec

\* Whatever is delivered in whatever order, an edge in a vertex's set was added, and is
\* newer than every remove_edge of it: no late or early call brings a removed edge back.
THEOREM RemovedEdgesStayCorrect == Spec => []RemovedEdgesStay
  <1>1. ASSUME EdgeInv, NEW r \in Replica, NEW from \in DOMAIN graph[r].value,
               NEW to \in Alive(Edges(graph[r], from))
        PROVE  <<from, to>> \in EdgeView({op \in delivered[r] : op.kind # "clear_vertex_edges"})
    <2> DEFINE g == graph[r]
               D == {op \in delivered[r] : op.kind # "clear_vertex_edges"}
    <2>1. /\ GraphOK(g) /\ delivered[r] \in SUBSET Op /\ UniqueStamps(delivered[r])
          /\ EdgesMarked(g, delivered[r]) /\ EdgesAbsorbed(g, delivered[r])
      BY <1>1 DEF EdgeInv, EdgesBounded, SafetyInv, StateOK, NetOK, GraphsOK, UniqueHistory,
                  UniqueStamps
    <2>2. Find(EdgesOut(g, from), to)
      BY AliveIsFound DEF EdgesOut
    <2>3. from \in Vertex /\ to \in Vertex
      BY <2>1, <2>2, EdgeTypes DEF EdgesOut, GraphOK
    <2> HIDE DEF g
    <2>4. PICK op \in delivered[r] :
              AddsEdge(op, from, to) /\ op.stamp = EdgesOut(g, from).map[to].timestamp
      BY <2>1, <2>2 DEF EdgesMarked
    <2>5. ASSUME NEW o \in D, RemovesEdge(o, from, to)
          PROVE  o.stamp < op.stamp
      <3>1. o \in delivered[r] /\ o.kind = "remove_edge" /\ NamesEdge(o, from, to)
        BY <2>5 DEF RemovesEdge
      <3>2. o.stamp <= op.stamp
        BY <2>1, <2>4, <3>1 DEF EdgesAbsorbed, Recent
      <3>3. o # op
        BY <2>4, <3>1 DEF AddsEdge
      <3>4. o.stamp # op.stamp
        BY <2>1, <2>4, <3>1, <3>3 DEF UniqueStamps
      <3> QED BY <2>1, <3>1, <3>2, <3>4, OpType
    <2>6. op \in D
      BY <2>4 DEF AddsEdge
    <2> HIDE DEF D
    <2>7. <<from, to>> \in EdgeView(D)
      BY <2>3, <2>4, <2>5, <2>6 DEF EdgeView
    <2> QED BY <2>7 DEF D
  <1>2. EdgeInv => RemovedEdgesStay
    BY <1>1 DEF RemovedEdgesStay
  <1> QED BY <1>2, EdgeInvHolds, PTL

(***************************************************************************)
(* What hides an edge.  Traced(e, v, D): every removed edge of the set e   *)
(* of vertex v, and its last clear, bear the timestamp of an operation of  *)
(* D that may hide the edge, and not of an add_edge of it.                 *)
(***************************************************************************)
Hides(o, D, v, to) == HidesEdge(o, D, v, to) /\ ~ AddsEdge(o, v, to)

ClearsEdges(o, v) ==
    \/ o.kind = "clear_vertex_edges" /\ o.vertex = v
    \/ RemovesVertex(o, v)

Traced(e, v, D) ==
    /\ e.lastClearTime # 0 => \E o \in D : ClearsEdges(o, v) /\ o.stamp = e.lastClearTime
    /\ \A to \in DOMAIN e.map : e.map[to].isRemoved =>
          \E o \in D : Hides(o, D, v, to) /\ o.stamp = e.map[to].timestamp

LEMMA HidesMore ==
    ASSUME NEW D, NEW E, D \subseteq E, NEW o \in D, NEW v, NEW to, Hides(o, D, v, to)
    PROVE  Hides(o, E, v, to)
  BY DEF Hides, HidesEdge, EndRemoved

\* A removal of an end, and a clear of the edges out of v, hide the edge.
LEMMA RemovalsHide ==
    ASSUME NEW D, NEW o \in D, NEW v, NEW to,
           ClearsEdges(o, v) \/ RemovesVertex(o, to)
    PROVE  Hides(o, D, v, to)
  <1>1. ~ AddsEdge(o, v, to)
    BY DEF ClearsEdges, RemovesVertex, AddsEdge
  <1>2. CASE o.kind = "clear_vertex_edges" /\ o.vertex = v
    BY <1>1, <1>2 DEF Hides, HidesEdge, RemovesEdge
  <1>3. CASE RemovesVertex(o, v) \/ RemovesVertex(o, to)
    BY <1>1, <1>3 DEF Hides, HidesEdge, EndRemoved, ChangesEnd
  <1> QED BY <1>2, <1>3 DEF ClearsEdges

LEMMA TracedByMore ==
    ASSUME NEW e, NEW v, NEW D, NEW E, D \subseteq E, Traced(e, v, D)
    PROVE  Traced(e, v, E)
  <1>1. e.lastClearTime # 0 => \E o \in E : ClearsEdges(o, v) /\ o.stamp = e.lastClearTime
    BY DEF Traced
  <1>2. ASSUME NEW to \in DOMAIN e.map, e.map[to].isRemoved
        PROVE  \E o \in E : Hides(o, E, v, to) /\ o.stamp = e.map[to].timestamp
    <2>1. PICK o \in D : Hides(o, D, v, to) /\ o.stamp = e.map[to].timestamp
      BY <1>2 DEF Traced
    <2> QED BY <2>1, HidesMore
  <1> QED BY <1>1, <1>2 DEF Traced

LEMMA AddTraced ==
    ASSUME NEW e, WellFormed(e), NEW v, NEW D, Traced(e, v, D), NEW k, NEW t \in Nat, t > 0,
           NEW u, u = Add(e, k, t)
    PROVE  Traced(u, v, D)
  <1>1. CASE u = e
    BY <1>1
  <1>2. CASE Binds(e, u, k, Added(t))
    BY <1>2, MetaType DEF Binds, Traced
  <1>3. CASE Binds(e, u, k, Removed(e.lastClearTime)) /\ t <= e.lastClearTime
    <2>1. e.lastClearTime \in Nat /\ e.lastClearTime # 0
      BY <1>3, FieldTypes
    <2>2. PICK o \in D : ClearsEdges(o, v) /\ o.stamp = e.lastClearTime
      BY <2>1 DEF Traced
    <2>3. Hides(o, D, v, k)
      BY <2>2, RemovalsHide
    <2> QED BY <1>3, <2>1, <2>2, <2>3, MetaType DEF Binds, Traced
  <1> QED BY <1>1, <1>2, <1>3, AddEffect

LEMMA RemoveTraced ==
    ASSUME NEW e, WellFormed(e), NEW v, NEW D, Traced(e, v, D), NEW k, NEW t \in Nat,
           NEW o \in D, Hides(o, D, v, k), o.stamp = t,
           NEW u, u = Remove(e, k, t)
    PROVE  Traced(u, v, D)
  <1>1. CASE u = e
    BY <1>1
  <1>2. CASE Binds(e, u, k, Removed(t))
    BY <1>2, MetaType DEF Binds, Traced
  <1> QED BY <1>1, <1>2, RemoveEffect

LEMMA ClearTraced ==
    ASSUME NEW e, WellFormed(e), NEW v, NEW D, Traced(e, v, D), NEW t \in Nat,
           NEW o \in D, ClearsEdges(o, v), o.stamp = t,
           NEW u, u = Clear(e, t)
    PROVE  Traced(u, v, D)
  <1>1. CASE u = e
    BY <1>1
  <1>2. CASE Clears(e, u, t)
    <2>1. \A to : Hides(o, D, v, to)
      BY RemovalsHide
    <2> QED BY <1>2, <2>1, MetaType DEF Clears, Traced
  <1> QED BY <1>1, <1>2, ClearEffect

\* A withdrawn edge is marked with a timestamp of its ends, which is that of an operation on
\* one of them, and not of an add_edge of this edge: that would have added both.
LEMMA WithdrawalHides ==
    ASSUME NEW h, NEW s, s = h.keys, WellFormed(s), NEW E \in SUBSET Op, UniqueStamps(E),
           Marked(s, E), Absorbed(s, E),
           NEW from \in Vertex, NEW to \in Vertex, NEW t \in Nat, t > 0,
           Recent(s, from, t), Recent(s, to, t),
           NEW high \in Nat, WithdrawnAt(h, from, to, high)
    PROVE  \E o \in E : Hides(o, E, from, to) /\ o.stamp = high
  <1>0. /\ s.map[from].isRemoved \/ s.map[to].isRemoved
        /\ high = IF s.map[from].timestamp > s.map[to].timestamp
                  THEN s.map[from].timestamp ELSE s.map[to].timestamp
    BY DEF WithdrawnAt, HighTime
  <1>1. \A x \in {from, to} : /\ x \in DOMAIN s.map /\ s.map[x].timestamp \in Nat
                              /\ s.map[x].timestamp > 0 /\ s.map[x].timestamp <= high
    BY <1>0, FieldTypes DEF Recent
  <1>2. PICK x \in {from, to} : s.map[x].isRemoved
    BY <1>0
  <1>3. PICK d \in E : RemovesVertex(d, x) /\ d.stamp = s.map[x].timestamp
    BY <1>1, <1>2 DEF Marked
  <1>4. EndRemoved(E, from, to)
    BY <1>3 DEF EndRemoved
  <1>5. PICK y \in {from, to} : s.map[y].timestamp = high
    BY <1>0
  <1>6. PICK o \in E : (AddsVertex(o, y) \/ RemovesVertex(o, y)) /\ o.stamp = high
    BY <1>1, <1>5 DEF Marked
  <1>7. HidesEdge(o, E, from, to)
    BY <1>4, <1>6 DEF HidesEdge, ChangesEnd
  <1>8. ASSUME AddsEdge(o, from, to)
        PROVE  FALSE
    <2>1. AddsVertex(o, x) /\ o.kind # "clear_vertices" /\ x \in Vertex
      BY <1>8 DEF AddsEdge, NamesEdge, AddsVertex
    <2>2. high <= s.map[x].timestamp
      BY <1>6, <2>1 DEF Absorbed, Recent
    <2>3. d.stamp = o.stamp
      BY <1>1, <1>3, <1>5, <1>6, <2>2
    <2>4. d = o
      BY <2>3 DEF UniqueStamps
    <2> QED BY <1>3, <1>8, <2>4 DEF RemovesVertex, AddsEdge
  <1> QED BY <1>6, <1>7, <1>8 DEF Hides

EdgesTraced(g, D) == \A v : Traced(EdgesOut(g, v), v, D)

LEMMA AppliedEdgesTraced ==
    ASSUME NEW g, GraphOK(g), NEW op \in Op, NEW D \in SUBSET Op, EdgesTraced(g, D),
           NEW E, E = D \cup {op}, UniqueStamps(E), NEW h, h = Applied(g, op),
           Marked(h.keys, E), Absorbed(h.keys, E)
    PROVE  EdgesTraced(h, E)
  <1> SUFFICES ASSUME NEW v
               PROVE  Traced(EdgesOut(h, v), v, E)
    BY DEF EdgesTraced
  <1> DEFINE e == EdgesOut(g, v)
             t == op.stamp
  <1>1. /\ WellFormed(e) /\ Traced(e, v, E) /\ op \in E
        /\ t \in Nat /\ t > 0
        /\ E \in SUBSET Op
    BY EdgesOutOK, OpType, TracedByMore DEF EdgesTraced
  <1>2. CASE op.kind = "add_vertex"
    <2>1. h = AddVertex(g, op.vertex, op.stamp) /\ op.vertex \in Vertex
      BY <1>2, OpType DEF Applied
    <2>2. EdgesOut(h, v) = e
      BY <1>1, <2>1, AddVertexOK DEF EdgesOut
    <2> QED BY <1>1, <2>2
  <1>3. CASE op.kind = "remove_vertex"
    <2>1. /\ h = RemoveVertex(g, op.vertex, op.stamp) /\ op.vertex \in Vertex
          /\ RemovesVertex(op, op.vertex)
      BY <1>3, OpType DEF Applied, RemovesVertex
    <2>2. /\ DOMAIN h.value = DOMAIN g.value \cup {op.vertex}
          /\ \A x \in DOMAIN g.value : Edges(h, x) = PrunedEdges(g, x, op.vertex, t)
          /\ op.vertex \notin DOMAIN g.value => Edges(h, op.vertex) = Clear(NewSet, t)
      BY <1>1, <2>1, RemoveVertexOK
    <2>3. \/ EdgesOut(h, v) = e
          \/ v = op.vertex /\ EdgesOut(h, v) = Clear(e, t)
          \/ EdgesOut(h, v) = Remove(e, op.vertex, t)
      BY <2>2 DEF EdgesOut, PrunedEdges
    <2>4. v = op.vertex => ClearsEdges(op, v)
      BY <2>1 DEF ClearsEdges
    <2>5. Hides(op, E, v, op.vertex)
      BY <1>1, <2>1, RemovalsHide
    <2> HIDE DEF e, t
    <2>6. CASE EdgesOut(h, v) = e
      BY <1>1, <2>6
    <2>7. CASE v = op.vertex /\ EdgesOut(h, v) = Clear(e, t)
      BY <1>1, <2>4, <2>7, ClearTraced DEF t
    <2>8. CASE EdgesOut(h, v) = Remove(e, op.vertex, t)
      BY <1>1, <2>5, <2>8, RemoveTraced DEF t
    <2> QED BY <2>3, <2>6, <2>7, <2>8
  <1>4. CASE op.kind = "add_edge"
    <2> DEFINE u == Add(e, op.to, t)
    <2>1. h = AddEdge(g, op.from, op.to, op.stamp) /\ op.from \in Vertex /\ op.to \in Vertex
      BY <1>4, OpType DEF Applied
    <2>2. /\ \A x : x # op.from => EdgesOut(h, x) = EdgesOut(g, x)
          /\ \/ EdgesOut(h, op.from) = Add(EdgesOut(g, op.from), op.to, t)
             \/ \E high \in Nat :
                   /\ WithdrawnAt(h, op.from, op.to, high)
                   /\ EdgesOut(h, op.from) = Remove(Add(EdgesOut(g, op.from), op.to, t), op.to, high)
      BY <1>1, <2>1, AddEdgeEdges
    <2>3. WellFormed(u) /\ Traced(u, v, E)
      BY <1>1, AddOK, AddTraced
    <2>4. CASE v # op.from
      BY <1>1, <2>2, <2>4
    <2>5. CASE v = op.from /\ EdgesOut(h, v) = u
      BY <2>3, <2>5
    <2>6. ASSUME v = op.from, NEW high \in Nat, WithdrawnAt(h, v, op.to, high),
                 EdgesOut(h, v) = Remove(u, op.to, high)
          PROVE  Traced(EdgesOut(h, v), v, E)
      <3>1. WellFormed(h.keys)
        BY AppliedOK, KeysWellFormed
      <3>2. AddsVertex(op, op.from) /\ AddsVertex(op, op.to) /\ op.kind # "clear_vertices"
        BY <1>4 DEF AddsVertex
      <3>3. Recent(h.keys, op.from, t) /\ Recent(h.keys, op.to, t)
        BY <1>1, <2>1, <3>2 DEF Absorbed
      <3> HIDE DEF t
      <3>4. PICK o \in E : Hides(o, E, op.from, op.to) /\ o.stamp = high
        BY <1>1, <2>1, <2>6, <3>1, <3>3, WithdrawalHides
      <3> HIDE DEF u
      <3> QED BY <2>3, <2>6, <3>4, RemoveTraced
    <2> QED BY <2>2, <2>4, <2>5, <2>6
  <1>5. CASE op.kind = "remove_edge"
    <2>1. h = RemoveEdge(g, op.from, op.to, op.stamp) /\ op.from \in Vertex /\ op.to \in Vertex
      BY <1>5, OpType DEF Applied
    <2>2. /\ \A x : x # op.from => EdgesOut(h, x) = EdgesOut(g, x)
          /\ EdgesOut(h, op.from) = Remove(EdgesOut(g, op.from), op.to, t)
      BY <1>1, <2>1, RemoveEdgeEdges
    <2>3. Hides(op, E, op.from, op.to)
      BY <1>5 DEF Hides, HidesEdge, RemovesEdge, NamesEdge, AddsEdge
    <2>4. CASE v # op.from
      BY <1>1, <2>2, <2>4
    <2>5. CASE v = op.from
      <3>1. EdgesOut(h, v) = Remove(e, op.to, t)
        BY <2>2, <2>5
      <3> HIDE DEF e, t
      <3> QED BY <1>1, <2>3, <2>5, <3>1, RemoveTraced DEF t
    <2> QED BY <2>4, <2>5
  <1>6. CASE op.kind = "clear_vertex_edges"
    <2>1. h = ClearVertexEdges(g, op.vertex, op.stamp) /\ op.vertex \in Vertex
      BY <1>6, OpType DEF Applied
    <2>2. \/ EdgesOut(h, v) = e
          \/ v = op.vertex /\ EdgesOut(h, v) = Clear(e, t)
      BY <1>1, <2>1, ClearVertexEdgesOK DEF EdgesOut
    <2>3. v = op.vertex => ClearsEdges(op, v)
      BY <1>6 DEF ClearsEdges
    <2> HIDE DEF e, t
    <2>4. CASE EdgesOut(h, v) = e
      BY <1>1, <2>4
    <2>5. CASE v = op.vertex /\ EdgesOut(h, v) = Clear(e, t)
      BY <1>1, <2>3, <2>5, ClearTraced DEF t
    <2> QED BY <2>2, <2>4, <2>5
  <1>7. CASE op.kind = "clear_vertices"
    <2>1. h = ClearVertices(g, op.stamp) /\ ClearsEdges(op, v)
      BY <1>7 DEF Applied, ClearsEdges, RemovesVertex
    <2>2. EdgesOut(h, v) \in {e, Clear(e, t)}
      BY <1>1, <2>1, ClearVerticesOK DEF EdgesOut
    <2> HIDE DEF e, t
    <2>3. CASE EdgesOut(h, v) = e
      BY <1>1, <2>3
    <2>4. CASE EdgesOut(h, v) = Clear(e, t)
      BY <1>1, <2>1, <2>4, ClearTraced DEF t
    <2> QED BY <2>2, <2>3, <2>4
  <1> QED BY <1>2, <1>3, <1>4, <1>5, <1>6, <1>7, OpType

AllEdgesTraced == \A r \in Replica : EdgesTraced(graph[r], delivered[r])

HiddenInv == EdgeInv /\ AllEdgesTraced

LEMMA InitHiddenInv == Init => HiddenInv
  <1> SUFFICES ASSUME Init
               PROVE  HiddenInv
    OBVIOUS
  <1>1. \A r \in Replica : graph[r] = NewGraph
    BY DEF Init
  <1>2. \A v : EdgesOut(NewGraph, v) = NewSet
    BY NewGraphFields DEF EdgesOut
  <1>3. \A v, D : Traced(NewSet, v, D)
    BY NewSetFields DEF Traced
  <1>4. AllEdgesTraced
    BY <1>1, <1>2, <1>3 DEF AllEdgesTraced, EdgesTraced
  <1> QED BY <1>4, InitEdgeInv DEF HiddenInv

LEMMA NextHiddenInv == HiddenInv /\ [Next]_vars => HiddenInv'
  <1> SUFFICES ASSUME HiddenInv, [Next]_vars
               PROVE  HiddenInv'
    OBVIOUS
  <1>1. EdgeInv'
    BY NextEdgeInv DEF HiddenInv
  <1>2. ASSUME NEW r \in Replica, NEW op \in Op, Step(r, op)
        PROVE  HiddenInv'
    <2>1. /\ graph' = [graph EXCEPT ![r] = Applied(graph[r], op)]
          /\ delivered' = [delivered EXCEPT ![r] = delivered[r] \cup {op}]
          /\ DOMAIN graph = Replica /\ DOMAIN delivered = Replica
          /\ GraphOK(graph[r]) /\ delivered[r] \in SUBSET Op
      BY <1>2, StepApplies, CallNetOK DEF HiddenInv, EdgeInv, SafetyInv, StateOK, NetOK, GraphsOK
    <2> DEFINE E == delivered[r] \cup {op}
               h == Applied(graph[r], op)
    <2>2. delivered'[r] = E /\ graph'[r] = h
      BY <2>1
    <2>3. UniqueStamps(E) /\ Marked(h.keys, E) /\ Absorbed(h.keys, E)
      BY <1>1, <2>2 DEF EdgeInv, SafetyInv, UniqueHistory, UniqueStamps, VerticesKnown
    <2>4. EdgesTraced(graph[r], delivered[r])
      BY DEF HiddenInv, AllEdgesTraced
    <2>5. EdgesTraced(h, E)
      BY <2>1, <2>3, <2>4, AppliedEdgesTraced
    <2> HIDE DEF h, E
    <2>6. ASSUME NEW q \in Replica
          PROVE  EdgesTraced(graph'[q], delivered'[q])
      <3>1. CASE q = r
        BY <2>2, <2>5, <3>1
      <3>2. CASE q # r
        BY <2>1, <2>6, <3>2 DEF HiddenInv, AllEdgesTraced
      <3> QED BY <3>1, <3>2
    <2> QED BY <1>1, <2>6 DEF HiddenInv, AllEdgesTraced
  <1>3. CASE UNCHANGED vars
    BY <1>1, <1>3 DEF vars, HiddenInv, AllEdgesTraced
  <1> QED BY <1>2, <1>3 DEF Next

\* The inductive invariant behind what is hidden: what removed an edge, or cleared its set,
\* was an operation that may hide it.
THEOREM HiddenInvHolds == Spec => []HiddenInv
  BY InitHiddenInv, NextHiddenInv, PTL DEF Spec

\* Whatever is delivered in whatever order, an edge whose add_edge is newer than all that may
\* hide it is in the graph, with both its ends: no withdrawal outlives what it came from.
THEOREM LatestEdgesShownCorrect == Spec => []LatestEdgesShown
  <1>1. ASSUME HiddenInv, NEW r \in Replica, NEW from, NEW to,
               <<from, to>> \in LastingEdges(delivered[r])
        PROVE  <<from, to>> \in EdgesOf(graph[r])
    <2> DEFINE g == graph[r]
               D == delivered[r]
               e == EdgesOut(g, from)
    <2>1. /\ GraphOK(g) /\ D \in SUBSET Op /\ UniqueStamps(D)
          /\ Marked(g.keys, D) /\ Absorbed(g.keys, D)
          /\ EdgesAbsorbed(g, D) /\ EdgesTraced(g, D)
      BY <1>1 DEF HiddenInv, AllEdgesTraced, EdgeInv, EdgesBounded, SafetyInv, StateOK, NetOK,
                  GraphsOK, UniqueHistory, UniqueStamps, VerticesKnown
    <2>2. /\ from \in Vertex /\ to \in Vertex
          /\ \E op \in D : /\ AddsEdge(op, from, to)
                           /\ \A o \in D \ {op} : HidesEdge(o, D, from, to) => o.stamp < op.stamp
      BY <1>1 DEF LastingEdges
    <2>3. PICK op \in D : /\ AddsEdge(op, from, to)
                          /\ \A o \in D \ {op} : HidesEdge(o, D, from, to) => o.stamp < op.stamp
      BY <2>2
    <2> HIDE DEF g, D
    <2>4. op.stamp \in Nat
      BY <2>1, OpType
    <2>5. from \in VertexView(D)
      <3>1. AddsVertex(op, from)
        BY <2>3 DEF AddsEdge, NamesEdge, AddsVertex
      <3>2. ASSUME NEW o \in D, RemovesVertex(o, from)
            PROVE  o.stamp < op.stamp
        <4>1. o # op
          BY <2>3, <3>2 DEF AddsEdge, RemovesVertex
        <4>2. HidesEdge(o, D, from, to)
          BY <3>2 DEF HidesEdge, ChangesEnd, EndRemoved
        <4> QED BY <2>3, <4>1, <4>2
      <3> QED BY <2>2, <3>1, <3>2 DEF VertexView
    <2>6. from \in Vertices(g)
      BY <2>1, <2>5, VerticesBetweenViews
    <2>7. Find(e, to)
      <3>1. Recent(e, to, op.stamp) /\ WellFormed(e)
        BY <2>1, <2>3, EdgesOutOK DEF EdgesAbsorbed, AddsEdge
      <3>2. ASSUME e.map[to].isRemoved
            PROVE  FALSE
        <4>1. PICK o \in D : Hides(o, D, from, to) /\ o.stamp = e.map[to].timestamp
          BY <2>1, <3>1, <3>2 DEF EdgesTraced, Traced, Recent
        <4>2. o.stamp < op.stamp
          BY <2>3, <4>1 DEF Hides
        <4> QED BY <2>4, <3>1, <4>1, <4>2, FieldTypes DEF Recent
      <3> QED BY <3>1, <3>2 DEF Recent, Find
    <2>8. <<from, to>> \in EdgesOf(g)
      <3>1. Find(g.keys, from) /\ from \in DOMAIN g.value
        BY <2>1, <2>6, SeenIsFound, KeysWellFormed DEF Find, GraphOK
      <3>2. Find(Edges(g, from), to)
        BY <2>7, <3>1 DEF EdgesOut
      <3> QED BY <2>1, <3>1, <3>2, SeenIsFound
    <2> QED BY <2>8 DEF g
  <1>2. ASSUME HiddenInv
        PROVE  LatestEdgesShown
    <2> SUFFICES ASSUME NEW r \in Replica, NEW x \in LastingEdges(delivered[r])
                 PROVE  x \in EdgesOf(graph[r])
      BY DEF LatestEdgesShown
    <2>1. x = <<x[1], x[2]>>
      BY DEF LastingEdges
    <2> QED BY <1>1, <1>2, <2>1
  <1> QED BY <1>2, HiddenInvHolds, PTL

\* An operation enters what it names, and nothing else.
LEMMA AppliedEnters ==
    ASSUME NEW g, GraphOK(g), NEW op \in Op, NEW h, h = Applied(g, op)
    PROVE  /\ \A v : v \in DOMAIN h.value <=> v \in DOMAIN g.value \/ NamesVertex(op, v)
           /\ \A v, to : to \in DOMAIN EdgesOut(h, v).map
                            <=> to \in DOMAIN EdgesOut(g, v).map \/ NamesEdge(op, v, to)
  <1>1. op.stamp \in Nat
    BY OpType
  <1>2. CASE op.kind = "add_vertex"
    <2>1. h = AddVertex(g, op.vertex, op.stamp) /\ op.vertex \in Vertex
      BY <1>2, OpType DEF Applied
    <2>2. /\ DOMAIN h.value = DOMAIN g.value \cup {op.vertex}
          /\ \A v : EdgesOut(h, v) = EdgesOut(g, v)
      BY <1>1, <2>1, AddVertexOK DEF EdgesOut
    <2> QED BY <1>2, <2>2 DEF NamesVertex, NamesEdge
  <1>3. CASE op.kind = "remove_vertex"
    <2>1. h = RemoveVertex(g, op.vertex, op.stamp) /\ op.vertex \in Vertex
      BY <1>3, OpType DEF Applied
    <2>2. /\ DOMAIN h.value = DOMAIN g.value \cup {op.vertex}
          /\ \A x \in DOMAIN g.value : Edges(h, x) = PrunedEdges(g, x, op.vertex, op.stamp)
          /\ op.vertex \notin DOMAIN g.value => Edges(h, op.vertex) = Clear(NewSet, op.stamp)
      BY <1>1, <2>1, RemoveVertexOK
    <2>3. DOMAIN Clear(NewSet, op.stamp).map = DOMAIN NewSet.map
      BY <1>1, NewSetOK, ClearGrows
    <2>4. ASSUME NEW x \in DOMAIN g.value
          PROVE  DOMAIN Edges(h, x).map = DOMAIN Edges(g, x).map
      <3> DEFINE e == Edges(g, x)
      <3>1. WellFormed(e)
        BY EdgesOK
      <3>2. /\ DOMAIN Clear(e, op.stamp).map = DOMAIN e.map
            /\ DOMAIN Remove(e, op.vertex, op.stamp).map = DOMAIN e.map \cup {op.vertex}
        BY <1>1, <3>1, ClearGrows, RemoveGrows
      <3> QED BY <2>2, <3>2 DEF PrunedEdges, Find
    <2>5. \A v : DOMAIN EdgesOut(h, v).map = DOMAIN EdgesOut(g, v).map
      <3> SUFFICES ASSUME NEW v
                   PROVE  DOMAIN EdgesOut(h, v).map = DOMAIN EdgesOut(g, v).map
        OBVIOUS
      <3>1. CASE v \in DOMAIN g.value
        BY <2>2, <2>4, <3>1 DEF EdgesOut
      <3>2. CASE v \notin DOMAIN g.value
        BY <2>2, <2>3, <3>2 DEF EdgesOut
      <3> QED BY <3>1, <3>2
    <2> QED BY <1>3, <2>2, <2>5 DEF NamesVertex, NamesEdge
  <1>4. CASE op.kind = "add_edge"
    <2>1. h = AddEdge(g, op.from, op.to, op.stamp) /\ op.from \in Vertex /\ op.to \in Vertex
      BY <1>4, OpType DEF Applied
    <2>2. /\ DOMAIN h.value = DOMAIN g.value \cup {op.from, op.to}
          /\ \A x : x # op.from => EdgesOut(h, x) = EdgesOut(g, x)
          /\ DOMAIN EdgesOut(h, op.from).map = DOMAIN EdgesOut(g, op.from).map \cup {op.to}
      BY <1>1, <2>1, AddEdgeEdges
    <2> QED BY <1>4, <2>2 DEF NamesVertex, NamesEdge
  <1>5. CASE op.kind = "remove_edge"
    <2>1. h = RemoveEdge(g, op.from, op.to, op.stamp) /\ op.from \in Vertex /\ op.to \in Vertex
      BY <1>5, OpType DEF Applied
    <2>2. /\ DOMAIN h.value = DOMAIN g.value \cup {op.from, op.to}
          /\ \A x : x # op.from => EdgesOut(h, x) = EdgesOut(g, x)
          /\ EdgesOut(h, op.from) = Remove(EdgesOut(g, op.from), op.to, op.stamp)
      BY <1>1, <2>1, RemoveEdgeEdges
    <2>3. DOMAIN EdgesOut(h, op.from).map = DOMAIN EdgesOut(g, op.from).map \cup {op.to}
      BY <1>1, <2>2, EdgesOutOK, RemoveGrows
    <2> QED BY <1>5, <2>2, <2>3 DEF NamesVertex, NamesEdge
  <1>6. CASE op.kind = "clear_vertex_edges"
    <2>1. h = ClearVertexEdges(g, op.vertex, op.stamp) /\ op.vertex \in Vertex
      BY <1>6, OpType DEF Applied
    <2>2. /\ DOMAIN h.value = DOMAIN g.value
          /\ \A x \in DOMAIN g.value : Edges(h, x) \in {Clear(Edges(g, x), op.stamp), Edges(g, x)}
      BY <1>1, <2>1, ClearVertexEdgesOK
    <2>3. \A x \in DOMAIN g.value : DOMAIN Edges(h, x).map = DOMAIN Edges(g, x).map
      BY <1>1, <2>2, EdgesOK, ClearGrows
    <2> QED BY <1>6, <2>2, <2>3 DEF EdgesOut, NamesVertex, NamesEdge
  <1>7. CASE op.kind = "clear_vertices"
    <2>1. h = ClearVertices(g, op.stamp)
      BY <1>7 DEF Applied
    <2>2. /\ DOMAIN h.value = DOMAIN g.value
          /\ \A x \in DOMAIN g.value : Edges(h, x) \in {Clear(Edges(g, x), op.stamp), Edges(g, x)}
      BY <1>1, <2>1, ClearVerticesOK
    <2>3. \A x \in DOMAIN g.value : DOMAIN Edges(h, x).map = DOMAIN Edges(g, x).map
      BY <1>1, <2>2, EdgesOK, ClearGrows
    <2> QED BY <1>7, <2>2, <2>3 DEF EdgesOut, NamesVertex, NamesEdge
  <1> QED BY <1>2, <1>3, <1>4, <1>5, <1>6, <1>7, OpType

LEMMA AppliedSeen ==
    ASSUME NEW g, GraphOK(g), NEW D, Seen(g, D), NEW op \in Op
    PROVE  Seen(Applied(g, op), D \cup {op})
  BY AppliedEnters DEF Seen

-------------------------------------------------------------------------------
(***************************************************************************)
(* Convergence.  Without a removed vertex the edges out of a vertex are a  *)
(* set of their own: the operations on them are calls of that set, and     *)
(* OneSetPerHistory applies to it.                                         *)
(***************************************************************************)
OnEdgesOf(op, v) ==
    \/ op.kind \in {"add_edge", "remove_edge"} /\ op.from = v
    \/ op.kind = "clear_vertex_edges" /\ op.vertex = v

EdgeCall(op) ==
    CASE op.kind = "add_edge"           -> [kind |-> "add", key |-> op.to, stamp |-> op.stamp]
      [] op.kind = "remove_edge"        -> [kind |-> "remove", key |-> op.to, stamp |-> op.stamp]
      [] op.kind = "clear_vertex_edges" -> [kind |-> "clear", stamp |-> op.stamp]

EdgeCalls(D, v) == {EdgeCall(op) : op \in {o \in D : OnEdgesOf(o, v)}}

LEMMA EdgeCallType ==
    ASSUME NEW op \in Op, NEW v, OnEdgesOf(op, v)
    PROVE  /\ EdgeCall(op) \in SetCalls(Vertex)
           /\ EdgeCall(op).stamp = op.stamp
           /\ EdgeCall(op).kind = "add" <=> op.kind = "add_edge"
           /\ EdgeCall(op).kind = "remove" <=> op.kind = "remove_edge"
           /\ EdgeCall(op).kind = "clear" <=> op.kind = "clear_vertex_edges"
           /\ EdgeCall(op).kind # "clear" => EdgeCall(op).key = op.to
  <1>1. op.stamp \in Nat \ {0}
    BY OpType
  <1>2. CASE op.kind = "add_edge"
    BY <1>1, <1>2, OpType DEF EdgeCall, SetCalls
  <1>3. CASE op.kind = "remove_edge"
    BY <1>1, <1>3, OpType DEF EdgeCall, SetCalls
  <1>4. CASE op.kind = "clear_vertex_edges"
    BY <1>1, <1>4, OpType DEF EdgeCall, SetCalls
  <1> QED BY <1>2, <1>3, <1>4 DEF OnEdgesOf

LEMMA EdgeCallsType ==
    ASSUME NEW D \in SUBSET Op, NEW v
    PROVE  EdgeCalls(D, v) \subseteq SetCalls(Vertex)
  BY EdgeCallType DEF EdgeCalls

LEMMA EdgeCallsUnique ==
    ASSUME NEW D \in SUBSET Op, UniqueStamps(D), NEW v
    PROVE  UniqueStamps(EdgeCalls(D, v))
  <1> SUFFICES ASSUME NEW o1 \in D, OnEdgesOf(o1, v), NEW o2 \in D, OnEdgesOf(o2, v),
                      EdgeCall(o1).stamp = EdgeCall(o2).stamp
               PROVE  EdgeCall(o1) = EdgeCall(o2)
    BY DEF UniqueStamps, EdgeCalls
  <1>1. o1.stamp = o2.stamp
    BY EdgeCallType
  <1> QED BY <1>1 DEF UniqueStamps

\* One more operation is one more call, of one vertex's edges.
LEMMA OneMoreCall ==
    ASSUME NEW D, NEW op, NEW v
    PROVE  /\ OnEdgesOf(op, v) => EdgeCalls(D \cup {op}, v) = EdgeCalls(D, v) \cup {EdgeCall(op)}
           /\ ~ OnEdgesOf(op, v) => EdgeCalls(D \cup {op}, v) = EdgeCalls(D, v)
  BY DEF EdgeCalls

\* EdgesKnown(g, D): every edge set is what the operations on it make of a new one.
EdgesKnown(g, D) ==
    \A v : /\ ComesFrom(EdgesOut(g, v), EdgeCalls(D, v))
           /\ \A c \in EdgeCalls(D, v) : Absorbs(EdgesOut(g, v), c)

\* The operations without a removed vertex.
Settling(op) == op.kind \in {"add_vertex", "add_edge", "remove_edge", "clear_vertex_edges"}

\* No end of an edge that was just added is removed.
LEMMA EndsStay ==
    ASSUME NEW g, GraphOK(g), NEW D \in SUBSET Op, Marked(g.keys, D), NEW op \in Op,
           op.kind = "add_edge", \A o \in D : Settling(o), NEW h, h = Applied(g, op)
    PROVE  HasVertex(h, op.from) /\ HasVertex(h, op.to)
  <1>1. op.from \in Vertex /\ op.to \in Vertex /\ op.stamp \in Nat /\ op.stamp > 0
    BY OpType
  <1>2. h.keys = Add(Add(g.keys, op.from, op.stamp), op.to, op.stamp)
    BY <1>1, AddEdgeOK DEF Applied
  <1>3. /\ WellFormed(h.keys)
        /\ Recent(h.keys, op.from, op.stamp) /\ Recent(h.keys, op.to, op.stamp)
    BY <1>1, <1>2, KeysWellFormed, AddBoth
  <1>4. Marked(h.keys, D \cup {op})
    BY AppliedMarked
  <1>5. \A o \in D \cup {op} : \A v : ~ RemovesVertex(o, v)
    BY DEF Settling, RemovesVertex
  <1>6. \A v \in DOMAIN h.keys.map : Recent(h.keys, v, op.stamp) => ~ h.keys.map[v].isRemoved
    BY <1>1, <1>3, <1>4, <1>5, FieldTypes DEF Marked, Recent
  <1> QED BY <1>3, <1>6 DEF HasVertex, FindKey, Find, Recent

\* What an operation does to the edges of each vertex.
LEMMA SettlingEdges ==
    ASSUME NEW g, GraphOK(g), NEW D \in SUBSET Op, Marked(g.keys, D), NEW op \in Op,
           \A o \in D \cup {op} : Settling(o),
           op.kind = "clear_vertex_edges" => op.vertex \in DOMAIN g.value,
           NEW h, h = Applied(g, op), NEW v
    PROVE  EdgesOut(h, v) = IF OnEdgesOf(op, v) THEN After(EdgesOut(g, v), EdgeCall(op))
                            ELSE EdgesOut(g, v)
  <1>1. op.stamp \in Nat /\ Settling(op)
    BY OpType
  <1>2. CASE op.kind = "add_vertex"
    <2>1. h = AddVertex(g, op.vertex, op.stamp) /\ op.vertex \in Vertex
      BY <1>2, OpType DEF Applied
    <2>2. EdgesOut(h, v) = EdgesOut(g, v)
      BY <1>1, <2>1, AddVertexOK DEF EdgesOut
    <2> QED BY <1>2, <2>2 DEF OnEdgesOf
  <1>3. CASE op.kind = "add_edge"
    <2>1. h = AddEdge(g, op.from, op.to, op.stamp) /\ op.from \in Vertex /\ op.to \in Vertex
      BY <1>3, OpType DEF Applied
    <2>2. HasVertex(h, op.from) /\ HasVertex(h, op.to)
      BY <1>3, EndsStay
    <2>3. /\ \A x : x # op.from => EdgesOut(h, x) = EdgesOut(g, x)
          /\ EdgesOut(h, op.from) = Add(EdgesOut(g, op.from), op.to, op.stamp)
      BY <1>1, <2>1, <2>2, AddEdgeEdges
    <2> QED BY <1>3, <2>3 DEF OnEdgesOf, After, EdgeCall
  <1>4. CASE op.kind = "remove_edge"
    <2>1. h = RemoveEdge(g, op.from, op.to, op.stamp) /\ op.from \in Vertex /\ op.to \in Vertex
      BY <1>4, OpType DEF Applied
    <2>2. /\ \A x : x # op.from => EdgesOut(h, x) = EdgesOut(g, x)
          /\ EdgesOut(h, op.from) = Remove(EdgesOut(g, op.from), op.to, op.stamp)
      BY <1>1, <2>1, RemoveEdgeEdges
    <2> QED BY <1>4, <2>2 DEF OnEdgesOf, After, EdgeCall
  <1>5. CASE op.kind = "clear_vertex_edges"
    <2>1. h = ClearVertexEdges(g, op.vertex, op.stamp) /\ op.vertex \in Vertex
      BY <1>5, OpType DEF Applied
    <2>2. /\ DOMAIN h.value = DOMAIN g.value
          /\ \A x \in DOMAIN g.value :
                Edges(h, x) = IF x = op.vertex THEN Clear(Edges(g, x), op.stamp) ELSE Edges(g, x)
      BY <1>1, <2>1, ClearVertexEdgesOK
    <2> QED BY <1>5, <2>2 DEF EdgesOut, OnEdgesOf, After, EdgeCall
  <1> QED BY <1>1, <1>2, <1>3, <1>4, <1>5 DEF Settling

\* remove_edge does not look at the last clear: the edge must be known, or nothing cleared.
EdgeRemoveIsSafe(g, op) ==
    op.kind = "remove_edge" => \/ op.to \in DOMAIN EdgesOut(g, op.from).map
                               \/ EdgesOut(g, op.from).lastClearTime = 0

LEMMA AppliedEdgesKnown ==
    ASSUME NEW g, GraphOK(g), NEW D \in SUBSET Op, Marked(g.keys, D), EdgesKnown(g, D),
           NEW op \in Op, \A o \in D \cup {op} : Settling(o),
           op.kind = "clear_vertex_edges" => op.vertex \in DOMAIN g.value,
           EdgeRemoveIsSafe(g, op), NEW h, h = Applied(g, op)
    PROVE  EdgesKnown(h, D \cup {op})
  <1> SUFFICES ASSUME NEW v
               PROVE  /\ ComesFrom(EdgesOut(h, v), EdgeCalls(D \cup {op}, v))
                      /\ \A c \in EdgeCalls(D \cup {op}, v) : Absorbs(EdgesOut(h, v), c)
    BY DEF EdgesKnown
  <1>0. EdgesOut(h, v) = IF OnEdgesOf(op, v) THEN After(EdgesOut(g, v), EdgeCall(op))
                         ELSE EdgesOut(g, v)
    BY SettlingEdges, Z3
  <1> DEFINE e == EdgesOut(g, v)
             u == EdgesOut(h, v)
             C == EdgeCalls(D, v)
             call == EdgeCall(op)
  <1>1. /\ WellFormed(e) /\ WellFormed(u) /\ C \subseteq SetCalls(Vertex)
        /\ ComesFrom(e, C) /\ \A c \in C : Absorbs(e, c)
    BY AppliedOK, EdgesOutOK, EdgeCallsType DEF EdgesKnown
  <1>2. u = IF OnEdgesOf(op, v) THEN After(e, call) ELSE e
    BY <1>0
  <1>3. CASE ~ OnEdgesOf(op, v)
    BY <1>1, <1>2, <1>3, OneMoreCall
  <1>4. CASE OnEdgesOf(op, v)
    <2>1. /\ call \in SetCalls(Vertex) /\ EdgeCalls(D \cup {op}, v) = C \cup {call}
          /\ call.kind = "remove" => op.kind = "remove_edge" /\ call.key = op.to
      BY <1>4, EdgeCallType, OneMoreCall
    <2>2. RemoveIsSafe(e, call)
      BY <1>4, <2>1 DEF RemoveIsSafe, EdgeRemoveIsSafe, OnEdgesOf
    <2> HIDE DEF e, u, C, call
    <2>3. ComesFrom(u, C \cup {call})
      BY <1>1, <1>2, <1>4, <2>1, <2>2, ComesFromStays
    <2>4. Grows(e, u) /\ Absorbs(u, call)
      BY <1>1, <1>2, <1>4, <2>1, AfterGrows
    <2>5. \A c \in C : Absorbs(u, c)
      BY <1>1, <2>4, AbsorbsStays
    <2> QED BY <2>1, <2>3, <2>4, <2>5 DEF u
  <1> QED BY <1>3, <1>4

\* The vertices, removed ones too, are determined by the operations the graph absorbed.
LEMMA OneEntryPerHistory ==
    ASSUME NEW s, WellFormed(s), NEW u, WellFormed(u),
           NEW D \in SUBSET Op, UniqueStamps(D), \A o \in D : o.kind # "clear_vertices",
           Marked(s, D), Absorbed(s, D), Marked(u, D), Absorbed(u, D),
           NEW v \in Vertex, v \in DOMAIN s.map, v \in DOMAIN u.map
    PROVE  u.map[v] = s.map[v]
  <1> DEFINE a == s.map[v]
             b == u.map[v]
             Word(o, m) == /\ o.stamp = m.timestamp
                           /\ \/ AddsVertex(o, v) /\ ~ m.isRemoved
                              \/ RemovesVertex(o, v) /\ m.isRemoved
  <1>1. /\ a \in Metadata /\ a.timestamp \in Nat /\ a.isRemoved \in BOOLEAN
        /\ b \in Metadata /\ b.timestamp \in Nat /\ b.isRemoved \in BOOLEAN
    BY FieldTypes
  <1>2. \A o \in D : o.stamp \in Nat /\ o.stamp > 0
    BY OpType
  <1>3. \A o \in D : AddsVertex(o, v) \/ RemovesVertex(o, v) =>
            o.stamp <= a.timestamp /\ o.stamp <= b.timestamp
    BY DEF Absorbed, Recent
  <1>4. /\ (a.isRemoved /\ a.timestamp = 0) \/ \E o \in D : Word(o, a)
        /\ (b.isRemoved /\ b.timestamp = 0) \/ \E o \in D : Word(o, b)
    BY DEF Marked
  <1> HIDE DEF a, b
  <1>5. /\ a.timestamp = b.timestamp
        /\ a.isRemoved <=> b.isRemoved
    <2>1. CASE a.isRemoved /\ a.timestamp = 0
      BY <1>2, <1>3, <1>4, <2>1
    <2>2. CASE b.isRemoved /\ b.timestamp = 0
      BY <1>2, <1>3, <1>4, <2>2
    <2>3. ASSUME NEW o \in D, Word(o, a), NEW p \in D, Word(p, b)
          PROVE  /\ a.timestamp = b.timestamp
                 /\ a.isRemoved <=> b.isRemoved
      <3>1. o.stamp = p.stamp
        BY <1>1, <1>3, <2>3
      <3>2. o = p
        BY <3>1 DEF UniqueStamps
      <3> QED BY <2>3, <3>2 DEF AddsVertex, RemovesVertex
    <2> QED BY <1>4, <2>1, <2>2, <2>3
  <1>6. a = b
    BY <1>1, <1>5 DEF Metadata
  <1> QED BY <1>6 DEF a, b

\* Two graphs that went through the same operations, none of which removed a vertex, are the
\* same graph.
LEMMA OneGraphPerHistory ==
    ASSUME NEW D \in SUBSET Op, UniqueStamps(D), \A o \in D : o.kind # "clear_vertices",
           NEW g, GraphOK(g), Seen(g, D), EdgesKnown(g, D),
           Marked(g.keys, D), Absorbed(g.keys, D),
           NEW h, GraphOK(h), Seen(h, D), EdgesKnown(h, D),
           Marked(h.keys, D), Absorbed(h.keys, D)
    PROVE  g = h
  <1>1. /\ WellFormed(g.keys) /\ DOMAIN g.value = DOMAIN g.keys.map
        /\ WellFormed(h.keys) /\ DOMAIN h.value = DOMAIN h.keys.map
        /\ DOMAIN g.keys.map \subseteq Vertex
        /\ g = MapState(g.keys, g.value) /\ g.value = [v \in DOMAIN g.value |-> g.value[v]]
        /\ h = MapState(h.keys, h.value) /\ h.value = [v \in DOMAIN h.value |-> h.value[v]]
    BY DEF GraphOK, EdgeSetsOK
  <1>2. DOMAIN g.value = DOMAIN h.value
    BY DEF Seen
  <1>3. g.keys = h.keys
    <2> DEFINE s == g.keys
               u == h.keys
    <2>1. ASSUME NEW v \in DOMAIN s.map
          PROVE  s.map[v] = u.map[v]
      <3>1. v \in Vertex /\ v \in DOMAIN u.map
        BY <1>1, <1>2
      <3> QED BY <1>1, <3>1, OneEntryPerHistory
    <2>2. /\ s = SetState(s.map, s.sizeAlive, 0) /\ u = SetState(u.map, u.sizeAlive, 0)
          /\ s.map = [v \in DOMAIN s.map |-> s.map[v]]
          /\ u.map = [v \in DOMAIN u.map |-> u.map[v]]
          /\ s.sizeAlive = Cardinality(Alive(s)) /\ u.sizeAlive = Cardinality(Alive(u))
      BY <1>1 DEF WellFormed, Marked
    <2>3. DOMAIN s.map = DOMAIN u.map
      BY <1>1, <1>2
    <2> HIDE DEF s, u
    <2>4. s.map = u.map
      BY <2>1, <2>2, <2>3
    <2>5. Alive(s) = Alive(u)
      BY <2>4 DEF Alive, Find
    <2>6. s = u
      BY <2>2, <2>4, <2>5
    <2> QED BY <2>6 DEF s, u
  <1>4. \A v \in DOMAIN g.value : g.value[v] = h.value[v]
    <2> SUFFICES ASSUME NEW v \in DOMAIN g.value
                 PROVE  g.value[v] = h.value[v]
      OBVIOUS
    <2> DEFINE C == EdgeCalls(D, v)
    <2>1. C \subseteq SetCalls(Vertex) /\ UniqueStamps(C)
      BY EdgeCallsType, EdgeCallsUnique
    <2>2. /\ WellFormed(EdgesOut(g, v)) /\ WellFormed(EdgesOut(h, v))
          /\ ComesFrom(EdgesOut(g, v), C) /\ \A c \in C : Absorbs(EdgesOut(g, v), c)
          /\ ComesFrom(EdgesOut(h, v), C) /\ \A c \in C : Absorbs(EdgesOut(h, v), c)
      BY EdgesOutOK DEF EdgesKnown
    <2> HIDE DEF C
    <2>3. EdgesOut(g, v) = EdgesOut(h, v)
      BY <2>1, <2>2, OneSetPerHistory
    <2> QED BY <1>2, <2>3 DEF EdgesOut, Edges
  <1>5. g.value = h.value
    BY <1>1, <1>2, <1>4
  <1> QED BY <1>1, <1>3, <1>5

\* The edges a graph shows are those an add_edge has the last word on.
LEMMA EdgesAreView ==
    ASSUME NEW D \in SUBSET Op, UniqueStamps(D), \A o \in D : Settling(o),
           NEW g, GraphOK(g), EdgesKnown(g, D), Marked(g.keys, D), Absorbed(g.keys, D)
    PROVE  EdgesOf(g) = EdgeView(D)
  <1>1. ASSUME NEW a, NEW b
        PROVE  Find(EdgesOut(g, a), b)
                   <=> \E op \in D : /\ AddsEdge(op, a, b)
                                     /\ \A o \in D : RemovesEdge(o, a, b) => o.stamp < op.stamp
    <2> DEFINE C == EdgeCalls(D, a)
               e == EdgesOut(g, a)
    <2>1. /\ C \subseteq SetCalls(Vertex) /\ UniqueStamps(C)
          /\ WellFormed(e) /\ ComesFrom(e, C) /\ \A c \in C : Absorbs(e, c)
      BY EdgeCallsType, EdgeCallsUnique, EdgesOutOK DEF EdgesKnown
    <2> HIDE DEF C, e
    <2>2. Find(e, b) <=> \E c \in C : /\ c.kind = "add" /\ c.key = b
                                      /\ \A o \in C : Touches(o, b) /\ o.kind # "add" =>
                                                          o.stamp < c.stamp
      BY <2>1, ShownIsLastWord
    <2>3. \A op \in D : /\ AddsEdge(op, a, b) <=> /\ OnEdgesOf(op, a)
                                                  /\ EdgeCall(op).kind = "add"
                                                  /\ EdgeCall(op).key = b
                        /\ RemovesEdge(op, a, b) <=> /\ OnEdgesOf(op, a)
                                                     /\ Touches(EdgeCall(op), b)
                                                     /\ EdgeCall(op).kind # "add"
      <3> SUFFICES ASSUME NEW op \in D
                   PROVE  /\ AddsEdge(op, a, b) <=> /\ OnEdgesOf(op, a)
                                                    /\ EdgeCall(op).kind = "add"
                                                    /\ EdgeCall(op).key = b
                          /\ RemovesEdge(op, a, b) <=> /\ OnEdgesOf(op, a)
                                                       /\ Touches(EdgeCall(op), b)
                                                       /\ EdgeCall(op).kind # "add"
        OBVIOUS
      <3>1. CASE OnEdgesOf(op, a)
        BY <3>1, EdgeCallType DEF AddsEdge, RemovesEdge, NamesEdge, OnEdgesOf, Touches
      <3>2. CASE ~ OnEdgesOf(op, a)
        BY <3>2 DEF AddsEdge, RemovesEdge, NamesEdge, OnEdgesOf
      <3> QED BY <3>1, <3>2
    <2>4. \A c : c \in C <=> \E op \in D : OnEdgesOf(op, a) /\ c = EdgeCall(op)
      BY DEF C, EdgeCalls
    <2>5. \A op \in D : OnEdgesOf(op, a) => EdgeCall(op).stamp = op.stamp
      BY EdgeCallType
    <2>6. (\E c \in C : /\ c.kind = "add" /\ c.key = b
                        /\ \A o \in C : Touches(o, b) /\ o.kind # "add" => o.stamp < c.stamp)
          <=> \E op \in D : /\ AddsEdge(op, a, b)
                            /\ \A o \in D : RemovesEdge(o, a, b) => o.stamp < op.stamp
      BY <2>3, <2>4, <2>5
    <2> QED BY <2>2, <2>6 DEF e
  <1>2. ASSUME NEW a, NEW b, Find(EdgesOut(g, a), b)
        PROVE  a \in DOMAIN g.value /\ b \in Vertex /\ a \in Vertex /\ Find(g.keys, a)
    <2>1. a \in DOMAIN g.value
      BY <1>2, NewSetFields DEF EdgesOut, Find
    <2>2. a \in Vertex /\ b \in Vertex
      BY <1>2, <2>1, EdgeTypes DEF EdgesOut, GraphOK
    <2>3. PICK op \in D : AddsEdge(op, a, b)
      BY <1>1, <1>2
    <2>4. a \in VertexView(D)
      BY <2>2, <2>3 DEF VertexView, AddsEdge, NamesEdge, AddsVertex, RemovesVertex, Settling
    <2>5. Find(g.keys, a)
      BY <2>4, VerticesBetweenViews, SeenIsFound
    <2> QED BY <2>1, <2>2, <2>5
  <1>3. \A a, b : <<a, b>> \in EdgesOf(g) <=> Find(EdgesOut(g, a), b)
    BY <1>2, SeenIsFound DEF EdgesOut
  <1>4. \A a, b : <<a, b>> \in EdgeView(D) <=> <<a, b>> \in EdgesOf(g)
    <2> SUFFICES ASSUME NEW a, NEW b
                 PROVE  <<a, b>> \in EdgeView(D) <=> <<a, b>> \in EdgesOf(g)
      OBVIOUS
    <2>1. <<a, b>> \in EdgeView(D) <=> a \in Vertex /\ b \in Vertex /\ Find(EdgesOut(g, a), b)
      BY <1>1 DEF EdgeView
    <2> QED BY <1>2, <1>3, <2>1
  <1>5. EdgesOf(g) \subseteq Vertex \X Vertex /\ EdgeView(D) \subseteq Vertex \X Vertex
    BY DEF EdgesOf, EdgeView
  <1> QED BY <1>4, <1>5

\* A graph is equal to itself for the operators of the code.
LEMMA EqualGraphs ==
    ASSUME NEW g, GraphOK(g)
    PROVE  SameGraph(g, g) /\ CrdtEqualGraph(g, g)
  <1>1. DOMAIN g.value = DOMAIN g.keys.map /\ \A v : v \in Living(g) <=> Find(g.keys, v)
    BY AliveIsFound DEF GraphOK, Living
  <1>2. \A s : SameSet(s, s) /\ CrdtEqual(s, s)
    BY DEF SameSet, CrdtEqual, Alive
  <1>3. EqualVertices(g, g) = DOMAIN g.keys.map
    BY <1>2 DEF EqualVertices, SameVertex, CrdtKeys
  <1> QED BY <1>1, <1>2, <1>3
      DEF SameGraph, SameMap, CrdtEqualGraph, CrdtEqualMap, CrdtKeys, FindKey, Find

-------------------------------------------------------------------------------
(***************************************************************************)
(* The replicas.  ContextKnown: with causal delivery an edge is removed,   *)
(* and the edges of a vertex cleared, by users who know them.              *)
(***************************************************************************)
AllSeen == \A r \in Replica : Seen(graph[r], delivered[r])

ContextKnown ==
    CausalDelivery => \A op \in issued :
        /\ op.kind = "remove_edge" =>
              \E o \in context[op.stamp] : NamesEdge(o, op.from, op.to)
        /\ op.kind = "clear_vertex_edges" =>
              \E o \in context[op.stamp] : NamesVertex(o, op.vertex)

Settled(r) ==
    \A op \in delivered[r] : Settling(op) /\ (op.kind = "clear_vertex_edges" => CausalDelivery)

AllEdgesKnown == \A r \in Replica : Settled(r) => EdgesKnown(graph[r], delivered[r])

ConvergenceInv == SafetyInv /\ AllSeen /\ ContextKnown /\ AllEdgesKnown

LEMMA InitConvergenceInv == Init => ConvergenceInv
  <1> SUFFICES ASSUME Init
               PROVE  ConvergenceInv
    OBVIOUS
  <1>1. issued = {} /\ \A r \in Replica : delivered[r] = {} /\ graph[r] = NewGraph
    BY DEF Init, NetInit
  <1>2. \A v : EdgesOut(NewGraph, v) = NewSet
    BY NewGraphFields DEF EdgesOut
  <1>3. AllSeen
    BY <1>1, <1>2, NewGraphFields, NewSetFields DEF AllSeen, Seen
  <1>4. \A v : EdgeCalls({}, v) = {}
    BY DEF EdgeCalls
  <1>5. AllEdgesKnown
    BY <1>1, <1>2, <1>4, NewSetFields DEF AllEdgesKnown, EdgesKnown, ComesFrom
  <1> QED BY <1>1, <1>3, <1>5, InitSafetyInv DEF ConvergenceInv, ContextKnown

\* What causal delivery and disciplined users give.
LEMMA StepKnows ==
    ASSUME ConvergenceInv, CausalDelivery, NEW r \in Replica, NEW op \in Op, Step(r, op)
    PROVE  /\ op.kind = "remove_edge" => op.to \in DOMAIN EdgesOut(graph[r], op.from).map
           /\ op.kind = "clear_vertex_edges" => op.vertex \in DOMAIN graph[r].value
  <1>1. GraphOK(graph[r]) /\ Seen(graph[r], delivered[r]) /\ Call(r, op)
    BY StepApplies DEF ConvergenceInv, AllSeen, SafetyInv, StateOK, GraphsOK
  <1>2. CASE op \in issued
    <2>1. context[op.stamp] \subseteq delivered[r]
      BY <1>1, <1>2 DEF Call, Originate, Receive
    <2>2. CASE op.kind = "remove_edge"
      <3>1. \E o \in delivered[r] : NamesEdge(o, op.from, op.to)
        BY <1>2, <2>1, <2>2 DEF ConvergenceInv, ContextKnown
      <3> QED BY <1>1, <2>2, <3>1 DEF Seen
    <2>3. CASE op.kind = "clear_vertex_edges"
      <3>1. \E o \in delivered[r] : NamesVertex(o, op.vertex)
        BY <1>2, <2>1, <2>3 DEF ConvergenceInv, ContextKnown
      <3> QED BY <1>1, <2>3, <3>1 DEF Seen
    <2> QED BY <2>2, <2>3
  <1>3. CASE op \notin issued
    <2>1. /\ op.kind = "remove_edge" => CrdtHasEdge(graph[r], op.from, op.to)
          /\ op.kind = "clear_vertex_edges" => CrdtFind(graph[r], op.vertex)
      BY <1>3 DEF Step, add_vertex, remove_vertex, add_edge, remove_edge, clear_vertex_edges,
                  clear_vertices
    <2> QED BY <1>1, <2>1, KeysWellFormed DEF CrdtHasEdge, CrdtFind, CrdtKeys, EdgesOut
  <1> QED BY <1>2, <1>3

LEMMA StepContextKnown ==
    ASSUME ConvergenceInv, NEW r \in Replica, NEW op \in Op, Step(r, op)
    PROVE  ContextKnown'
  <1>1. /\ Call(r, op) /\ ContextKnown /\ issued \subseteq Op
        /\ DOMAIN context = Stamp /\ Seen(graph[r], delivered[r])
    BY StepApplies DEF ConvergenceInv, AllSeen, SafetyInv, StateOK, NetOK
  <1>2. CASE Receive(r, op)
    BY <1>1, <1>2 DEF Receive, ContextKnown
  <1>3. CASE Originate(r, op)
    <2> SUFFICES ASSUME CausalDelivery, NEW o \in issued'
                 PROVE  /\ o.kind = "remove_edge" =>
                              \E c \in context'[o.stamp] : NamesEdge(c, o.from, o.to)
                        /\ o.kind = "clear_vertex_edges" =>
                              \E c \in context'[o.stamp] : NamesVertex(c, o.vertex)
      BY DEF ContextKnown
    <2>1. /\ issued' = issued \cup {op}
          /\ \A p \in issued : p.stamp # op.stamp
          /\ context' = [context EXCEPT ![op.stamp] = delivered[r]]
      BY <1>3 DEF Originate
    <2>2. CASE o \in issued
      <3>1. context'[o.stamp] = context[o.stamp]
        BY <1>1, <2>1, <2>2
      <3> QED BY <1>1, <2>2, <3>1 DEF ContextKnown
    <2>3. CASE o = op
      <3>1. context'[o.stamp] = delivered[r]
        BY <1>1, <2>1, <2>3, OpType
      <3>2. /\ op.kind = "remove_edge" => op.to \in DOMAIN EdgesOut(graph[r], op.from).map
            /\ op.kind = "clear_vertex_edges" => op.vertex \in DOMAIN graph[r].value
        BY StepKnows
      <3> QED BY <1>1, <2>3, <3>1, <3>2 DEF Seen
    <2> QED BY <2>1, <2>2, <2>3
  <1> QED BY <1>1, <1>2, <1>3 DEF Call

\* The edges of the replica the operation is applied to.
LEMMA StepEdgesKnown ==
    ASSUME ConvergenceInv, NEW r \in Replica, NEW op \in Op, Step(r, op),
           \A o \in delivered[r] \cup {op} :
               Settling(o) /\ (o.kind = "clear_vertex_edges" => CausalDelivery)
    PROVE  EdgesKnown(Applied(graph[r], op), delivered[r] \cup {op})
  <1> DEFINE g == graph[r]
             D == delivered[r]
  <1>1. GraphOK(g) /\ D \in SUBSET Op /\ EdgesKnown(g, D)
    BY DEF ConvergenceInv, AllEdgesKnown, Settled, SafetyInv, StateOK, NetOK, GraphsOK
  <1>2. Marked(g.keys, D)
    BY DEF ConvergenceInv, SafetyInv, VerticesKnown
  <1>3. op.kind = "clear_vertex_edges" => op.vertex \in DOMAIN g.value
    BY StepKnows
  <1>4. EdgeRemoveIsSafe(g, op)
    <2>1. CASE CausalDelivery
      BY <2>1, StepKnows DEF EdgeRemoveIsSafe
    <2>2. CASE ~ CausalDelivery
      <3>1. \A v : \A c \in EdgeCalls(D, v) : c.kind # "clear"
        BY <1>1, <2>2, EdgeCallType DEF EdgeCalls
      <3>2. \A v : EdgesOut(g, v).lastClearTime = 0
        BY <1>1, <3>1 DEF EdgesKnown, ComesFrom
      <3> QED BY <3>2 DEF EdgeRemoveIsSafe
    <2> QED BY <2>1, <2>2
  <1> HIDE DEF g, D
  <1>5. EdgesKnown(Applied(g, op), D \cup {op})
    BY <1>1, <1>2, <1>3, <1>4, AppliedEdgesKnown DEF D
  <1> QED BY <1>5 DEF g, D

LEMMA NextConvergenceInv == ConvergenceInv /\ [Next]_vars => ConvergenceInv'
  <1> SUFFICES ASSUME ConvergenceInv, [Next]_vars
               PROVE  ConvergenceInv'
    OBVIOUS
  <1>1. SafetyInv'
    BY NextSafetyInv DEF ConvergenceInv
  <1>2. ASSUME NEW r \in Replica, NEW op \in Op, Step(r, op)
        PROVE  ConvergenceInv'
    <2>1. /\ graph' = [graph EXCEPT ![r] = Applied(graph[r], op)]
          /\ delivered' = [delivered EXCEPT ![r] = delivered[r] \cup {op}]
          /\ DOMAIN graph = Replica /\ DOMAIN delivered = Replica
          /\ GraphOK(graph[r])
      BY <1>2, StepApplies, CallNetOK DEF ConvergenceInv, SafetyInv, StateOK, NetOK, GraphsOK
    <2>2. AllSeen'
      BY <2>1, AppliedSeen DEF ConvergenceInv, AllSeen
    <2>3. ContextKnown'
      BY <1>2, StepContextKnown
    <2>4. ASSUME NEW q \in Replica,
                 \A o \in delivered'[q] :
                     Settling(o) /\ (o.kind = "clear_vertex_edges" => CausalDelivery)
          PROVE  EdgesKnown(graph'[q], delivered'[q])
      <3>1. CASE q = r
        BY <1>2, <2>1, <2>4, <3>1, StepEdgesKnown
      <3>2. CASE q # r
        BY <2>1, <2>4, <3>2 DEF ConvergenceInv, AllEdgesKnown, Settled
      <3> QED BY <3>1, <3>2
    <2> QED BY <1>1, <2>2, <2>3, <2>4 DEF ConvergenceInv, AllEdgesKnown, Settled
  <1>3. CASE UNCHANGED vars
    BY <1>1, <1>3 DEF vars, ConvergenceInv, AllSeen, ContextKnown, AllEdgesKnown, Settled
  <1> QED BY <1>2, <1>3 DEF Next

\* The inductive invariant behind convergence: graphs remember what they were told of, causal
\* delivery brings an edge before its removal, and, while no vertex is removed, every edge
\* set is what the calls on it make of a new one.
THEOREM ConvergenceInvHolds == Spec => []ConvergenceInv
  BY InitConvergenceInv, NextConvergenceInv, PTL DEF Spec

LEMMA SettledConverge ==
    ASSUME ConvergenceInv, NEW r1 \in Replica, NEW r2 \in Replica,
           Settled(r1), delivered[r1] = delivered[r2]
    PROVE  graph[r1] = graph[r2]
  <1>1. /\ delivered[r1] \in SUBSET Op /\ UniqueStamps(delivered[r1])
        /\ GraphOK(graph[r1]) /\ GraphOK(graph[r2])
    BY DEF ConvergenceInv, SafetyInv, StateOK, NetOK, GraphsOK, UniqueHistory, UniqueStamps
  <1>2. /\ Seen(graph[r1], delivered[r1]) /\ EdgesKnown(graph[r1], delivered[r1])
        /\ Seen(graph[r2], delivered[r1]) /\ EdgesKnown(graph[r2], delivered[r1])
    BY DEF ConvergenceInv, AllSeen, AllEdgesKnown, Settled
  <1>3. \A op \in delivered[r1] : op.kind # "clear_vertices"
    BY DEF Settled, Settling
  <1>4. /\ Marked(graph[r1].keys, delivered[r1]) /\ Absorbed(graph[r1].keys, delivered[r1])
        /\ Marked(graph[r2].keys, delivered[r1]) /\ Absorbed(graph[r2].keys, delivered[r1])
    BY DEF ConvergenceInv, SafetyInv, VerticesKnown
  <1> QED BY <1>1, <1>2, <1>3, <1>4, OneGraphPerHistory

\* The graph remembers every vertex and every edge it was told of, removed or not, and no
\* other: for every operation, in any order of delivery.
THEOREM RemembersAllCorrect == Spec => []RemembersAll
  <1>1. ConvergenceInv => RemembersAll
    <2> SUFFICES ASSUME ConvergenceInv, NEW r \in Replica
                 PROVE  /\ CrdtKeys(graph[r])
                              = {v \in Vertex : \E op \in delivered[r] : NamesVertex(op, v)}
                        /\ \A from, to \in Vertex :
                              CrdtHasEdge(graph[r], from, to)
                                  <=> \E op \in delivered[r] : NamesEdge(op, from, to)
      BY DEF RemembersAll
    <2>1. Seen(graph[r], delivered[r]) /\ GraphOK(graph[r])
      BY DEF ConvergenceInv, AllSeen, SafetyInv, StateOK, GraphsOK
    <2>2. CrdtKeys(graph[r]) = DOMAIN graph[r].value /\ DOMAIN graph[r].value \subseteq Vertex
      BY <2>1 DEF GraphOK, CrdtKeys
    <2>3. \A from, to : CrdtHasEdge(graph[r], from, to)
                            <=> to \in DOMAIN EdgesOut(graph[r], from).map
      BY <2>2, NewSetFields DEF CrdtHasEdge, CrdtFind, EdgesOut
    <2> QED BY <2>1, <2>2, <2>3 DEF Seen
  <1> QED BY <1>1, ConvergenceInvHolds, PTL

\* Replicas that applied the same operations, no removal of a vertex and no clear among
\* them, hold the same graph, whatever the order of delivery.
THEOREM EdgeConvergenceCorrect == Spec => []EdgeConvergence
  <1>1. ConvergenceInv => EdgeConvergence
    <2> SUFFICES ASSUME ConvergenceInv, NEW r1 \in Replica, NEW r2 \in Replica,
                        NothingRemoved(r1), delivered[r1] = delivered[r2]
                 PROVE  graph[r1] = graph[r2]
      BY DEF EdgeConvergence
    <2>1. Settled(r1)
      BY DEF NothingRemoved, Settled, Settling
    <2> QED BY <2>1, SettledConverge
  <1> QED BY <1>1, ConvergenceInvHolds, PTL

\* The operations the users issue.
KindsIssued == \A op \in issued : op.kind \in Kinds

LEMMA NextKindsIssued == KindsIssued /\ [Next]_vars => KindsIssued'
  <1>1. ASSUME KindsIssued, NEW r \in Replica, NEW op \in Op, Step(r, op)
        PROVE  KindsIssued'
    BY <1>1, StepApplies DEF KindsIssued, Call, Originate, Receive
  <1> QED BY <1>1 DEF Next, KindsIssued, vars

\* The users remove no vertex, and clear the edges of a vertex in causal order or never.
VerticesStay ==
    /\ {"remove_vertex", "clear_vertices"} \cap Kinds = {}
    /\ "clear_vertex_edges" \notin Kinds \/ CausalDelivery

LEMMA VerticesStaySettled ==
    ASSUME VerticesStay, ConvergenceInv, KindsIssued, NEW r \in Replica
    PROVE  Settled(r)
  <1> SUFFICES ASSUME NEW op \in delivered[r]
               PROVE  Settling(op) /\ (op.kind = "clear_vertex_edges" => CausalDelivery)
    BY DEF Settled
  <1>1. op \in Op /\ op.kind \in Kinds
    BY DEF KindsIssued, ConvergenceInv, SafetyInv, UniqueHistory, StateOK, NetOK
  <1> QED BY <1>1, OpType DEF VerticesStay, Settling

\* Graphs whose vertices are never removed converge: for add_vertex, add_edge and
\* remove_edge in any order, and with clear_vertex_edges when delivery is causal and users
\* act on what they know.
THEOREM GraphConvergenceCorrect ==
    ASSUME VerticesStay
    PROVE  Spec => []Convergence
  <1>1. Init => KindsIssued
    BY DEF Init, NetInit, KindsIssued
  <1>2. ConvergenceInv /\ KindsIssued => Convergence
    <2> SUFFICES ASSUME ConvergenceInv, KindsIssued,
                        NEW r1 \in Replica, NEW r2 \in Replica, delivered[r1] = delivered[r2]
                 PROVE  /\ graph[r1] = graph[r2]
                        /\ SameGraph(graph[r1], graph[r2])
                        /\ CrdtEqualGraph(graph[r1], graph[r2])
      BY DEF Convergence, UserConvergence
    <2>1. graph[r1] = graph[r2]
      BY VerticesStaySettled, SettledConverge
    <2> QED BY <2>1, EqualGraphs DEF ConvergenceInv, SafetyInv, StateOK, GraphsOK
  <1> QED BY <1>1, <1>2, ConvergenceInvHolds, NextKindsIssued, PTL DEF Spec

\* What a replica shows: the view GraphOrder keeps.
Shown(g) == [vertices |-> Vertices(g), edges |-> EdgesOf(g)]
View(D) == [vertices |-> VertexView(D), edges |-> EdgeView(D)]
ShownCorrect == \A r \in Replica : Shown(graph[r]) = View(delivered[r])

LEMMA NewGraphShowsNothing == Shown(NewGraph) = [vertices |-> {}, edges |-> {}]
  <1>1. \A v : v \notin Vertices(NewGraph)
    BY NewGraphFields, NewSetFields, NewSetOK, AliveIsFound DEF Vertices, Living, Find
  <1>2. EdgesOf(NewGraph) = {}
    BY NewGraphFields, NewSetFields DEF EdgesOf, HasEdge, HasVertex, FindKey, Find
  <1> QED BY <1>1, <1>2 DEF Shown

LEMMA ShownIsView ==
    ASSUME VerticesStay, ConvergenceInv, KindsIssued
    PROVE  ShownCorrect
  <1> SUFFICES ASSUME NEW r \in Replica
               PROVE  /\ Vertices(graph[r]) = VertexView(delivered[r])
                      /\ EdgesOf(graph[r]) = EdgeView(delivered[r])
    BY DEF ShownCorrect, Shown, View
  <1>1. /\ delivered[r] \in SUBSET Op /\ UniqueStamps(delivered[r])
        /\ GraphOK(graph[r])
    BY DEF ConvergenceInv, SafetyInv, StateOK, NetOK, GraphsOK, UniqueHistory, UniqueStamps
  <1>2. Settled(r)
    BY VerticesStaySettled
  <1>3. EdgesKnown(graph[r], delivered[r]) /\ \A o \in delivered[r] : Settling(o)
    BY <1>2 DEF ConvergenceInv, AllEdgesKnown, Settled
  <1>4. Marked(graph[r].keys, delivered[r]) /\ Absorbed(graph[r].keys, delivered[r])
    BY <1>3 DEF ConvergenceInv, SafetyInv, VerticesKnown
  <1>5. \A o \in delivered[r] : o.kind # "clear_vertices"
    BY <1>3 DEF Settling
  <1>6. Vertices(graph[r]) = VertexView(delivered[r])
    BY <1>1, <1>4, <1>5, VerticesAreView
  <1> QED BY <1>1, <1>3, <1>4, <1>6, EdgesAreView

\* Graphs whose vertices are never removed implement GraphOrder, under the assumptions of
\* GraphConvergenceCorrect: a user sees the vertices and the edges that the last words of
\* the operations applied so far leave, and every step of a replica is a step of the view.
THEOREM GraphImplementation ==
    ASSUME VerticesStay
    PROVE  Spec => ImplementsGraphOrder
  <1>1. Init => KindsIssued /\ Order!OrderInit
    <2> SUFFICES ASSUME Init
                 PROVE  /\ KindsIssued
                        /\ [r \in Replica |-> [vertices |-> Vertices(graph[r]), edges |-> EdgesOf(graph[r])]]
                             = [r \in Replica |-> [vertices |-> {}, edges |-> {}]]
      BY DEF Init, NetInit, Order!OrderInit, Order!NetInit
    <2> QED BY NewGraphShowsNothing DEF Init, NetInit, KindsIssued, Shown
  <1>2. ConvergenceInv /\ KindsIssued => ShownCorrect
    BY ShownIsView
  <1>3. ShownCorrect' /\ ConvergenceInv /\ [Next]_vars => [Order!OrderNext]_(Order!orderVars)
    <2> SUFFICES ASSUME ShownCorrect', ConvergenceInv, [Next]_vars
                 PROVE  [Order!OrderNext]_(Order!orderVars)
      OBVIOUS
    <2>1. ASSUME NEW r \in Replica, NEW op \in Op, Step(r, op)
          PROVE  Order!OrderStep(r, op)
      <3>1. /\ Call(r, op)
            /\ graph' = [graph EXCEPT ![r] = Applied(graph[r], op)]
            /\ DOMAIN graph = Replica
        BY <2>1, StepApplies DEF ConvergenceInv, SafetyInv, StateOK, GraphsOK
      <3>2. Order!Call(r, op)
        BY <3>1 DEF Call, Originate, Receive, Order!Call, Order!Originate, Order!Receive
      <3>3. Shown(graph'[r]) = View(delivered'[r])
        BY DEF ShownCorrect
      <3>4. [q \in Replica |-> Shown(graph'[q])]
               = [[q \in Replica |-> Shown(graph[q])] EXCEPT ![r] = View(delivered'[r])]
        BY <3>1, <3>3
      <3>5. Order!GraphView(delivered'[r]) = View(delivered'[r])
        BY DEF Order!GraphView, Order!VertexView, VertexView, Order!EdgeView, EdgeView,
               Order!AddsVertex, AddsVertex, Order!RemovesVertex, RemovesVertex,
               Order!AddsEdge, AddsEdge, Order!RemovesEdge, RemovesEdge,
               Order!NamesEdge, NamesEdge, View
      <3> QED BY <3>2, <3>4, <3>5 DEF Order!OrderStep, Shown
    <2>2. CASE UNCHANGED vars
      BY <2>2 DEF vars, Order!orderVars
    <2>3. Order!Op = Op
      BY DEF Order!Op, Order!VertexOp, Order!EdgeOp, Order!ClearOp, Op, VertexOp, EdgeOp, ClearOp
    <2> QED BY <2>1, <2>2, <2>3 DEF Next, Order!OrderNext
  <1> QED BY <1>1, <1>2, <1>3, ConvergenceInvHolds, NextKindsIssued, PTL
      DEF Spec, ImplementsGraphOrder, Order!OrderSpec
===============================================================================
