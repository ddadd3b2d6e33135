---------------------------- MODULE LWWGraphProofs ----------------------------
(***************************************************************************)
(* Theorems about LWWGraphReplicas that need no assumption on delivery nor *)
(* on the operations used, for every set of replicas, vertices and         *)
(* timestamps.                                                             *)
(***************************************************************************)
EXTENDS LWWGraphReplicas, LWWSetLemmas

(***************************************************************************)
(* One graph.  GraphOK is its type, the meaning of its counters, and that  *)
(* edges lead to vertices with an entry; each method preserves it.         *)
(***************************************************************************)
EdgeSetsOK(value) ==
    \A v \in DOMAIN value : WellFormed(value[v]) /\ DOMAIN value[v].map \subseteq DOMAIN value

GraphOK(g) ==
    /\ g = MapState(g.keys, g.value)
    /\ WellFormed(g.keys)
    /\ DOMAIN g.keys.map \subseteq Vertex
    /\ DOMAIN g.value = DOMAIN g.keys.map
    /\ g.value = [v \in DOMAIN g.value |-> g.value[v]]
    /\ EdgeSetsOK(g.value)

LEMMA MapStateFields ==
    ASSUME NEW keys, NEW value
    PROVE  MapState(keys, value).keys = keys /\ MapState(keys, value).value = value
  BY DEF MapState

LEMMA NewGraphFields ==
    /\ NewGraph.keys = NewSet
    /\ DOMAIN NewGraph.value = {}
    /\ NewGraph = MapState(NewGraph.keys, NewGraph.value)
    /\ NewGraph.value = [v \in DOMAIN NewGraph.value |-> NewGraph.value[v]]
  BY MapStateFields DEF NewGraph, NewMap

LEMMA NewGraphOK == GraphOK(NewGraph)
  BY NewGraphFields, NewSetOK, NewSetFields DEF GraphOK, EdgeSetsOK

\* A graph after its keys became keys: new vertices have no edges.
LEMMA WithKeysEffect ==
    ASSUME NEW g, GraphOK(g), NEW keys, NEW h, h = WithKeys(g, keys, NewSet)
    PROVE  /\ h = MapState(h.keys, h.value)
           /\ h.keys = keys
           /\ DOMAIN h.value = DOMAIN keys.map
           /\ \A v \in DOMAIN keys.map :
                 /\ v \in DOMAIN g.value => Edges(h, v) = Edges(g, v)
                 /\ v \notin DOMAIN g.value => Edges(h, v) = NewSet
  BY MapStateFields DEF WithKeys, Edges

LEMMA WithKeysIsFunction ==
    ASSUME NEW g, NEW keys, NEW h, h = WithKeys(g, keys, NewSet)
    PROVE  h.value = [x \in DOMAIN h.value |-> h.value[x]]
  BY MapStateFields DEF WithKeys

LEMMA WithKeysOK ==
    ASSUME NEW g, GraphOK(g), NEW keys, WellFormed(keys),
           DOMAIN keys.map \subseteq Vertex, DOMAIN g.keys.map \subseteq DOMAIN keys.map
    PROVE  GraphOK(WithKeys(g, keys, NewSet))
  <1> DEFINE h == WithKeys(g, keys, NewSet)
  <1>1. /\ h = MapState(h.keys, h.value)
        /\ h.keys = keys
        /\ h.value = [x \in DOMAIN h.value |-> h.value[x]]
        /\ DOMAIN h.value = DOMAIN keys.map
        /\ \A v \in DOMAIN keys.map :
              /\ v \in DOMAIN g.value => Edges(h, v) = Edges(g, v)
              /\ v \notin DOMAIN g.value => Edges(h, v) = NewSet
    BY WithKeysEffect, WithKeysIsFunction
  <1> HIDE DEF h
  <1>2. \A v \in DOMAIN h.value :
            WellFormed(h.value[v]) /\ DOMAIN h.value[v].map \subseteq DOMAIN h.value
    BY <1>1, NewSetOK, NewSetFields DEF GraphOK, EdgeSetsOK, Edges
  <1>3. GraphOK(h)
    BY <1>1, <1>2 DEF GraphOK, EdgeSetsOK
  <1> QED BY <1>3 DEF h

\* A graph with the edges of one vertex replaced.
LEMMA WithEdgesEffect ==
    ASSUME NEW g, GraphOK(g), NEW v \in DOMAIN g.value, NEW e, NEW h, h = WithEdges(g, v, e)
    PROVE  /\ h = MapState(h.keys, h.value)
           /\ h.keys = g.keys
           /\ DOMAIN h.value = DOMAIN g.value
           /\ Edges(h, v) = e
           /\ \A x \in DOMAIN g.value : x # v => Edges(h, x) = Edges(g, x)
  <1>1. h = MapState(g.keys, [g.value EXCEPT ![v] = e])
    BY DEF WithEdges, SetValue, GraphOK, MapState
  <1> QED BY <1>1, MapStateFields DEF Edges

LEMMA WithEdgesIsFunction ==
    ASSUME NEW g, GraphOK(g), NEW v \in DOMAIN g.value, NEW e, NEW h, h = WithEdges(g, v, e)
    PROVE  h.value = [x \in DOMAIN h.value |-> h.value[x]]
  <1>1. h = MapState(g.keys, [g.value EXCEPT ![v] = e])
    BY DEF WithEdges, SetValue, GraphOK, MapState
  <1> QED BY <1>1, MapStateFields

LEMMA WithEdgesOK ==
    ASSUME NEW g, GraphOK(g), NEW v \in DOMAIN g.value,
           NEW e, WellFormed(e), DOMAIN e.map \subseteq DOMAIN g.value
    PROVE  GraphOK(WithEdges(g, v, e))
  <1> DEFINE h == WithEdges(g, v, e)
  <1>1. /\ h = MapState(h.keys, h.value)
        /\ h.keys = g.keys
        /\ h.value = [x \in DOMAIN h.value |-> h.value[x]]
        /\ DOMAIN h.value = DOMAIN g.value
        /\ Edges(h, v) = e
        /\ \A x \in DOMAIN g.value : x # v => Edges(h, x) = Edges(g, x)
    BY WithEdgesEffect, WithEdgesIsFunction
  <1> HIDE DEF h
  <1>2. \A x \in DOMAIN h.value :
            WellFormed(h.value[x]) /\ DOMAIN h.value[x].map \subseteq DOMAIN h.value
    BY <1>1 DEF GraphOK, EdgeSetsOK, Edges
  <1>3. GraphOK(h)
    BY <1>1, <1>2 DEF GraphOK, EdgeSetsOK
  <1> QED BY <1>3 DEF h

(***************************************************************************)
(* The methods.                                                            *)
(***************************************************************************)
LEMMA EdgesOK ==
    ASSUME NEW g, GraphOK(g), NEW v \in DOMAIN g.value
    PROVE  WellFormed(Edges(g, v)) /\ DOMAIN Edges(g, v).map \subseteq DOMAIN g.value
  BY DEF GraphOK, EdgeSetsOK, Edges

LEMMA AddVertexOK ==
    ASSUME NEW g, GraphOK(g), NEW v \in Vertex, NEW t \in Nat,
           NEW h, h = AddVertex(g, v, t)
    PROVE  /\ GraphOK(h)
           /\ h.keys = Add(g.keys, v, t)
           /\ DOMAIN h.value = DOMAIN g.value \cup {v}
           /\ \A x \in DOMAIN g.value : Edges(h, x) = Edges(g, x)
           /\ v \notin DOMAIN g.value => Edges(h, v) = NewSet
  <1>1. /\ WellFormed(g.keys)
        /\ DOMAIN g.keys.map \subseteq Vertex
        /\ DOMAIN g.value = DOMAIN g.keys.map
    BY DEF GraphOK
  <1>2. WellFormed(Add(g.keys, v, t)) /\ DOMAIN Add(g.keys, v, t).map = DOMAIN g.keys.map \cup {v}
    BY <1>1, AddOK, AddGrows
  <1>3. h = WithKeys(g, Add(g.keys, v, t), NewSet)
    BY DEF AddVertex, AddKey
  <1>4. GraphOK(h)
    BY <1>1, <1>2, <1>3, WithKeysOK
  <1>5. /\ h.keys = Add(g.keys, v, t)
        /\ DOMAIN h.value = DOMAIN Add(g.keys, v, t).map
        /\ \A x \in DOMAIN Add(g.keys, v, t).map :
              /\ x \in DOMAIN g.value => Edges(h, x) = Edges(g, x)
              /\ x \notin DOMAIN g.value => Edges(h, x) = NewSet
    BY <1>3, WithKeysEffect
  <1> QED BY <1>1, <1>2, <1>4, <1>5

LEMMA RemoveKeyOK ==
    ASSUME NEW g, GraphOK(g), NEW v \in Vertex, NEW t \in Nat,
           NEW h, h = RemoveKey(g, v, t, NewSet)
    PROVE  /\ GraphOK(h)
           /\ h.keys = Remove(g.keys, v, t)
           /\ DOMAIN h.value = DOMAIN g.value \cup {v}
           /\ \A x \in DOMAIN g.value : Edges(h, x) = Edges(g, x)
           /\ v \notin DOMAIN g.value => Edges(h, v) = NewSet
  <1>1. /\ WellFormed(g.keys)
        /\ DOMAIN g.keys.map \subseteq Vertex
        /\ DOMAIN g.value = DOMAIN g.keys.map
    BY DEF GraphOK
  <1>2. /\ WellFormed(Remove(g.keys, v, t))
        /\ DOMAIN Remove(g.keys, v, t).map = DOMAIN g.keys.map \cup {v}
    BY <1>1, RemoveOK, RemoveGrows
  <1>3. h = WithKeys(g, Remove(g.keys, v, t), NewSet)
    BY DEF RemoveKey
  <1>4. GraphOK(h)
    BY <1>1, <1>2, <1>3, WithKeysOK
  <1>5. /\ h.keys = Remove(g.keys, v, t)
        /\ DOMAIN h.value = DOMAIN Remove(g.keys, v, t).map
        /\ \A x \in DOMAIN Remove(g.keys, v, t).map :
              /\ x \in DOMAIN g.value => Edges(h, x) = Edges(g, x)
              /\ x \notin DOMAIN g.value => Edges(h, x) = NewSet
    BY <1>3, WithKeysEffect
  <1> QED BY <1>1, <1>2, <1>4, <1>5

\* What remove_vertex does to the edges of vertex x.
PrunedEdges(g, x, v, t) ==
    IF x = v THEN Clear(Edges(g, x), t)
    ELSE IF Find(Edges(g, x), v) THEN Remove(Edges(g, x), v, t)
    ELSE Edges(g, x)

LEMMA RemoveVertexOK ==
    ASSUME NEW g, GraphOK(g), NEW v \in Vertex, NEW t \in Nat,
           NEW h, h = RemoveVertex(g, v, t)
    PROVE  /\ GraphOK(h)
           /\ h.keys = Remove(g.keys, v, t)
           /\ DOMAIN h.value = DOMAIN g.value \cup {v}
           /\ \A x \in DOMAIN g.value : Edges(h, x) = PrunedEdges(g, x, v, t)
           /\ v \notin DOMAIN g.value => Edges(h, v) = Clear(NewSet, t)
  <1> DEFINE f == RemoveKey(g, v, t, NewSet)
             cut == [x \in DOMAIN f.value |-> PrunedEdges(f, x, v, t)]
  <1>1. /\ GraphOK(f)
        /\ f.keys = Remove(g.keys, v, t)
        /\ DOMAIN f.value = DOMAIN g.value \cup {v}
        /\ \A x \in DOMAIN g.value : Edges(f, x) = Edges(g, x)
        /\ v \notin DOMAIN g.value => Edges(f, v) = NewSet
    BY RemoveKeyOK
  <1>2. h = MapState(f.keys, cut)
    BY DEF RemoveVertex, PrunedEdges
  <1> HIDE DEF f
  <1>3. /\ h = MapState(h.keys, h.value)
        /\ h.keys = f.keys
        /\ h.value = [x \in DOMAIN h.value |-> h.value[x]]
        /\ DOMAIN h.value = DOMAIN f.value
        /\ \A x \in DOMAIN f.value : h.value[x] = PrunedEdges(f, x, v, t)
    BY <1>2, MapStateFields
  <1>4. ASSUME NEW x \in DOMAIN f.value
        PROVE  /\ WellFormed(PrunedEdges(f, x, v, t))
               /\ DOMAIN PrunedEdges(f, x, v, t).map \subseteq DOMAIN f.value
    <2>1. WellFormed(Edges(f, x)) /\ DOMAIN Edges(f, x).map \subseteq DOMAIN f.value
      BY <1>1, <1>4, EdgesOK
    <2>2. CASE x = v
      BY <2>1, <2>2, ClearOK, ClearGrows DEF PrunedEdges
    <2>3. CASE x # v /\ Find(Edges(f, x), v)
      <3>1. /\ WellFormed(Remove(Edges(f, x), v, t))
            /\ DOMAIN Remove(Edges(f, x), v, t).map = DOMAIN Edges(f, x).map \cup {v}
        BY <2>1, RemoveOK, RemoveGrows
      <3> QED BY <1>1, <2>1, <2>3, <3>1 DEF PrunedEdges
    <2>4. CASE x # v /\ ~ Find(Edges(f, x), v)
      BY <2>1, <2>4 DEF PrunedEdges
    <2> QED BY <2>2, <2>3, <2>4
  <1>5. EdgeSetsOK(h.value)
    BY <1>3, <1>4 DEF EdgeSetsOK
  <1>6. GraphOK(h)
    BY <1>1, <1>3, <1>5 DEF GraphOK
  <1>7. \A x \in DOMAIN g.value : Edges(h, x) = PrunedEdges(g, x, v, t)
    BY <1>1, <1>3 DEF PrunedEdges, Edges
  <1>8. v \notin DOMAIN g.value => Edges(h, v) = Clear(NewSet, t)
    BY <1>1, <1>3 DEF PrunedEdges, Edges
  <1> QED BY <1>1, <1>3, <1>6, <1>7, <1>8

LEMMA ClearVertexEdgesOK ==
    ASSUME NEW g, GraphOK(g), NEW v \in Vertex, NEW t \in Nat,
           NEW h, h = ClearVertexEdges(g, v, t)
    PROVE  /\ GraphOK(h)
           /\ h.keys = g.keys
           /\ DOMAIN h.value = DOMAIN g.value
           /\ \A x \in DOMAIN g.value :
                 Edges(h, x) = IF x = v THEN Clear(Edges(g, x), t) ELSE Edges(g, x)
  <1>1. DOMAIN g.value = DOMAIN g.keys.map
    BY DEF GraphOK
  <1>2. CASE v \in DOMAIN g.value
    <2>1. h = WithEdges(g, v, Clear(Edges(g, v), t))
      BY <1>1, <1>2 DEF ClearVertexEdges, CrdtFind, CrdtKeys
    <2>2. WellFormed(Edges(g, v)) /\ DOMAIN Edges(g, v).map \subseteq DOMAIN g.value
      BY <1>2, EdgesOK
    <2>3. /\ WellFormed(Clear(Edges(g, v), t))
          /\ DOMAIN Clear(Edges(g, v), t).map \subseteq DOMAIN g.value
      BY <2>2, ClearOK, ClearGrows
    <2>4. GraphOK(h)
      BY <1>2, <2>1, <2>3, WithEdgesOK
    <2> QED BY <1>2, <2>1, <2>4, WithEdgesEffect
  <1>3. CASE v \notin DOMAIN g.value
    BY <1>1, <1>3 DEF ClearVertexEdges, CrdtFind, CrdtKeys
  <1> QED BY <1>2, <1>3

LEMMA ClearVerticesOK ==
    ASSUME NEW g, GraphOK(g), NEW t \in Nat, NEW h, h = ClearVertices(g, t)
    PROVE  /\ GraphOK(h)
           /\ h.keys = Clear(g.keys, t)
           /\ DOMAIN h.value = DOMAIN g.value
           /\ \A x \in DOMAIN g.value :
                 Edges(h, x) = IF HasVertex(g, x) THEN Clear(Edges(g, x), t) ELSE Edges(g, x)
  <1> DEFINE cut == [x \in DOMAIN g.value |->
                        IF HasVertex(g, x) THEN Clear(Edges(g, x), t) ELSE Edges(g, x)]
  <1>1. h = MapState(Clear(g.keys, t), cut)
    BY MapStateFields DEF ClearVertices, ClearKeys
  <1>2. /\ h = MapState(h.keys, h.value)
        /\ h.keys = Clear(g.keys, t)
        /\ h.value = [x \in DOMAIN h.value |-> h.value[x]]
        /\ DOMAIN h.value = DOMAIN g.value
        /\ \A x \in DOMAIN g.value :
              Edges(h, x) = IF HasVertex(g, x) THEN Clear(Edges(g, x), t) ELSE Edges(g, x)
    BY <1>1, MapStateFields DEF Edges
  <1>3. ASSUME NEW x \in DOMAIN g.value
        PROVE  WellFormed(Edges(h, x)) /\ DOMAIN Edges(h, x).map \subseteq DOMAIN g.value
    BY <1>2, EdgesOK, ClearOK, ClearGrows
  <1>4. EdgeSetsOK(h.value)
    BY <1>2, <1>3 DEF EdgeSetsOK, Edges
  <1>5. WellFormed(h.keys) /\ DOMAIN h.keys.map = DOMAIN g.keys.map
    BY <1>2, ClearOK, ClearGrows DEF GraphOK
  <1>6. GraphOK(h)
    BY <1>2, <1>4, <1>5 DEF GraphOK
  <1> QED BY <1>2, <1>6

\* The graph of add_edge before the edge is checked against removed vertices, from the
\* graph with both vertices added.
BoundEdge(f, from, to, t) == WithEdges(f, from, Add(Edges(f, from), to, t))

LEMMA BoundEdgeOK ==
    ASSUME NEW f, GraphOK(f), NEW from \in DOMAIN f.value, NEW to \in DOMAIN f.value,
           NEW t \in Nat, NEW h, h = BoundEdge(f, from, to, t)
    PROVE  /\ GraphOK(h)
           /\ h.keys = f.keys
           /\ DOMAIN h.value = DOMAIN f.value
           /\ Edges(h, from) = Add(Edges(f, from), to, t)
           /\ \A x \in DOMAIN f.value : x # from => Edges(h, x) = Edges(f, x)
  <1>1. WellFormed(Edges(f, from)) /\ DOMAIN Edges(f, from).map \subseteq DOMAIN f.value
    BY EdgesOK
  <1>2. /\ WellFormed(Add(Edges(f, from), to, t))
        /\ DOMAIN Add(Edges(f, from), to, t).map \subseteq DOMAIN f.value
    BY <1>1, AddOK, AddGrows
  <1> QED BY <1>2, WithEdgesOK, WithEdgesEffect DEF BoundEdge

LEMMA HighTimeType ==
    ASSUME NEW g, GraphOK(g), NEW from \in DOMAIN g.value, NEW to \in DOMAIN g.value
    PROVE  /\ HighTime(g, from, to) \in Nat
           /\ HighTime(g, from, to) >= g.keys.map[from].timestamp
           /\ HighTime(g, from, to) >= g.keys.map[to].timestamp
           /\ HighTime(g, from, to) \in {g.keys.map[from].timestamp, g.keys.map[to].timestamp}
  BY FieldTypes DEF GraphOK, HighTime

\* The edge has to be withdrawn.
Dangles(g, from, to) ==
    /\ Find(Edges(g, from), to)
    /\ g.keys.map[from].isRemoved \/ g.keys.map[to].isRemoved

LEMMA WithdrawEdgeOK ==
    ASSUME NEW g, GraphOK(g), NEW from \in DOMAIN g.value, NEW to \in DOMAIN g.value,
           NEW h, h = WithdrawEdge(g, from, to)
    PROVE  /\ GraphOK(h)
           /\ h.keys = g.keys
           /\ DOMAIN h.value = DOMAIN g.value
           /\ Edges(h, from) = IF Dangles(g, from, to)
                               THEN Remove(Edges(g, from), to, HighTime(g, from, to))
                               ELSE Edges(g, from)
           /\ \A x \in DOMAIN g.value : x # from => Edges(h, x) = Edges(g, x)
  <1>1. CASE Dangles(g, from, to)
    <2> DEFINE high == HighTime(g, from, to)
               e == Remove(Edges(g, from), to, high)
    <2>1. WellFormed(Edges(g, from)) /\ DOMAIN Edges(g, from).map \subseteq DOMAIN g.value
      BY EdgesOK
    <2>2. WellFormed(e) /\ DOMAIN e.map \subseteq DOMAIN g.value
      <3>1. high \in Nat
        BY HighTimeType
      <3> HIDE DEF high
      <3> QED BY <2>1, <3>1, RemoveOK, RemoveGrows
    <2>3. h = WithEdges(g, from, e)
      BY <1>1 DEF WithdrawEdge, Dangles
    <2> HIDE DEF e
    <2>4. /\ GraphOK(h)
          /\ h.keys = g.keys
          /\ DOMAIN h.value = DOMAIN g.value
          /\ Edges(h, from) = e
          /\ \A x \in DOMAIN g.value : x # from => Edges(h, x) = Edges(g, x)
      BY <2>2, <2>3, WithEdgesOK, WithEdgesEffect
    <2> QED BY <1>1, <2>4 DEF e
  <1>2. CASE ~ Dangles(g, from, to)
    BY <1>2 DEF WithdrawEdge, Dangles
  <1> QED BY <1>1, <1>2

\* The graph with both vertices of an edge added.
WithEnds(g, from, to, t) == AddVertex(AddVertex(g, from, t), to, t)

LEMMA WithEndsOK ==
    ASSUME NEW g, GraphOK(g), NEW from \in Vertex, NEW to \in Vertex, NEW t \in Nat,
           NEW h, h = WithEnds(g, from, to, t)
    PROVE  /\ GraphOK(h)
           /\ h.keys = Add(Add(g.keys, from, t), to, t)
           /\ DOMAIN h.value = DOMAIN g.value \cup {from, to}
           /\ \A x \in DOMAIN g.value : Edges(h, x) = Edges(g, x)
           /\ \A x \in {from, to} : x \notin DOMAIN g.value => Edges(h, x) = NewSet
  <1> DEFINE f == AddVertex(g, from, t)
  <1>1. /\ GraphOK(f)
        /\ f.keys = Add(g.keys, from, t)
        /\ DOMAIN f.value = DOMAIN g.value \cup {from}
        /\ \A x \in DOMAIN g.value : Edges(f, x) = Edges(g, x)
        /\ from \notin DOMAIN g.value => Edges(f, from) = NewSet
    BY AddVertexOK
  <1>2. h = AddVertex(f, to, t)
    BY DEF WithEnds
  <1> HIDE DEF f
  <1>3. /\ GraphOK(h)
        /\ h.keys = Add(f.keys, to, t)
        /\ DOMAIN h.value = DOMAIN f.value \cup {to}
        /\ \A x \in DOMAIN f.value : Edges(h, x) = Edges(f, x)
        /\ to \notin DOMAIN f.value => Edges(h, to) = NewSet
    BY <1>1, <1>2, AddVertexOK
  <1> QED BY <1>1, <1>3

LEMMA AddEdgeIs ==
    ASSUME NEW g, NEW from, NEW to, NEW t
    PROVE  AddEdge(g, from, to, t)
               = WithdrawEdge(BoundEdge(WithEnds(g, from, to, t), from, to, t), from, to)
  BY DEF AddEdge, BoundEdge, WithEnds

LEMMA AddEdgeOK ==
    ASSUME NEW g, GraphOK(g), NEW from \in Vertex, NEW to \in Vertex, NEW t \in Nat
    PROVE  /\ GraphOK(AddEdge(g, from, to, t))
           /\ AddEdge(g, from, to, t).keys = Add(Add(g.keys, from, t), to, t)
  <1> DEFINE f == WithEnds(g, from, to, t)
             h == BoundEdge(f, from, to, t)
  <1>1. /\ GraphOK(f) /\ from \in DOMAIN f.value /\ to \in DOMAIN f.value
        /\ f.keys = Add(Add(g.keys, from, t), to, t)
    BY WithEndsOK
  <1> HIDE DEF f
  <1>2. GraphOK(h) /\ DOMAIN h.value = DOMAIN f.value /\ h.keys = f.keys
    BY <1>1, BoundEdgeOK
  <1> HIDE DEF h
  <1>3. GraphOK(WithdrawEdge(h, from, to)) /\ WithdrawEdge(h, from, to).keys = h.keys
    BY <1>1, <1>2, WithdrawEdgeOK
  <1> QED BY <1>1, <1>2, <1>3, AddEdgeIs DEF f, h

\* The graph with an entry for both ends of a removed edge.
WithPlaceholders(g, from, to) == RemoveKey(RemoveKey(g, from, 0, NewSet), to, 0, NewSet)

LEMMA WithPlaceholdersOK ==
    ASSUME NEW g, GraphOK(g), NEW from \in Vertex, NEW to \in Vertex,
           NEW h, h = WithPlaceholders(g, from, to)
    PROVE  /\ GraphOK(h)
           /\ h.keys = Remove(Remove(g.keys, from, 0), to, 0)
           /\ DOMAIN h.value = DOMAIN g.value \cup {from, to}
           /\ \A x \in DOMAIN g.value : Edges(h, x) = Edges(g, x)
           /\ \A x \in {from, to} : x \notin DOMAIN g.value => Edges(h, x) = NewSet
  <1> DEFINE f == RemoveKey(g, from, 0, NewSet)
  <1>1. /\ GraphOK(f)
        /\ f.keys = Remove(g.keys, from, 0)
        /\ DOMAIN f.value = DOMAIN g.value \cup {from}
        /\ \A x \in DOMAIN g.value : Edges(f, x) = Edges(g, x)
        /\ from \notin DOMAIN g.value => Edges(f, from) = NewSet
    BY RemoveKeyOK
  <1>2. h = RemoveKey(f, to, 0, NewSet)
    BY DEF WithPlaceholders
  <1> HIDE DEF f
  <1>3. /\ GraphOK(h)
        /\ h.keys = Remove(f.keys, to, 0)
        /\ DOMAIN h.value = DOMAIN f.value \cup {to}
        /\ \A x \in DOMAIN f.value : Edges(h, x) = Edges(f, x)
        /\ to \notin DOMAIN f.value => Edges(h, to) = NewSet
    BY <1>1, <1>2, RemoveKeyOK
  <1> QED BY <1>1, <1>3

LEMMA RemoveEdgeOK ==
    ASSUME NEW g, GraphOK(g), NEW from \in Vertex, NEW to \in Vertex, NEW t \in Nat,
           NEW h, h = RemoveEdge(g, from, to, t),
           NEW f, f = WithPlaceholders(g, from, to)
    PROVE  /\ GraphOK(h)
           /\ h.keys = f.keys
           /\ DOMAIN h.value = DOMAIN f.value
           /\ Edges(h, from) = Remove(Edges(f, from), to, t)
           /\ \A x \in DOMAIN f.value : x # from => Edges(h, x) = Edges(f, x)
  <1>1. GraphOK(f) /\ from \in DOMAIN f.value /\ to \in DOMAIN f.value
    BY WithPlaceholdersOK
  <1>2. WellFormed(Edges(f, from)) /\ DOMAIN Edges(f, from).map \subseteq DOMAIN f.value
    BY <1>1, EdgesOK
  <1>3. /\ WellFormed(Remove(Edges(f, from), to, t))
        /\ DOMAIN Remove(Edges(f, from), to, t).map \subseteq DOMAIN f.value
    BY <1>1, <1>2, RemoveOK, RemoveGrows
  <1>4. h = WithEdges(f, from, Remove(Edges(f, from), to, t))
    BY DEF RemoveEdge, WithPlaceholders
  <1>5. GraphOK(h)
    BY <1>1, <1>3, <1>4, WithEdgesOK
  <1> QED BY <1>1, <1>4, <1>5, WithEdgesEffect

-------------------------------------------------------------------------------
(***************************************************************************)
(* No timestamp goes back.                                                 *)
(***************************************************************************)
GraphGrows(g, h) ==
    /\ Grows(g.keys, h.keys)
    /\ \A v \in DOMAIN g.value : Grows(Edges(g, v), Edges(h, v))

LEMMA KeysWellFormed ==
    ASSUME NEW g, GraphOK(g)
    PROVE  WellFormed(g.keys) /\ DOMAIN g.value = DOMAIN g.keys.map
  BY DEF GraphOK

LEMMA GraphGrowsReflexive ==
    ASSUME NEW g, GraphOK(g)
    PROVE  GraphGrows(g, g)
  BY KeysWellFormed, EdgesOK, GrowsReflexive DEF GraphGrows

LEMMA AddVertexGrows ==
    ASSUME NEW g, GraphOK(g), NEW v \in Vertex, NEW t \in Nat
    PROVE  GraphGrows(g, AddVertex(g, v, t))
  BY KeysWellFormed, AddVertexOK, AddGrows, EdgesOK, GrowsReflexive DEF GraphGrows

LEMMA PrunedGrows ==
    ASSUME NEW g, GraphOK(g), NEW x \in DOMAIN g.value, NEW v, NEW t \in Nat
    PROVE  Grows(Edges(g, x), PrunedEdges(g, x, v, t))
  <1>1. WellFormed(Edges(g, x))
    BY EdgesOK
  <1>2. /\ Grows(Edges(g, x), Clear(Edges(g, x), t))
        /\ Grows(Edges(g, x), Remove(Edges(g, x), v, t))
        /\ Grows(Edges(g, x), Edges(g, x))
    BY <1>1, ClearGrows, RemoveGrows, GrowsReflexive
  <1> QED BY <1>2 DEF PrunedEdges

LEMMA RemoveVertexGrows ==
    ASSUME NEW g, GraphOK(g), NEW v \in Vertex, NEW t \in Nat
    PROVE  GraphGrows(g, RemoveVertex(g, v, t))
  BY KeysWellFormed, RemoveVertexOK, RemoveGrows, PrunedGrows DEF GraphGrows

LEMMA ClearVertexEdgesGrows ==
    ASSUME NEW g, GraphOK(g), NEW v \in Vertex, NEW t \in Nat
    PROVE  GraphGrows(g, ClearVertexEdges(g, v, t))
  <1>1. \A x \in DOMAIN g.value : /\ Grows(Edges(g, x), Clear(Edges(g, x), t))
                                  /\ Grows(Edges(g, x), Edges(g, x))
    BY EdgesOK, ClearGrows, GrowsReflexive
  <1> QED BY <1>1, KeysWellFormed, ClearVertexEdgesOK, GrowsReflexive DEF GraphGrows

LEMMA ClearVerticesGrows ==
    ASSUME NEW g, GraphOK(g), NEW t \in Nat
    PROVE  GraphGrows(g, ClearVertices(g, t))
  <1>1. \A x \in DOMAIN g.value : /\ Grows(Edges(g, x), Clear(Edges(g, x), t))
                                  /\ Grows(Edges(g, x), Edges(g, x))
    BY EdgesOK, ClearGrows, GrowsReflexive
  <1> QED BY <1>1, KeysWellFormed, ClearVerticesOK, ClearGrows DEF GraphGrows

\* Two calls on the keys in turn.
LEMMA TwiceGrows ==
    ASSUME NEW s, WellFormed(s), NEW k, NEW l, NEW t \in Nat
    PROVE  /\ Grows(s, Add(Add(s, k, t), l, t))
           /\ Grows(s, Remove(Remove(s, k, t), l, t))
  <1> DEFINE a == Add(s, k, t)
             r == Remove(s, k, t)
  <1>1. WellFormed(a) /\ WellFormed(r) /\ Grows(s, a) /\ Grows(s, r)
    <2> DEFINE K == {k}
    <2>1. k \in K
      OBVIOUS
    <2> HIDE DEF K
    <2> QED BY <2>1, AddOK, RemoveOK, AddGrows, RemoveGrows
  <1> HIDE DEF a, r
  <1>2. /\ WellFormed(Add(a, l, t)) /\ Grows(a, Add(a, l, t))
        /\ WellFormed(Remove(r, l, t)) /\ Grows(r, Remove(r, l, t))
    <2> DEFINE K == {l}
    <2>1. l \in K
      OBVIOUS
    <2> HIDE DEF K
    <2> QED BY <1>1, <2>1, AddOK, RemoveOK, AddGrows, RemoveGrows
  <1>3. Grows(s, Add(a, l, t)) /\ Grows(s, Remove(r, l, t))
    BY <1>1, <1>2, GrowsTransitive
  <1> QED BY <1>3 DEF a, r

LEMMA WithdrawEdgeGrows ==
    ASSUME NEW g, GraphOK(g), NEW from \in DOMAIN g.value, NEW to \in DOMAIN g.value
    PROVE  GraphGrows(g, WithdrawEdge(g, from, to))
  <1> DEFINE high == HighTime(g, from, to)
             h == WithdrawEdge(g, from, to)
  <1>1. high \in Nat
    BY HighTimeType
  <1>2. /\ h.keys = g.keys
        /\ Edges(h, from) = IF Dangles(g, from, to)
                            THEN Remove(Edges(g, from), to, high)
                            ELSE Edges(g, from)
        /\ \A x \in DOMAIN g.value : x # from => Edges(h, x) = Edges(g, x)
    BY WithdrawEdgeOK
  <1> HIDE DEF high, h
  <1>3. Grows(Edges(g, from), Remove(Edges(g, from), to, high))
    BY <1>1, EdgesOK, RemoveGrows
  <1>4. GraphGrows(g, h)
    BY <1>2, <1>3, KeysWellFormed, EdgesOK, GrowsReflexive DEF GraphGrows
  <1> QED BY <1>4 DEF h

LEMMA AddEdgeGrows ==
    ASSUME NEW g, GraphOK(g), NEW from \in Vertex, NEW to \in Vertex, NEW t \in Nat
    PROVE  GraphGrows(g, AddEdge(g, from, to, t))
  <1> DEFINE f == WithEnds(g, from, to, t)
             h == BoundEdge(f, from, to, t)
             w == WithdrawEdge(h, from, to)
  <1>1. /\ GraphOK(f)
        /\ f.keys = Add(Add(g.keys, from, t), to, t)
        /\ DOMAIN f.value = DOMAIN g.value \cup {from, to}
        /\ \A x \in DOMAIN g.value : Edges(f, x) = Edges(g, x)
    BY WithEndsOK
  <1>2. Grows(g.keys, f.keys)
    BY <1>1, KeysWellFormed, TwiceGrows
  <1> HIDE DEF f
  <1>3. /\ GraphOK(h) /\ h.keys = f.keys /\ DOMAIN h.value = DOMAIN f.value
        /\ Edges(h, from) = Add(Edges(f, from), to, t)
        /\ \A x \in DOMAIN f.value : x # from => Edges(h, x) = Edges(f, x)
    <2>1. from \in DOMAIN f.value /\ to \in DOMAIN f.value
      BY <1>1
    <2>2. h = BoundEdge(f, from, to, t)
      OBVIOUS
    <2> HIDE DEF h
    <2> QED BY <1>1, <2>1, <2>2, BoundEdgeOK
  <1> HIDE DEF h
  <1>4. GraphOK(w) /\ w.keys = h.keys /\ DOMAIN w.value = DOMAIN h.value /\ GraphGrows(h, w)
    BY <1>1, <1>3, WithdrawEdgeOK, WithdrawEdgeGrows
  <1> HIDE DEF w
  <1>5. ASSUME NEW x \in DOMAIN g.value
        PROVE  Grows(Edges(g, x), Edges(w, x))
    <2>1. /\ WellFormed(Edges(g, x)) /\ WellFormed(Edges(h, x)) /\ WellFormed(Edges(w, x))
          /\ WellFormed(Edges(f, x))
      BY <1>1, <1>3, <1>4, EdgesOK
    <2>2. Grows(Edges(f, x), Edges(h, x))
      BY <1>1, <1>3, <2>1, AddGrows, GrowsReflexive
    <2>3. Grows(Edges(h, x), Edges(w, x))
      BY <1>1, <1>3, <1>4 DEF GraphGrows
    <2> QED BY <1>1, <2>1, <2>2, <2>3, GrowsTransitive
  <1>6. GraphGrows(g, w)
    BY <1>2, <1>3, <1>4, <1>5 DEF GraphGrows
  <1> QED BY <1>6, AddEdgeIs DEF f, h, w

LEMMA RemoveEdgeGrows ==
    ASSUME NEW g, GraphOK(g), NEW from \in Vertex, NEW to \in Vertex, NEW t \in Nat
    PROVE  GraphGrows(g, RemoveEdge(g, from, to, t))
  <1> DEFINE f == WithPlaceholders(g, from, to)
             h == RemoveEdge(g, from, to, t)
  <1>1. /\ GraphOK(f)
        /\ f.keys = Remove(Remove(g.keys, from, 0), to, 0)
        /\ DOMAIN f.value = DOMAIN g.value \cup {from, to}
        /\ \A x \in DOMAIN g.value : Edges(f, x) = Edges(g, x)
    BY WithPlaceholdersOK
  <1>2. /\ h.keys = f.keys
        /\ Edges(h, from) = Remove(Edges(f, from), to, t)
        /\ \A x \in DOMAIN f.value : x # from => Edges(h, x) = Edges(f, x)
    BY RemoveEdgeOK
  <1>3. Grows(g.keys, f.keys)
    BY <1>1, KeysWellFormed, TwiceGrows
  <1> HIDE DEF f, h
  <1>4. ASSUME NEW x \in DOMAIN g.value
        PROVE  Grows(Edges(g, x), Edges(h, x))
    <2>1. WellFormed(Edges(f, x)) /\ WellFormed(Edges(g, x))
      BY <1>1, EdgesOK
    <2> QED BY <1>1, <1>2, <2>1, RemoveGrows, GrowsReflexive
  <1>5. GraphGrows(g, h)
    BY <1>2, <1>3, <1>4 DEF GraphGrows
  <1> QED BY <1>5 DEF h

-------------------------------------------------------------------------------
(***************************************************************************)
(* The replicas.  Whatever the action, a step applies one operation to the *)
(* graph of one replica.                                                   *)
(***************************************************************************)
Applied(g, op) ==
    CASE op.kind = "add_vertex"         -> AddVertex(g, op.vertex, op.stamp)
      [] op.kind = "remove_vertex"      -> RemoveVertex(g, op.vertex, op.stamp)
      [] op.kind = "add_edge"           -> AddEdge(g, op.from, op.to, op.stamp)
      [] op.kind = "remove_edge"        -> RemoveEdge(g, op.from, op.to, op.stamp)
      [] op.kind = "clear_vertex_edges" -> ClearVertexEdges(g, op.vertex, op.stamp)
      [] op.kind = "clear_vertices"     -> ClearVertices(g, op.stamp)

LEMMA OpType ==
    ASSUME NEW op \in Op
    PROVE  /\ op.kind \in {"add_vertex", "remove_vertex", "add_edge", "remove_edge",
                           "clear_vertex_edges", "clear_vertices"}
           /\ op.stamp \in Stamp /\ op.stamp \in Nat /\ op.stamp > 0
           /\ op.kind \in {"add_vertex", "remove_vertex", "clear_vertex_edges"}
                 => op.vertex \in Vertex
           /\ op.kind \in {"add_edge", "remove_edge"} => op.from \in Vertex /\ op.to \in Vertex
  <1>1. \A t \in Stamp : t \in Nat /\ t > 0
    BY StampAssumption
  <1>2. CASE op \in VertexOp
    BY <1>1, <1>2 DEF VertexOp
  <1>3. CASE op \in EdgeOp
    BY <1>1, <1>3 DEF EdgeOp
  <1>4. CASE op \in ClearOp
    BY <1>1, <1>4 DEF ClearOp
  <1> QED BY <1>2, <1>3, <1>4 DEF Op

LEMMA AppliedOK ==
    ASSUME NEW g, GraphOK(g), NEW op \in Op
    PROVE  GraphOK(Applied(g, op)) /\ GraphGrows(g, Applied(g, op))
  <1>1. CASE op.kind = "add_vertex"
    BY <1>1, OpType, AddVertexOK, AddVertexGrows DEF Applied
  <1>2. CASE op.kind = "remove_vertex"
    BY <1>2, OpType, RemoveVertexOK, RemoveVertexGrows DEF Applied
  <1>3. CASE op.kind = "add_edge"
    BY <1>3, OpType, AddEdgeOK, AddEdgeGrows DEF Applied
  <1>4. CASE op.kind = "remove_edge"
    BY <1>4, OpType, RemoveEdgeOK, RemoveEdgeGrows DEF Applied
  <1>5. CASE op.kind = "clear_vertex_edges"
    BY <1>5, OpType, ClearVertexEdgesOK, ClearVertexEdgesGrows DEF Applied
  <1>6. CASE op.kind = "clear_vertices"
    BY <1>6, OpType, ClearVerticesOK, ClearVerticesGrows DEF Applied
  <1> QED BY <1>1, <1>2, <1>3, <1>4, <1>5, <1>6, OpType

LEMMA StepApplies ==
    ASSUME NEW r \in Replica, NEW op \in Op, Step(r, op)
    PROVE  Call(r, op) /\ graph' = [graph EXCEPT ![r] = Applied(graph[r], op)]
  <1>1. CASE add_vertex(r, op)
    BY <1>1 DEF add_vertex, Applied
  <1>2. CASE remove_vertex(r, op)
    BY <1>2 DEF remove_vertex, Applied
  <1>3. CASE add_edge(r, op)
    BY <1>3 DEF add_edge, Applied
  <1>4. CASE remove_edge(r, op)
    BY <1>4 DEF remove_edge, Applied
  <1>5. CASE clear_vertex_edges(r, op)
    BY <1>5 DEF clear_vertex_edges, Applied
  <1>6. CASE clear_vertices(r, op)
    BY <1>6 DEF clear_vertices, Applied
  <1> QED BY <1>1, <1>2, <1>3, <1>4, <1>5, <1>6 DEF Step

NetOK ==
    /\ issued \subseteq Op
    /\ delivered \in [Replica -> SUBSET Op]
    /\ context \in [Stamp -> SUBSET Op]

GraphsOK == DOMAIN graph = Replica /\ \A r \in Replica : GraphOK(graph[r])

StateOK == NetOK /\ GraphsOK

LEMMA InitStateOK == Init => StateOK
  BY NewGraphOK DEF Init, NetInit, StateOK, NetOK, GraphsOK

LEMMA CallNetOK ==
    ASSUME NetOK, NEW r \in Replica, NEW op \in Op, Call(r, op)
    PROVE  NetOK' /\ delivered' = [delivered EXCEPT ![r] = delivered[r] \cup {op}]
  <1>1. CASE Originate(r, op)
    BY <1>1, OpType DEF NetOK, Originate
  <1>2. CASE Receive(r, op)
    BY <1>2 DEF NetOK, Receive
  <1> QED BY <1>1, <1>2 DEF Call

LEMMA NextStateOK == StateOK /\ [Next]_vars => StateOK'
  <1> SUFFICES ASSUME StateOK, [Next]_vars
               PROVE  StateOK'
    OBVIOUS
  <1>1. ASSUME NEW r \in Replica, NEW op \in Op, Step(r, op)
        PROVE  StateOK'
    <2>1. Call(r, op) /\ graph' = [graph EXCEPT ![r] = Applied(graph[r], op)]
      BY <1>1, StepApplies
    <2>2. NetOK'
      BY <2>1, CallNetOK DEF StateOK
    <2>3. GraphsOK'
      BY <2>1, AppliedOK DEF StateOK, GraphsOK
    <2> QED BY <2>2, <2>3 DEF StateOK
  <1>2. CASE UNCHANGED vars
    BY <1>2 DEF vars, StateOK, NetOK, GraphsOK
  <1> QED BY <1>1, <1>2 DEF Next

\* The inductive invariant: at both levels of every graph the counter is the number of
\* living entries, and the vertices have one entry each, those edges lead to included.
THEOREM StateCorrect == Spec => []StateOK
  BY InitStateOK, NextStateOK, PTL DEF Spec

\* Every variable has its type in every reachable state, whatever is delivered in whatever
\* order: none of the counters goes below zero, at either level.
THEOREM GraphTypeCorrect == Spec => []TypeOK
  <1>1. ASSUME NEW s, WellFormed(s), DOMAIN s.map \subseteq Vertex
        PROVE  VertexSet(s)
    BY <1>1, AliveFinite DEF WellFormed, VertexSet
  <1>2. ASSUME NEW g, GraphOK(g), NEW v \in DOMAIN g.value
        PROVE  VertexSet(Edges(g, v))
    BY <1>1, <1>2, EdgesOK DEF GraphOK
  <1>3. ASSUME NEW g, GraphOK(g)
        PROVE  /\ g = MapState(g.keys, g.value)
               /\ VertexSet(g.keys)
               /\ DOMAIN g.value = DOMAIN g.keys.map
    BY <1>1, <1>3 DEF GraphOK
  <1>4. StateOK => TypeOK
    BY <1>2, <1>3 DEF StateOK, NetOK, GraphsOK, TypeOK
  <1> QED BY <1>4, StateCorrect, PTL

\* Each of the counters remove_vertex, add_edge and the clears go through in one call, of
\* the vertices and of every edge set, is the number of what an iteration visits.
THEOREM GraphSizesCorrect == Spec => []SizesAreAliveCounts
  <1>1. StateOK => SizesAreAliveCounts
    BY EdgesOK DEF StateOK, GraphsOK, GraphOK, WellFormed, SizesAreAliveCounts, Vertices, Living
  <1> QED BY <1>1, StateCorrect, PTL

\* The pairs of vertices with an edge, by the vertex they come from.
LEMMA EdgesFrom ==
    ASSUME NEW g, GraphOK(g)
    PROVE  /\ StartingIn(EdgesOf(g), Vertices(g)) = EdgesOf(g)
           /\ \A v \in Vertices(g) :
                 StartingIn(EdgesOf(g), {v}) = {<<v, to>> : to \in Alive(Edges(g, v))}
  <1>1. /\ Vertices(g) \subseteq DOMAIN g.value
        /\ Vertices(g) \subseteq Vertex
        /\ \A v : v \in Vertices(g) <=> HasVertex(g, v)
    BY AliveFinite, AliveIsFound DEF GraphOK, Vertices, Living, HasVertex, FindKey
  <1>2. \A v \in Vertices(g) : Alive(Edges(g, v)) \subseteq Vertex
    BY <1>1, EdgesOK, AliveFinite DEF GraphOK
  <1>3. \A e : e \in EdgesOf(g) <=> /\ e \in Vertex \X Vertex
                                    /\ e[1] \in Vertices(g)
                                    /\ e[2] \in Alive(Edges(g, e[1]))
    BY <1>1, AliveIsFound DEF EdgesOf, HasEdge
  <1>4. StartingIn(EdgesOf(g), Vertices(g)) = EdgesOf(g)
    BY <1>3 DEF StartingIn
  <1>5. ASSUME NEW v \in Vertices(g)
        PROVE  StartingIn(EdgesOf(g), {v}) = {<<v, to>> : to \in Alive(Edges(g, v))}
    BY <1>1, <1>2, <1>3 DEF StartingIn
  <1> QED BY <1>4, <1>5

\* The same with the removed edges and vertices.
CrdtEdgesOf(g) == {e \in Vertex \X Vertex : CrdtHasEdge(g, e[1], e[2])}

LEMMA CrdtEdgesFrom ==
    ASSUME NEW g, GraphOK(g)
    PROVE  /\ StartingIn(CrdtEdgesOf(g), CrdtKeys(g)) = CrdtEdgesOf(g)
           /\ EdgesOf(g) \subseteq CrdtEdgesOf(g)
           /\ \A v \in CrdtKeys(g) :
                 StartingIn(CrdtEdgesOf(g), {v}) = {<<v, to>> : to \in DOMAIN Edges(g, v).map}
  <1>1. CrdtKeys(g) = DOMAIN g.value /\ CrdtKeys(g) \subseteq Vertex
    BY DEF GraphOK, CrdtKeys
  <1>2. \A v \in CrdtKeys(g) : DOMAIN Edges(g, v).map \subseteq Vertex
    BY <1>1, EdgesOK DEF GraphOK
  <1>3. \A e : e \in CrdtEdgesOf(g) <=> /\ e \in Vertex \X Vertex
                                        /\ e[1] \in CrdtKeys(g)
                                        /\ e[2] \in DOMAIN Edges(g, e[1]).map
    BY DEF CrdtEdgesOf, CrdtHasEdge, CrdtFind
  <1>4. StartingIn(CrdtEdgesOf(g), CrdtKeys(g)) = CrdtEdgesOf(g)
    BY <1>3 DEF StartingIn
  <1>5. ASSUME NEW v \in CrdtKeys(g)
        PROVE  StartingIn(CrdtEdgesOf(g), {v}) = {<<v, to>> : to \in DOMAIN Edges(g, v).map}
    BY <1>1, <1>2, <1>3 DEF StartingIn
  <1>6. EdgesOf(g) \subseteq CrdtEdgesOf(g)
    BY <1>3 DEF EdgesOf, HasEdge, HasVertex, FindKey, Find, CrdtKeys
  <1> QED BY <1>4, <1>5, <1>6

LEMMA EdgeCounts ==
    ASSUME NEW g, GraphOK(g)
    PROVE  /\ SizeEdges(g) = Cardinality(EdgesOf(g))
           /\ CrdtSizeEdges(g) >= SizeEdges(g)
  <1> DEFINE h == [v \in Vertices(g) |-> Edges(g, v).sizeAlive]
             c == [v \in CrdtKeys(g) |-> Cardinality(DOMAIN Edges(g, v).map)]
  <1>1. /\ IsFiniteSet(Vertices(g))
        /\ Vertices(g) \subseteq DOMAIN g.value
        /\ IsFiniteSet(CrdtKeys(g))
        /\ CrdtKeys(g) = DOMAIN g.value
    BY AliveFinite DEF GraphOK, Vertices, Living, CrdtKeys, WellFormed
  <1>2. ASSUME NEW v \in DOMAIN g.value
        PROVE  /\ IsFiniteSet(Alive(Edges(g, v))) /\ IsFiniteSet(DOMAIN Edges(g, v).map)
               /\ Edges(g, v).sizeAlive = Cardinality(Alive(Edges(g, v)))
    BY EdgesOK, AliveFinite DEF WellFormed
  <1>3. ASSUME NEW v \in DOMAIN h
        PROVE  /\ IsFiniteSet(StartingIn(EdgesOf(g), {v}))
               /\ h[v] = Cardinality(StartingIn(EdgesOf(g), {v}))
    <2> DEFINE A == Alive(Edges(g, v))
    <2>1. StartingIn(EdgesOf(g), {v}) = {<<v, a>> : a \in A} /\ IsFiniteSet(A) /\ h[v] = Cardinality(A)
      BY <1>1, <1>2, EdgesFrom
    <2> HIDE DEF A, h
    <2> QED BY <2>1, PairsFrom
  <1>4. ASSUME NEW v \in DOMAIN c
        PROVE  /\ IsFiniteSet(StartingIn(CrdtEdgesOf(g), {v}))
               /\ c[v] = Cardinality(StartingIn(CrdtEdgesOf(g), {v}))
    <2> DEFINE A == DOMAIN Edges(g, v).map
    <2>1. StartingIn(CrdtEdgesOf(g), {v}) = {<<v, a>> : a \in A} /\ IsFiniteSet(A) /\ c[v] = Cardinality(A)
      BY <1>1, <1>2, CrdtEdgesFrom
    <2> HIDE DEF A, c
    <2> QED BY <2>1, PairsFrom
  <1>5. DOMAIN h = Vertices(g) /\ DOMAIN c = CrdtKeys(g)
    OBVIOUS
  <1>6. SizeEdges(g) = SumFunction(h) /\ CrdtSizeEdges(g) = SumFunction(c)
    BY DEF SizeEdges, CrdtSizeEdges
  <1> HIDE DEF h, c
  <1>7. SumFunction(h) = Cardinality(StartingIn(EdgesOf(g), Vertices(g)))
    BY <1>1, <1>3, <1>5, SumOfCounts
  <1>8. /\ SumFunction(c) = Cardinality(StartingIn(CrdtEdgesOf(g), CrdtKeys(g)))
        /\ IsFiniteSet(StartingIn(CrdtEdgesOf(g), CrdtKeys(g)))
    BY <1>1, <1>4, <1>5, SumOfCounts
  <1>9. SizeEdges(g) = Cardinality(EdgesOf(g)) /\ CrdtSizeEdges(g) = Cardinality(CrdtEdgesOf(g))
    BY <1>6, <1>7, <1>8, EdgesFrom, CrdtEdgesFrom
  <1>10. Cardinality(EdgesOf(g)) <= Cardinality(CrdtEdgesOf(g))
    BY <1>8, CrdtEdgesFrom, FS_Subset
  <1>11. /\ Cardinality(EdgesOf(g)) \in Nat
         /\ Cardinality(CrdtEdgesOf(g)) \in Nat
    BY <1>8, CrdtEdgesFrom, FS_Subset, FS_CardinalityType
  <1> QED BY <1>9, <1>10, <1>11

\* size_edges(), the counters of the living vertices added up, is the number of edges
\* has_edge finds, and crdt_size_edges() is never less, whatever late or repeated call the
\* counters went through.
THEOREM GraphEdgeCountCorrect == Spec => []EdgeCountIsEdges
  <1>1. StateOK => EdgeCountIsEdges
    BY EdgeCounts DEF StateOK, GraphsOK, EdgeCountIsEdges
  <1> QED BY <1>1, StateCorrect, PTL

\* Whatever add_edge and remove_edge bind, the vertex it leads to has an entry.
THEOREM EdgesLeadSomewhereCorrect == Spec => []EdgesLeadSomewhere
  <1>1. StateOK => EdgesLeadSomewhere
    BY EdgesOK DEF StateOK, GraphsOK, EdgesLeadSomewhere
  <1> QED BY <1>1, StateCorrect, PTL

\* No late or repeated call takes a timestamp back, at either level.
THEOREM GraphTimestampsCorrect == Spec => TimestampsGrow
  <1>1. StateOK /\ [Next]_vars =>
          [\A r \in Replica :
              /\ NoOlder(graph[r].keys, graph'[r].keys)
              /\ \A v \in DOMAIN graph[r].value :
                    NoOlder(Edges(graph[r], v), Edges(graph'[r], v))]_vars
    <2> SUFFICES ASSUME StateOK, NEW r \in Replica, NEW op \in Op, Step(r, op),
                        NEW q \in Replica
                 PROVE  /\ NoOlder(graph[q].keys, graph'[q].keys)
                        /\ \A v \in DOMAIN graph[q].value :
                              NoOlder(Edges(graph[q], v), Edges(graph'[q], v))
      BY DEF Next
    <2>1. graph' = [graph EXCEPT ![r] = Applied(graph[r], op)]
      BY StepApplies
    <2>2. GraphOK(graph[q]) /\ DOMAIN graph = Replica
      BY DEF StateOK, GraphsOK
    <2>3. GraphGrows(graph[q], graph'[q])
      BY <2>1, <2>2, AppliedOK, GraphGrowsReflexive
    <2> QED BY <2>3 DEF GraphGrows, Grows, NoOlder
  <1> QED BY <1>1, StateCorrect, PTL DEF Spec, TimestampsGrow
===============================================================================
