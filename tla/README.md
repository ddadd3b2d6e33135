# Verification of collabserver-datatypes

TLA+ models of the replicated data types of this repository, the TLC runs that
check them and the TLAPS proofs of their main properties.

The library is header-only C++: `include/collabserver/datatypes/`. Paths below
are relative to that directory.

## 1. The system

| component | state | operations | interacts with |
|---|---|---|---|
| `CmRDT/LWWRegister.h` | `_reg`, `_timestamp` | `update`, `query`, `timestamp`, `crdt_equal` | nothing |
| `CmRDT/LWWSet.h` | `_map`: key to (timestamp, isRemoved); `_sizeAlive`; `_lastClearTime` | `add`, `remove`, `clear`, `find`/`count`, iteration over alive keys, `crdt_*` access to all keys, `==`, `crdt_equal` | nothing |
| `CmRDT/LWWMap.h` | the same, with a value in every element | the same, `at`/`crdt_at` | values may be CmRDTs themselves |
| `CmRDT/LWWGraph.h` | `_adj`: an `LWWMap` from a vertex to its content and the `LWWSet` of the vertices its edges lead to | `add_vertex`, `remove_vertex`, `add_edge`, `remove_edge`, `clear_vertex_edges`, `clear_vertices`, queries | calls `LWWMap` and `LWWSet`, several times per operation |
| `collabdata/CollabData.h` | list of observers, one broadcaster | notify either of them, `applyExternOperation` (abstract) | user data types, UI, network |
| `CollabDataOperation`, `...Handler`, `...Observer` | none | interfaces | implemented by the user |
| transport | | | outside the library |

Nothing in the library runs concurrently inside one replica. The concurrency is
between replicas: each applies its users' operations at once, sends them through
its broadcaster, and applies those of the others when they arrive. The doc
comments of all four containers make the same promise (`LWWSet.h:31-40`): every
operation commutes with every other, so they may be delivered in any order, more
than once, without any synchronisation. They ask one thing: timestamps are unique,
totally ordered and consistent with causality (`LWWSet.h:42-51`).

What is hard, and what makes each component correct:

- **Register.** Late and repeated updates. Correct: it holds the latest update
  among those applied.
- **Set.** Late and repeated operations; a remove before its add; `clear`, which
  stamps the keys it finds and must still act on the keys it did not find; a
  counter of alive keys kept by hand in four places. Correct: replicas that applied
  the same operations are equal, show for each key the operation with the highest
  timestamp, count right, return `true` exactly when the user sees a change.
- **Map.** As the set; a removed element keeps its value, and an update of a value may
  come before the add of its key. Its iterators skip removed elements. Correct: as the
  set, the content of a key is that of its latest update, and an iteration visits the
  living keys once each.
- **Graph.** Each operation changes several containers whose timestamps do not know
  of each other. `add_edge` must not bring an edge of a removed vertex back;
  `remove_edge` must leave a trace when it comes first. Correct: no edge without
  its two vertices; the vertices are those whose last word is an add; replicas with
  the same operations are equal.
- **CollabData.** Observers called back while the list is walked, which may change the
  data and so start a notification inside the one that called them; local operations
  broadcast once, the invisible ones too, and external ones never. Correct: a display
  fed by the notifications shows the data, and the displays of all replicas end up
  the same.

`PROJECT.json` lists each hazard with its line and the properties that cover it.

## 2. The modules

```
Broadcast                       the transport: issued, delivered, context
  SetOperations                 operations on a set and their last word
    LWWOrder                    abstract specification of a replicated set
    LWWSetReplicas  + LWWSet    replicas of an LWWSet; MCLWWSet instantiates it
      LWWSetProofs              types, counters, idempotence, convergence, refinement
    MapOfRegisters              operations on an LWWMap of LWWRegisters
      MapOfRegistersLemmas      what each operation does to keys and contents
      LWWMapReplicas            replicas of such a map
        LWWMapProofs            types, last writes, keys, convergence, iteration
      CollabDataReplicas        such a map as a CollabData: observers, broadcasters
        CollabDataProofs        types, displays; instantiates LWWMapProofs for the data
  LWWRegisterReplicas + LWWRegister
    LWWRegisterProofs           last writer wins
  GraphOperations               operations on a graph and the last words on vertices and edges
    GraphOrder                  abstract specification of a graph that keeps its vertices
    LWWGraphReplicas + LWWGraph replicas of an LWWGraph; MCLWWGraph instantiates it
      LWWGraphProofs            types, counters of both levels, edge counts, timestamps
        LWWGraphSafety          dangling edges, vertices, results, memory, convergence,
                                removed and latest edges, refinement
LWWSet <- LWWMap <- LWWGraph    the containers, each built on the one before
LWWSet <- LWWSetLemmas          one set, its methods and its history; induction and counting
                                over finite sets: used by all the proofs above
LWWMap <- LWWMapIterator        its iterators
CollabData                      the list of observers and the notification loop
Examples                        the programs of src/examples/CmRDT
```

**Containers** (`LWWSet`, `LWWMap`, `LWWGraph`, `LWWRegister`, and the observers of
`CollabData`) have no variables. One
object is a value, one method an operator from the value before to the value
after; what a method returns is an operator of its own (`AddResult`, `AddEdgeInfo`). `LWWSet` is a record `map`,
`sizeAlive`, `lastClearTime`, for `_map`, `_sizeAlive`, `_lastClearTime`; the
domain of `map` is the keys ever seen, as nothing is ever erased. `LWWMap` is
separate C++ code that repeats the algorithm of `LWWSet` on its `Element`; the
lines were compared, and the model is a set of keys together with a value per key.
`LWWGraph` is such a map whose values are sets. A vertex's content is left out: no modifier
reads or writes it. Only `operator==` of a vertex compares it (`LWWGraph.h:787`), and it
stays as constructed unless the user changes it through a reference; `SameVertex` compares
the edges.

**Iterators.** An `unordered_map` keeps its elements in some bucket order. `LWWMapIterator`
takes this order as a sequence of the keys, a position as an index of it; constructor
and `operator++` are `Begin` and `Advance`, which both skip to the next living element.
The properties quantify over all orders.

**Replicas** modules hold one object per replica and one action per modifier. An
action is one call of the method, by a user who issues a new operation
(`Originate`) or by the transport (`Receive`); the code runs the same method for
both. Methods run to completion, except in `CollabDataReplicas`.

**MapOfRegisters** is the use `LWWMap.h:63` recommends for contents that change. How an
update reaches its register is left to the user of the library; here it does what
`LWWGraph::remove_edge` does with its vertices: a key not seen yet is entered as removed
at timestamp 0, so that an update that comes early is kept.

**CollabDataReplicas** puts such a map into the frame of `CollabData.h`. The base class is
modelled from its source; what the doc (`CollabData.h:79-89`) leaves to the application
is marked external: the data notifies its observers when the containers' results say that
the user sees a change, and its broadcaster always. One action is one call:
`localOperation` and `applyExternOperation` change the data and enter the notification
loop (`calls`), `onOperation` is the return of the observer whose turn it is. A *mirror* is
a display that is updated from the operations it is told; a *reactor* may call
`localOperation` from inside `onOperation`, which nests a loop in the one that called it.
Registering or clearing observers from inside a callback invalidates the vector being
walked: undefined in the code, and excluded by `Idle`.

**Examples** takes the calls of both users from the three example programs; each user
makes its calls in the order of the source, and the other's arrive at any time after they
were issued, in any order.

**Broadcast** models the transport, which is not in the repository. Any issued
operation may be applied by any replica at any time, again and again; nothing is
ever removed from `issued`, so loss is simply an operation never delivered.
`Originate` draws a timestamp no one used, above all the replica has seen: the
documented assumption, and no more (two replicas that have not heard of each other
may draw in any order). With `CausalDelivery` an operation is delivered only after
those its origin had applied, and users remove, or clear the edges of, only what
they have: that describes a stronger transport and more careful users than the
doc comments ask for, and only the runs that need it use it.

**Slips.** Most modules also define what each method would
become with one line missing or wrong. No specification uses them; putting one
in the place of its method makes TLC find the property it endangers violated.

**LWWOrder** is the abstract specification: a replica shows exactly the keys whose
operation with the highest timestamp, among those it applied, is an add. It has no
metadata and no counters. `LWWSetReplicas` implements it with
`view[r] <- Alive(set[r])`.

**GraphOrder** does the same for a graph: a replica shows the vertices some operation added
and the edges whose operation with the highest timestamp is an `add_edge`, a
`clear_vertex_edges` counting for all the edges out of its vertex. `LWWGraphReplicas`
implements it, with `view[r]` the vertices and edges that `has_vertex` and `has_edge` find,
where no vertex is removed. Removals have no such specification: by 5.2 what a
replica shows then depends on the order of delivery.

## 3. The runs

| run | checks | bounds |
|---|---|---|
| `register` | types; `LastWriterWins`; `EventualAgreement` | 3 replicas, 2 values, 3 updates |
| `set_any` | types; `SizeIsAliveCount`; `Idempotence`; `TimestampsGrow`; `ResultsTellVisibleChange`; `AddRemoveLastWord`, clears included; `AddRemoveConvergence` on replicas not cleared so far; any order | 2 replicas, 2 keys, 4 operations |
| `set_causal` | `Convergence`; `ImplementsLWWOrder`; `EventualConsistency`, with `clear`, causal delivery | the same |
| `set_clear_unordered` | `UserConvergence` with `clear`, any order: violated (5.1) | 2 replicas, 1 key, 3 operations |
| `graph_any` | types; `SizesAreAliveCounts`; `EdgeCountIsEdges`; `EdgesLeadSomewhere`; `RemembersAll`; `TimestampsGrow`; `VerticesAreLastWord`; `RemovedEdgesStay` and `LatestEdgesShown`, six operations, any order; `EdgeConvergence` of replicas that no removal of a vertex and no clear has reached; `NoDanglingEdge`, `ResultsTellVisibleChange` on those that no clear has reached | 2 replicas, 2 vertices, 3 operations |
| `graph_causal` | `Convergence`; `ImplementsGraphOrder`; `EventualConsistency`, no vertex removed, causal delivery | the same |
| `graph_readded` | `UserConvergence`: violated (5.2) | the same |
| `graph_kept_edges` | `RemovedWithItsEdges`: violated (5.3) | 2 replicas, 1 vertex with a loop, 5 operations |
| `graph_duplicate` | `RemoveVertexIdempotent`: violated (5.4) | as `graph_any` |
| `map_registers` | types; `ValuesAreLastWrites`; `IterationVisitsLiving`; `UpdatesAddNoKey`, clears included; `Convergence` and `EventualConsistency` of maps not cleared; any order | 2 replicas, 2 keys, 2 values, 3 operations |
| `collab` | types; `DisplayIsData`; `DisplaysAgree`; `EventualDisplays` | 2 replicas, a mirror on each and a reactor on one, 1 key, 1 value, 3 operations |
| `examples` | `EqualOnceExchanged`; `EndsAsPrinted` | none: the programs are finite |

The bound of all runs but `examples` is `Stamp`: as every operation has a timestamp of
its own, it limits the number of operations ever issued. It does not limit deliveries.
Two replicas are enough to meet every order: one replica issues all the operations and
the other receives any subset of them in any order, or both issue some; a third one adds
nothing a replica could notice, since operations carry no sender. Three timestamps
give every triple of operations on a key or an edge; the set has four, so that two
keys, a clear and a repetition meet in one behaviour. Two vertices give
both loops and edges between distinct vertices. In `map_registers` the two keys give two
removed elements in a row to skip.

`collab` has a second bound, `Plain`: a replica in it has no reactor, and issues
operations only when its broadcaster is set, which then stays. With `Plain = {}` there are
2.9 million states; `TypeOK` and `DisplayIsData` were checked on them once, with the same
outcome. Nesting goes three deep within the bound of `Stamp`. Other larger instances run once with the same
outcome: types, counters, `EdgesLeadSomewhere`, `TimestampsGrow` of `graph_any` with four
operations, and `Convergence` of `graph_causal` with three replicas, and with four
operations.

What the less obvious properties say:

- `AddRemoveLastWord`, `UpdatesAddNoKey` and `VerticesAreLastWord` are two bounds each. As a
  clear may not do all it should (5.1), what a replica shows is not a function of the operations
  it applied. It lies between two that are: every key whose last word, clears
  included, is an add is there, and no key whose last word, clears left out, is a remove. An add
  is never lost to an older clear, and a clear never brings a key back. Without a clear the
  two bounds are one set.
- `RemovedEdgesStay`: in the set of a vertex, removed or not, an edge is newer than any
  `remove_edge` of it that was applied, whichever came first. Withdrawals and removals of
  vertices take edges away and leave marks with timestamps of their own; what is left never contradicts an
  explicit removal. That an edge of the last words is there is not true (5.2, 5.5).
- `LatestEdgesShown` is its counterpart from below. An edge is in the graph if its `add_edge` is
  newer than every removal of the edge and, once an end was removed, than all that added or
  removed either end (`LastingEdges`). A withdrawal leaves a mark that lasts, with the
  timestamp of an add perhaps (5.5), and a late `remove_vertex` goes through the edges of other
  vertices: neither hides an edge newer than what the ends went through. Between the
  two bounds lie the edges that depend on the order of delivery.
- `ValuesAreLastWrites` and `UpdatesAddNoKey`: removes, clears and adds do not touch the
  content of a key, updates do not touch its presence, in whatever order they come.
  `DisplayIsData` needs this too: a key that comes back has a content already.
- `DisplayIsData`: what a display computed from the operations it was told, increments of
  its own size counter included, is what it would see by iterating over the data. It
  holds in the middle of nested notifications for a mirror registered before every
  reactor. A mirror registered after a reactor is told the inner operation before the
  outer one, and is not correct: the order of registration matters, which no comment of
  `CollabData.h` says.
- `DisplaysAgree`: displays on two replicas whose data applied the same operations,
  and no clear, show the same, though their replicas notified other operations,
  in another order, in loops nested otherwise.
- `EventualDisplays`: with broadcasters set before the first operation, the displays agree
  in the end. Operations made without a broadcaster are never sent.

**Fairness.** Liveness is checked under weak fairness of `Delivery(r)`: as long as
some issued operation has not reached replica `r`, one will be delivered.
The library never drops an operation it is given; that the transport brings it is
the assumption under which a CmRDT promises anything at all. Users are under no
fairness: they may stop at any time, and with `Stamp` exhausted they have. A
repeated delivery leaves `delivered` as it is and does not count as `Delivery`.
`collab` assumes as well that an observer once called returns (`onOperation`): the
notification loop of the code waits for it. Only `examples` disables deadlock checking, as
its programs end.

## 4. What is proved

For every set of replicas, keys or values, and timestamps, with `Stamp \subseteq
Nat \ {0}` and nothing else assumed unless it is said:

- *Register*: `RegisterTypeCorrect`, `LastWriterWinsCorrect`. Last writer wins is
  not inductive. The invariant adds that timestamps are unique and that a register
  is as recent as all its replica applied and comes from one of these updates.
- *Set, any delivery*: `TypeCorrect` and `SizeCorrect` rest on `SetOK`, which each
  method preserves: the type of one set, a finite domain, and the counter's
  meaning. The counter is a natural number only because it is a cardinality: the
  type invariant cannot be proved without the counting invariant.
  `TimestampsCorrect` and `IdempotenceCorrect` follow from `Absorbs`: what a set
  holds for a key is at least as recent as any operation it was given for it. An
  absorbed operation changes nothing and stays absorbed.
- *Set, adds and removes*: `AddRemoveConvergenceCorrect`, `AddRemoveLastWordCorrect`. Two
  replicas not cleared so far with the same operations hold the same set, in any order of
  delivery, even if others were cleared. The invariant `UnclearedInv` adds to `Absorbs` that a
  set without a clear holds nothing its operations do not explain. The two bounds on the alive
  keys hold with clears as well, and need only the part of `ComesFrom` (below) that clears do
  not break: each timestamp and mark comes from an operation on the key, or a clear, that was
  applied (`MarkedBy`). An alive key then has an add newer than all its removes; a
  key whose last word is an add is found, by `Absorbs`, and nothing newer can have
  marked it.
- *Set, convergence*: `ConvergenceInvHolds`, `ConvergenceCorrect`,
  `Implementation`. `Absorbs` bounds a set from below; `ComesFrom` bounds it from
  above: each timestamp, each mark, and the last clear come from an operation
  applied, and no key is older than the last clear. Both, with unique timestamps,
  determine the whole set from the operations applied (`OneSetPerHistory`) and make
  the alive keys those whose last word is an add (`ViewIsLastWord`). These three
  theorems assume

      Disciplined == "clear" \notin Kinds \/ CausalDelivery

  and the assumption is needed: `remove` is the one method that does not look at the
  last clear. A key it meets for the first time after a clear breaks `ComesFrom`
  (5.1). Under causal delivery a user who removes a key has its add in his
  context, so no replica meets the key there for the first time.

  The lemmas on histories (`LWWSetLemmas`) speak of calls on one set, and serve the edge
  sets of a graph as well.

  `ResultsCorrect` needs no such assumption: what `add` and `remove` return is what appears
  and disappears, for a well-formed set and any call.
- *Graph, any delivery*: `GraphTypeCorrect`, `GraphSizesCorrect`,
  `EdgesLeadSomewhereCorrect` and `GraphTimestampsCorrect`. `GraphOK` puts together what no
  method may break even between two of the calls it makes: the vertices are a well-formed
  map, every edge set is well-formed, and the target of every edge entry is an entry of
  the map. Each method is a sequence of calls on the map and on edge sets, and is followed
  call by call; `remove_vertex` and the two clears go through several edge sets at once.
  `GraphEdgeCountCorrect`: the sum of the counters of the living vertices is the number of
  edges `has_edge` finds. Given the counters, this is a fact about finite sets of pairs,
  counted by their first elements. `LWWSetLemmas` proves it by induction on the cardinality
  of the set. The induction is `SetInduction`, about a set of numbers rather than
  a predicate, which the provers could not instantiate.
- *Graph, memory*: `RemembersAllCorrect`, for all six operations and any delivery. `crdt_find`
  and `crdt_has_edge` find exactly the vertices and edges that operations applied so
  far name; the two clears enter nothing, and nothing is ever forgotten (`Seen`).
- *Graph, vertices*: `VerticesAreLastWordCorrect`, for all six operations and any delivery. As
  for the set, the timestamp and mark of a vertex are bounded from below and from above by the
  operations applied (`add_edge` counts as an add of its ends). `Marked` allows a mark at 0,
  which `remove_edge` leaves on a vertex not seen yet, and it allows clears.
- *Graph, removed edges*: `EdgeInvHolds`, `RemovedEdgesStayCorrect`, for all six operations and any
  delivery. An edge has absorbed every operation on it that was applied (`EdgesAbsorbed`), and
  one that is there bears the timestamp of an `add_edge` (`EdgesMarked`). Only the second
  needs an argument for withdrawals, removals and clears: they remove, and add nothing (`Keeps`).
- *Graph, latest edges*: `HiddenInvHolds`, `LatestEdgesShownCorrect`, for all six operations and any
  delivery. What marks an edge as removed, and the last clear of its set, bear the timestamp
  of an operation applied that may hide the edge, and not of an `add_edge` of it
  (`EdgesTraced`). For a withdrawal this is `WithdrawalHides`: the later of its ends bears the
  timestamp of an operation on that end, while one of the ends was removed, which no operation
  that adds both can explain. An edge that has absorbed the newest `add_edge`, and bears no
  mark of anything newer, is there.
- *Graph, where no clear came*: `SafetyInvHolds`, `NoDanglingEdgeCorrect`,
  `GraphResultsCorrect`. For the edges the invariant (`EdgesHeld`) says that an edge
  that is there has both its ends in the graph and is newer than neither, and that no
  edge set was cleared later than its vertex changed. A removal that succeeds is then newer
  than the edges of the vertex and than their last clear, so it removes them all. A late
  `add_edge` is withdrawn with the later timestamp of its two ends, which removes it because
  timestamps are unique: no other operation can have brought the same edge at the same time.
  With `clear_vertex_edges` the last part of the invariant fails (5.3).
- *Graph, where no vertex was removed*: `ConvergenceInvHolds`, `EdgeConvergenceCorrect`,
  `GraphConvergenceCorrect`, `GraphImplementation`. As long as no vertex was removed no edge
  is withdrawn, and each edge set is a set of its own, whose calls are the operations on the
  edges out of its vertex (`SettlingEdges`). The lemmas on the history of a set then
  apply to each of them (`EdgesKnown`): operations and unique timestamps determine the edges,
  as they do the vertices, hence the graph (`OneGraphPerHistory`) and what it shows
  (`EdgesAreView`). `EdgeConvergenceCorrect` assumes nothing of delivery or of other replicas.
  The last two theorems assume

      VerticesStay == /\ {"remove_vertex", "clear_vertices"} \cap Kinds = {}
                      /\ "clear_vertex_edges" \notin Kinds \/ CausalDelivery

  and need it: removals diverge (5.2), and so does `clear_vertex_edges` in any order, which
  is lost on a vertex not seen yet and does not commute with `remove_edge`, as in 5.1. Under
  causal delivery a user who removes an edge, or clears the edges of a vertex, has an
  operation that names it in his context (`ContextKnown`); by `Seen`, every replica that
  applies his operation has met the edge or the vertex.
- *Map*: `MapTypeCorrect`, `ValuesAreLastWritesCorrect`, `UpdatesAddNoKeyCorrect`,
  `MapConvergenceCorrect`. `MapOK` says that every key entered has one register and the keys
  are a well-formed set. That contents are last writes is inductive only when it is
  said of absent keys as well, whose content counts as the default: the placeholder an update
  enters is then a step like any other. Keys are bounded from both sides as in the set, clears
  included (`Marked`); an entry removed at 0 is explained by an update that came first.
  Contents and keys together determine the map, hence convergence. `IterationVisitsLivingCorrect`: the
  iterators visit each living key once and no other, whatever the order of the buckets.
  `Skip` ends at the least position that stops its loop. `Walk` is a recursive function; that
  one exists is shown by extending a solution one position at a time from the end, and what
  it visits from any position on likewise.
- *CollabData*: `CollabInvHolds`, `DisplayIsDataCorrect`, `CollabTypeCorrect`, for any number
  of observers and any depth of nesting. Only a reactor changes the data from
  inside a callback, so all notifications but the innermost wait at a reactor, and a mirror
  before every reactor has been told their operations. The innermost is the only one it
  may still have to be told, and until then its display is one `Shown` away from the data
  (`MirrorsOK`). That one `Shown` is right is `VisibleShown`: the containers' results say
  exactly when the keys, a content or the size change; `InvisibleShow` is its counterpart for
  operations nobody is told. A mirror never calls `crdt_at` for a key without an
  entry, since every key of an operation told was entered.
- *Displays of several replicas*: `DisplaysAgreeCorrect`. The data of a CollabData is changed as
  the map of `LWWMapReplicas` is (`DataIsMap`), so what `LWWMapProofs` proves of the map holds of it, in
  an instance of that module. `MapConvergenceCorrect` of the data, with
  `DisplayIsDataCorrect`, gives that displays agree.

Only model-checked:

- liveness (`EventualAgreement`, `EventualConsistency`, `EventualDisplays`), which the
  prover does not do;
- the examples, which are finite.

## 5. Where the code and its documentation disagree

Each of 1 to 5 was reproduced in C++ against the headers.

1. **`clear` does not commute with `remove` in `LWWSet` and `LWWMap`.** After
   `clear(3)`, `remove(k,1)`, `add(k,2)` the key is there; after `remove(k,1)`,
   `add(k,2)`, `clear(3)` it is not. `add` measures a new key against
   `_lastClearTime` (`LWWSet.h:283`), `remove` does not (`LWWSet.h:319`).
   Run `set_clear_unordered`.
2. **A late `add_edge` sees vertices as they are now.** `remove_vertex(b,2)`,
   `add_vertex(b,3)`, `add_edge(a,b,1)` has the edge, in the order of the
   timestamps it does not. `LWWGraph.h:517`. Run `graph_readded`.
3. **`remove_vertex` may leave the edges of the vertex behind.** After
   `add_vertex(a,1)`, `clear_vertex_edges(a,5)`, `remove_edge(a,b,2)`, `add_edge(a,b,3)`,
   the call `remove_vertex(a,4)` returns `true`, but its `edges.clear(4)`
   (`LWWGraph.h:459`) comes after a newer clear and does nothing, and its loop skips `a`
   itself; `add_vertex(a,6)` shows the edge again. The comment at 437-438 says that all
   edges of the vertex are removed. It takes a `remove_edge` older than the clear that
   reaches the replica after it, as in 5.1. Run `graph_kept_edges`, where a loop stands
   for the edge.
4. **`remove_vertex` is not idempotent.** Its loop over incoming edges
   (`LWWGraph.h:462`) runs even when the vertex was added again since, and takes an
   edge its first application left. Run `graph_duplicate`.

5. **A withdrawn edge may bear the timestamp of an add.** `add_edge` withdraws the edge of
   a removed end with the later timestamp of its two ends (`LWWGraph.h:520`), where the comment at
   481-482 says that of the remove. After `add_vertex(a,10)`, `remove_vertex(b,2)`,
   `add_edge(a,b,1)` the edge is marked with 10, and `add_edge(a,b,5)`, newer than the
   removal, is lost; with the two `add_edge` swapped the edge is there. No clear is involved and
   no vertex is added again, and causal delivery allows both orders. It takes four operations,
   more than the bound of the graph runs, and has no run: it was reproduced in C++ only.
   How much such a mark may hide is what `LatestEdgesShown` bounds.

Met while reading, and not given a run:

- `clear_vertex_edges` of a vertex not seen yet is lost (`LWWGraph.h:394`): an older
  `add_edge` that arrives later survives on that replica only.
- `remove_edge` after `clear_vertices` inserts unknown vertices at timestamp 0 with no
  regard to the clear (5.1 one level up), so that an `add_vertex` older than the clear
  succeeds.
- `clear_vertices` clears the edge sets of living vertices only (`LWWGraph.h:373`). With it
  and five operations, as with `clear_vertex_edges` (5.3), an edge can outlive its vertex:
  `NoDanglingEdge` is stated of replicas that neither has reached.
- `crdt_equal` (`LWWSet.h:367`) compares the maps and not `_lastClearTime`: equal sets
  may differ after the next late add. No property covers this: `Convergence` compares replicas
  that applied the same operations, whose last clears are then equal too.
- A register never updated holds whatever was in memory (`LWWRegister.h:44`);
  `NewRegisters` is therefore a set and `EventualAgreement` asks for one update.
- A key added again keeps its old value (`LWWMap.h:362`), where the note at 340 says a
  default element is created. `ValuesAreLastWrites` states what the code does.
- `LWWMap::remove` has the same flaw as 5.1: `Convergence` of the map, too, is stated of
  replicas no clear has reached.
- `remove_vertex` may return `false` and still remove edges (`LWWGraph.h:462`), and so may
  `clear_vertices` (`LWWGraph.h:376`): it returns what the clear of the vertices did.
- The const overloads of `LWWMap::at` and `crdt_at` (`LWWMap.h:178`, `201`) call
  themselves. They are not modelled.

## 6. What is not modelled

- `CollabDataOperation` and `CollabDataOperationHandler`: interfaces without state, whose
  serialization is left to the application.
- The content of a vertex, which no modifier of the graph reads or writes; it would behave as the
  content of a map's element.
- The booleans that `clear_vertices` and `clear_vertex_edges` return, and the exceptions of `at`
  and `crdt_at` for a key without an element.
- Copies of a `CollabData`, which share observers and broadcaster with the original.
- Wrappers without state of their own (`reserve`, load factors, `max_size`, printing), the
  tests and googletest.
- Timestamps at or below the minimal value 0, which the doc reserves, and
  duplicated timestamps, which it forbids.
- The capacity of `size_t`: `_sizeAlive` counts keys in memory. That it never goes
  below zero is proved for the set, the map and both levels of the graph.

## 7. Plan

1. *(done)* Register, set, map and graph with their replicas and runs; `CollabData`;
   the examples.
2. *(done)* The theorems of section 4.
3. *(done)* Convergence of the graph where no vertex is removed, and `GraphOrder`, which it
   implements there.
4. *(done)* Bounds on the edges of a graph whose vertices are removed: `RemovedEdgesStay` from
   above, `LatestEdgesShown` from below.
5. *(left)* What lies between them. By 5.2, 5.4 and 5.5 no function of the operations applied tells it;
   a specification would have to follow their order, as the code does.
