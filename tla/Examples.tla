------------------------------- MODULE Examples -------------------------------
(***************************************************************************)
(* The programs of src/examples/CmRDT: two users work on replicas data0    *)
(* and data1 of a set, a map or a graph and broadcast what they did.  The  *)
(* sources run one schedule each.  Here every user calls the same methods  *)
(* in the same order, and the other's operations come in at any time after *)
(* they were issued, in any order.                                         *)
(***************************************************************************)
EXTENDS LWWGraph, Sequences

User == {0, 1}
Other(u) == 1 - u

add(key, stamp) == [method |-> "add", key |-> key, stamp |-> stamp]
remove(key, stamp) == [method |-> "remove", key |-> key, stamp |-> stamp]
add_vertex(id, stamp) == [method |-> "add_vertex", id |-> id, stamp |-> stamp]
remove_vertex(id, stamp) == [method |-> "remove_vertex", id |-> id, stamp |-> stamp]
add_edge(from, to, stamp) ==
    [method |-> "add_edge", from |-> from, to |-> to, stamp |-> stamp]

\* The calls of user 0 and of user 1: the set and the map share theirs.
KeyCalls ==
    <<add("e1", 110), remove("e1", 120), add("e1", 130), add("e2", 140), add("e3", 150),
      add("e4", 160), add("e5", 170), remove("e5", 180), remove("e3", 190)>>
OtherKeyCalls ==
    <<add("e1", 111), add("e7", 121), add("e8", 131), remove("e8", 141), remove("e1", 151)>>
GraphCalls ==
    <<add_vertex("v1", 110), add_vertex("v2", 120), add_edge("v1", "v2", 130),
      add_edge("v1", "v3", 140)>>
OtherGraphCalls ==
    <<add_vertex("v1", 111), add_vertex("v2", 121), add_edge("v1", "v2", 131),
      remove_vertex("v1", 151)>>

Program(e) ==
    IF e = "LWWGraph" THEN [u \in User |-> IF u = 0 THEN GraphCalls ELSE OtherGraphCalls]
    ELSE [u \in User |-> IF u = 0 THEN KeyCalls ELSE OtherKeyCalls]

\* The int of a new element of the map of Example_LWWMap.h, which nobody changes.
DefaultValue == 0

\* The effect of a call on a container of example e.
Effect(e, d, op) ==
    CASE e = "LWWSet" /\ op.method = "add"    -> Add(d, op.key, op.stamp)
      [] e = "LWWSet" /\ op.method = "remove" -> Remove(d, op.key, op.stamp)
      [] e = "LWWMap" /\ op.method = "add"    -> AddKey(d, op.key, op.stamp, DefaultValue)
      [] e = "LWWMap" /\ op.method = "remove" -> RemoveKey(d, op.key, op.stamp, DefaultValue)
      [] op.method = "add_vertex"             -> AddVertex(d, op.id, op.stamp)
      [] op.method = "remove_vertex"          -> RemoveVertex(d, op.id, op.stamp)
      [] op.method = "add_edge"               -> AddEdge(d, op.from, op.to, op.stamp)

EqualValues(lhs, rhs) ==
    {k \in CrdtKeys(lhs) \cap CrdtKeys(rhs) : CrdtAt(lhs, k) = CrdtAt(rhs, k)}

\* operator== of the containers of example e.
SameData(e, lhs, rhs) ==
    CASE e = "LWWSet"   -> SameSet(lhs, rhs)
      [] e = "LWWMap"   -> SameMap(lhs, rhs, EqualValues(lhs, rhs))
      [] e = "LWWGraph" -> SameGraph(lhs, rhs)

VARIABLES
    example,  \* the example that runs
    done,     \* done[u]: how many of its calls user u has made
    applied,  \* applied[u]: the operations replica u has applied
    data      \* data[u]: data0 and data1

vars == <<example, done, applied, data>>

Init ==
    /\ example \in {"LWWSet", "LWWMap", "LWWGraph"}
    /\ done = [u \in User |-> 0]
    /\ applied = [u \in User |-> {}]
    /\ data = [u \in User |-> IF example = "LWWSet" THEN NewSet ELSE NewMap]

Apply(u, op) ==
    /\ applied' = [applied EXCEPT ![u] = @ \cup {op}]
    /\ data' = [data EXCEPT ![u] = Effect(example, @, op)]
    /\ UNCHANGED example

\* User u makes the next of its calls.
Call(u) ==
    /\ done[u] < Len(Program(example)[u])
    /\ done' = [done EXCEPT ![u] = @ + 1]
    /\ Apply(u, Program(example)[u][done[u] + 1])

\* Replica u applies, for the first time, an operation the other user issued.
Broadcast(u) ==
    \E i \in 1 .. done[Other(u)] :
        LET op == Program(example)[Other(u)][i] IN
        /\ op \notin applied[u]
        /\ Apply(u, op)
        /\ UNCHANGED done

Next == \E u \in User : Call(u) \/ Broadcast(u)

Spec == Init /\ [][Next]_vars

-------------------------------------------------------------------------------
(* Properties. *)

\* What the examples print at the end, "(data0 == data1) = 1 (true=1)"
\* (Example_LWWSet.h:56, Example_LWWMap.h:56, Example_LWWGraph.h:55), and say of the graph
\* half way (Example_LWWGraph.h:36): users with the same operations have equal data,
\* whatever the schedule was.
EqualOnceExchanged ==
    applied[0] = applied[1] => SameData(example, data[0], data[1])

\* u has applied all the calls of both users.
Finished(u) ==
    \A v \in User : \A i \in DOMAIN Program(example)[v] :
        Program(example)[v][i] \in applied[u]

\* "remove_vertex was later, so all edges with v2 are removed" (Example_LWWGraph.h:49): in
\* the end the graph has v2 and v3 and no edge, the set and the map have e2, e4 and e7,
\* and their counters say so.
EndsAsPrinted ==
    \A u \in User : Finished(u) =>
        IF example = "LWWGraph"
        THEN Vertices(data[u]) = {"v2", "v3"} /\ SizeEdges(data[u]) = 0
        ELSE LET keys == IF example = "LWWSet" THEN data[u] ELSE data[u].keys
             IN  Alive(keys) = {"e2", "e4", "e7"} /\ keys.sizeAlive = 3
===============================================================================
