---------------------------- MODULE LWWMapReplicas ----------------------------
(***************************************************************************)
(* Replicas of one map of registers.  As for a set, every call is a user's *)
(* or the replay of an operation issued elsewhere (or here, once more).    *)
(***************************************************************************)
EXTENDS MapOfRegisters

VARIABLE map  \* map[r]: the LWWMap of replica r

vars == <<issued, delivered, context, map>>

Init ==
    /\ NetInit
    /\ map = [r \in Replica |-> NewMap]

add(r, op) ==
    /\ op.kind = "add"
    /\ Call(r, op)
    /\ map' = [map EXCEPT ![r] = AddKey(@, op.key, op.stamp, NewRegister)]

remove(r, op) ==
    /\ op.kind = "remove"
    /\ Call(r, op)
    /\ map' = [map EXCEPT ![r] = RemoveKey(@, op.key, op.stamp, NewRegister)]

clear(r, op) ==
    /\ op.kind = "clear"
    /\ Call(r, op)
    /\ map' = [map EXCEPT ![r] = ClearKeys(@, op.stamp)]

update(r, op) ==
    /\ op.kind = "update"
    /\ Call(r, op)
    /\ map' = [map EXCEPT ![r] = UpdateValue(@, op.key, op.value, op.stamp)]

Step(r, op) == add(r, op) \/ remove(r, op) \/ clear(r, op) \/ update(r, op)

Next == \E r \in Replica : \E op \in MapOp : Step(r, op)

Spec == Init /\ [][Next]_vars

\* The transport gives up on no operation.
Delivery(r) == \E op \in issued \ delivered[r] : Step(r, op)

FairSpec == Spec /\ \A r \in Replica : WF_vars(Delivery(r))

-------------------------------------------------------------------------------
(* Properties. *)

\* Type correctness of the whole state.
TypeOK ==
    /\ issued \subseteq MapOp
    /\ delivered \in [Replica -> SUBSET MapOp]
    /\ context \in [Stamp -> SUBSET MapOp]
    /\ DOMAIN map = Replica
    /\ \A r \in Replica :
          LET keys == map[r].keys IN
          /\ map[r] = MapState(keys, map[r].value)
          /\ keys = SetState(keys.map, keys.sizeAlive, keys.lastClearTime)
          /\ DOMAIN keys.map \subseteq Key
          /\ keys.map \in [DOMAIN keys.map -> Metadata]
          /\ keys.sizeAlive \in Nat
          /\ keys.lastClearTime \in Nat
          /\ map[r].value \in [DOMAIN keys.map -> [reg : Value \cup {Default}, timestamp : Nat]]

Updates(D, k) == {op \in D : op.kind = "update" /\ op.key = k}

\* The content of a key is that of the latest update delivered for it, and the default
\* one as long as there is none: an update is not lost when it comes before the add of
\* its key, nor when the key is removed, cleared or added again in between.
ValuesAreLastWrites ==
    \A r \in Replica : \A k \in DOMAIN map[r].value :
        LET U == Updates(delivered[r], k) IN
        IF U = {} THEN CrdtAt(map[r], k) = NewRegister
        ELSE \E op \in U : /\ CrdtAt(map[r], k) = Register(op.value, op.stamp)
                           /\ \A o \in U : o.stamp <= op.stamp

\* for (auto& elt : map) visits every living key exactly once, and size() of them,
\* whatever the order of the buckets: removed elements in a row are all skipped.
IterationVisitsLiving ==
    \A r \in Replica : \A order \in Orders(map[r]) :
        LET walk == Walk(map[r], order) IN
        /\ Len(walk) = map[r].keys.sizeAlive
        /\ {walk[i] : i \in 1 .. Len(walk)} = Living(map[r])

KeyOps(D) == {op \in D : op.kind # "update"}
NoClear(r) == \A op \in delivered[r] : op.kind # "clear"

\* The placeholder of an early update does not show, nor does it stand in the way of an
\* add: updates aside, every key whose last word is an add is there, clears included, and
\* no key whose last word is a remove, clears aside.  Without a clear both bounds are equal.
UpdatesAddNoKey ==
    \A r \in Replica :
        /\ LWWView(KeyOps(delivered[r])) \subseteq Living(map[r])
        /\ Living(map[r]) \subseteq LWWView(KeyOps(delivered[r]) \ ClearOp)

\* Replicas that applied the same operations, no clear among them, are equal for
\* operator== and for crdt_equal: "All operations on this container are commutative!"
\* (LWWMap.h:32).
Convergence ==
    \A r1, r2 \in Replica :
        NoClear(r1) /\ delivered[r1] = delivered[r2]
            => /\ map[r1] = map[r2]
               /\ SameData(map[r1], map[r2])
               /\ CrdtEqualData(map[r1], map[r2])

\* In the end users of every replica see the same keys with the same contents, for good,
\* if none of them cleared the map.
EventualConsistency ==
    <>[](KeyOps(issued) \subseteq KeyOp =>
            \A r1, r2 \in Replica : SameData(map[r1], map[r2]))
===============================================================================
