---------------------------- MODULE LWWSetReplicas ----------------------------
(***************************************************************************)
(* Replicas of one LWWSet.  Every call of add, remove or clear is either a *)
(* user's, applied locally and broadcast, or the replay of an operation    *)
(* issued elsewhere (or here, once more); the code runs the same method.   *)
(***************************************************************************)
EXTENDS SetOperations, LWWSet

VARIABLE set  \* set[r]: the LWWSet of replica r

vars == <<issued, delivered, context, set>>

Init ==
    /\ NetInit
    /\ set = [r \in Replica |-> NewSet]

add(r, op) ==
    /\ op.kind = "add"
    /\ Call(r, op)
    /\ set' = [set EXCEPT ![r] = Add(set[r], op.key, op.stamp)]

\* With CausalDelivery users are disciplined as well: they remove known keys only.
remove(r, op) ==
    /\ op.kind = "remove"
    /\ CausalDelivery /\ op \notin issued => op.key \in DOMAIN set[r].map
    /\ Call(r, op)
    /\ set' = [set EXCEPT ![r] = Remove(set[r], op.key, op.stamp)]

clear(r, op) ==
    /\ op.kind = "clear"
    /\ Call(r, op)
    /\ set' = [set EXCEPT ![r] = Clear(set[r], op.stamp)]

Step(r, op) == add(r, op) \/ remove(r, op) \/ clear(r, op)

Next == \E r \in Replica : \E op \in Op : Step(r, op)

Spec == Init /\ [][Next]_vars

\* The transport gives up on no operation.
Delivery(r) == \E op \in issued \ delivered[r] : Step(r, op)
Fairness == \A r \in Replica : WF_vars(Delivery(r))

FairSpec == Spec /\ Fairness

-------------------------------------------------------------------------------
(* Properties. *)

IsMap(m) ==
    /\ m = [k \in DOMAIN m |-> m[k]]
    /\ DOMAIN m \subseteq Key
    /\ \A k \in DOMAIN m : m[k] \in Metadata

\* Type correctness of the whole state.
TypeOK ==
    /\ issued \subseteq Op
    /\ delivered \in [Replica -> SUBSET Op]
    /\ context \in [Stamp -> SUBSET Op]
    /\ DOMAIN set = Replica
    /\ \A r \in Replica :
          /\ set[r] = SetState(set[r].map, set[r].sizeAlive, set[r].lastClearTime)
          /\ IsMap(set[r].map)
          /\ set[r].sizeAlive \in Nat
          /\ set[r].lastClearTime \in Nat

\* size() is the number of keys an iteration visits.  The counter is kept by hand in
\* add, remove and clear, and is unsigned: one decrement too many and it wraps.
SizeIsAliveCount ==
    \A r \in Replica : set[r].sizeAlive = Cardinality(Alive(set[r]))

\* Replicas that applied the same operations, in whatever orders, are equal for
\* operator==: their users see the same set.  "All operations on this container are
\* commutative!" (LWWSet.h:31).
UserConvergence ==
    \A r1, r2 \in Replica :
        delivered[r1] = delivered[r2] => SameSet(set[r1], set[r2])

\* They are also equal for crdt_equal, in the counters and in the last clear, so that
\* they stay equal under whatever operation comes next.
Convergence ==
    /\ UserConvergence
    /\ \A r1, r2 \in Replica :
          delivered[r1] = delivered[r2] =>
              CrdtEqual(set[r1], set[r2]) /\ set[r1] = set[r2]

NoClear(r) == \A op \in delivered[r] : op.kind # "clear"

\* As long as no clear reached them, replicas converge with no assumption on the order
\* of delivery: a late remove leaves its mark (LWWSet.h:319), a late add does not undo it.
AddRemoveConvergence ==
    \A r1, r2 \in Replica :
        NoClear(r1) /\ delivered[r1] = delivered[r2]
            => SameSet(set[r1], set[r2]) /\ set[r1] = set[r2]

\* A replica shows every key whose last word is an add, clears included, and no key whose
\* last word, clears aside, is a remove, whatever came late or twice: all a clear can
\* leave in doubt are the keys it should have removed.  Without one both bounds are equal.
AddRemoveLastWord ==
    \A r \in Replica :
        /\ LWWView(delivered[r]) \subseteq Alive(set[r])
        /\ Alive(set[r]) \subseteq LWWView(delivered[r] \ ClearOp)

\* The effect of op on a set.
Applied(s, op) ==
    CASE op.kind = "add"    -> Add(s, op.key, op.stamp)
      [] op.kind = "remove" -> Remove(s, op.key, op.stamp)
      [] op.kind = "clear"  -> Clear(s, op.stamp)

\* An operation a replica applied once, however long ago and whatever it applied since,
\* changes nothing when it is delivered again: "Duplicate calls with same stamp is
\* idempotent" (LWWSet.h:205, 255, 308).
Idempotence ==
    \A r \in Replica : \A op \in delivered[r] : Applied(set[r], op) = set[r]

\* Keys are never forgotten and no timestamp ever goes back, late calls included.
TimestampsGrow ==
    [][\A r \in Replica :
          /\ set'[r].lastClearTime >= set[r].lastClearTime
          /\ \A k \in DOMAIN set[r].map :
                /\ k \in DOMAIN set'[r].map
                /\ set'[r].map[k].timestamp >= set[r].map[k].timestamp]_vars

\* add returns true exactly when the user sees the key appear, remove exactly when he
\* sees it disappear: what a CollabData tells its observers depends on it.
ResultsTellVisibleChange ==
    [][\A r \in Replica : \A op \in Op :
          /\ add(r, op) => (AddResult(set[r], op.key, op.stamp)
                              <=> op.key \in Alive(set'[r]) \ Alive(set[r]))
          /\ remove(r, op) => (RemoveResult(set[r], op.key, op.stamp)
                              <=> op.key \in Alive(set[r]) \ Alive(set'[r]))]_vars

\* The set implements the last-writer-wins specification: each replica shows exactly
\* the keys whose last word, among the operations it applied, is an add.
Order == INSTANCE LWWOrder WITH view <- [r \in Replica |-> Alive(set[r])]
ImplementsLWWOrder == Order!OrderSpec

\* Every replica ends up with the same set, for good, once the users stop.
EventualConsistency ==
    <>[](\A r1, r2 \in Replica : set[r1] = set[r2])
===============================================================================
