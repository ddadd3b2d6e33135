------------------------------- MODULE LWWOrder -------------------------------
(***************************************************************************)
(* What a replicated last-writer-wins set promises, whatever the order of  *)
(* delivery: a key is in the set of a replica exactly when, among all the  *)
(* operations the replica has applied that concern the key, the one with   *)
(* the highest timestamp is an add.  No metadata, no counters.             *)
(* LWWSetReplicas is shown to implement this specification.                *)
(***************************************************************************)
EXTENDS SetOperations

VARIABLE view  \* view[r]: the keys a user of replica r sees

orderVars == <<issued, delivered, context, view>>

OrderInit == NetInit /\ view = [r \in Replica |-> {}]

OrderStep(r, op) ==
    /\ Call(r, op)
    /\ view' = [view EXCEPT ![r] = LWWView(delivered'[r])]

OrderNext == \E r \in Replica : \E op \in Op : OrderStep(r, op)

OrderSpec == OrderInit /\ [][OrderNext]_orderVars
===============================================================================
