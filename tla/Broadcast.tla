------------------------------ MODULE Broadcast ------------------------------
(***************************************************************************)
(* The transport the CmRDTs are written for.  The library holds no network *)
(* code: a CollabData hands every local operation to its broadcaster, and  *)
(* applyExternOperation replays the operations of the other replicas.  The *)
(* doc comment of every container promises that operations may reach a     *)
(* replica in any order and more than once, and asks only that timestamps  *)
(* are unique, totally ordered and consistent with causal order.  That is  *)
(* what this module offers: a pool of issued operations that any replica   *)
(* may apply at any time, again and again.                                 *)
(*                                                                         *)
(* An operation is a record with at least a kind and a stamp.              *)
(***************************************************************************)
EXTENDS Integers

CONSTANTS
    Replica,        \* the replicas of one shared data
    Stamp,          \* the timestamps users may draw; bounds the number of operations
    Kinds,          \* the kinds of operation the users issue
    CausalDelivery  \* TRUE: an operation is delivered after those its origin had seen

\* Timestamp 0 is the minimal value of "U t = {0}", kept for "never".
ASSUME StampAssumption == Stamp \subseteq Nat \ {0}
ASSUME CausalAssumption == CausalDelivery \in BOOLEAN

VARIABLES
    issued,     \* every operation some user has issued
    delivered,  \* delivered[r]: the operations replica r has applied
    context     \* context[t]: what the origin of the operation stamped t had applied

netVars == <<issued, delivered, context>>

NetInit ==
    /\ issued = {}
    /\ delivered = [r \in Replica |-> {}]
    /\ context = [t \in Stamp |-> {}]

\* A user of replica r issues op: its timestamp is new and above all r has seen.
Originate(r, op) ==
    /\ op.kind \in Kinds
    /\ \A o \in issued : o.stamp # op.stamp
    /\ \A o \in delivered[r] : o.stamp < op.stamp
    /\ issued' = issued \cup {op}
    /\ delivered' = [delivered EXCEPT ![r] = @ \cup {op}]
    /\ context' = [context EXCEPT ![op.stamp] =
                      IF CausalDelivery THEN delivered[r] ELSE {}]

\* Replica r applies an issued operation, for the first time or once more.
Receive(r, op) ==
    /\ op \in issued
    /\ context[op.stamp] \subseteq delivered[r]
    /\ delivered' = [delivered EXCEPT ![r] = @ \cup {op}]
    /\ UNCHANGED <<issued, context>>

Call(r, op) == Originate(r, op) \/ Receive(r, op)
==============================================================================
