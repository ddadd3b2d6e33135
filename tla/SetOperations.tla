---------------------------- MODULE SetOperations ----------------------------
(***************************************************************************)
(* The operations users issue on a replicated set, and which of them has   *)
(* the last word on a key.                                                 *)
(***************************************************************************)
EXTENDS Broadcast

CONSTANT Key

KeyOp == [kind : {"add", "remove"}, key : Key, stamp : Stamp]
ClearOp == [kind : {"clear"}, stamp : Stamp]
Op == KeyOp \cup ClearOp

\* A clear concerns every key.
Concerns(op, k) == op.kind = "clear" \/ op.key = k

\* op has the last word on key k among the operations of D.
LastWord(op, D, k) ==
    /\ op \in D
    /\ Concerns(op, k)
    /\ \A o \in D : Concerns(o, k) => o.stamp <= op.stamp

\* The keys a set must hold after the operations of D, in whatever order.
LWWView(D) == {k \in Key : \E op \in D : op.kind = "add" /\ LastWord(op, D, k)}
==============================================================================
