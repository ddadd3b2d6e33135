------------------------- MODULE LWWRegisterReplicas -------------------------
(***************************************************************************)
(* Replicas of one LWWRegister, updated by their users and by the updates  *)
(* of the others, in any order and any number of times.                    *)
(***************************************************************************)
EXTENDS Broadcast, LWWRegister

CONSTANT Value  \* the contents of a register

VARIABLE register  \* register[r]: the LWWRegister of replica r

vars == <<issued, delivered, context, register>>

Op == [kind : {"update"}, value : Value, stamp : Stamp]

Init ==
    /\ NetInit
    /\ register \in [Replica -> NewRegisters(Value)]

update(r, op) ==
    /\ Call(r, op)
    /\ register' = [register EXCEPT ![r] = Update(@, op.value, op.stamp)]

Next == \E r \in Replica : \E op \in Op : update(r, op)

Spec == Init /\ [][Next]_vars

\* The transport gives up on no update.
Delivery(r) == \E op \in issued \ delivered[r] : update(r, op)

FairSpec == Spec /\ \A r \in Replica : WF_vars(Delivery(r))

-------------------------------------------------------------------------------
(* Properties. *)

\* Type correctness of the whole state.
TypeOK ==
    /\ issued \subseteq Op
    /\ delivered \in [Replica -> SUBSET Op]
    /\ context \in [Stamp -> SUBSET Op]
    /\ register \in [Replica -> [reg : Value, timestamp : Nat]]

\* query() answers the value with the highest timestamp among all the updates the
\* replica applied, the late and the duplicated ones included.
LastWriterWins ==
    \A r \in Replica : \A op \in delivered[r] :
        (\A o \in delivered[r] : o.stamp <= op.stamp)
            => register[r] = Register(op.value, op.stamp)

\* Registers that were updated at all end up crdt_equal, for good, once the users stop.
\* Registers nobody ever updated may differ: see NewRegisters.
EventualAgreement ==
    <>[](issued # {} => \A r1, r2 \in Replica : register[r1] = register[r2])
===============================================================================
