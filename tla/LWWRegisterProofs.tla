-------------------------- MODULE LWWRegisterProofs --------------------------
(***************************************************************************)
(* Theorems about LWWRegisterReplicas, for every set of replicas, values   *)
(* and timestamps.                                                         *)
(***************************************************************************)
EXTENDS LWWRegisterReplicas, TLAPS

(***************************************************************************)
(* LastWriterWins is not inductive: a register must be known to be as      *)
(* recent as all its replica applied, to come from one of these updates,   *)
(* and no two updates may have the same timestamp.                         *)
(***************************************************************************)
HistoryOK ==
    /\ \A o1, o2 \in issued : o1.stamp = o2.stamp => o1 = o2
    /\ \A r \in Replica : delivered[r] \subseteq issued

Latest(x, D) ==
    /\ \A op \in D : op.stamp <= x.timestamp
    /\ IF D = {}
       THEN x.timestamp = 0
       ELSE \E op \in D : x = Register(op.value, op.stamp)

Inv ==
    /\ TypeOK
    /\ HistoryOK
    /\ \A r \in Replica : Latest(register[r], delivered[r])

LEMMA OpType ==
    ASSUME NEW op \in Op
    PROVE  op.value \in Value /\ op.stamp \in Stamp /\ op.stamp \in Nat /\ op.stamp > 0
  <1>1. op.value \in Value /\ op.stamp \in Stamp
    BY DEF Op
  <1>2. \A t \in Stamp : t \in Nat /\ t > 0
    BY StampAssumption
  <1> QED BY <1>1, <1>2

\* One update keeps a register the latest of what was applied to it.
LEMMA UpdateLatest ==
    ASSUME NEW x \in [reg : Value, timestamp : Nat], NEW D, D \subseteq Op,
           Latest(x, D), NEW op \in Op
    PROVE  /\ Update(x, op.value, op.stamp) \in [reg : Value, timestamp : Nat]
           /\ Latest(Update(x, op.value, op.stamp), D \cup {op})
  <1>1. op.value \in Value /\ op.stamp \in Nat /\ op.stamp > 0
    BY OpType
  <1>2. \A o \in D : o.stamp \in Nat
    BY OpType
  <1>3. CASE op.stamp > x.timestamp
    <2>1. Update(x, op.value, op.stamp) = Register(op.value, op.stamp)
      BY <1>3 DEF Update
    <2>2. Register(op.value, op.stamp).timestamp = op.stamp
      BY DEF Register
    <2>3. Register(op.value, op.stamp) \in [reg : Value, timestamp : Nat]
      BY <1>1 DEF Register
    <2> QED BY <1>1, <1>2, <1>3, <2>1, <2>2, <2>3 DEF Latest
  <1>4. CASE ~ (op.stamp > x.timestamp)
    <2>1. Update(x, op.value, op.stamp) = x
      BY <1>4 DEF Update
    <2>2. op.stamp <= x.timestamp
      BY <1>1, <1>4
    <2>3. CASE D # {}
      BY <2>1, <2>2, <2>3 DEF Latest
    <2>4. D # {}
      BY <1>1, <2>2 DEF Latest
    <2> QED BY <2>1, <2>3, <2>4
  <1> QED BY <1>3, <1>4

LEMMA InitInv == Init => Inv
  <1> SUFFICES ASSUME Init
               PROVE  Inv
    OBVIOUS
  <1>1. issued = {} /\ delivered = [r \in Replica |-> {}] /\ context = [t \in Stamp |-> {}]
    BY DEF Init, NetInit
  <1>2. \A x \in NewRegisters(Value) :
            x \in [reg : Value, timestamp : Nat] /\ x.timestamp = 0
    BY DEF NewRegisters, Register
  <1>3. \A r \in Replica : register[r] \in NewRegisters(Value)
    BY DEF Init
  <1>4. TypeOK
    BY <1>1, <1>2 DEF Init, TypeOK
  <1> QED BY <1>1, <1>2, <1>3, <1>4 DEF Inv, HistoryOK, Latest

LEMMA NextInv == Inv /\ [Next]_vars => Inv'
  <1> SUFFICES ASSUME Inv, [Next]_vars
               PROVE  Inv'
    OBVIOUS
  <1>1. ASSUME NEW r \in Replica, NEW op \in Op, update(r, op)
        PROVE  Inv'
    <2>1. /\ Call(r, op)
          /\ delivered' = [delivered EXCEPT ![r] = delivered[r] \cup {op}]
          /\ register' = [register EXCEPT ![r] = Update(register[r], op.value, op.stamp)]
      BY <1>1 DEF update, Call, Originate, Receive
    <2>2. /\ register \in [Replica -> [reg : Value, timestamp : Nat]]
          /\ delivered \in [Replica -> SUBSET Op]
          /\ issued \subseteq Op
          /\ context \in [Stamp -> SUBSET Op]
          /\ HistoryOK
      BY DEF Inv, TypeOK
    <2>3. /\ Update(register[r], op.value, op.stamp) \in [reg : Value, timestamp : Nat]
          /\ Latest(Update(register[r], op.value, op.stamp), delivered[r] \cup {op})
      BY <2>2, UpdateLatest DEF Inv
    <2>4. TypeOK' /\ HistoryOK'
      <3>1. CASE Originate(r, op)
        BY <2>1, <2>2, <2>3, <3>1, OpType DEF Originate, TypeOK, HistoryOK
      <3>2. CASE Receive(r, op)
        BY <2>1, <2>2, <2>3, <3>2 DEF Receive, TypeOK, HistoryOK
      <3> QED BY <2>1, <3>1, <3>2 DEF Call
    <2>5. \A q \in Replica : Latest(register'[q], delivered'[q])
      BY <2>1, <2>2, <2>3 DEF Inv
    <2> QED BY <2>4, <2>5 DEF Inv
  <1>2. CASE UNCHANGED vars
    BY <1>2 DEF vars, Inv, TypeOK, HistoryOK
  <1> QED BY <1>1, <1>2 DEF Next

THEOREM InvHolds == Spec => []Inv
  BY InitInv, NextInv, PTL DEF Spec

\* The types of all variables, in every reachable state.
THEOREM RegisterTypeCorrect == Spec => []TypeOK
  <1>1. Inv => TypeOK
    BY DEF Inv
  <1> QED BY <1>1, InvHolds, PTL

\* Every register holds the update with the highest timestamp its replica applied.
THEOREM LastWriterWinsCorrect == Spec => []LastWriterWins
  <1>1. Inv => LastWriterWins
    <2> SUFFICES ASSUME Inv, NEW r \in Replica, NEW op \in delivered[r],
                        \A o \in delivered[r] : o.stamp <= op.stamp
                 PROVE  register[r] = Register(op.value, op.stamp)
      BY DEF LastWriterWins
    <2>1. PICK o \in delivered[r] : register[r] = Register(o.value, o.stamp)
      BY DEF Inv, Latest
    <2>2. o.stamp <= op.stamp /\ op.stamp <= o.stamp
      BY <2>1 DEF Inv, Latest, Register
    <2>3. o \in Op /\ op \in Op
      BY DEF Inv, TypeOK
    <2>4. o.stamp = op.stamp
      BY <2>2, <2>3, OpType
    <2>5. o = op
      BY <2>4 DEF Inv, HistoryOK
    <2> QED BY <2>1, <2>5
  <1> QED BY <1>1, InvHolds, PTL
===============================================================================
