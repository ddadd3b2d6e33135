----------------------------- MODULE LWWSetProofs -----------------------------
(***************************************************************************)
(* Theorems about LWWSetReplicas, for every set of replicas, keys and      *)
(* timestamps: types and the size counter, then what a replica remembers   *)
(* of the operations it applied, late and duplicated ones included, and    *)
(* that it is all it remembers.  From there, idempotence, convergence and  *)
(* the implementation of LWWOrder.                                         *)
(***************************************************************************)
EXTENDS LWWSetReplicas, LWWSetLemmas

\* A set of keys.
SetOK(s) == WellFormed(s) /\ DOMAIN s.map \subseteq Key

-------------------------------------------------------------------------------
(***************************************************************************)
(* The replicas.  Whatever the action, a step applies one operation to the *)
(* set of one replica.                                                     *)
(***************************************************************************)
LEMMA OpType ==
    ASSUME NEW op \in Op
    PROVE  /\ op.kind \in {"add", "remove", "clear"}
           /\ op.stamp \in Stamp /\ op.stamp \in Nat /\ op.stamp > 0
           /\ op.kind # "clear" => op.key \in Key
  <1>1. op.stamp \in Stamp
    BY DEF Op, KeyOp, ClearOp
  <1>2. op.kind \in {"add", "remove", "clear"}
    BY DEF Op, KeyOp, ClearOp
  <1>3. op.kind # "clear" => op.key \in Key
    BY DEF Op, KeyOp, ClearOp
  <1>4. \A t \in Stamp : t \in Nat /\ t > 0
    BY StampAssumption
  <1> QED BY <1>1, <1>2, <1>3, <1>4

\* The operations are calls on the set of a replica.
LEMMA OpIsCall ==
    ASSUME NEW op \in Op
    PROVE  /\ op \in SetCalls(Key)
           /\ \A s : Applied(s, op) = After(s, op)
           /\ \A k : Concerns(op, k) <=> Touches(op, k)
  <1>1. op \in SetCalls(Key)
    BY StampAssumption DEF SetCalls, Op, KeyOp, ClearOp
  <1> QED BY <1>1 DEF Applied, After, Concerns, Touches

\* The lemmas on histories, for the operations of a replica.
LEMMA OpsAreCalls ==
    ASSUME NEW D, D \subseteq Op
    PROVE  D \subseteq SetCalls(Key)
  BY OpIsCall

LEMMA AppliedGrows ==
    ASSUME NEW s, SetOK(s), NEW op \in Op
    PROVE  Grows(s, Applied(s, op)) /\ Absorbs(Applied(s, op), op)
  <1>1. op \in SetCalls(Key) /\ Applied(s, op) = After(s, op) /\ WellFormed(s)
    BY OpIsCall DEF SetOK
  <1> QED BY <1>1, AfterGrows

LEMMA AppliedComesFrom ==
    ASSUME NEW s, SetOK(s), NEW D, D \subseteq Op, ComesFrom(s, D), NEW op \in Op,
           RemoveIsSafe(s, op)
    PROVE  ComesFrom(Applied(s, op), D \cup {op})
  <1>1. /\ op \in SetCalls(Key) /\ D \subseteq SetCalls(Key)
        /\ Applied(s, op) = After(s, op) /\ WellFormed(s)
    BY OpIsCall, OpsAreCalls DEF SetOK
  <1> QED BY <1>1, ComesFromStays

LEMMA AppliedMarkedBy ==
    ASSUME NEW s, SetOK(s), NEW D, D \subseteq Op, MarkedBy(s, D), NEW op \in Op
    PROVE  MarkedBy(Applied(s, op), D \cup {op})
  <1>1. /\ op \in SetCalls(Key) /\ D \subseteq SetCalls(Key)
        /\ Applied(s, op) = After(s, op) /\ WellFormed(s)
    BY OpIsCall, OpsAreCalls DEF SetOK
  <1> QED BY <1>1, MarkedByStays

LEMMA AbsorbedStays ==
    ASSUME NEW s, SetOK(s), NEW u, SetOK(u), Grows(s, u), NEW op \in Op, Absorbs(s, op)
    PROVE  Absorbs(u, op)
  <1>1. op \in SetCalls(Key) /\ WellFormed(s) /\ WellFormed(u)
    BY OpIsCall DEF SetOK
  <1> QED BY <1>1, AbsorbsStays

LEMMA AppliedOK ==
    ASSUME NEW s, SetOK(s), NEW op \in Op
    PROVE  SetOK(Applied(s, op))
  <1>1. CASE op.kind = "add"
    BY <1>1, OpType, AddOK, AddGrows DEF Applied, SetOK
  <1>2. CASE op.kind = "remove"
    BY <1>2, OpType, RemoveOK, RemoveGrows DEF Applied, SetOK
  <1>3. CASE op.kind = "clear"
    BY <1>3, OpType, ClearOK, ClearGrows DEF Applied, SetOK
  <1> QED BY <1>1, <1>2, <1>3, OpType

LEMMA StepApplies ==
    ASSUME NEW r \in Replica, NEW op \in Op, Step(r, op)
    PROVE  Call(r, op) /\ set' = [set EXCEPT ![r] = Applied(set[r], op)]
  <1>1. CASE add(r, op)
    BY <1>1 DEF add, Applied
  <1>2. CASE remove(r, op)
    BY <1>2 DEF remove, Applied
  <1>3. CASE clear(r, op)
    BY <1>3 DEF clear, Applied
  <1> QED BY <1>1, <1>2, <1>3 DEF Step

-------------------------------------------------------------------------------
(***************************************************************************)
(* Types and the size counter.                                             *)
(***************************************************************************)
NetOK ==
    /\ issued \subseteq Op
    /\ delivered \in [Replica -> SUBSET Op]
    /\ context \in [Stamp -> SUBSET Op]

SetsOK == DOMAIN set = Replica /\ \A r \in Replica : SetOK(set[r])

StateOK == NetOK /\ SetsOK

LEMMA InitStateOK == Init => StateOK
  BY NewSetOK, NewSetFields DEF Init, NetInit, StateOK, NetOK, SetsOK, SetOK

LEMMA CallNetOK ==
    ASSUME NetOK, NEW r \in Replica, NEW op \in Op, Call(r, op)
    PROVE  NetOK'
  <1>1. CASE Originate(r, op)
    BY <1>1, OpType DEF NetOK, Originate
  <1>2. CASE Receive(r, op)
    BY <1>2 DEF NetOK, Receive
  <1> QED BY <1>1, <1>2 DEF Call

LEMMA NextStateOK == StateOK /\ [Next]_vars => StateOK'
  <1> SUFFICES ASSUME StateOK, [Next]_vars
               PROVE  StateOK'
    OBVIOUS
  <1>1. ASSUME NEW r \in Replica, NEW op \in Op, Step(r, op)
        PROVE  StateOK'
    <2>1. Call(r, op) /\ set' = [set EXCEPT ![r] = Applied(set[r], op)]
      BY <1>1, StepApplies
    <2>2. NetOK'
      BY <2>1, CallNetOK DEF StateOK
    <2>3. SetsOK'
      BY <2>1, AppliedOK DEF StateOK, SetsOK
    <2> QED BY <2>2, <2>3 DEF StateOK
  <1>2. CASE UNCHANGED vars
    BY <1>2 DEF vars, StateOK, NetOK, SetsOK
  <1> QED BY <1>1, <1>2 DEF Next

THEOREM StateCorrect == Spec => []StateOK
  BY InitStateOK, NextStateOK, PTL DEF Spec

\* Every variable has its type in every reachable state: no counter goes below zero and
\* no map holds anything but metadata of keys.
THEOREM TypeCorrect == Spec => []TypeOK
  <1>1. StateOK => TypeOK
    BY AliveFinite DEF StateOK, NetOK, SetsOK, SetOK, WellFormed, IsMap, TypeOK
  <1> QED BY <1>1, StateCorrect, PTL

\* size() counts the keys an iteration visits, whatever operations a replica applied,
\* in whatever order and however often.
THEOREM SizeCorrect == Spec => []SizeIsAliveCount
  <1>1. StateOK => SizeIsAliveCount
    BY DEF StateOK, SetsOK, SetOK, WellFormed, SizeIsAliveCount
  <1> QED BY <1>1, StateCorrect, PTL

-------------------------------------------------------------------------------
(***************************************************************************)
(* Timestamps only grow, and a set absorbs the operations applied to it.   *)
(***************************************************************************)
\* The fields of a set are natural numbers and metadata.
LEMMA SetOKTypes ==
    ASSUME NEW s, SetOK(s)
    PROVE  /\ s.lastClearTime \in Nat
           /\ \A k \in DOMAIN s.map : /\ k \in Key
                                      /\ s.map[k] \in Metadata
                                      /\ s.map[k].timestamp \in Nat
                                      /\ s.map[k].isRemoved \in BOOLEAN
  BY FieldTypes DEF SetOK

\* No replica's timestamps go back, whatever late operation it applies.
THEOREM TimestampsCorrect == Spec => TimestampsGrow
  <1>1. StateOK /\ [Next]_vars =>
          [\A r \in Replica :
              /\ set'[r].lastClearTime >= set[r].lastClearTime
              /\ \A k \in DOMAIN set[r].map :
                    /\ k \in DOMAIN set'[r].map
                    /\ set'[r].map[k].timestamp >= set[r].map[k].timestamp]_vars
    <2> SUFFICES ASSUME StateOK, NEW r \in Replica, NEW op \in Op, Step(r, op),
                        NEW q \in Replica
                 PROVE  Grows(set[q], set'[q])
      BY DEF Next, Grows
    <2>1. set' = [set EXCEPT ![r] = Applied(set[r], op)]
      BY StepApplies
    <2>2. SetOK(set[q]) /\ DOMAIN set = Replica
      BY DEF StateOK, SetsOK
    <2>3. CASE q = r
      BY <2>1, <2>2, <2>3, AppliedGrows
    <2>4. CASE q # r
      BY <2>1, <2>2, <2>4, SetOKTypes DEF Grows
    <2> QED BY <2>3, <2>4
  <1> QED BY <1>1, StateCorrect, PTL DEF Spec, TimestampsGrow

\* What add and remove return is what the user sees change, late and repeated calls
\* included.
THEOREM ResultsCorrect == Spec => ResultsTellVisibleChange
  <1>1. StateOK /\ [Next]_vars =>
          [\A r \in Replica : \A op \in Op :
              /\ add(r, op) => (AddResult(set[r], op.key, op.stamp)
                                  <=> op.key \in Alive(set'[r]) \ Alive(set[r]))
              /\ remove(r, op) => (RemoveResult(set[r], op.key, op.stamp)
                                  <=> op.key \in Alive(set[r]) \ Alive(set'[r]))]_vars
    <2> SUFFICES ASSUME StateOK, NEW r \in Replica, NEW op \in Op
                 PROVE  /\ add(r, op) => (AddResult(set[r], op.key, op.stamp)
                                            <=> op.key \in Alive(set'[r]) \ Alive(set[r]))
                        /\ remove(r, op) => (RemoveResult(set[r], op.key, op.stamp)
                                            <=> op.key \in Alive(set[r]) \ Alive(set'[r]))
      OBVIOUS
    <2>1. WellFormed(set[r]) /\ DOMAIN set = Replica /\ op.stamp \in Nat
      BY OpType DEF StateOK, SetsOK, SetOK
    <2>2. add(r, op) => set'[r] = Add(set[r], op.key, op.stamp)
      BY <2>1 DEF add
    <2>3. remove(r, op) => set'[r] = Remove(set[r], op.key, op.stamp)
      BY <2>1 DEF remove
    <2> QED BY <2>1, <2>2, <2>3, AddVisible, RemoveVisible, AliveIsFound
  <1> QED BY <1>1, StateCorrect, PTL DEF Spec, ResultsTellVisibleChange

-------------------------------------------------------------------------------
(***************************************************************************)
(* Idempotence: a replica's set has absorbed all it was ever given.        *)
(***************************************************************************)
AllAbsorbed == \A r \in Replica : \A op \in delivered[r] : Absorbs(set[r], op)

LEMMA CallDelivers ==
    ASSUME NetOK, NEW r \in Replica, NEW op \in Op, Call(r, op)
    PROVE  delivered' = [delivered EXCEPT ![r] = delivered[r] \cup {op}]
  BY DEF Call, Originate, Receive

LEMMA NextAbsorbed == StateOK /\ AllAbsorbed /\ [Next]_vars => AllAbsorbed'
  <1>1. ASSUME StateOK, AllAbsorbed, NEW r \in Replica, NEW op \in Op, Step(r, op),
               NEW q \in Replica, NEW o \in delivered'[q]
        PROVE  Absorbs(set'[q], o)
    <2>1. /\ set' = [set EXCEPT ![r] = Applied(set[r], op)]
          /\ delivered' = [delivered EXCEPT ![r] = delivered[r] \cup {op}]
      BY <1>1, StepApplies, CallDelivers DEF StateOK
    <2>2. /\ DOMAIN set = Replica
          /\ DOMAIN delivered = Replica
          /\ SetOK(set[q])
          /\ delivered[q] \subseteq Op
      BY <1>1 DEF StateOK, SetsOK, NetOK
    <2>3. CASE q = r
      <3>1. set'[q] = Applied(set[q], op) /\ delivered'[q] = delivered[q] \cup {op}
        BY <2>1, <2>2, <2>3
      <3>2. Grows(set[q], set'[q]) /\ Absorbs(set'[q], op) /\ SetOK(set'[q])
        BY <2>2, <3>1, AppliedGrows, AppliedOK
      <3>3. CASE o = op
        BY <3>2, <3>3
      <3>4. CASE o \in delivered[q]
        BY <1>1, <2>2, <3>2, <3>4, AbsorbedStays DEF AllAbsorbed
      <3> QED BY <1>1, <3>1, <3>3, <3>4
    <2>4. CASE q # r
      BY <1>1, <2>1, <2>2, <2>4 DEF AllAbsorbed
    <2> QED BY <2>3, <2>4
  <1>2. ASSUME AllAbsorbed, UNCHANGED vars
        PROVE  AllAbsorbed'
    BY <1>2 DEF AllAbsorbed, vars
  <1> QED BY <1>1, <1>2 DEF Next, AllAbsorbed

\* An operation delivered once more changes nothing, however late and whatever was
\* applied since; no assumption on the order of delivery.
THEOREM IdempotenceCorrect == Spec => []Idempotence
  <1>1. Init => AllAbsorbed
    BY DEF Init, NetInit, AllAbsorbed
  <1>2. StateOK /\ AllAbsorbed => Idempotence
    <2> SUFFICES ASSUME StateOK, AllAbsorbed, NEW r \in Replica, NEW op \in delivered[r]
                 PROVE  Applied(set[r], op) = set[r]
      BY DEF Idempotence
    <2>1. op \in Op /\ WellFormed(set[r]) /\ Absorbs(set[r], op)
      BY DEF StateOK, SetsOK, SetOK, NetOK, AllAbsorbed
    <2>2. op \in SetCalls(Key) /\ Applied(set[r], op) = After(set[r], op)
      BY <2>1, OpIsCall
    <2> QED BY <2>1, <2>2, AbsorbedIsNoop
  <1> QED BY <1>1, <1>2, NextAbsorbed, StateCorrect, PTL DEF Spec

-------------------------------------------------------------------------------
(***************************************************************************)
(* Convergence: what a set holds is determined by the operations it        *)
(* absorbed if it comes from them.                                         *)
(***************************************************************************)
\* The keys a set shows are the last writer's, for any operations with unique timestamps.
LEMMA ViewIsLastWord ==
    ASSUME NEW s, SetOK(s), NEW D, D \subseteq Op, UniqueStamps(D), ComesFrom(s, D),
           \A op \in D : Absorbs(s, op)
    PROVE  Alive(s) = LWWView(D)
  <1>0. WellFormed(s) /\ D \subseteq SetCalls(Key)
    BY OpsAreCalls DEF SetOK
  <1>1. ASSUME NEW k \in Alive(s)
        PROVE  k \in LWWView(D)
    <2>1. k \in DOMAIN s.map /\ ~ s.map[k].isRemoved /\ k \in Key
      BY <1>1, SetOKTypes DEF Alive, Find
    <2>2. PICK op \in D : /\ Concerns(op, k)
                          /\ op.stamp = s.map[k].timestamp
                          /\ op.kind = "add"
      BY <2>1, OpIsCall DEF ComesFrom
    <2>3. LastWord(op, D, k)
      BY <2>1, <2>2, <1>0, OpIsCall, AbsorbsBounds DEF LastWord
    <2> QED BY <2>1, <2>2, <2>3 DEF LWWView
  <1>2. ASSUME NEW k \in LWWView(D)
        PROVE  k \in Alive(s)
    <2>1. PICK op \in D : op.kind = "add" /\ LastWord(op, D, k)
      BY <1>2 DEF LWWView, LastWord
    <2>2. op.key = k /\ k \in DOMAIN s.map
      BY <2>1 DEF LastWord, Concerns, Absorbs
    <2>3. PICK o \in D : /\ Concerns(o, k)
                         /\ o.stamp = s.map[k].timestamp
                         /\ s.map[k].isRemoved <=> o.kind # "add"
      BY <2>2, OpIsCall DEF ComesFrom
    <2>4. op.stamp <= o.stamp /\ o.stamp <= op.stamp
      BY <2>1, <2>2, <2>3, <1>0, OpIsCall, AbsorbsBounds DEF LastWord
    <2>5. o = op
      BY <2>4, OpType DEF UniqueStamps
    <2> QED BY <2>1, <2>2, <2>3, <2>5 DEF Alive, Find
  <1> QED BY <1>1, <1>2

-------------------------------------------------------------------------------
(***************************************************************************)
(* The history of a set that users clear in causal order, or never clear.  *)
(***************************************************************************)
Disciplined == "clear" \notin Kinds \/ CausalDelivery

HistoryOK ==
    /\ UniqueStamps(issued)
    /\ \A r \in Replica : delivered[r] \subseteq issued
    /\ \A op \in issued : op.kind \in Kinds
    /\ CausalDelivery =>
          \A op \in issued : op.kind = "remove" =>
              \E o \in context[op.stamp] : o.kind # "clear" /\ o.key = op.key

AllExplained == \A r \in Replica : ComesFrom(set[r], delivered[r])

ConvergenceInv == StateOK /\ AllAbsorbed /\ HistoryOK /\ AllExplained

LEMMA InitConvergenceInv == Init => ConvergenceInv
  <1> SUFFICES ASSUME Init
               PROVE  ConvergenceInv
    OBVIOUS
  <1>1. issued = {} /\ \A r \in Replica : delivered[r] = {} /\ set[r] = NewSet
    BY DEF Init, NetInit
  <1>2. AllExplained
    BY <1>1, NewSetFields DEF AllExplained, ComesFrom
  <1>3. HistoryOK /\ AllAbsorbed
    BY <1>1 DEF HistoryOK, UniqueStamps, AllAbsorbed
  <1> QED BY <1>2, <1>3, InitStateOK DEF ConvergenceInv

\* A remove of a key unknown to the set it reaches finds no clear there.
LEMMA StepRemoveIsSafe ==
    ASSUME Disciplined, ConvergenceInv, NEW r \in Replica, NEW op \in Op, Step(r, op)
    PROVE  RemoveIsSafe(set[r], op)
  <1> SUFFICES ASSUME op.kind = "remove", op.key \notin DOMAIN set[r].map
               PROVE  set[r].lastClearTime = 0
    BY DEF RemoveIsSafe
  <1>1. remove(r, op)
    BY DEF Step, add, clear
  <1>2. CASE "clear" \notin Kinds
    BY <1>2 DEF ConvergenceInv, AllExplained, ComesFrom, HistoryOK
  <1>3. CASE CausalDelivery
    <2>1. op \in issued /\ Receive(r, op)
      BY <1>1, <1>3 DEF remove, Call, Originate
    <2>2. PICK o \in delivered[r] : o.kind # "clear" /\ o.key = op.key
      BY <1>3, <2>1 DEF ConvergenceInv, HistoryOK, Receive
    <2>3. op.key \in DOMAIN set[r].map
      BY <2>2 DEF ConvergenceInv, AllAbsorbed, Absorbs
    <2> QED BY <2>3
  <1> QED BY <1>2, <1>3 DEF Disciplined

LEMMA StepHistoryOK ==
    ASSUME ConvergenceInv, NEW r \in Replica, NEW op \in Op, Step(r, op)
    PROVE  HistoryOK'
  <1>1. /\ Call(r, op)
        /\ delivered' = [delivered EXCEPT ![r] = delivered[r] \cup {op}]
        /\ DOMAIN delivered = Replica
        /\ HistoryOK
    BY StepApplies, CallDelivers DEF ConvergenceInv, StateOK, NetOK
  <1>2. CASE Receive(r, op)
    BY <1>1, <1>2 DEF Receive, HistoryOK, UniqueStamps
  <1>3. CASE Originate(r, op)
    <2>1. /\ issued' = issued \cup {op}
          /\ op.kind \in Kinds
          /\ \A o \in issued : o.stamp # op.stamp
          /\ op \notin issued
      BY <1>3 DEF Originate
    <2>2. UniqueStamps(issued')
      BY <1>1, <2>1 DEF HistoryOK, UniqueStamps
    <2>3. \A q \in Replica : delivered'[q] \subseteq issued'
      BY <1>1, <2>1 DEF HistoryOK
    <2>4. ASSUME CausalDelivery, NEW o \in issued', o.kind = "remove"
          PROVE  \E c \in context'[o.stamp] : c.kind # "clear" /\ c.key = o.key
      <3>1. context' = [context EXCEPT ![op.stamp] = delivered[r]] /\ DOMAIN context = Stamp
        BY <1>3, <2>4 DEF Originate, ConvergenceInv, StateOK, NetOK
      <3>2. CASE o = op
        <4>1. op.key \in DOMAIN set[r].map
          BY <2>1, <2>4, <3>2 DEF Step, add, remove, clear
        <4>2. PICK c \in delivered[r] : c.kind # "clear" /\ c.key = op.key
          BY <4>1 DEF ConvergenceInv, AllExplained, ComesFrom
        <4>3. context'[op.stamp] = delivered[r]
          BY <3>1, OpType
        <4> QED BY <3>2, <4>2, <4>3
      <3>3. CASE o \in issued
        <4>1. context'[o.stamp] = context[o.stamp]
          BY <2>1, <3>1, <3>3
        <4> QED BY <1>1, <2>4, <3>3, <4>1 DEF HistoryOK
      <3> QED BY <2>1, <2>4, <3>2, <3>3
    <2> QED BY <1>1, <2>1, <2>2, <2>3, <2>4 DEF HistoryOK
  <1> QED BY <1>1, <1>2, <1>3 DEF Call

LEMMA NextConvergenceInv ==
    ASSUME Disciplined, ConvergenceInv, [Next]_vars
    PROVE  ConvergenceInv'
  <1>1. StateOK' /\ AllAbsorbed'
    BY NextStateOK, NextAbsorbed DEF ConvergenceInv
  <1>2. ASSUME NEW r \in Replica, NEW op \in Op, Step(r, op)
        PROVE  ConvergenceInv'
    <2>1. /\ set' = [set EXCEPT ![r] = Applied(set[r], op)]
          /\ delivered' = [delivered EXCEPT ![r] = delivered[r] \cup {op}]
          /\ DOMAIN set = Replica /\ DOMAIN delivered = Replica
      BY <1>2, StepApplies, CallDelivers DEF ConvergenceInv, StateOK, NetOK, SetsOK
    <2>2. ASSUME NEW q \in Replica
          PROVE  ComesFrom(set'[q], delivered'[q])
      <3>1. CASE q = r
        <4>1. ComesFrom(Applied(set[r], op), delivered[r] \cup {op})
          BY <1>2, StepRemoveIsSafe, AppliedComesFrom
          DEF ConvergenceInv, StateOK, NetOK, SetsOK, AllExplained
        <4> QED BY <2>1, <3>1, <4>1
      <3>2. CASE q # r
        BY <2>1, <3>2 DEF ConvergenceInv, AllExplained
      <3> QED BY <3>1, <3>2
    <2>3. HistoryOK'
      BY <1>2, StepHistoryOK
    <2> QED BY <1>1, <2>2, <2>3 DEF ConvergenceInv, AllExplained
  <1>3. CASE UNCHANGED vars
    BY <1>1, <1>3 DEF vars, ConvergenceInv, HistoryOK, AllExplained
  <1> QED BY <1>2, <1>3 DEF Next

THEOREM ConvergenceInvHolds ==
    ASSUME Disciplined
    PROVE  Spec => []ConvergenceInv
  <1>1. ConvergenceInv /\ [Next]_vars => ConvergenceInv'
    BY NextConvergenceInv
  <1> QED BY <1>1, InitConvergenceInv, PTL DEF Spec

\* Replicas that applied the same operations hold the same set: for add and remove in
\* any order, and with clear when delivery is causal and users remove known keys only.
THEOREM ConvergenceCorrect ==
    ASSUME Disciplined
    PROVE  Spec => []Convergence
  <1>1. ConvergenceInv => Convergence
    <2> SUFFICES ASSUME ConvergenceInv, NEW r1 \in Replica, NEW r2 \in Replica,
                        delivered[r1] = delivered[r2]
                 PROVE  /\ set[r1] = set[r2]
                        /\ CrdtEqual(set[r1], set[r2])
                        /\ SameSet(set[r1], set[r2])
      BY DEF Convergence, UserConvergence
    <2>1. UniqueStamps(delivered[r1]) /\ delivered[r1] \subseteq Op
      BY DEF ConvergenceInv, HistoryOK, UniqueStamps, StateOK, NetOK
    <2>2. set[r1] = set[r2]
      BY <2>1, OpsAreCalls, OneSetPerHistory
      DEF ConvergenceInv, AllExplained, AllAbsorbed, StateOK, SetsOK, SetOK
    <2> QED BY <2>2 DEF CrdtEqual, SameSet, Alive
  <1> QED BY <1>1, ConvergenceInvHolds, PTL

-------------------------------------------------------------------------------
(***************************************************************************)
(* Without a clear: no assumption on Kinds nor on delivery.  A replica no  *)
(* clear has reached finds its last clear at 0, where remove is safe.      *)
(***************************************************************************)
UniqueHistory ==
    /\ UniqueStamps(issued)
    /\ \A r \in Replica : delivered[r] \subseteq issued

UnclearedExplained == \A r \in Replica : NoClear(r) => ComesFrom(set[r], delivered[r])

AllMarked == \A r \in Replica : MarkedBy(set[r], delivered[r])

UnclearedInv == StateOK /\ AllAbsorbed /\ UniqueHistory /\ UnclearedExplained /\ AllMarked

LEMMA InitUnclearedInv == Init => UnclearedInv
  <1> SUFFICES ASSUME Init
               PROVE  UnclearedInv
    OBVIOUS
  <1>1. ConvergenceInv
    BY InitConvergenceInv
  <1>2. AllMarked
    BY <1>1 DEF ConvergenceInv, AllExplained, ComesFrom, AllMarked, MarkedBy
  <1> QED BY <1>1, <1>2
          DEF ConvergenceInv, AllExplained, HistoryOK, UnclearedInv, UniqueHistory, UnclearedExplained

LEMMA StepUniqueHistory ==
    ASSUME UnclearedInv, NEW r \in Replica, NEW op \in Op, Step(r, op)
    PROVE  UniqueHistory'
  <1>1. /\ Call(r, op)
        /\ delivered' = [delivered EXCEPT ![r] = delivered[r] \cup {op}]
        /\ DOMAIN delivered = Replica
    BY StepApplies, CallDelivers DEF UnclearedInv, StateOK, NetOK
  <1>2. CASE Receive(r, op)
    BY <1>1, <1>2 DEF Receive, UnclearedInv, UniqueHistory, UniqueStamps
  <1>3. CASE Originate(r, op)
    <2>1. issued' = issued \cup {op} /\ \A o \in issued : o.stamp # op.stamp
      BY <1>3 DEF Originate
    <2>2. UniqueStamps(issued')
      BY <2>1 DEF UnclearedInv, UniqueHistory, UniqueStamps
    <2> QED BY <1>1, <2>1, <2>2 DEF UnclearedInv, UniqueHistory
  <1> QED BY <1>1, <1>2, <1>3 DEF Call

LEMMA NextUnclearedInv == UnclearedInv /\ [Next]_vars => UnclearedInv'
  <1> SUFFICES ASSUME UnclearedInv, [Next]_vars
               PROVE  UnclearedInv'
    OBVIOUS
  <1>1. StateOK' /\ AllAbsorbed'
    BY NextStateOK, NextAbsorbed DEF UnclearedInv
  <1>2. ASSUME NEW r \in Replica, NEW op \in Op, Step(r, op)
        PROVE  UnclearedInv'
    <2>1. /\ set' = [set EXCEPT ![r] = Applied(set[r], op)]
          /\ delivered' = [delivered EXCEPT ![r] = delivered[r] \cup {op}]
          /\ DOMAIN set = Replica /\ DOMAIN delivered = Replica
      BY <1>2, StepApplies, CallDelivers DEF UnclearedInv, StateOK, NetOK, SetsOK
    <2>2. ASSUME NEW q \in Replica, \A o \in delivered'[q] : o.kind # "clear"
          PROVE  ComesFrom(set'[q], delivered'[q])
      <3>1. CASE q = r
        <4>1. NoClear(r)
          BY <2>1, <2>2, <3>1 DEF NoClear
        <4>2. ComesFrom(set[r], delivered[r])
          BY <4>1 DEF UnclearedInv, UnclearedExplained
        <4>3. RemoveIsSafe(set[r], op)
          BY <4>1, <4>2 DEF RemoveIsSafe, NoClear, ComesFrom
        <4>4. ComesFrom(Applied(set[r], op), delivered[r] \cup {op})
          BY <4>2, <4>3, AppliedComesFrom DEF UnclearedInv, StateOK, NetOK, SetsOK
        <4> QED BY <2>1, <3>1, <4>4
      <3>2. CASE q # r
        BY <2>1, <2>2, <3>2 DEF UnclearedInv, UnclearedExplained, NoClear
      <3> QED BY <3>1, <3>2
    <2>3. UniqueHistory'
      BY <1>2, StepUniqueHistory
    <2>4. ASSUME NEW q \in Replica
          PROVE  MarkedBy(set'[q], delivered'[q])
      <3>1. MarkedBy(Applied(set[r], op), delivered[r] \cup {op})
        BY AppliedMarkedBy DEF UnclearedInv, StateOK, NetOK, SetsOK, AllMarked
      <3>2. CASE q = r
        BY <2>1, <3>1, <3>2
      <3>3. CASE q # r
        BY <2>1, <3>3 DEF UnclearedInv, AllMarked
      <3> QED BY <3>2, <3>3
    <2> QED BY <1>1, <2>2, <2>3, <2>4 DEF UnclearedInv, UnclearedExplained, AllMarked, NoClear
  <1>3. CASE UNCHANGED vars
    BY <1>1, <1>3 DEF vars, UnclearedInv, UniqueHistory, UnclearedExplained, AllMarked, NoClear
  <1> QED BY <1>2, <1>3 DEF Next

\* Replicas no clear has reached converge whatever the order of delivery.
THEOREM AddRemoveConvergenceCorrect == Spec => []AddRemoveConvergence
  <1>1. UnclearedInv => AddRemoveConvergence
    <2> SUFFICES ASSUME UnclearedInv, NEW r1 \in Replica, NEW r2 \in Replica,
                        NoClear(r1), delivered[r1] = delivered[r2]
                 PROVE  SameSet(set[r1], set[r2]) /\ set[r1] = set[r2]
      BY DEF AddRemoveConvergence
    <2>1. UniqueStamps(delivered[r1]) /\ delivered[r1] \subseteq Op
      BY DEF UnclearedInv, UniqueHistory, UniqueStamps, StateOK, NetOK
    <2>2. ComesFrom(set[r1], delivered[r1]) /\ ComesFrom(set[r2], delivered[r1])
      BY DEF UnclearedInv, UnclearedExplained, NoClear
    <2>3. set[r1] = set[r2]
      BY <2>1, <2>2, OpsAreCalls, OneSetPerHistory
      DEF UnclearedInv, AllAbsorbed, StateOK, SetsOK, SetOK
    <2> QED BY <2>3 DEF SameSet, Alive
  <1> QED BY <1>1, InitUnclearedInv, NextUnclearedInv, PTL DEF Spec

\* What a set shows lies between the last words with the clears and those without.
LEMMA ViewBounds ==
    ASSUME NEW s, SetOK(s), NEW D, D \subseteq Op, UniqueStamps(D), MarkedBy(s, D),
           \A op \in D : Absorbs(s, op)
    PROVE  LWWView(D) \subseteq Alive(s) /\ Alive(s) \subseteq LWWView(D \ ClearOp)
  <1>1. ASSUME NEW k \in LWWView(D)
        PROVE  k \in Alive(s)
    <2>1. PICK op \in D : op.kind = "add" /\ LastWord(op, D, k)
      BY <1>1 DEF LWWView, LastWord
    <2>2. op.key = k /\ k \in DOMAIN s.map /\ op.stamp <= s.map[k].timestamp
      BY <2>1 DEF LastWord, Concerns, Absorbs
    <2>3. PICK o \in D : /\ Concerns(o, k)
                         /\ o.stamp = s.map[k].timestamp
                         /\ s.map[k].isRemoved <=> o.kind # "add"
      BY <2>2, OpIsCall DEF MarkedBy
    <2>4. o.stamp <= op.stamp /\ o.stamp \in Nat /\ op.stamp \in Nat
      BY <2>1, <2>3, OpType DEF LastWord
    <2>5. o = op
      BY <2>2, <2>3, <2>4 DEF UniqueStamps
    <2> QED BY <2>1, <2>2, <2>3, <2>5 DEF Alive, Find
  <1>2. ASSUME NEW k \in Alive(s)
        PROVE  k \in LWWView(D \ ClearOp)
    <2>1. k \in DOMAIN s.map /\ ~ s.map[k].isRemoved /\ k \in Key
      BY <1>2 DEF Alive, Find, SetOK
    <2>2. PICK op \in D : /\ Concerns(op, k)
                          /\ op.stamp = s.map[k].timestamp
                          /\ op.kind = "add"
      BY <2>1, OpIsCall DEF MarkedBy
    <2>3. op \in D \ ClearOp
      BY <2>2 DEF ClearOp
    <2>4. ASSUME NEW o \in D \ ClearOp, Concerns(o, k)
          PROVE  o.stamp <= op.stamp
      <3>1. o.kind # "clear" /\ Absorbs(s, o)
        BY DEF Op, KeyOp, ClearOp
      <3> QED BY <2>2, <2>4, <3>1 DEF Concerns, Absorbs
    <2> QED BY <2>1, <2>2, <2>3, <2>4 DEF LWWView, LastWord
  <1> QED BY <1>1, <1>2

\* And each shows the keys whose last word is an add: all of them, if clears have a word
\* too, and no other, if they have none.  No assumption on the order of delivery.
THEOREM AddRemoveLastWordCorrect == Spec => []AddRemoveLastWord
  <1>1. UnclearedInv => AddRemoveLastWord
    <2> SUFFICES ASSUME UnclearedInv, NEW r \in Replica
                 PROVE  /\ LWWView(delivered[r]) \subseteq Alive(set[r])
                        /\ Alive(set[r]) \subseteq LWWView(delivered[r] \ ClearOp)
      BY DEF AddRemoveLastWord
    <2>1. UniqueStamps(delivered[r]) /\ delivered[r] \subseteq Op
      BY DEF UnclearedInv, UniqueHistory, UniqueStamps, StateOK, NetOK
    <2>2. MarkedBy(set[r], delivered[r]) /\ SetOK(set[r])
      BY DEF UnclearedInv, AllMarked, StateOK, SetsOK
    <2>3. \A op \in delivered[r] : Absorbs(set[r], op)
      BY DEF UnclearedInv, AllAbsorbed
    <2> QED BY <2>1, <2>2, <2>3, ViewBounds
  <1> QED BY <1>1, InitUnclearedInv, NextUnclearedInv, PTL DEF Spec

-------------------------------------------------------------------------------
(* The refinement. *)

ViewsCorrect == \A r \in Replica : Alive(set[r]) = LWWView(delivered[r])

\* Under the same assumption the set implements the last-writer-wins specification.
THEOREM Implementation ==
    ASSUME Disciplined
    PROVE  Spec => ImplementsLWWOrder
  <1>1. Init => Order!OrderInit
    <2> SUFFICES ASSUME Init
                 PROVE  [r \in Replica |-> Alive(set[r])] = [r \in Replica |-> {}]
      BY DEF Init, NetInit, Order!OrderInit, Order!NetInit
    <2> QED BY NewSetFields DEF Init
  <1>2. ConvergenceInv => ViewsCorrect
    BY ViewIsLastWord
    DEF ViewsCorrect, ConvergenceInv, HistoryOK, UniqueStamps, StateOK, NetOK, SetsOK, AllExplained, AllAbsorbed
  <1>3. ConvergenceInv' => ViewsCorrect'
    BY <1>2, PTL
  <1>4. ConvergenceInv /\ ConvergenceInv' /\ [Next]_vars => [Order!OrderNext]_(Order!orderVars)
    <2> SUFFICES ASSUME ConvergenceInv, ConvergenceInv', [Next]_vars
                 PROVE  [Order!OrderNext]_(Order!orderVars)
      OBVIOUS
    <2>1. ASSUME NEW r \in Replica, NEW op \in Op, Step(r, op)
          PROVE  Order!OrderStep(r, op)
      <3>1. /\ Call(r, op)
            /\ set' = [set EXCEPT ![r] = Applied(set[r], op)]
            /\ DOMAIN set = Replica
        BY <2>1, StepApplies DEF ConvergenceInv, StateOK, SetsOK
      <3>2. Order!Call(r, op)
        BY <3>1 DEF Call, Originate, Receive, Order!Call, Order!Originate, Order!Receive
      <3>3. Alive(set'[r]) = LWWView(delivered'[r])
        BY <1>3 DEF ViewsCorrect
      <3>4. [q \in Replica |-> Alive(set'[q])]
               = [[q \in Replica |-> Alive(set[q])] EXCEPT ![r] = LWWView(delivered'[r])]
        BY <3>1, <3>3
      <3> QED BY <3>2, <3>4
          DEF Order!OrderStep, Order!LWWView, LWWView, Order!LastWord, LastWord, Order!Concerns, Concerns
    <2>2. CASE UNCHANGED vars
      BY <2>2 DEF vars, Order!orderVars
    <2>3. Order!Op = Op
      BY DEF Order!Op, Order!KeyOp, Order!ClearOp, Op, KeyOp, ClearOp
    <2> QED BY <2>1, <2>2, <2>3 DEF Next, Order!OrderNext
  <1> QED BY <1>1, <1>4, ConvergenceInvHolds, PTL DEF Spec, ImplementsLWWOrder, Order!OrderSpec
===============================================================================
