----------------------------- MODULE LWWMapProofs -----------------------------
(***************************************************************************)
(* Theorems about LWWMapReplicas, for every set of replicas, keys, values  *)
(* and timestamps.                                                         *)
(***************************************************************************)
EXTENDS LWWMapReplicas, MapOfRegistersLemmas, SequenceTheorems

(***************************************************************************)
(* The replicas.  A step applies one operation to one map.                 *)
(***************************************************************************)
LEMMA StepApplies ==
    ASSUME NEW r \in Replica, NEW op \in MapOp, Step(r, op)
    PROVE  Call(r, op) /\ map' = [map EXCEPT ![r] = Applied(map[r], op)]
  <1>1. CASE add(r, op)
    BY <1>1 DEF add, Applied
  <1>2. CASE remove(r, op)
    BY <1>2 DEF remove, Applied
  <1>3. CASE update(r, op)
    BY <1>3 DEF update, Applied
  <1>4. CASE clear(r, op)
    BY <1>4 DEF clear, Applied
  <1> QED BY <1>1, <1>2, <1>3, <1>4 DEF Step

-------------------------------------------------------------------------------
(***************************************************************************)
(* Types and the size counter.                                             *)
(***************************************************************************)
NetOK ==
    /\ issued \subseteq MapOp
    /\ delivered \in [Replica -> SUBSET MapOp]
    /\ context \in [Stamp -> SUBSET MapOp]

MapsOK == DOMAIN map = Replica /\ \A r \in Replica : MapOK(map[r])

StateOK == NetOK /\ MapsOK

LEMMA InitStateOK == Init => StateOK
  BY NewMapOK DEF Init, NetInit, StateOK, NetOK, MapsOK

LEMMA CallNetOK ==
    ASSUME NetOK, NEW r \in Replica, NEW op \in MapOp, Call(r, op)
    PROVE  NetOK' /\ delivered' = [delivered EXCEPT ![r] = delivered[r] \cup {op}]
  <1>1. CASE Originate(r, op)
    BY <1>1, OpType DEF NetOK, Originate
  <1>2. CASE Receive(r, op)
    BY <1>2 DEF NetOK, Receive
  <1> QED BY <1>1, <1>2 DEF Call

LEMMA NextStateOK == StateOK /\ [Next]_vars => StateOK'
  <1> SUFFICES ASSUME StateOK, [Next]_vars
               PROVE  StateOK'
    OBVIOUS
  <1>1. ASSUME NEW r \in Replica, NEW op \in MapOp, Step(r, op)
        PROVE  StateOK'
    <2>1. Call(r, op) /\ map' = [map EXCEPT ![r] = Applied(map[r], op)]
      BY <1>1, StepApplies
    <2>2. NetOK'
      BY <2>1, CallNetOK DEF StateOK
    <2>3. MapsOK'
      BY <2>1, AppliedOK DEF StateOK, MapsOK
    <2> QED BY <2>2, <2>3 DEF StateOK
  <1>2. CASE UNCHANGED vars
    BY <1>2 DEF vars, StateOK, NetOK, MapsOK
  <1> QED BY <1>1, <1>2 DEF Next

\* The inductive invariant: a map's counter is the number of its living keys, and every
\* key ever seen has one register.
THEOREM StateCorrect == Spec => []StateOK
  BY InitStateOK, NextStateOK, PTL DEF Spec

\* Every variable has its type in every reachable state; no counter goes below zero.
THEOREM MapTypeCorrect == Spec => []TypeOK
  <1>1. ASSUME StateOK, NEW r \in Replica
        PROVE  LET keys == map[r].keys IN
                 /\ map[r] = MapState(keys, map[r].value)
                 /\ keys = SetState(keys.map, keys.sizeAlive, keys.lastClearTime)
                 /\ DOMAIN keys.map \subseteq Key
                 /\ keys.map \in [DOMAIN keys.map -> Metadata]
                 /\ keys.sizeAlive \in Nat
                 /\ keys.lastClearTime \in Nat
                 /\ map[r].value \in [DOMAIN keys.map -> [reg : Value \cup {Default}, timestamp : Nat]]
    BY <1>1, AliveFinite DEF StateOK, MapsOK, MapOK, WellFormed, RegisterType
  <1>2. StateOK => TypeOK
    BY <1>1 DEF StateOK, NetOK, MapsOK, TypeOK
  <1> QED BY <1>2, StateCorrect, PTL

-------------------------------------------------------------------------------
(***************************************************************************)
(* The contents.  That a key holds the latest of its updates is inductive  *)
(* only if it is said of the keys that are not there too: none of them was *)
(* updated, so that the default content it enters with is right.           *)
(***************************************************************************)
Latest(x, U) ==
    /\ \A op \in U : op.stamp <= x.timestamp
    /\ IF U = {} THEN x = NewRegister
       ELSE \E op \in U : x = Register(op.value, op.stamp)

ContentsOK(m, D) == \A k \in Key : Latest(Content(m, k), Updates(D, k))

ContentInv == StateOK /\ \A r \in Replica : ContentsOK(map[r], delivered[r])

LEMMA RegisterFields ==
    ASSUME NEW v, NEW t
    PROVE  Register(v, t).reg = v /\ Register(v, t).timestamp = t
  BY DEF Register

LEMMA UpdateLatest ==
    ASSUME NEW x \in RegisterType, NEW U \in SUBSET MapOp, Latest(x, U),
           NEW op \in MapOp, op.kind = "update"
    PROVE  Latest(Update(x, op.value, op.stamp), U \cup {op})
  <1> DEFINE y == Update(x, op.value, op.stamp)
  <1>1. op.stamp \in Nat /\ op.stamp > 0 /\ \A o \in U : o.stamp \in Nat
    BY OpType
  <1>2. x.timestamp \in Nat
    BY DEF RegisterType
  <1>3. CASE op.stamp > x.timestamp
    <2>1. y = Register(op.value, op.stamp) /\ y.timestamp = op.stamp
      BY <1>3, RegisterFields DEF Update
    <2>2. \A o \in U : o.stamp <= op.stamp
      BY <1>1, <1>2, <1>3 DEF Latest
    <2> QED BY <1>1, <2>1, <2>2 DEF Latest
  <1>4. CASE ~ (op.stamp > x.timestamp)
    <2>1. y = x
      BY <1>4 DEF Update
    <2>2. op.stamp <= x.timestamp
      BY <1>1, <1>2, <1>4
    <2>3. U # {}
      BY <1>1, <2>2, RegisterFields DEF Latest, NewRegister
    <2> QED BY <2>1, <2>2, <2>3 DEF Latest
  <1> QED BY <1>3, <1>4

LEMMA AppliedContentsOK ==
    ASSUME NEW m, MapOK(m), NEW D \in SUBSET MapOp, ContentsOK(m, D), NEW op \in MapOp
    PROVE  ContentsOK(Applied(m, op), D \cup {op})
  <1> DEFINE n == Applied(m, op)
  <1>1. /\ op.kind # "update" => \A x : Content(n, x) = Content(m, x)
        /\ op.kind = "update" =>
              /\ Content(n, op.key) = Update(Content(m, op.key), op.value, op.stamp)
              /\ \A x : x # op.key => Content(n, x) = Content(m, x)
    BY AppliedContent
  <1> HIDE DEF n
  <1>2. ASSUME NEW k \in Key
        PROVE  Latest(Content(n, k), Updates(D \cup {op}, k))
    <2>1. Latest(Content(m, k), Updates(D, k)) /\ Updates(D, k) \in SUBSET MapOp
      BY DEF ContentsOK, Updates
    <2>2. CASE op.kind = "update" /\ op.key = k
      <3>1. Updates(D \cup {op}, k) = Updates(D, k) \cup {op}
        BY <2>2 DEF Updates
      <3>2. Content(m, k) \in RegisterType
        BY ContentType
      <3>3. Content(n, k) = Update(Content(m, k), op.value, op.stamp)
        BY <1>1, <2>2
      <3> QED BY <2>1, <2>2, <3>1, <3>2, <3>3, UpdateLatest
    <2>3. CASE ~ (op.kind = "update" /\ op.key = k)
      <3>1. Updates(D \cup {op}, k) = Updates(D, k)
        BY <2>3 DEF Updates
      <3>2. Content(n, k) = Content(m, k)
        BY <1>1, <2>3
      <3> QED BY <2>1, <3>1, <3>2
    <2> QED BY <2>2, <2>3
  <1> QED BY <1>2 DEF ContentsOK, n

LEMMA InitContentInv == Init => ContentInv
  <1> SUFFICES ASSUME Init
               PROVE  ContentInv
    OBVIOUS
  <1>1. \A r \in Replica : delivered[r] = {} /\ map[r] = NewMap
    BY DEF Init, NetInit
  <1>2. \A k : Content(NewMap, k) = NewRegister
    BY NewMapOK, NewSetFields DEF Content
  <1>3. \A k : Updates({}, k) = {}
    BY DEF Updates
  <1>4. ContentsOK(NewMap, {})
    BY <1>2, <1>3 DEF ContentsOK, Latest
  <1> QED BY <1>1, <1>4, InitStateOK DEF ContentInv

LEMMA NextContentInv == ContentInv /\ [Next]_vars => ContentInv'
  <1> SUFFICES ASSUME ContentInv, [Next]_vars
               PROVE  ContentInv'
    OBVIOUS
  <1>1. StateOK'
    BY NextStateOK DEF ContentInv
  <1>2. ASSUME NEW r \in Replica, NEW op \in MapOp, Step(r, op)
        PROVE  ContentInv'
    <2>1. /\ map' = [map EXCEPT ![r] = Applied(map[r], op)]
          /\ delivered' = [delivered EXCEPT ![r] = delivered[r] \cup {op}]
          /\ DOMAIN map = Replica /\ DOMAIN delivered = Replica
          /\ MapOK(map[r]) /\ delivered[r] \in SUBSET MapOp
      BY <1>2, StepApplies, CallNetOK DEF ContentInv, StateOK, NetOK, MapsOK
    <2>2. ContentsOK(Applied(map[r], op), delivered[r] \cup {op})
      BY <2>1, AppliedContentsOK DEF ContentInv
    <2> QED BY <1>1, <2>1, <2>2 DEF ContentInv
  <1>3. CASE UNCHANGED vars
    BY <1>1, <1>3 DEF vars, ContentInv
  <1> QED BY <1>2, <1>3 DEF Next

\* The inductive invariant behind the contents.
THEOREM ContentInvHolds == Spec => []ContentInv
  BY InitContentInv, NextContentInv, PTL DEF Spec

\* The content of a key is that of its latest update, in any order of delivery, whatever
\* adds, removes and clears came in between.
THEOREM ValuesAreLastWritesCorrect == Spec => []ValuesAreLastWrites
  <1>1. ASSUME ContentInv, NEW r \in Replica, NEW k \in DOMAIN map[r].value
        PROVE  LET U == Updates(delivered[r], k) IN
               IF U = {} THEN CrdtAt(map[r], k) = NewRegister
               ELSE \E op \in U : /\ CrdtAt(map[r], k) = Register(op.value, op.stamp)
                                  /\ \A o \in U : o.stamp <= op.stamp
    <2>1. MapOK(map[r]) /\ ContentsOK(map[r], delivered[r])
      BY <1>1 DEF ContentInv, StateOK, MapsOK
    <2>2. k \in Key /\ CrdtAt(map[r], k) = Content(map[r], k)
      BY <1>1, <2>1 DEF MapOK, Content, CrdtAt
    <2>3. Latest(Content(map[r], k), Updates(delivered[r], k))
      BY <2>1, <2>2 DEF ContentsOK
    <2> QED BY <2>2, <2>3, RegisterFields DEF Latest
  <1>2. ContentInv => ValuesAreLastWrites
    BY <1>1 DEF ValuesAreLastWrites
  <1> QED BY <1>2, ContentInvHolds, PTL

-------------------------------------------------------------------------------
(***************************************************************************)
(* The keys.  Marked: every timestamp and mark comes from an operation     *)
(* applied; a mark at 0 from an update that came before its key.           *)
(* Explained: the same of a map no clear has reached.  Absorbed: no key is *)
(* older than what was applied to it.                                      *)
(***************************************************************************)
AddsKey(op, k) == op.kind = "add" /\ op.key = k
RemovesKey(op, k) == op.kind = "remove" /\ op.key = k
UpdatesKey(op, k) == op.kind = "update" /\ op.key = k

Marked(s, D) ==
    /\ \/ s.lastClearTime = 0
       \/ \E op \in D : op.kind = "clear" /\ op.stamp = s.lastClearTime
    /\ \A k \in DOMAIN s.map :
          IF s.map[k].isRemoved
          THEN \/ s.map[k].timestamp = 0 /\ \E op \in D : UpdatesKey(op, k)
               \/ \E op \in D : RemovesKey(op, k) /\ op.stamp = s.map[k].timestamp
               \/ \E op \in D : op.kind = "clear" /\ op.stamp = s.map[k].timestamp
          ELSE \E op \in D : AddsKey(op, k) /\ op.stamp = s.map[k].timestamp

Explained(s, D) ==
    /\ s.lastClearTime = 0
    /\ \A k \in DOMAIN s.map :
          IF s.map[k].isRemoved
          THEN \/ s.map[k].timestamp = 0 /\ \E op \in D : UpdatesKey(op, k)
               \/ \E op \in D : RemovesKey(op, k) /\ op.stamp = s.map[k].timestamp
          ELSE \E op \in D : AddsKey(op, k) /\ op.stamp = s.map[k].timestamp

Absorbed(s, D) ==
    \A op \in D : \A k \in Key :
        /\ AddsKey(op, k) \/ RemovesKey(op, k) => Recent(s, k, op.stamp)
        /\ UpdatesKey(op, k) => Recent(s, k, 0)

LEMMA UnclearedExplained ==
    ASSUME NEW s, NEW D, Marked(s, D), \A op \in D : op.kind # "clear"
    PROVE  Explained(s, D)
  BY DEF Marked, Explained

LEMMA MarkedByMore ==
    ASSUME NEW s, NEW D, NEW E, D \subseteq E, Marked(s, D)
    PROVE  Marked(s, E)
  <1>1. ASSUME NEW k \in DOMAIN s.map
        PROVE  IF s.map[k].isRemoved
               THEN \/ s.map[k].timestamp = 0 /\ \E op \in E : UpdatesKey(op, k)
                    \/ \E op \in E : RemovesKey(op, k) /\ op.stamp = s.map[k].timestamp
                    \/ \E op \in E : op.kind = "clear" /\ op.stamp = s.map[k].timestamp
               ELSE \E op \in E : AddsKey(op, k) /\ op.stamp = s.map[k].timestamp
    BY DEF Marked
  <1>2. \/ s.lastClearTime = 0
        \/ \E op \in E : op.kind = "clear" /\ op.stamp = s.lastClearTime
    BY DEF Marked
  <1> QED BY <1>1, <1>2 DEF Marked

LEMMA AddMarked ==
    ASSUME NEW s, WellFormed(s), NEW D, Marked(s, D), NEW op \in D, NEW k,
           AddsKey(op, k), op.stamp \in Nat, op.stamp > 0,
           NEW u, u = Add(s, k, op.stamp)
    PROVE  Marked(u, D)
  <1>1. CASE u = s
    BY <1>1
  <1>2. CASE Binds(s, u, k, Added(op.stamp))
    BY <1>2, MetaType DEF Binds, Marked
  <1>3. CASE Binds(s, u, k, Removed(s.lastClearTime)) /\ op.stamp <= s.lastClearTime
    <2>1. s.lastClearTime \in Nat /\ s.lastClearTime # 0
      BY <1>3, FieldTypes
    <2>2. \E o \in D : o.kind = "clear" /\ o.stamp = s.lastClearTime
      BY <2>1 DEF Marked
    <2> QED BY <1>3, <2>1, <2>2, MetaType DEF Binds, Marked
  <1> QED BY <1>1, <1>2, <1>3, AddEffect

LEMMA RemoveMarked ==
    ASSUME NEW s, WellFormed(s), NEW D, Marked(s, D), NEW k, NEW t \in Nat,
           \/ t = 0 /\ \E op \in D : UpdatesKey(op, k)
           \/ \E op \in D : RemovesKey(op, k) /\ op.stamp = t,
           NEW u, u = Remove(s, k, t)
    PROVE  Marked(u, D)
  <1>1. CASE u = s
    BY <1>1
  <1>2. CASE Binds(s, u, k, Removed(t))
    BY <1>2, MetaType DEF Binds, Marked
  <1> QED BY <1>1, <1>2, RemoveEffect

LEMMA ClearMarked ==
    ASSUME NEW s, WellFormed(s), NEW D, Marked(s, D), NEW op \in D,
           op.kind = "clear", op.stamp \in Nat,
           NEW u, u = Clear(s, op.stamp)
    PROVE  Marked(u, D)
  <1>1. CASE u = s
    BY <1>1
  <1>2. CASE Clears(s, u, op.stamp)
    BY <1>2, MetaType DEF Clears, Marked
  <1> QED BY <1>1, <1>2, ClearEffect

LEMMA AppliedMarked ==
    ASSUME NEW m, MapOK(m), NEW D, Marked(m.keys, D), NEW op \in MapOp
    PROVE  Marked(Applied(m, op).keys, D \cup {op})
  <1> DEFINE E == D \cup {op}
             s == m.keys
             u == Applied(m, op).keys
  <1>1. WellFormed(s) /\ Marked(s, E) /\ op \in E
    BY KeysWellFormed, MarkedByMore
  <1>2. op.stamp \in Nat /\ op.stamp > 0
    BY OpType
  <1>3. /\ op.kind = "add" => u = Add(s, op.key, op.stamp)
        /\ op.kind = "remove" => u = Remove(s, op.key, op.stamp)
        /\ op.kind = "update" => u = Remove(s, op.key, 0)
        /\ op.kind = "clear" => u = Clear(s, op.stamp)
    BY AppliedKeys
  <1> HIDE DEF E, s, u
  <1>4. CASE op.kind = "add"
    <2>1. Marked(u, E)
      BY <1>1, <1>2, <1>3, <1>4, AddMarked DEF AddsKey
    <2> QED BY <2>1 DEF E, u
  <1>5. CASE op.kind = "remove"
    <2>1. RemovesKey(op, op.key)
      BY <1>5 DEF RemovesKey
    <2>2. Marked(u, E)
      BY <1>1, <1>2, <1>3, <1>5, <2>1, RemoveMarked
    <2> QED BY <2>2 DEF E, u
  <1>6. CASE op.kind = "update"
    <2>1. UpdatesKey(op, op.key)
      BY <1>6 DEF UpdatesKey
    <2>2. Marked(u, E)
      BY <1>1, <1>3, <1>6, <2>1, RemoveMarked
    <2> QED BY <2>2 DEF E, u
  <1>7. CASE op.kind = "clear"
    <2>1. Marked(u, E)
      BY <1>1, <1>2, <1>3, <1>7, ClearMarked
    <2> QED BY <2>1 DEF E, u
  <1> QED BY <1>4, <1>5, <1>6, <1>7, OpType

LEMMA RecentStays ==
    ASSUME NEW s, WellFormed(s), NEW u, WellFormed(u), Grows(s, u), NEW k, NEW t \in Nat,
           Recent(s, k, t)
    PROVE  Recent(u, k, t)
  BY FieldTypes DEF Grows, Recent

LEMMA AppliedAbsorbs ==
    ASSUME NEW m, MapOK(m), NEW D \in SUBSET MapOp, Absorbed(m.keys, D), NEW op \in MapOp
    PROVE  Absorbed(Applied(m, op).keys, D \cup {op})
  <1> DEFINE s == m.keys
             u == Applied(m, op).keys
  <1>1. WellFormed(s) /\ WellFormed(u)
    BY KeysWellFormed, AppliedOK
  <1>2. /\ op.kind = "add" => u = Add(s, op.key, op.stamp)
        /\ op.kind = "remove" => u = Remove(s, op.key, op.stamp)
        /\ op.kind = "update" => u = Remove(s, op.key, 0)
        /\ op.kind = "clear" => u = Clear(s, op.stamp)
    BY AppliedKeys
  <1>3. Absorbed(s, D)
    OBVIOUS
  <1> HIDE DEF s, u
  <1>4. /\ Grows(s, u)
        /\ op.kind \in {"add", "remove"} => Recent(u, op.key, op.stamp)
        /\ op.kind = "update" => Recent(u, op.key, 0)
    <2>1. op.stamp \in Nat
      BY OpType
    <2>2. CASE op.kind = "add"
      BY <1>1, <1>2, <2>1, <2>2, AddGrows
    <2>3. CASE op.kind = "remove"
      BY <1>1, <1>2, <2>1, <2>3, RemoveGrows
    <2>4. CASE op.kind = "update"
      BY <1>1, <1>2, <2>1, <2>4, RemoveGrows
    <2>5. CASE op.kind = "clear"
      BY <1>1, <1>2, <2>1, <2>5, ClearGrows
    <2> QED BY <2>2, <2>3, <2>4, <2>5, OpType
  <1>5. ASSUME NEW o \in D, NEW k \in Key
        PROVE  /\ AddsKey(o, k) \/ RemovesKey(o, k) => Recent(u, k, o.stamp)
               /\ UpdatesKey(o, k) => Recent(u, k, 0)
    <2>1. /\ AddsKey(o, k) \/ RemovesKey(o, k) => Recent(s, k, o.stamp)
          /\ UpdatesKey(o, k) => Recent(s, k, 0)
      BY <1>3 DEF Absorbed
    <2>2. o.stamp \in Nat
      BY OpType
    <2> QED BY <1>1, <1>4, <2>1, <2>2, RecentStays
  <1>6. Absorbed(u, D \cup {op})
    BY <1>4, <1>5 DEF Absorbed, AddsKey, RemovesKey, UpdatesKey
  <1> QED BY <1>6 DEF u

\* The operations of D that concern a key: all but the updates.
LEMMA KeyOpTypes ==
    ASSUME NEW D \in SUBSET MapOp, NEW op, NEW k
    PROVE  /\ op \in KeyOps(D) => op \in D
           /\ op \in KeyOps(D) /\ Concerns(op, k) =>
                 AddsKey(op, k) \/ RemovesKey(op, k) \/ op.kind = "clear"
           /\ op \in KeyOps(D) \ ClearOp /\ Concerns(op, k) => AddsKey(op, k) \/ RemovesKey(op, k)
           /\ op \in D /\ AddsKey(op, k) =>
                 op \in KeyOps(D) \ ClearOp /\ Concerns(op, k) /\ op.kind = "add"
           /\ op \in D /\ RemovesKey(op, k) => op \in KeyOps(D) /\ Concerns(op, k)
           /\ op \in D /\ op.kind = "clear" => op \in KeyOps(D) /\ Concerns(op, k)
  <1>1. op \in D => op.kind \in {"add", "remove", "update", "clear"}
    BY OpType
  <1>2. op \in D /\ op.kind = "clear" => op \in ClearOp
    BY DEF MapOp, Op, KeyOp, ClearOp, UpdateOp
  <1>3. op \in ClearOp => op.kind = "clear"
    BY DEF ClearOp
  <1> QED BY <1>1, <1>2, <1>3 DEF KeyOps, Concerns, AddsKey, RemovesKey

\* Keys that absorbed D, and hold nothing else, lie between the last words of D with its
\* clears and those without, updates aside.
LEMMA KeysBetweenViews ==
    ASSUME NEW s, WellFormed(s), DOMAIN s.map \subseteq Key,
           NEW D \in SUBSET MapOp, UniqueStamps(D), Marked(s, D), Absorbed(s, D)
    PROVE  /\ LWWView(KeyOps(D)) \subseteq Alive(s)
           /\ Alive(s) \subseteq LWWView(KeyOps(D) \ ClearOp)
  <1>1. ASSUME NEW k, Find(s, k)
        PROVE  k \in LWWView(KeyOps(D) \ ClearOp)
    <2>1. k \in DOMAIN s.map /\ ~ s.map[k].isRemoved /\ k \in Key
      BY <1>1 DEF Find
    <2>2. PICK op \in D : AddsKey(op, k) /\ op.stamp = s.map[k].timestamp
      BY <2>1 DEF Marked
    <2>3. ASSUME NEW o \in KeyOps(D) \ ClearOp, Concerns(o, k)
          PROVE  o.stamp <= op.stamp
      <3>1. o \in D /\ (AddsKey(o, k) \/ RemovesKey(o, k))
        BY <2>3, KeyOpTypes
      <3> QED BY <2>1, <2>2, <3>1 DEF Absorbed, Recent
    <2>4. op \in KeyOps(D) \ ClearOp /\ Concerns(op, k) /\ op.kind = "add"
      BY <2>2, KeyOpTypes
    <2> QED BY <2>1, <2>3, <2>4 DEF LWWView, LastWord
  <1>2. ASSUME NEW k \in LWWView(KeyOps(D))
        PROVE  Find(s, k)
    <2>1. k \in Key
      BY DEF LWWView
    <2>2. PICK op \in KeyOps(D) : op.kind = "add" /\ LastWord(op, KeyOps(D), k)
      BY <1>2 DEF LWWView
    <2>3. /\ op \in D /\ AddsKey(op, k)
          /\ \A o \in KeyOps(D) : Concerns(o, k) => o.stamp <= op.stamp
      BY <2>2, KeyOpTypes DEF LastWord, AddsKey, RemovesKey
    <2>4. Recent(s, k, op.stamp) /\ op.stamp \in Nat /\ op.stamp > 0
      BY <2>1, <2>3, OpType DEF Absorbed
    <2>5. s.map[k].timestamp \in Nat /\ k \in DOMAIN s.map /\ op.stamp <= s.map[k].timestamp
      BY <2>4, FieldTypes DEF Recent
    <2>6. ASSUME s.map[k].isRemoved
          PROVE  FALSE
      <3>1. s.map[k].timestamp # 0
        BY <2>4, <2>5
      <3>2. PICK o \in D : /\ RemovesKey(o, k) \/ o.kind = "clear"
                           /\ o.stamp = s.map[k].timestamp
        BY <2>5, <2>6, <3>1 DEF Marked
      <3>3. o.stamp <= op.stamp /\ o.stamp \in Nat
        BY <2>3, <3>2, KeyOpTypes, OpType
      <3>4. o.stamp = op.stamp
        BY <2>4, <2>5, <3>2, <3>3
      <3>5. o = op
        BY <2>3, <3>4 DEF UniqueStamps
      <3> QED BY <2>3, <3>2, <3>5 DEF AddsKey, RemovesKey
    <2> QED BY <2>5, <2>6 DEF Find
  <1> QED BY <1>1, <1>2, AliveIsFound

\* The mark and timestamp of a key are determined by what was applied.
LEMMA OneEntryPerHistory ==
    ASSUME NEW s, WellFormed(s), NEW u, WellFormed(u),
           NEW D \in SUBSET MapOp, UniqueStamps(D),
           Explained(s, D), Absorbed(s, D), Explained(u, D), Absorbed(u, D),
           NEW k \in Key, k \in DOMAIN s.map
    PROVE  k \in DOMAIN u.map /\ u.map[k] = s.map[k]
  <1>1. /\ s.map[k].timestamp \in Nat /\ s.map[k].isRemoved \in BOOLEAN
        /\ s.map[k] \in Metadata
    BY FieldTypes
  <1>2. \A o \in D : o.stamp \in Nat /\ o.stamp > 0
    BY OpType
  <1>3. k \in DOMAIN u.map
    BY <1>1 DEF Explained, Absorbed, Recent
  <1>4. /\ u.map[k].timestamp \in Nat /\ u.map[k].isRemoved \in BOOLEAN
        /\ u.map[k] \in Metadata
    BY <1>3, FieldTypes
  <1>5. \A o \in D : AddsKey(o, k) \/ RemovesKey(o, k) =>
            o.stamp <= s.map[k].timestamp /\ o.stamp <= u.map[k].timestamp
    BY DEF Absorbed, Recent
  <1>6. \/ s.map[k].isRemoved /\ s.map[k].timestamp = 0
        \/ \E o \in D : o.stamp = s.map[k].timestamp /\
              \/ AddsKey(o, k) /\ ~ s.map[k].isRemoved
              \/ RemovesKey(o, k) /\ s.map[k].isRemoved
    BY DEF Explained
  <1>7. \/ u.map[k].isRemoved /\ u.map[k].timestamp = 0
        \/ \E o \in D : o.stamp = u.map[k].timestamp /\
              \/ AddsKey(o, k) /\ ~ u.map[k].isRemoved
              \/ RemovesKey(o, k) /\ u.map[k].isRemoved
    BY <1>3 DEF Explained
  <1>8. /\ s.map[k].timestamp = u.map[k].timestamp
        /\ s.map[k].isRemoved <=> u.map[k].isRemoved
    <2>1. CASE /\ s.map[k].isRemoved /\ s.map[k].timestamp = 0
               /\ u.map[k].isRemoved /\ u.map[k].timestamp = 0
      BY <2>1
    <2>2. CASE s.map[k].isRemoved /\ s.map[k].timestamp = 0
      BY <1>2, <1>5, <1>7, <2>2
    <2>3. CASE u.map[k].isRemoved /\ u.map[k].timestamp = 0
      BY <1>2, <1>5, <1>6, <2>3
    <2>4. ASSUME NEW o \in D, o.stamp = s.map[k].timestamp,
                 \/ AddsKey(o, k) /\ ~ s.map[k].isRemoved
                 \/ RemovesKey(o, k) /\ s.map[k].isRemoved,
                 NEW p \in D, p.stamp = u.map[k].timestamp,
                 \/ AddsKey(p, k) /\ ~ u.map[k].isRemoved
                 \/ RemovesKey(p, k) /\ u.map[k].isRemoved
          PROVE  /\ s.map[k].timestamp = u.map[k].timestamp
                 /\ s.map[k].isRemoved <=> u.map[k].isRemoved
      <3>1. o.stamp = p.stamp
        BY <1>1, <1>4, <1>5, <2>4
      <3>2. o = p
        BY <3>1 DEF UniqueStamps
      <3> QED BY <2>4, <3>2 DEF AddsKey, RemovesKey
    <2> QED BY <1>6, <1>7, <2>1, <2>2, <2>3, <2>4
  <1> QED BY <1>1, <1>3, <1>4, <1>8 DEF Metadata

\* So is the content of a key.
LEMMA OneContentPerHistory ==
    ASSUME NEW x, NEW y, NEW U \in SUBSET MapOp, UniqueStamps(U), Latest(x, U), Latest(y, U)
    PROVE  x = y
  <1>1. CASE U = {}
    BY <1>1 DEF Latest
  <1>2. CASE U # {}
    <2>1. PICK o \in U : x = Register(o.value, o.stamp)
      BY <1>2 DEF Latest
    <2>2. PICK p \in U : y = Register(p.value, p.stamp)
      BY <1>2 DEF Latest
    <2>3. o.stamp <= p.stamp /\ p.stamp <= o.stamp
      BY <2>1, <2>2, RegisterFields DEF Latest
    <2>4. o = p
      BY <2>3, OpType DEF UniqueStamps
    <2> QED BY <2>1, <2>2, <2>4
  <1> QED BY <1>1, <1>2

LEMMA OneMapPerHistory ==
    ASSUME NEW m, MapOK(m), NEW n, MapOK(n), NEW D \in SUBSET MapOp, UniqueStamps(D),
           Explained(m.keys, D), Absorbed(m.keys, D), ContentsOK(m, D),
           Explained(n.keys, D), Absorbed(n.keys, D), ContentsOK(n, D)
    PROVE  m = n
  <1> DEFINE s == m.keys
             u == n.keys
  <1>1. /\ WellFormed(s) /\ DOMAIN s.map \subseteq Key
        /\ WellFormed(u) /\ DOMAIN u.map \subseteq Key
    BY KeysWellFormed
  <1>2. /\ \A k \in DOMAIN s.map : k \in DOMAIN u.map /\ u.map[k] = s.map[k]
        /\ \A k \in DOMAIN u.map : k \in DOMAIN s.map
    BY <1>1, OneEntryPerHistory
  <1>3. DOMAIN m.value = DOMAIN s.map /\ DOMAIN n.value = DOMAIN u.map
        /\ m = MapState(s, m.value) /\ n = MapState(u, n.value)
        /\ m.value = [k \in DOMAIN m.value |-> m.value[k]]
        /\ n.value = [k \in DOMAIN n.value |-> n.value[k]]
    BY DEF MapOK
  <1>4. \A k \in Key : Content(m, k) = Content(n, k)
    <2> SUFFICES ASSUME NEW k \in Key
                 PROVE  Content(m, k) = Content(n, k)
      OBVIOUS
    <2>1. Latest(Content(m, k), Updates(D, k)) /\ Latest(Content(n, k), Updates(D, k))
      BY DEF ContentsOK
    <2>2. Updates(D, k) \in SUBSET MapOp /\ UniqueStamps(Updates(D, k))
      BY DEF Updates, UniqueStamps
    <2> QED BY <2>1, <2>2, OneContentPerHistory
  <1>5. s = u
    <2>1. /\ s = SetState(s.map, s.sizeAlive, 0) /\ u = SetState(u.map, u.sizeAlive, 0)
          /\ s.map = [k \in DOMAIN s.map |-> s.map[k]]
          /\ u.map = [k \in DOMAIN u.map |-> u.map[k]]
          /\ s.sizeAlive = Cardinality(Alive(s)) /\ u.sizeAlive = Cardinality(Alive(u))
      BY <1>1 DEF WellFormed, Explained
    <2>2. DOMAIN s.map = DOMAIN u.map
      BY <1>2
    <2>3. s.map = u.map
      BY <1>2, <2>1, <2>2
    <2>4. Alive(s) = Alive(u)
      BY <2>3 DEF Alive, Find
    <2> QED BY <2>1, <2>3, <2>4
  <1>6. m.value = n.value
    <2>1. DOMAIN m.value = DOMAIN n.value
      BY <1>3, <1>5
    <2>2. \A k \in DOMAIN m.value : m.value[k] = n.value[k]
      BY <1>1, <1>3, <1>4, <1>5 DEF Content
    <2> QED BY <1>3, <2>1, <2>2
  <1> QED BY <1>3, <1>5, <1>6

\* Equal maps are equal for the operators of the code.
LEMMA EqualMaps ==
    ASSUME NEW m, MapOK(m)
    PROVE  SameData(m, m) /\ CrdtEqualData(m, m)
  <1>1. DOMAIN m.value = DOMAIN m.keys.map
    BY DEF MapOK
  <1>2. EqualRegisters(m, m) = DOMAIN m.keys.map
    BY DEF EqualRegisters, SameRegister, CrdtKeys, CrdtAt
  <1>3. \A k \in Living(m) : FindKey(m, k) /\ k \in DOMAIN m.keys.map
    BY AliveIsFound DEF Living, FindKey, Find
  <1>4. SameData(m, m)
    BY <1>2, <1>3 DEF SameData, SameMap
  <1>5. CrdtEqualData(m, m)
    BY <1>2 DEF CrdtEqualData, CrdtEqualMap, CrdtEqual, CrdtKeys
  <1> QED BY <1>4, <1>5

-------------------------------------------------------------------------------
UniqueHistory ==
    /\ UniqueStamps(issued)
    /\ \A r \in Replica : delivered[r] \subseteq issued

KeysKnown ==
    \A r \in Replica :
        Marked(map[r].keys, delivered[r]) /\ Absorbed(map[r].keys, delivered[r])

KeyInv == ContentInv /\ UniqueHistory /\ KeysKnown

LEMMA InitKeyInv == Init => KeyInv
  <1> SUFFICES ASSUME Init
               PROVE  KeyInv
    OBVIOUS
  <1>1. issued = {} /\ \A r \in Replica : delivered[r] = {} /\ map[r] = NewMap
    BY DEF Init, NetInit
  <1>2. UniqueHistory
    BY <1>1 DEF UniqueHistory, UniqueStamps
  <1>3. KeysKnown
    BY <1>1, NewMapOK, NewSetFields DEF KeysKnown, Marked, Absorbed
  <1> QED BY <1>2, <1>3, InitContentInv DEF KeyInv

LEMMA StepUniqueHistory ==
    ASSUME KeyInv, NEW r \in Replica, NEW op \in MapOp, Step(r, op)
    PROVE  UniqueHistory'
  <1>1. /\ Call(r, op)
        /\ delivered' = [delivered EXCEPT ![r] = delivered[r] \cup {op}]
        /\ DOMAIN delivered = Replica
    BY StepApplies, CallNetOK DEF KeyInv, ContentInv, StateOK, NetOK
  <1>2. CASE Receive(r, op)
    BY <1>1, <1>2 DEF Receive, KeyInv, UniqueHistory, UniqueStamps
  <1>3. CASE Originate(r, op)
    <2>1. issued' = issued \cup {op} /\ \A o \in issued : o.stamp # op.stamp
      BY <1>3 DEF Originate
    <2>2. UniqueStamps(issued')
      BY <2>1 DEF KeyInv, UniqueHistory, UniqueStamps
    <2> QED BY <1>1, <2>1, <2>2 DEF KeyInv, UniqueHistory
  <1> QED BY <1>1, <1>2, <1>3 DEF Call

LEMMA NextKeyInv == KeyInv /\ [Next]_vars => KeyInv'
  <1> SUFFICES ASSUME KeyInv, [Next]_vars
               PROVE  KeyInv'
    OBVIOUS
  <1>1. ContentInv'
    BY NextContentInv DEF KeyInv
  <1>2. ASSUME NEW r \in Replica, NEW op \in MapOp, Step(r, op)
        PROVE  KeyInv'
    <2>1. /\ map' = [map EXCEPT ![r] = Applied(map[r], op)]
          /\ delivered' = [delivered EXCEPT ![r] = delivered[r] \cup {op}]
          /\ DOMAIN map = Replica /\ DOMAIN delivered = Replica
          /\ MapOK(map[r]) /\ delivered[r] \in SUBSET MapOp
      BY <1>2, StepApplies, CallNetOK DEF KeyInv, ContentInv, StateOK, NetOK, MapsOK
    <2>2. UniqueHistory'
      BY <1>2, StepUniqueHistory
    <2>3. ASSUME NEW q \in Replica
          PROVE  Marked(map'[q].keys, delivered'[q]) /\ Absorbed(map'[q].keys, delivered'[q])
      <3>1. Marked(map[q].keys, delivered[q]) /\ Absorbed(map[q].keys, delivered[q])
        BY DEF KeyInv, KeysKnown
      <3>2. CASE q = r
        <4>1. map'[q] = Applied(map[r], op) /\ delivered'[q] = delivered[r] \cup {op}
          BY <2>1, <3>2
        <4>2. Marked(Applied(map[r], op).keys, delivered[r] \cup {op})
          BY <2>1, <3>1, <3>2, AppliedMarked
        <4>3. Absorbed(Applied(map[r], op).keys, delivered[r] \cup {op})
          BY <2>1, <3>1, <3>2, AppliedAbsorbs
        <4> QED BY <4>1, <4>2, <4>3
      <3>3. CASE q # r
        BY <2>1, <3>1, <3>3
      <3> QED BY <3>2, <3>3
    <2> QED BY <1>1, <2>2, <2>3 DEF KeyInv, KeysKnown
  <1>3. CASE UNCHANGED vars
    BY <1>1, <1>3 DEF vars, KeyInv, UniqueHistory, KeysKnown
  <1> QED BY <1>2, <1>3 DEF Next

\* The inductive invariant behind the keys: they are explained by the operations applied
\* and as recent as all of them but the clears.
THEOREM KeyInvHolds == Spec => []KeyInv
  BY InitKeyInv, NextKeyInv, PTL DEF Spec

\* The placeholders early updates leave show no key and stop no add: updates aside, every
\* key whose last word is an add is living, and no key whose last word, clears aside, is a
\* remove.
THEOREM UpdatesAddNoKeyCorrect == Spec => []UpdatesAddNoKey
  <1>1. KeyInv => UpdatesAddNoKey
    <2> SUFFICES ASSUME KeyInv, NEW r \in Replica
                 PROVE  /\ LWWView(KeyOps(delivered[r])) \subseteq Living(map[r])
                        /\ Living(map[r]) \subseteq LWWView(KeyOps(delivered[r]) \ ClearOp)
      BY DEF UpdatesAddNoKey
    <2>1. /\ MapOK(map[r]) /\ delivered[r] \in SUBSET MapOp
          /\ UniqueStamps(delivered[r])
          /\ Marked(map[r].keys, delivered[r]) /\ Absorbed(map[r].keys, delivered[r])
      BY DEF KeyInv, ContentInv, StateOK, NetOK, MapsOK, UniqueHistory, UniqueStamps, KeysKnown
    <2> QED BY <2>1, KeysWellFormed, KeysBetweenViews DEF Living
  <1> QED BY <1>1, KeyInvHolds, PTL

\* Two replicas that applied the same operations, no clear among them, hold the same map,
\* in whatever orders they came.
THEOREM MapConvergenceCorrect == Spec => []Convergence
  <1>1. KeyInv => Convergence
    <2> SUFFICES ASSUME KeyInv, NEW r1 \in Replica, NEW r2 \in Replica,
                        NoClear(r1), delivered[r1] = delivered[r2]
                 PROVE  /\ map[r1] = map[r2]
                        /\ SameData(map[r1], map[r2])
                        /\ CrdtEqualData(map[r1], map[r2])
      BY DEF Convergence
    <2>1. /\ MapOK(map[r1]) /\ MapOK(map[r2])
          /\ delivered[r1] \in SUBSET MapOp
          /\ UniqueStamps(delivered[r1])
          /\ ContentsOK(map[r1], delivered[r1]) /\ ContentsOK(map[r2], delivered[r1])
          /\ NoClear(r2)
      BY DEF KeyInv, ContentInv, StateOK, NetOK, MapsOK, UniqueHistory, UniqueStamps, NoClear
    <2>2. /\ Explained(map[r1].keys, delivered[r1]) /\ Absorbed(map[r1].keys, delivered[r1])
          /\ Explained(map[r2].keys, delivered[r1]) /\ Absorbed(map[r2].keys, delivered[r1])
      BY <2>1, UnclearedExplained DEF KeyInv, KeysKnown, NoClear
    <2>3. map[r1] = map[r2]
      BY <2>1, <2>2, OneMapPerHistory
    <2> QED BY <2>1, <2>3, EqualMaps
  <1> QED BY <1>1, KeyInvHolds, PTL

-------------------------------------------------------------------------------
(***************************************************************************)
(* The iterator, on one map whose buckets are in some order.               *)
(***************************************************************************)
\* The loop stops, on a living element or at the end, and skips removed elements only.
LEMMA SkipFinds ==
    ASSUME NEW m, NEW order, Len(order) \in Nat, NEW i \in 1 .. End(order)
    PROVE  /\ Skip(m, order, i) \in i .. End(order)
           /\ IsLiving(m, order, Skip(m, order, i))
           /\ \A h \in i .. Skip(m, order, i) - 1 : ~ IsLiving(m, order, h)
  <1> DEFINE stops == {j \in i .. End(order) : IsLiving(m, order, j)}
  <1>1. stops \in SUBSET Nat /\ stops # {}
    <2>1. End(order) \in i .. End(order) /\ IsLiving(m, order, End(order))
      BY DEF End, IsLiving
    <2> QED BY <2>1
  <1>2. PICK j \in stops : \A h \in stops : j <= h
    <2> HIDE DEF stops
    <2> QED BY <1>1, LeastNatural
  <1>3. \A h \in i .. j - 1 : ~ IsLiving(m, order, h)
    BY <1>2 DEF End
  <1>4. \E x \in i .. End(order) : /\ IsLiving(m, order, x)
                                   /\ \A h \in i .. x - 1 : ~ IsLiving(m, order, h)
    BY <1>2, <1>3
  <1> QED BY <1>4 DEF Skip

\* One turn of the loop at position i, where f holds what the later ones visit.
Visit(m, order, f, i) ==
    IF i = End(order) THEN <<>> ELSE <<order[i]>> \o f[Advance(m, order, i)]

\* The recursion of Walk has a solution on the last positions, and so on all of them.
LEMMA VisitsExist ==
    ASSUME NEW m, NEW order, Len(order) \in Nat
    PROVE  \E f : f = [i \in 1 .. End(order) |-> Visit(m, order, f, i)]
  <1> DEFINE n == Len(order)
             Solves(f, d) == f = [i \in (n + 1 - d) .. (n + 1) |-> Visit(m, order, f, i)]
             D == {d \in Nat : d <= n => \E f : Solves(f, d)}
  <1>1. 0 \in D
    <2> DEFINE f == [i \in {n + 1} |-> <<>>]
    <2>1. (n + 1 - 0) .. (n + 1) = {n + 1}
      OBVIOUS
    <2>2. Solves(f, 0)
      BY <2>1 DEF Visit, End
    <2> QED BY <2>2
  <1>2. ASSUME NEW d \in Nat, d \in D
        PROVE  d + 1 \in D
    <2> SUFFICES ASSUME d + 1 <= n
                 PROVE  \E f : Solves(f, d + 1)
      OBVIOUS
    <2>1. PICK f : Solves(f, d)
      BY <1>2
    <2> DEFINE old == (n + 1 - d) .. (n + 1)
               new == (n + 1 - (d + 1)) .. (n + 1)
               g == [i \in new |-> IF i \in old THEN f[i] ELSE Visit(m, order, f, i)]
    <2>2. \A i \in new : i # End(order) => Advance(m, order, i) \in old
      <3> SUFFICES ASSUME NEW i \in new, i # End(order)
                   PROVE  Advance(m, order, i) \in old
        OBVIOUS
      <3>1. i + 1 \in 1 .. End(order) /\ i + 1 >= n + 1 - d
        BY DEF End
      <3>2. Skip(m, order, i + 1) \in (i + 1) .. End(order)
        BY <3>1, SkipFinds
      <3> QED BY <3>1, <3>2 DEF Advance, End
    <2>3. old \subseteq new
      OBVIOUS
    <2>4. \A i \in new : Visit(m, order, g, i) = Visit(m, order, f, i)
      BY <2>2, <2>3 DEF Visit
    <2>5. \A i \in old : f[i] = Visit(m, order, f, i)
      BY <2>1
    <2>6. \A i \in new : g[i] = Visit(m, order, g, i)
      BY <2>4, <2>5
    <2> HIDE DEF new, old
    <2>7. g = [i \in new |-> Visit(m, order, g, i)]
      BY <2>6
    <2> QED BY <2>7 DEF new
  <1>3. n \in D
    <2> HIDE DEF D
    <2> QED BY <1>1, <1>2, SetInduction
  <1>4. PICK f : Solves(f, n)
    BY <1>3
  <1>5. (n + 1 - n) .. (n + 1) = 1 .. End(order)
    BY DEF End
  <1> QED BY <1>4, <1>5

\* So Walk is made of such turns.
LEMMA WalkVisits ==
    ASSUME NEW m, NEW order, Len(order) \in Nat
    PROVE  \E f : /\ \A i \in 1 .. End(order) : f[i] = Visit(m, order, f, i)
                  /\ Walk(m, order) = f[Begin(m, order)]
  <1> DEFINE f == CHOOSE f : f = [i \in 1 .. End(order) |->
                                    IF i = End(order) THEN <<>>
                                    ELSE <<order[i]>> \o f[Advance(m, order, i)]]
  <1>1. Walk(m, order) = f[Begin(m, order)]
    BY DEF Walk
  <1>2. \E g : g = [i \in 1 .. End(order) |->
                      IF i = End(order) THEN <<>>
                      ELSE <<order[i]>> \o g[Advance(m, order, i)]]
    BY VisitsExist DEF Visit
  <1>3. f = [i \in 1 .. End(order) |->
                      IF i = End(order) THEN <<>>
                      ELSE <<order[i]>> \o f[Advance(m, order, i)]]
    BY <1>2
  <1> HIDE DEF f
  <1>4. \A i \in 1 .. End(order) : f[i] = Visit(m, order, f, i)
    BY <1>3 DEF Visit
  <1> QED BY <1>1, <1>4

\* The elements of a sequence.
Elements(w) == {w[i] : i \in 1 .. Len(w)}

\* One more element in front.
LEMMA ConsElements ==
    ASSUME NEW S, NEW a \in S, NEW w \in Seq(S)
    PROVE  /\ <<a>> \o w \in Seq(S)
           /\ Len(<<a>> \o w) = 1 + Len(w)
           /\ Elements(<<a>> \o w) = {a} \cup Elements(w)
  <1> DEFINE c == <<a>> \o w
  <1>1. <<a>> \in Seq(S) /\ Len(<<a>>) = 1 /\ Len(w) \in Nat
    BY LenProperties
  <1>2. /\ c \in Seq(S)
        /\ Len(c) = 1 + Len(w)
        /\ \A i \in 1 .. 1 + Len(w) : c[i] = IF i <= 1 THEN <<a>>[i] ELSE w[i - 1]
    BY <1>1, ConcatProperties
  <1> HIDE DEF c
  <1>3. c[1] = a /\ \A i \in 1 .. Len(w) : c[i + 1] = w[i]
    BY <1>1, <1>2
  <1>4. \A i \in 1 .. Len(c) : i = 1 \/ \E j \in 1 .. Len(w) : i = j + 1
    <2> SUFFICES ASSUME NEW i \in 1 .. Len(c), i # 1
                 PROVE  \E j \in 1 .. Len(w) : i = j + 1
      OBVIOUS
    <2>1. i - 1 \in 1 .. Len(w) /\ i = (i - 1) + 1
      BY <1>1, <1>2
    <2> QED BY <2>1
  <1>5. Elements(c) \subseteq {a} \cup Elements(w)
    <2> SUFFICES ASSUME NEW i \in 1 .. Len(c)
                 PROVE  c[i] = a \/ \E j \in 1 .. Len(w) : c[i] = w[j]
      BY DEF Elements
    <2> QED BY <1>3, <1>4
  <1>6. {a} \cup Elements(w) \subseteq Elements(c)
    <2>1. \A j \in 1 .. Len(w) : j + 1 \in 1 .. Len(c)
      BY <1>1, <1>2
    <2>2. 1 \in 1 .. Len(c)
      BY <1>1, <1>2
    <2> QED BY <1>3, <2>1, <2>2 DEF Elements
  <1> QED BY <1>2, <1>5, <1>6 DEF c

\* The living positions from i on, and the keys in them.
LivingFrom(m, order, i) == {j \in i .. Len(order) : IsLiving(m, order, j)}
KeysFrom(m, order, i) == {order[j] : j \in LivingFrom(m, order, i)}

\* The walk from a living position visits the keys of all living positions from there on,
\* one for each: the last position at which it did not could not be.
LEMMA VisitsLiving ==
    ASSUME NEW m, NEW order, NEW K, order \in Seq(K), NEW f,
           \A i \in 1 .. End(order) : f[i] = Visit(m, order, f, i),
           NEW i \in 1 .. End(order), IsLiving(m, order, i)
    PROVE  /\ f[i] \in Seq(K)
           /\ Len(f[i]) = Cardinality(LivingFrom(m, order, i))
           /\ Elements(f[i]) = KeysFrom(m, order, i)
  <1> DEFINE Good(x) == /\ f[x] \in Seq(K)
                        /\ Len(f[x]) = Cardinality(LivingFrom(m, order, x))
                        /\ Elements(f[x]) = KeysFrom(m, order, x)
             bad == {x \in 1 .. End(order) : IsLiving(m, order, x) /\ ~ Good(x)}
             left == {End(order) - x : x \in bad}
  <1>1. /\ Len(order) \in Nat
        /\ \A x \in 1 .. Len(order) : order[x] \in K
    BY LenProperties, ElementOfSeq
  <1>2. Good(End(order))
    <2>1. f[End(order)] = <<>>
      <3>1. End(order) \in 1 .. End(order)
        BY <1>1 DEF End
      <3>2. f[End(order)] = Visit(m, order, f, End(order))
        BY <3>1
      <3> QED BY <3>2 DEF Visit
    <2>2. LivingFrom(m, order, End(order)) = {}
      BY <1>1 DEF LivingFrom, End
    <2>3. KeysFrom(m, order, End(order)) = {}
      BY <2>2 DEF KeysFrom
    <2>4. <<>> \in Seq(K) /\ Len(<<>>) = 0 /\ Elements(<<>>) = {}
      BY EmptySeq DEF Elements
    <2> QED BY <2>1, <2>2, <2>3, <2>4, FS_EmptySet
  <1>3. SUFFICES ASSUME bad # {} PROVE FALSE
    OBVIOUS
  <1>4. PICK x \in bad : \A y \in bad : End(order) - x <= End(order) - y
    <2>1. left \in SUBSET Nat /\ left # {}
      BY <1>1, <1>3 DEF End
    <2>2. PICK d \in left : \A e \in left : d <= e
      <3> HIDE DEF left
      <3> QED BY <2>1, LeastNatural
    <2> QED BY <2>2
  <1> DEFINE y == Advance(m, order, x)
  <1>5. x \in 1 .. Len(order) /\ x + 1 \in 1 .. End(order)
    BY <1>1, <1>2 DEF End
  <1>6. /\ y \in (x + 1) .. End(order)
        /\ IsLiving(m, order, y)
        /\ \A h \in (x + 1) .. y - 1 : ~ IsLiving(m, order, h)
    BY <1>1, <1>5, SkipFinds DEF Advance
  <1>7. f[x] = <<order[x]>> \o f[y]
    <2>1. f[x] = Visit(m, order, f, x)
      BY <1>4
    <2>2. x # End(order)
      BY <1>1, <1>5 DEF End
    <2> QED BY <2>1, <2>2 DEF Visit
  <1> HIDE DEF y
  <1>8. Good(y)
    <2>1. y \in 1 .. End(order) /\ End(order) - y < End(order) - x
      BY <1>1, <1>5, <1>6 DEF End
    <2>2. y \notin bad
      BY <1>1, <1>4, <1>6, <2>1 DEF End
    <2> QED BY <1>6, <2>1, <2>2
  <1>9. LivingFrom(m, order, x) = {x} \cup LivingFrom(m, order, y) /\ x \notin LivingFrom(m, order, y)
    <2>1. \A h \in x .. Len(order) : \/ h = x
                                     \/ h \in (x + 1) .. y - 1
                                     \/ h \in y .. Len(order)
      BY <1>1, <1>5, <1>6 DEF End
    <2>2. \A h \in y .. Len(order) : h \in x .. Len(order) /\ h # x
      BY <1>1, <1>5, <1>6 DEF End
    <2>3. x \in x .. Len(order) /\ IsLiving(m, order, x)
      BY <1>5
    <2> QED BY <1>6, <2>1, <2>2, <2>3 DEF LivingFrom
  <1>10. KeysFrom(m, order, x) = {order[x]} \cup KeysFrom(m, order, y)
    BY <1>9 DEF KeysFrom
  <1>11. Cardinality(LivingFrom(m, order, x)) = 1 + Cardinality(LivingFrom(m, order, y))
    <2> DEFINE L == LivingFrom(m, order, y)
    <2>1. IsFiniteSet(L)
      <3>1. IsFiniteSet(1 .. Len(order))
        BY <1>1, FS_Interval
      <3>2. L \subseteq 1 .. Len(order)
        BY <1>1, <1>6 DEF LivingFrom, End
      <3> QED BY <3>1, <3>2, FS_Subset
    <2>2. L \cup {x} = LivingFrom(m, order, x) /\ x \notin L
      BY <1>9
    <2> HIDE DEF L
    <2>3. Cardinality(L \cup {x}) = Cardinality(L) + 1 /\ Cardinality(L) \in Nat
      BY <2>1, <2>2, FS_AddElement, FS_CardinalityType
    <2>4. Cardinality(LivingFrom(m, order, x)) = Cardinality(L) + 1
      BY <2>2, <2>3, Zenon
    <2>5. Cardinality(L) + 1 = 1 + Cardinality(L)
      BY <2>3
    <2> QED BY <2>4, <2>5 DEF L
  <1>12. Good(x)
    <2>1. order[x] \in K /\ f[y] \in Seq(K)
      BY <1>1, <1>5, <1>8
    <2> HIDE DEF Good
    <2>2. /\ f[x] \in Seq(K)
          /\ Len(f[x]) = 1 + Len(f[y])
          /\ Elements(f[x]) = {order[x]} \cup Elements(f[y])
      BY <1>7, <2>1, ConsElements
    <2> QED BY <1>8, <1>10, <1>11, <2>2 DEF Good
  <1> QED BY <1>12

\* The order of the buckets has each key once.
LEMMA OrderIsBijection ==
    ASSUME NEW m, IsFiniteSet(CrdtKeys(m)), NEW order \in Orders(m)
    PROVE  /\ order \in Seq(CrdtKeys(m))
           /\ order \in Bijection(1 .. Len(order), CrdtKeys(m))
  <1> DEFINE n == Cardinality(CrdtKeys(m))
  <1>1. n \in Nat
    BY FS_CardinalityType
  <1>2. order \in [1 .. n -> CrdtKeys(m)] /\ \A i, j \in 1 .. n : order[i] = order[j] => i = j
    BY DEF Orders
  <1>3. Cardinality(1 .. n) = n
    BY <1>1, FS_Interval
  <1>4. order \in Injection(1 .. n, CrdtKeys(m))
    BY <1>2 DEF Injection, IsInjective
  <1> HIDE DEF n
  <1>5. order \in Surjection(1 .. n, CrdtKeys(m))
    BY <1>3, <1>4, FS_Injection DEF n
  <1>6. order \in Seq(CrdtKeys(m)) /\ Len(order) = n
    BY <1>1, <1>2
  <1> QED BY <1>4, <1>5, <1>6 DEF Bijection

\* The walk visits each living key, and as many as there are.
LEMMA WalkIsLiving ==
    ASSUME NEW m, MapOK(m), NEW order \in Orders(m)
    PROVE  /\ Len(Walk(m, order)) = m.keys.sizeAlive
           /\ Elements(Walk(m, order)) = Living(m)
  <1> DEFINE K == CrdtKeys(m)
             b == Begin(m, order)
             living == LivingFrom(m, order, 1)
  <1>1. WellFormed(m.keys) /\ IsFiniteSet(K)
    BY DEF MapOK, WellFormed, CrdtKeys
  <1>2. order \in Seq(K) /\ order \in Bijection(1 .. Len(order), K) /\ Len(order) \in Nat
    BY <1>1, OrderIsBijection, LenProperties
  <1>3. PICK f : /\ \A i \in 1 .. End(order) : f[i] = Visit(m, order, f, i)
                 /\ Walk(m, order) = f[b]
    BY <1>2, WalkVisits
  <1>4. 1 \in 1 .. End(order)
    BY <1>2 DEF End
  <1>5. /\ b \in 1 .. End(order)
        /\ IsLiving(m, order, b)
        /\ \A h \in 1 .. b - 1 : ~ IsLiving(m, order, h)
    BY <1>2, <1>4, SkipFinds DEF Begin
  <1> HIDE DEF b, K
  <1>6. /\ Len(f[b]) = Cardinality(LivingFrom(m, order, b))
        /\ Elements(f[b]) = KeysFrom(m, order, b)
    BY <1>2, <1>3, <1>5, VisitsLiving
  <1>7. LivingFrom(m, order, b) = living
    <2>1. \A h \in 1 .. Len(order) : h \in 1 .. b - 1 \/ h \in b .. Len(order)
      BY <1>2, <1>5 DEF End
    <2>2. \A h \in b .. Len(order) : h \in 1 .. Len(order)
      BY <1>2, <1>5 DEF End
    <2> QED BY <1>5, <2>1, <2>2 DEF LivingFrom
  <1>8. /\ \A h \in 1 .. Len(order) : h \in living <=> order[h] \in Living(m)
        /\ living \subseteq 1 .. Len(order)
        /\ Living(m) \subseteq K
    <2>1. \A k : k \in Living(m) <=> k \in K /\ ~ m.keys.map[k].isRemoved
      BY DEF Living, Alive, Find, CrdtKeys, K
    <2>2. \A h \in 1 .. Len(order) : order[h] \in K /\ h < End(order)
      BY <1>2 DEF Bijection, Injection, End
    <2> QED BY <2>1, <2>2 DEF LivingFrom, IsLiving
  <1> HIDE DEF living
  <1>9. KeysFrom(m, order, b) = Living(m)
    <2>1. \A k \in K : \E h \in 1 .. Len(order) : order[h] = k
      BY <1>2 DEF Bijection, Surjection
    <2> QED BY <1>7, <1>8, <2>1 DEF KeysFrom
  <1>10. Cardinality(living) = Cardinality(Living(m))
    <2> DEFINE g == [h \in living |-> order[h]]
    <2>1. g \in [living -> Living(m)]
      BY <1>8
    <2>2. \A i, j \in living : g[i] = g[j] => i = j
      BY <1>2, <1>8 DEF Bijection, Injection, IsInjective
    <2>3. \A k \in Living(m) : \E h \in living : g[h] = k
      BY <1>2, <1>8 DEF Bijection, Surjection
    <2> HIDE DEF g
    <2>4. g \in Bijection(living, Living(m))
      BY <2>1, <2>2, <2>3 DEF Bijection, Injection, Surjection, IsInjective
    <2>5. IsFiniteSet(living)
      <3>1. IsFiniteSet(1 .. Len(order))
        BY <1>2, FS_Interval
      <3> QED BY <1>8, <3>1, FS_Subset
    <2> QED BY <2>4, <2>5, FS_Bijection DEF ExistsBijection
  <1>11. m.keys.sizeAlive = Cardinality(Living(m))
    BY <1>1 DEF WellFormed, Living
  <1> QED BY <1>3, <1>6, <1>7, <1>9, <1>10, <1>11

\* A loop over the map visits every living key once and no other, whatever the order of
\* the buckets and however many removed elements lie in a row.
THEOREM IterationVisitsLivingCorrect == Spec => []IterationVisitsLiving
  <1>1. StateOK => IterationVisitsLiving
    BY WalkIsLiving DEF StateOK, MapsOK, IterationVisitsLiving, Elements
  <1> QED BY <1>1, StateCorrect, PTL
===============================================================================
