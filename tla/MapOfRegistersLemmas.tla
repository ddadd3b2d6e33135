------------------------- MODULE MapOfRegistersLemmas -------------------------
(***************************************************************************)
(* What the operations of MapOfRegisters do to one map, whatever its keys  *)
(* and values are.                                                         *)
(***************************************************************************)
EXTENDS MapOfRegisters, LWWSetLemmas

(***************************************************************************)
(* One map.  MapOK is its type and the meaning of its counter; each method *)
(* preserves it, and only an update changes the content of a known key.    *)
(***************************************************************************)
RegisterType == [reg : Value \cup {Default}, timestamp : Nat]

MapOK(m) ==
    /\ m = MapState(m.keys, m.value)
    /\ WellFormed(m.keys)
    /\ DOMAIN m.keys.map \subseteq Key
    /\ m.value \in [DOMAIN m.keys.map -> RegisterType]

\* The content of key k in m: that of an element not yet there is the default one.
Content(m, k) == IF k \in DOMAIN m.keys.map THEN m.value[k] ELSE NewRegister

LEMMA MapStateFields ==
    ASSUME NEW keys, NEW value
    PROVE  MapState(keys, value).keys = keys /\ MapState(keys, value).value = value
  BY DEF MapState

LEMMA NewRegisterType == NewRegister \in RegisterType
  BY DEF NewRegister, Register, RegisterType

LEMMA NewMapOK == MapOK(NewMap) /\ NewMap.keys = NewSet
  <1>1. NewMap.keys = NewSet /\ NewMap.value = [k \in {} |-> NewSet]
    BY MapStateFields DEF NewMap
  <1>2. NewMap = MapState(NewMap.keys, NewMap.value)
    BY <1>1 DEF NewMap
  <1>3. NewMap.value \in [DOMAIN NewMap.keys.map -> RegisterType]
    BY <1>1, NewSetFields
  <1> QED BY <1>1, <1>2, <1>3, NewSetOK, NewSetFields DEF MapOK

LEMMA ContentType ==
    ASSUME NEW m, MapOK(m), NEW k
    PROVE  Content(m, k) \in RegisterType
  BY NewRegisterType DEF MapOK, Content

LEMMA WithKeysOK ==
    ASSUME NEW m, MapOK(m), NEW keys, WellFormed(keys),
           DOMAIN keys.map \subseteq Key, DOMAIN m.keys.map \subseteq DOMAIN keys.map,
           NEW n, n = WithKeys(m, keys, NewRegister)
    PROVE  /\ MapOK(n)
           /\ n.keys = keys
           /\ \A k : Content(n, k) = Content(m, k)
  <1>1. /\ n = MapState(n.keys, n.value)
        /\ n.keys = keys
        /\ n.value = [k \in DOMAIN keys.map |-> IF k \in DOMAIN m.value THEN m.value[k]
                                                                     ELSE NewRegister]
    BY MapStateFields DEF WithKeys
  <1>2. DOMAIN m.value = DOMAIN m.keys.map
    BY DEF MapOK
  <1>3. \A k \in DOMAIN keys.map : n.value[k] = Content(m, k)
    BY <1>1, <1>2 DEF Content
  <1>4. n.value \in [DOMAIN keys.map -> RegisterType]
    BY <1>1, <1>3, ContentType
  <1>5. \A k : Content(n, k) = Content(m, k)
    BY <1>1, <1>3 DEF Content
  <1> QED BY <1>1, <1>4, <1>5 DEF MapOK

LEMMA KeysWellFormed ==
    ASSUME NEW m, MapOK(m)
    PROVE  WellFormed(m.keys) /\ DOMAIN m.keys.map \subseteq Key
  BY DEF MapOK

LEMMA AddKeyOK ==
    ASSUME NEW m, MapOK(m), NEW k \in Key, NEW t \in Nat,
           NEW n, n = AddKey(m, k, t, NewRegister)
    PROVE  /\ MapOK(n)
           /\ n.keys = Add(m.keys, k, t)
           /\ \A x : Content(n, x) = Content(m, x)
  <1>1. WellFormed(m.keys) /\ DOMAIN m.keys.map \subseteq Key
    BY KeysWellFormed
  <1>2. WellFormed(Add(m.keys, k, t)) /\ DOMAIN Add(m.keys, k, t).map = DOMAIN m.keys.map \cup {k}
    BY <1>1, AddOK, AddGrows
  <1>3. n = WithKeys(m, Add(m.keys, k, t), NewRegister)
    BY DEF AddKey
  <1> QED BY <1>1, <1>2, <1>3, WithKeysOK

LEMMA RemoveKeyOK ==
    ASSUME NEW m, MapOK(m), NEW k \in Key, NEW t \in Nat,
           NEW n, n = RemoveKey(m, k, t, NewRegister)
    PROVE  /\ MapOK(n)
           /\ n.keys = Remove(m.keys, k, t)
           /\ \A x : Content(n, x) = Content(m, x)
  <1>1. WellFormed(m.keys) /\ DOMAIN m.keys.map \subseteq Key
    BY KeysWellFormed
  <1>2. /\ WellFormed(Remove(m.keys, k, t))
        /\ DOMAIN Remove(m.keys, k, t).map = DOMAIN m.keys.map \cup {k}
    BY <1>1, RemoveOK, RemoveGrows
  <1>3. n = WithKeys(m, Remove(m.keys, k, t), NewRegister)
    BY DEF RemoveKey
  <1> QED BY <1>1, <1>2, <1>3, WithKeysOK

LEMMA ClearKeysOK ==
    ASSUME NEW m, MapOK(m), NEW t \in Nat, NEW n, n = ClearKeys(m, t)
    PROVE  /\ MapOK(n)
           /\ n.keys = Clear(m.keys, t)
           /\ \A x : Content(n, x) = Content(m, x)
  <1>1. WellFormed(m.keys) /\ DOMAIN m.keys.map \subseteq Key
    BY KeysWellFormed
  <1>2. WellFormed(Clear(m.keys, t)) /\ DOMAIN Clear(m.keys, t).map = DOMAIN m.keys.map
    BY <1>1, ClearOK, ClearGrows
  <1>3. n = MapState(n.keys, n.value) /\ n.keys = Clear(m.keys, t) /\ n.value = m.value
    BY MapStateFields DEF ClearKeys
  <1>4. \A x : Content(n, x) = Content(m, x)
    BY <1>2, <1>3 DEF Content
  <1> QED BY <1>1, <1>2, <1>3, <1>4 DEF MapOK

LEMMA UpdateType ==
    ASSUME NEW x \in RegisterType, NEW v \in Value, NEW t \in Nat
    PROVE  Update(x, v, t) \in RegisterType
  BY DEF Update, Register, RegisterType

LEMMA UpdateValueOK ==
    ASSUME NEW m, MapOK(m), NEW k \in Key, NEW v \in Value, NEW t \in Nat,
           NEW n, n = UpdateValue(m, k, v, t)
    PROVE  /\ MapOK(n)
           /\ n.keys = Remove(m.keys, k, 0)
           /\ Content(n, k) = Update(Content(m, k), v, t)
           /\ \A x : x # k => Content(n, x) = Content(m, x)
  <1> DEFINE p == RemoveKey(m, k, 0, NewRegister)
             u == Update(p.value[k], v, t)
  <1>1. /\ MapOK(p)
        /\ p.keys = Remove(m.keys, k, 0)
        /\ \A x : Content(p, x) = Content(m, x)
    BY RemoveKeyOK
  <1>2. k \in DOMAIN p.keys.map
    BY <1>1, KeysWellFormed, RemoveGrows
  <1>3. n = SetValue(p, k, u)
    BY DEF UpdateValue, CrdtAt
  <1> HIDE DEF p
  <1>4. p.value[k] = Content(m, k) /\ u \in RegisterType
    BY <1>1, <1>2, UpdateType DEF Content, MapOK
  <1> HIDE DEF u
  <1>5. n = MapState(p.keys, [p.value EXCEPT ![k] = u])
    BY <1>1, <1>3 DEF SetValue, MapOK, MapState
  <1>6. n = MapState(n.keys, n.value) /\ n.keys = p.keys /\ n.value = [p.value EXCEPT ![k] = u]
    BY <1>5, MapStateFields
  <1>7. MapOK(n)
    BY <1>1, <1>4, <1>6 DEF MapOK
  <1>8. Content(n, k) = u
    BY <1>1, <1>2, <1>6 DEF Content, MapOK
  <1>9. \A x : x # k => Content(n, x) = Content(p, x)
    BY <1>1, <1>6 DEF Content, MapOK
  <1> QED BY <1>1, <1>4, <1>6, <1>7, <1>8, <1>9 DEF u

-------------------------------------------------------------------------------
(***************************************************************************)
(* One operation applied to a map.                                         *)
(***************************************************************************)
LEMMA OpType ==
    ASSUME NEW op \in MapOp
    PROVE  /\ op.kind \in {"add", "remove", "update", "clear"}
           /\ op.stamp \in Stamp /\ op.stamp \in Nat /\ op.stamp > 0
           /\ op.kind # "clear" => op.key \in Key
           /\ op.kind = "update" => op.value \in Value
  <1>1. \A t \in Stamp : t \in Nat /\ t > 0
    BY StampAssumption
  <1>2. CASE op \in KeyOp
    BY <1>1, <1>2 DEF KeyOp
  <1>3. CASE op \in ClearOp
    BY <1>1, <1>3 DEF ClearOp
  <1>4. CASE op \in UpdateOp
    BY <1>1, <1>4 DEF UpdateOp
  <1> QED BY <1>2, <1>3, <1>4 DEF MapOp, Op

LEMMA AppliedOK ==
    ASSUME NEW m, MapOK(m), NEW op \in MapOp
    PROVE  MapOK(Applied(m, op))
  <1>1. CASE op.kind = "add"
    BY <1>1, OpType, AddKeyOK DEF Applied
  <1>2. CASE op.kind = "remove"
    BY <1>2, OpType, RemoveKeyOK DEF Applied
  <1>3. CASE op.kind = "update"
    BY <1>3, OpType, UpdateValueOK DEF Applied
  <1>4. CASE op.kind = "clear"
    BY <1>4, OpType, ClearKeysOK DEF Applied
  <1> QED BY <1>1, <1>2, <1>3, <1>4, OpType

\* What an operation does to the content of the keys.
LEMMA AppliedContent ==
    ASSUME NEW m, MapOK(m), NEW op \in MapOp, NEW n, n = Applied(m, op)
    PROVE  /\ op.kind # "update" => \A x : Content(n, x) = Content(m, x)
           /\ op.kind = "update" =>
                 /\ Content(n, op.key) = Update(Content(m, op.key), op.value, op.stamp)
                 /\ \A x : x # op.key => Content(n, x) = Content(m, x)
  <1>1. CASE op.kind = "add"
    BY <1>1, OpType, AddKeyOK DEF Applied
  <1>2. CASE op.kind = "remove"
    BY <1>2, OpType, RemoveKeyOK DEF Applied
  <1>3. CASE op.kind = "update"
    BY <1>3, OpType, UpdateValueOK DEF Applied
  <1>4. CASE op.kind = "clear"
    BY <1>4, OpType, ClearKeysOK DEF Applied
  <1> QED BY <1>1, <1>2, <1>3, <1>4, OpType

\* What an operation does to the keys.
LEMMA AppliedKeys ==
    ASSUME NEW m, MapOK(m), NEW op \in MapOp, NEW n, n = Applied(m, op)
    PROVE  /\ op.kind = "add" => n.keys = Add(m.keys, op.key, op.stamp)
           /\ op.kind = "remove" => n.keys = Remove(m.keys, op.key, op.stamp)
           /\ op.kind = "update" => n.keys = Remove(m.keys, op.key, 0)
           /\ op.kind = "clear" => n.keys = Clear(m.keys, op.stamp)
  <1>1. CASE op.kind = "add"
    BY <1>1, OpType, AddKeyOK DEF Applied
  <1>2. CASE op.kind = "remove"
    BY <1>2, OpType, RemoveKeyOK DEF Applied
  <1>3. CASE op.kind = "update"
    BY <1>3, OpType, UpdateValueOK DEF Applied
  <1>4. CASE op.kind = "clear"
    BY <1>4, OpType, ClearKeysOK DEF Applied
  <1> QED BY <1>1, <1>2, <1>3, <1>4, OpType
===============================================================================
