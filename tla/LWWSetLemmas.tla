----------------------------- MODULE LWWSetLemmas -----------------------------
(***************************************************************************)
(* What the methods of LWWSet do to one set, whatever its keys are: they   *)
(* keep it well formed, what they change, key by key, and what a set holds *)
(* after a history of calls.  The containers built from sets rest on these *)
(* lemmas, and on the last ones, on induction and counting.                *)
(***************************************************************************)
EXTENDS LWWSet, FiniteSetTheorems, TLAPS

(***************************************************************************)
(* One set.  WellFormed is the type of a set together with the counter's   *)
(* meaning; each method preserves it.                                      *)
(***************************************************************************)
WellFormed(s) ==
    /\ s = SetState(s.map, s.sizeAlive, s.lastClearTime)
    /\ s.map \in [DOMAIN s.map -> Metadata]
    /\ IsFiniteSet(DOMAIN s.map)
    /\ s.lastClearTime \in Nat
    /\ s.sizeAlive = Cardinality(Alive(s))

\* Binding a key leaves the other keys alone.
LEMMA PutMap ==
    ASSUME NEW m, m \in [DOMAIN m -> Metadata], NEW K, NEW k \in K, NEW e \in Metadata
    PROVE  /\ Put(m, k, e) \in [DOMAIN Put(m, k, e) -> Metadata]
           /\ DOMAIN Put(m, k, e) = DOMAIN m \cup {k}
  BY DEF Put

LEMMA MetaType ==
    ASSUME NEW t \in Nat
    PROVE  /\ Added(t) \in Metadata /\ ~ Added(t).isRemoved /\ Added(t).timestamp = t
           /\ Removed(t) \in Metadata /\ Removed(t).isRemoved /\ Removed(t).timestamp = t
  BY DEF Added, Removed, Metadata

LEMMA SetStateFields ==
    ASSUME NEW m, NEW n, NEW t
    PROVE  /\ SetState(m, n, t).map = m
           /\ SetState(m, n, t).sizeAlive = n
           /\ SetState(m, n, t).lastClearTime = t
  BY DEF SetState

\* The alive keys are finitely many, so their number is a natural.
LEMMA AliveFinite ==
    ASSUME NEW s, WellFormed(s)
    PROVE  /\ Alive(s) \subseteq DOMAIN s.map
           /\ IsFiniteSet(Alive(s))
           /\ s.sizeAlive \in Nat
  <1>1. Alive(s) \subseteq DOMAIN s.map
    BY DEF Alive
  <1>2. IsFiniteSet(Alive(s))
    BY <1>1, FS_Subset DEF WellFormed
  <1>3. s.sizeAlive \in Nat
    BY <1>2, FS_CardinalityType DEF WellFormed
  <1> QED BY <1>1, <1>2, <1>3

\* Binding one key changes the alive keys by that key at most.
LEMMA AliveAdded ==
    ASSUME NEW s, NEW K, NEW k \in K, NEW t \in Nat, NEW n, NEW c
    PROVE  Alive(SetState(Put(s.map, k, Added(t)), n, c)) = Alive(s) \cup {k}
  <1>1. \A m : Alive(SetState(m, n, c)) = {x \in DOMAIN m : ~ m[x].isRemoved}
    BY SetStateFields DEF Alive, Find
  <1>2. Alive(s) = {x \in DOMAIN s.map : ~ s.map[x].isRemoved}
    BY DEF Alive, Find
  <1>3. \A e : /\ DOMAIN Put(s.map, k, e) = DOMAIN s.map \cup {k}
               /\ Put(s.map, k, e)[k] = e
               /\ \A x \in DOMAIN s.map \ {k} : Put(s.map, k, e)[x] = s.map[x]
    BY DEF Put
  <1> QED BY <1>1, <1>2, <1>3, MetaType

LEMMA AliveRemoved ==
    ASSUME NEW s, NEW K, NEW k \in K, NEW t \in Nat, NEW n, NEW c
    PROVE  Alive(SetState(Put(s.map, k, Removed(t)), n, c)) = Alive(s) \ {k}
  <1>1. \A m : Alive(SetState(m, n, c)) = {x \in DOMAIN m : ~ m[x].isRemoved}
    BY SetStateFields DEF Alive, Find
  <1>2. Alive(s) = {x \in DOMAIN s.map : ~ s.map[x].isRemoved}
    BY DEF Alive, Find
  <1>3. \A e : /\ DOMAIN Put(s.map, k, e) = DOMAIN s.map \cup {k}
               /\ Put(s.map, k, e)[k] = e
               /\ \A x \in DOMAIN s.map \ {k} : Put(s.map, k, e)[x] = s.map[x]
    BY DEF Put
  <1> QED BY <1>1, <1>2, <1>3, MetaType

\* A set whose map gained or changed one key is well formed if its counter says so.
LEMMA PutOK ==
    ASSUME NEW s, WellFormed(s), NEW K, NEW k \in K, NEW e \in Metadata, NEW n,
           n = Cardinality(Alive(SetState(Put(s.map, k, e), n, s.lastClearTime)))
    PROVE  WellFormed(SetState(Put(s.map, k, e), n, s.lastClearTime))
  <1> DEFINE m == Put(s.map, k, e)
  <1>1. m \in [DOMAIN m -> Metadata] /\ DOMAIN m = DOMAIN s.map \cup {k}
    BY PutMap DEF WellFormed
  <1>2. IsFiniteSet(DOMAIN m)
    BY <1>1, FS_AddElement DEF WellFormed
  <1> HIDE DEF m
  <1>3. WellFormed(SetState(m, n, s.lastClearTime))
    BY <1>1, <1>2, SetStateFields DEF WellFormed, m
  <1> QED BY <1>3 DEF m

LEMMA AddOK ==
    ASSUME NEW s, WellFormed(s), NEW K, NEW k \in K, NEW t \in Nat
    PROVE  WellFormed(Add(s, k, t))
  <1>1. /\ IsFiniteSet(Alive(s))
        /\ s.sizeAlive = Cardinality(Alive(s))
        /\ s.lastClearTime \in Nat
    BY AliveFinite DEF WellFormed
  <1>2. k \in Alive(s) <=> k \in DOMAIN s.map /\ ~ s.map[k].isRemoved
    BY DEF Alive, Find
  <1>3. CASE k \in DOMAIN s.map /\ Newer(s, k, t)
    <2> DEFINE n == IF s.map[k].isRemoved THEN s.sizeAlive + 1 ELSE s.sizeAlive
               u == SetState(Put(s.map, k, Added(t)), n, s.lastClearTime)
    <2>1. Add(s, k, t) = u
      BY <1>3 DEF Add
    <2>2. Alive(u) = Alive(s) \cup {k}
      BY <1>1, AliveAdded
    <2>3. Cardinality(Alive(s) \cup {k}) = n
      BY <1>1, <1>2, <1>3, FS_AddElement
    <2>4. WellFormed(u)
      BY <2>2, <2>3, <1>1, PutOK, MetaType
    <2> QED BY <2>1, <2>4
  <1>4. CASE k \in DOMAIN s.map /\ ~ Newer(s, k, t)
    BY <1>4 DEF Add
  <1>5. CASE k \notin DOMAIN s.map /\ t > s.lastClearTime
    <2> DEFINE n == s.sizeAlive + 1
               u == SetState(Put(s.map, k, Added(t)), n, s.lastClearTime)
    <2>1. Add(s, k, t) = u
      BY <1>5 DEF Add
    <2>2. Alive(u) = Alive(s) \cup {k}
      BY <1>1, AliveAdded
    <2>3. Cardinality(Alive(s) \cup {k}) = s.sizeAlive + 1
      BY <1>1, <1>2, <1>5, FS_AddElement
    <2>4. WellFormed(u)
      BY <2>2, <2>3, <1>1, PutOK, MetaType
    <2> QED BY <2>1, <2>4
  <1>6. CASE k \notin DOMAIN s.map /\ ~ (t > s.lastClearTime)
    <2> DEFINE n == s.sizeAlive
               u == SetState(Put(s.map, k, Removed(s.lastClearTime)), n, s.lastClearTime)
    <2>1. Add(s, k, t) = u
      BY <1>6 DEF Add
    <2>2. Alive(u) = Alive(s) \ {k}
      BY <1>1, AliveRemoved
    <2>3. Alive(s) \ {k} = Alive(s)
      BY <1>2, <1>6
    <2>4. WellFormed(u)
      BY <2>2, <2>3, <1>1, PutOK, MetaType
    <2> QED BY <2>1, <2>4
  <1> QED BY <1>3, <1>4, <1>5, <1>6

LEMMA RemoveOK ==
    ASSUME NEW s, WellFormed(s), NEW K, NEW k \in K, NEW t \in Nat
    PROVE  WellFormed(Remove(s, k, t))
  <1>1. /\ IsFiniteSet(Alive(s))
        /\ s.sizeAlive = Cardinality(Alive(s))
        /\ s.lastClearTime \in Nat
    BY AliveFinite DEF WellFormed
  <1>2. k \in Alive(s) <=> k \in DOMAIN s.map /\ ~ s.map[k].isRemoved
    BY DEF Alive, Find
  <1>3. CASE k \in DOMAIN s.map /\ Newer(s, k, t)
    <2> DEFINE n == IF s.map[k].isRemoved THEN s.sizeAlive ELSE s.sizeAlive - 1
               u == SetState(Put(s.map, k, Removed(t)), n, s.lastClearTime)
    <2>1. Remove(s, k, t) = u
      BY <1>3 DEF Remove
    <2>2. Alive(u) = Alive(s) \ {k}
      BY <1>1, AliveRemoved
    <2>3. Cardinality(Alive(s) \ {k}) = n
      BY <1>1, <1>2, <1>3, FS_RemoveElement
    <2>4. WellFormed(u)
      BY <2>2, <2>3, <1>1, PutOK, MetaType
    <2> QED BY <2>1, <2>4
  <1>4. CASE k \in DOMAIN s.map /\ ~ Newer(s, k, t)
    BY <1>4 DEF Remove
  <1>5. CASE k \notin DOMAIN s.map
    <2> DEFINE n == s.sizeAlive
               u == SetState(Put(s.map, k, Removed(t)), n, s.lastClearTime)
    <2>1. Remove(s, k, t) = u
      BY <1>5 DEF Remove
    <2>2. Alive(u) = Alive(s) \ {k}
      BY <1>1, AliveRemoved
    <2>3. Alive(s) \ {k} = Alive(s)
      BY <1>2, <1>5
    <2>4. WellFormed(u)
      BY <2>2, <2>3, <1>1, PutOK, MetaType
    <2> QED BY <2>1, <2>4
  <1> QED BY <1>3, <1>4, <1>5

LEMMA ClearOK ==
    ASSUME NEW s, WellFormed(s), NEW t \in Nat
    PROVE  WellFormed(Clear(s, t))
  <1>1. /\ Alive(s) \subseteq DOMAIN s.map
        /\ IsFiniteSet(Alive(s))
        /\ s.sizeAlive = Cardinality(Alive(s))
    BY AliveFinite DEF WellFormed
  <1>2. CASE t > s.lastClearTime
    <2> DEFINE m == [k \in DOMAIN s.map |-> IF Newer(s, k, t) THEN Removed(t) ELSE s.map[k]]
               older == {k \in Alive(s) : Newer(s, k, t)}
               n == s.sizeAlive - Cardinality(older)
               u == SetState(m, n, t)
    <2>1. Clear(s, t) = u
      BY <1>2 DEF Clear
    <2>2. Alive(u) = Alive(s) \ older
      <3>1. Alive(u) = {k \in DOMAIN m : ~ m[k].isRemoved}
        BY SetStateFields DEF Alive, Find
      <3>2. Alive(s) = {k \in DOMAIN s.map : ~ s.map[k].isRemoved}
        BY DEF Alive, Find
      <3>3. Removed(t).isRemoved
        BY MetaType
      <3> QED BY <3>1, <3>2, <3>3
    <2>3. Cardinality(Alive(s) \ older) = n
      <3>1. older \subseteq Alive(s)
        OBVIOUS
      <3>2. Cardinality(Alive(s) \ older) = Cardinality(Alive(s)) - Cardinality(Alive(s) \cap older)
        BY <1>1, <3>1, FS_Subset, FS_Difference
      <3>3. Alive(s) \cap older = older
        BY <3>1
      <3> QED BY <1>1, <3>2, <3>3
    <2>4. m \in [DOMAIN m -> Metadata] /\ DOMAIN m = DOMAIN s.map
      BY MetaType DEF WellFormed
    <2> HIDE DEF m, n
    <2>5. WellFormed(u)
      BY <2>2, <2>3, <2>4, SetStateFields DEF WellFormed
    <2> QED BY <2>1, <2>5
  <1>3. CASE ~ (t > s.lastClearTime)
    BY <1>3 DEF Clear
  <1> QED BY <1>2, <1>3

LEMMA NewSetFields ==
    /\ DOMAIN NewSet.map = {}
    /\ Alive(NewSet) = {}
    /\ NewSet.sizeAlive = 0
    /\ NewSet.lastClearTime = 0
  BY SetStateFields DEF NewSet, Alive

LEMMA NewSetOK == WellFormed(NewSet)
  <1>1. NewSet = SetState(NewSet.map, 0, 0)
    BY SetStateFields DEF NewSet
  <1>2. NewSet.map = [k \in {} |-> Added(0)]
    BY SetStateFields DEF NewSet
  <1>3. NewSet.map \in [DOMAIN NewSet.map -> Metadata]
    BY <1>2
  <1> QED BY <1>1, <1>3, NewSetFields, FS_EmptySet DEF WellFormed

-------------------------------------------------------------------------------
(***************************************************************************)
(* What a method changes, key by key: it does nothing, or binds one key,   *)
(* or is a newer clear.                                                    *)
(***************************************************************************)
\* u is s with key k bound to e.
Binds(s, u, k, e) ==
    /\ u.lastClearTime = s.lastClearTime
    /\ DOMAIN u.map = DOMAIN s.map \cup {k}
    /\ u.map[k] = e
    /\ \A x \in DOMAIN s.map \ {k} : u.map[x] = s.map[x]

\* u is s after a clear newer than its last.
Clears(s, u, t) ==
    /\ t > s.lastClearTime
    /\ u.lastClearTime = t
    /\ DOMAIN u.map = DOMAIN s.map
    /\ \A k \in DOMAIN s.map :
          \/ t > s.map[k].timestamp /\ u.map[k] = Removed(t)
          \/ t <= s.map[k].timestamp /\ u.map[k] = s.map[k]

\* s holds something as recent as t for key k.
Recent(s, k, t) == k \in DOMAIN s.map /\ t <= s.map[k].timestamp

\* The fields of a set are natural numbers and metadata.
LEMMA FieldTypes ==
    ASSUME NEW s, WellFormed(s)
    PROVE  /\ s.lastClearTime \in Nat
           /\ \A k \in DOMAIN s.map : /\ s.map[k] \in Metadata
                                      /\ s.map[k].timestamp \in Nat
                                      /\ s.map[k].isRemoved \in BOOLEAN
  BY DEF WellFormed, Metadata

LEMMA PutBinds ==
    ASSUME NEW s, NEW k, NEW e, NEW n
    PROVE  Binds(s, SetState(Put(s.map, k, e), n, s.lastClearTime), k, e)
  BY SetStateFields DEF Binds, Put

LEMMA AddEffect ==
    ASSUME NEW s, WellFormed(s), NEW k, NEW t \in Nat, NEW u, u = Add(s, k, t)
    PROVE  \/ u = s /\ Recent(s, k, t)
           \/ /\ Binds(s, u, k, Added(t))
              /\ IF k \in DOMAIN s.map THEN t > s.map[k].timestamp ELSE t > s.lastClearTime
           \/ /\ Binds(s, u, k, Removed(s.lastClearTime))
              /\ k \notin DOMAIN s.map
              /\ t <= s.lastClearTime
  <1>1. CASE k \in DOMAIN s.map /\ t > s.map[k].timestamp
    <2>1. Binds(s, u, k, Added(t))
      BY <1>1, PutBinds DEF Add, Newer
    <2> QED BY <1>1, <2>1
  <1>2. CASE k \in DOMAIN s.map /\ ~ (t > s.map[k].timestamp)
    BY <1>2, FieldTypes DEF Add, Newer, Recent
  <1>3. CASE k \notin DOMAIN s.map /\ t > s.lastClearTime
    <2>1. Binds(s, u, k, Added(t))
      BY <1>3, PutBinds DEF Add
    <2> QED BY <1>3, <2>1
  <1>4. CASE k \notin DOMAIN s.map /\ ~ (t > s.lastClearTime)
    <2>1. Binds(s, u, k, Removed(s.lastClearTime))
      BY <1>4, PutBinds DEF Add
    <2> QED BY <1>4, <2>1, FieldTypes
  <1> QED BY <1>1, <1>2, <1>3, <1>4

LEMMA RemoveEffect ==
    ASSUME NEW s, WellFormed(s), NEW k, NEW t \in Nat, NEW u, u = Remove(s, k, t)
    PROVE  \/ u = s /\ Recent(s, k, t)
           \/ /\ Binds(s, u, k, Removed(t))
              /\ k \in DOMAIN s.map => t > s.map[k].timestamp
  <1>1. CASE k \in DOMAIN s.map /\ ~ (t > s.map[k].timestamp)
    BY <1>1, FieldTypes DEF Remove, Newer, Recent
  <1>2. CASE k \in DOMAIN s.map => t > s.map[k].timestamp
    <2>1. Binds(s, u, k, Removed(t))
      BY <1>2, PutBinds DEF Remove, Newer
    <2> QED BY <1>2, <2>1
  <1> QED BY <1>1, <1>2

LEMMA ClearEffect ==
    ASSUME NEW s, WellFormed(s), NEW t \in Nat, NEW u, u = Clear(s, t)
    PROVE  \/ u = s /\ t <= s.lastClearTime
           \/ Clears(s, u, t)
  <1>1. CASE t > s.lastClearTime
    <2> DEFINE m == [k \in DOMAIN s.map |-> IF Newer(s, k, t) THEN Removed(t) ELSE s.map[k]]
    <2>1. u.map = m /\ u.lastClearTime = t
      BY <1>1, SetStateFields DEF Clear
    <2>2. \A k \in DOMAIN s.map :
              \/ t > s.map[k].timestamp /\ m[k] = Removed(t)
              \/ t <= s.map[k].timestamp /\ m[k] = s.map[k]
      BY FieldTypes DEF Newer
    <2> QED BY <1>1, <2>1, <2>2 DEF Clears
  <1>2. CASE ~ (t > s.lastClearTime)
    BY <1>2, FieldTypes DEF Clear
  <1> QED BY <1>1, <1>2

-------------------------------------------------------------------------------
(***************************************************************************)
(* No method takes a key away or a timestamp back.                         *)
(***************************************************************************)
Grows(s, u) ==
    /\ u.lastClearTime >= s.lastClearTime
    /\ \A k \in DOMAIN s.map :
          /\ k \in DOMAIN u.map
          /\ u.map[k].timestamp >= s.map[k].timestamp

LEMMA GrowsReflexive ==
    ASSUME NEW s, WellFormed(s)
    PROVE  Grows(s, s)
  BY FieldTypes DEF Grows

LEMMA GrowsTransitive ==
    ASSUME NEW s, WellFormed(s), NEW u, WellFormed(u), NEW w, WellFormed(w),
           Grows(s, u), Grows(u, w)
    PROVE  Grows(s, w)
  BY FieldTypes DEF Grows

LEMMA AddGrows ==
    ASSUME NEW s, WellFormed(s), NEW k, NEW t \in Nat, NEW u, u = Add(s, k, t)
    PROVE  Grows(s, u) /\ Recent(u, k, t) /\ DOMAIN u.map = DOMAIN s.map \cup {k}
  <1>1. CASE u = s /\ Recent(s, k, t)
    BY <1>1, GrowsReflexive DEF Recent
  <1>2. CASE /\ Binds(s, u, k, Added(t))
             /\ IF k \in DOMAIN s.map THEN t > s.map[k].timestamp ELSE t > s.lastClearTime
    BY <1>2, FieldTypes, MetaType DEF Binds, Grows, Recent
  <1>3. CASE /\ Binds(s, u, k, Removed(s.lastClearTime))
             /\ k \notin DOMAIN s.map
             /\ t <= s.lastClearTime
    BY <1>3, FieldTypes, MetaType DEF Binds, Grows, Recent
  <1> QED BY <1>1, <1>2, <1>3, AddEffect

LEMMA RemoveGrows ==
    ASSUME NEW s, WellFormed(s), NEW k, NEW t \in Nat, NEW u, u = Remove(s, k, t)
    PROVE  Grows(s, u) /\ Recent(u, k, t) /\ DOMAIN u.map = DOMAIN s.map \cup {k}
  <1>1. CASE u = s /\ Recent(s, k, t)
    BY <1>1, GrowsReflexive DEF Recent
  <1>2. CASE /\ Binds(s, u, k, Removed(t))
             /\ k \in DOMAIN s.map => t > s.map[k].timestamp
    BY <1>2, FieldTypes, MetaType DEF Binds, Grows, Recent
  <1> QED BY <1>1, <1>2, RemoveEffect

LEMMA ClearGrows ==
    ASSUME NEW s, WellFormed(s), NEW t \in Nat, NEW u, u = Clear(s, t)
    PROVE  Grows(s, u) /\ t <= u.lastClearTime /\ DOMAIN u.map = DOMAIN s.map
  <1>1. CASE u = s /\ t <= s.lastClearTime
    BY <1>1, GrowsReflexive
  <1>2. CASE Clears(s, u, t)
    BY <1>2, FieldTypes, MetaType DEF Clears, Grows
  <1> QED BY <1>1, <1>2, ClearEffect

-------------------------------------------------------------------------------
(***************************************************************************)
(* What the user sees of a method, and what it returns.                    *)
(***************************************************************************)
LEMMA AddVisible ==
    ASSUME NEW s, WellFormed(s), NEW k, NEW t \in Nat, NEW u, u = Add(s, k, t)
    PROVE  /\ AddResult(s, k, t) <=> Find(u, k) /\ ~ Find(s, k)
           /\ Find(s, k) => Find(u, k)
           /\ \A x : x # k => (Find(u, x) <=> Find(s, x))
  <1>1. s.lastClearTime \in Nat /\ \A x \in DOMAIN s.map : s.map[x].timestamp \in Nat
    BY FieldTypes
  <1>2. CASE u = s /\ Recent(s, k, t)
    BY <1>1, <1>2 DEF Recent, AddResult, Newer
  <1>3. CASE /\ Binds(s, u, k, Added(t))
             /\ IF k \in DOMAIN s.map THEN t > s.map[k].timestamp ELSE t > s.lastClearTime
    BY <1>1, <1>3, MetaType DEF Binds, Find, AddResult, Newer
  <1>4. CASE /\ Binds(s, u, k, Removed(s.lastClearTime))
             /\ k \notin DOMAIN s.map
             /\ t <= s.lastClearTime
    BY <1>1, <1>4, MetaType DEF Binds, Find, AddResult
  <1> QED BY <1>2, <1>3, <1>4, AddEffect

LEMMA RemoveVisible ==
    ASSUME NEW s, WellFormed(s), NEW k, NEW t \in Nat, NEW u, u = Remove(s, k, t)
    PROVE  /\ RemoveResult(s, k, t) <=> Find(s, k) /\ ~ Find(u, k)
           /\ Find(u, k) => Find(s, k)
           /\ \A x : x # k => (Find(u, x) <=> Find(s, x))
  <1>1. \A x \in DOMAIN s.map : s.map[x].timestamp \in Nat
    BY FieldTypes
  <1>2. CASE u = s /\ Recent(s, k, t)
    BY <1>1, <1>2 DEF Recent, RemoveResult, Newer
  <1>3. CASE /\ Binds(s, u, k, Removed(t))
             /\ k \in DOMAIN s.map => t > s.map[k].timestamp
    BY <1>1, <1>3, MetaType DEF Binds, Find, RemoveResult, Newer
  <1> QED BY <1>2, <1>3, RemoveEffect

LEMMA ClearVisible ==
    ASSUME NEW s, WellFormed(s), NEW t \in Nat, NEW u, u = Clear(s, t)
    PROVE  \A x : Find(u, x) => Find(s, x)
  BY ClearEffect, MetaType DEF Clears, Find

LEMMA AliveIsFound ==
    ASSUME NEW s
    PROVE  \A k : k \in Alive(s) <=> Find(s, k)
  BY DEF Alive, Find

-------------------------------------------------------------------------------
(***************************************************************************)
(* Histories.  The calls a set went through, late and repeated ones too,   *)
(* are records of the method, its key and its timestamp.                   *)
(***************************************************************************)
SetCalls(K) ==
    [kind : {"add", "remove"}, key : K, stamp : Nat \ {0}]
        \cup [kind : {"clear"}, stamp : Nat \ {0}]

\* The set s after call c.
After(s, c) ==
    CASE c.kind = "add"    -> Add(s, c.key, c.stamp)
      [] c.kind = "remove" -> Remove(s, c.key, c.stamp)
      [] c.kind = "clear"  -> Clear(s, c.stamp)

\* A clear is about every key.
Touches(c, k) == c.kind = "clear" \/ c.key = k

LEMMA SetCallType ==
    ASSUME NEW K, NEW c \in SetCalls(K)
    PROVE  /\ c.kind \in {"add", "remove", "clear"}
           /\ c.stamp \in Nat /\ c.stamp > 0
           /\ c.kind # "clear" => c.key \in K
  BY DEF SetCalls

\* What s holds is at least as recent as c.
Absorbs(s, c) ==
    IF c.kind = "clear"
    THEN c.stamp <= s.lastClearTime
    ELSE c.key \in DOMAIN s.map /\ c.stamp <= s.map[c.key].timestamp

(***************************************************************************)
(* What a call does to a set s, key by key: it is absorbed already, or     *)
(* binds one key, or is a newer clear.                                     *)
(***************************************************************************)
CallAdds(s, u, c) ==
    /\ c.kind = "add"
    /\ Binds(s, u, c.key, Added(c.stamp))
    /\ IF c.key \in DOMAIN s.map
       THEN c.stamp > s.map[c.key].timestamp
       ELSE c.stamp > s.lastClearTime

CallAddsCleared(s, u, c) ==
    /\ c.kind = "add"
    /\ Binds(s, u, c.key, Removed(s.lastClearTime))
    /\ c.key \notin DOMAIN s.map
    /\ c.stamp <= s.lastClearTime

CallRemoves(s, u, c) ==
    /\ c.kind = "remove"
    /\ Binds(s, u, c.key, Removed(c.stamp))
    /\ c.key \in DOMAIN s.map => c.stamp > s.map[c.key].timestamp

CallClears(s, u, c) == c.kind = "clear" /\ Clears(s, u, c.stamp)

LEMMA AfterCases ==
    ASSUME NEW s, WellFormed(s), NEW K, NEW c \in SetCalls(K), NEW u, u = After(s, c)
    PROVE  \/ u = s /\ Absorbs(s, c)
           \/ CallAdds(s, u, c)
           \/ CallAddsCleared(s, u, c)
           \/ CallRemoves(s, u, c)
           \/ CallClears(s, u, c)
  <1>1. c.stamp \in Nat /\ WellFormed(s)
    BY SetCallType
  <1>2. CASE c.kind = "add"
    <2>1. u = Add(s, c.key, c.stamp)
      BY <1>2 DEF After
    <2> QED BY <1>1, <1>2, <2>1, AddEffect DEF Recent, Absorbs, CallAdds, CallAddsCleared
  <1>3. CASE c.kind = "remove"
    <2>1. u = Remove(s, c.key, c.stamp)
      BY <1>3 DEF After
    <2> QED BY <1>1, <1>3, <2>1, RemoveEffect DEF Recent, Absorbs, CallRemoves
  <1>4. CASE c.kind = "clear"
    <2>1. u = Clear(s, c.stamp)
      BY <1>4 DEF After
    <2> QED BY <1>1, <1>4, <2>1, ClearEffect DEF Absorbs, CallClears
  <1> QED BY <1>2, <1>3, <1>4, SetCallType

LEMMA AfterGrows ==
    ASSUME NEW s, WellFormed(s), NEW K, NEW c \in SetCalls(K), NEW u, u = After(s, c)
    PROVE  Grows(s, u) /\ Absorbs(u, c)
  <1>1. c.stamp \in Nat /\ s.lastClearTime \in Nat
    BY SetCallType, FieldTypes
  <1>2. \A k \in DOMAIN s.map : s.map[k].timestamp \in Nat
    BY FieldTypes
  <1>3. \A t \in Nat : Added(t).timestamp = t /\ Removed(t).timestamp = t
    BY MetaType
  <1>4. CASE u = s /\ Absorbs(s, c)
    BY <1>1, <1>2, <1>4 DEF Grows
  <1>5. CASE CallAdds(s, u, c)
    BY <1>1, <1>2, <1>3, <1>5 DEF CallAdds, Binds, Grows, Absorbs
  <1>6. CASE CallAddsCleared(s, u, c)
    BY <1>1, <1>2, <1>3, <1>6 DEF CallAddsCleared, Binds, Grows, Absorbs
  <1>7. CASE CallRemoves(s, u, c)
    BY <1>1, <1>2, <1>3, <1>7 DEF CallRemoves, Binds, Grows, Absorbs
  <1>8. CASE CallClears(s, u, c)
    BY <1>1, <1>2, <1>3, <1>8 DEF CallClears, Clears, Grows, Absorbs
  <1> QED BY <1>4, <1>5, <1>6, <1>7, <1>8, AfterCases

\* Applying an absorbed call again changes nothing.
LEMMA AbsorbedIsNoop ==
    ASSUME NEW s, WellFormed(s), NEW K, NEW c \in SetCalls(K), Absorbs(s, c)
    PROVE  After(s, c) = s
  <1>1. c.stamp \in Nat /\ c.kind \in {"add", "remove", "clear"}
    BY SetCallType
  <1>2. CASE c.kind = "clear"
    BY <1>1, <1>2, FieldTypes DEF After, Absorbs, Clear
  <1>3. CASE c.kind # "clear"
    <2>1. c.key \in DOMAIN s.map /\ ~ Newer(s, c.key, c.stamp)
      BY <1>1, <1>3, FieldTypes DEF Absorbs, Newer
    <2> QED BY <1>1, <1>3, <2>1 DEF After, Add, Remove
  <1> QED BY <1>2, <1>3

LEMMA AbsorbsStays ==
    ASSUME NEW s, WellFormed(s), NEW u, WellFormed(u), Grows(s, u),
           NEW K, NEW c \in SetCalls(K), Absorbs(s, c)
    PROVE  Absorbs(u, c)
  BY SetCallType, FieldTypes DEF Absorbs, Grows

(***************************************************************************)
(* ComesFrom(s, D): every key, every timestamp and every mark of s comes   *)
(* from a call of D.  With Absorbs for all of D it determines s from D,    *)
(* which neither does alone.                                               *)
(***************************************************************************)
ComesFrom(s, D) ==
    /\ \A k \in DOMAIN s.map :
          /\ \E c \in D : c.kind # "clear" /\ c.key = k
          /\ \E c \in D : /\ Touches(c, k)
                          /\ c.stamp = s.map[k].timestamp
                          /\ s.map[k].isRemoved <=> c.kind # "add"
          /\ s.lastClearTime <= s.map[k].timestamp
    /\ \/ s.lastClearTime = 0
       \/ \E c \in D : c.kind = "clear" /\ c.stamp = s.lastClearTime

\* The part of it that asks nothing of the calls: no key was marked or timed by anything
\* that does not concern it.
MarkedBy(s, D) ==
    /\ \A k \in DOMAIN s.map :
          \E c \in D : /\ Touches(c, k)
                       /\ c.stamp = s.map[k].timestamp
                       /\ s.map[k].isRemoved <=> c.kind # "add"
    /\ \/ s.lastClearTime = 0
       \/ \E c \in D : c.kind = "clear" /\ c.stamp = s.lastClearTime

LEMMA MarkedByStays ==
    ASSUME NEW s, WellFormed(s), NEW K, NEW D, D \subseteq SetCalls(K), MarkedBy(s, D),
           NEW c \in SetCalls(K), NEW u, u = After(s, c)
    PROVE  MarkedBy(u, D \cup {c})
  <1>1. c.stamp \in Nat /\ c.stamp > 0 /\ s.lastClearTime \in Nat
    BY SetCallType, FieldTypes
  <1>2. \A k \in DOMAIN s.map : s.map[k].timestamp \in Nat
    BY FieldTypes
  <1>3. \A t \in Nat : /\ Added(t).timestamp = t /\ ~ Added(t).isRemoved
                       /\ Removed(t).timestamp = t /\ Removed(t).isRemoved
    BY MetaType
  <1>4. CASE u = s /\ Absorbs(s, c)
    BY <1>4 DEF MarkedBy
  <1>5. CASE CallAdds(s, u, c)
    BY <1>1, <1>2, <1>3, <1>5 DEF CallAdds, Binds, MarkedBy, Touches
  <1>6. CASE CallAddsCleared(s, u, c)
    BY <1>1, <1>2, <1>3, <1>6 DEF CallAddsCleared, Binds, MarkedBy, Touches
  <1>7. CASE CallRemoves(s, u, c)
    BY <1>1, <1>2, <1>3, <1>7 DEF CallRemoves, Binds, MarkedBy, Touches
  <1>8. CASE CallClears(s, u, c)
    BY <1>1, <1>2, <1>3, <1>8 DEF CallClears, Clears, MarkedBy, Touches
  <1> QED BY <1>4, <1>5, <1>6, <1>7, <1>8, AfterCases

\* remove is the one method that does not look at the last clear: a key it meets for the
\* first time must not have been cleared before.
RemoveIsSafe(s, c) ==
    c.kind = "remove" /\ c.key \notin DOMAIN s.map => s.lastClearTime = 0

LEMMA ComesFromStays ==
    ASSUME NEW s, WellFormed(s), NEW K, NEW D, D \subseteq SetCalls(K), ComesFrom(s, D),
           NEW c \in SetCalls(K), RemoveIsSafe(s, c), NEW u, u = After(s, c)
    PROVE  ComesFrom(u, D \cup {c})
  <1>1. c.stamp \in Nat /\ c.stamp > 0 /\ s.lastClearTime \in Nat
    BY SetCallType, FieldTypes
  <1>2. \A k \in DOMAIN s.map : s.map[k].timestamp \in Nat
    BY FieldTypes
  <1>3. \A t \in Nat : /\ Added(t).timestamp = t /\ ~ Added(t).isRemoved
                       /\ Removed(t).timestamp = t /\ Removed(t).isRemoved
    BY MetaType
  <1>4. CASE u = s /\ Absorbs(s, c)
    BY <1>4 DEF ComesFrom
  <1>5. CASE CallAdds(s, u, c)
    BY <1>1, <1>2, <1>3, <1>5 DEF CallAdds, Binds, ComesFrom, Touches
  <1>6. CASE CallAddsCleared(s, u, c)
    BY <1>1, <1>2, <1>3, <1>6 DEF CallAddsCleared, Binds, ComesFrom, Touches
  <1>7. CASE CallRemoves(s, u, c)
    BY <1>1, <1>2, <1>3, <1>7 DEF CallRemoves, Binds, ComesFrom, Touches, RemoveIsSafe
  <1>8. CASE CallClears(s, u, c)
    BY <1>1, <1>2, <1>3, <1>8 DEF CallClears, Clears, ComesFrom, Touches
  <1> QED BY <1>4, <1>5, <1>6, <1>7, <1>8, AfterCases

\* Timestamps are unique, those of the calls of D at least.
UniqueStamps(D) == \A o1, o2 \in D : o1.stamp = o2.stamp => o1 = o2

\* What s holds for key k is at least as recent as all that concerns it.
LEMMA AbsorbsBounds ==
    ASSUME NEW s, WellFormed(s), NEW K, NEW D, D \subseteq SetCalls(K), ComesFrom(s, D),
           \A o \in D : Absorbs(s, o),
           NEW k \in DOMAIN s.map, NEW c \in D, Touches(c, k)
    PROVE  c.stamp <= s.map[k].timestamp
  <1>1. /\ c.stamp \in Nat /\ s.lastClearTime \in Nat /\ s.map[k].timestamp \in Nat
        /\ s.lastClearTime <= s.map[k].timestamp
    BY SetCallType, FieldTypes DEF ComesFrom
  <1>2. CASE c.kind = "clear"
    BY <1>1, <1>2 DEF Absorbs
  <1>3. CASE c.kind # "clear"
    BY <1>3 DEF Absorbs, Touches
  <1> QED BY <1>2, <1>3

\* Two sets that absorbed the same calls, and hold nothing else, are the same set.
LEMMA OneSetPerHistory ==
    ASSUME NEW K, NEW D, D \subseteq SetCalls(K), UniqueStamps(D),
           NEW s, WellFormed(s), ComesFrom(s, D), \A c \in D : Absorbs(s, c),
           NEW u, WellFormed(u), ComesFrom(u, D), \A c \in D : Absorbs(u, c)
    PROVE  s = u
  <1>1. DOMAIN s.map = DOMAIN u.map
    <2>1. \A k \in DOMAIN s.map : k \in DOMAIN u.map
      BY DEF ComesFrom, Absorbs
    <2>2. \A k \in DOMAIN u.map : k \in DOMAIN s.map
      BY DEF ComesFrom, Absorbs
    <2> QED BY <2>1, <2>2
  <1>2. s.lastClearTime = u.lastClearTime
    <2>1. s.lastClearTime <= u.lastClearTime
      BY FieldTypes DEF ComesFrom, Absorbs
    <2>2. u.lastClearTime <= s.lastClearTime
      BY FieldTypes DEF ComesFrom, Absorbs
    <2> QED BY <2>1, <2>2, FieldTypes
  <1>3. ASSUME NEW k \in DOMAIN s.map
        PROVE  s.map[k] = u.map[k]
    <2>1. PICK o1 \in D : /\ Touches(o1, k)
                          /\ o1.stamp = s.map[k].timestamp
                          /\ s.map[k].isRemoved <=> o1.kind # "add"
      BY DEF ComesFrom
    <2>2. PICK o2 \in D : /\ Touches(o2, k)
                          /\ o2.stamp = u.map[k].timestamp
                          /\ u.map[k].isRemoved <=> o2.kind # "add"
      BY <1>1 DEF ComesFrom
    <2>3. o1.stamp <= o2.stamp /\ o2.stamp <= o1.stamp
      BY <1>1, <2>1, <2>2, AbsorbsBounds
    <2>4. o1 = o2
      BY <2>3, SetCallType DEF UniqueStamps
    <2>5. s.map[k] \in Metadata /\ u.map[k] \in Metadata
      BY <1>1, FieldTypes
    <2> QED BY <2>1, <2>2, <2>4, <2>5 DEF Metadata
  <1>4. s.map = u.map
    BY <1>1, <1>3 DEF WellFormed
  <1>5. Alive(s) = Alive(u)
    BY <1>4 DEF Alive, Find
  <1> QED BY <1>2, <1>4, <1>5 DEF WellFormed

\* A set that absorbed its calls, and holds nothing else, shows the keys an add has the last
\* word on.
LEMMA ShownIsLastWord ==
    ASSUME NEW K, NEW D, D \subseteq SetCalls(K), UniqueStamps(D),
           NEW s, WellFormed(s), ComesFrom(s, D), \A c \in D : Absorbs(s, c), NEW k
    PROVE  Find(s, k) <=> \E c \in D : /\ c.kind = "add" /\ c.key = k
                                       /\ \A o \in D : Touches(o, k) /\ o.kind # "add" =>
                                                           o.stamp < c.stamp
  <1>1. \A c \in D : c.stamp \in Nat
    BY SetCallType
  <1>2. ASSUME Find(s, k)
        PROVE  \E c \in D : /\ c.kind = "add" /\ c.key = k
                            /\ \A o \in D : Touches(o, k) /\ o.kind # "add" => o.stamp < c.stamp
    <2>1. k \in DOMAIN s.map /\ ~ s.map[k].isRemoved
      BY <1>2 DEF Find
    <2>2. PICK c \in D : Touches(c, k) /\ c.stamp = s.map[k].timestamp /\ c.kind = "add"
      BY <2>1 DEF ComesFrom
    <2>3. ASSUME NEW o \in D, Touches(o, k), o.kind # "add"
          PROVE  o.stamp < c.stamp
      <3>1. o.stamp <= c.stamp
        BY <2>1, <2>2, <2>3, AbsorbsBounds
      <3>2. o.stamp # c.stamp
        BY <2>2, <2>3 DEF UniqueStamps
      <3> QED BY <1>1, <3>1, <3>2
    <2>4. c.key = k
      BY <2>2 DEF Touches
    <2> QED BY <2>2, <2>3, <2>4
  <1>3. ASSUME NEW c \in D, c.kind = "add", c.key = k,
               \A o \in D : Touches(o, k) /\ o.kind # "add" => o.stamp < c.stamp
        PROVE  Find(s, k)
    <2>1. k \in DOMAIN s.map /\ c.stamp <= s.map[k].timestamp
      BY <1>3 DEF Absorbs
    <2>2. PICK o \in D : /\ Touches(o, k)
                         /\ o.stamp = s.map[k].timestamp
                         /\ s.map[k].isRemoved <=> o.kind # "add"
      BY <2>1 DEF ComesFrom
    <2>3. o.kind = "add"
      BY <1>1, <1>3, <2>1, <2>2
    <2> QED BY <2>1, <2>2, <2>3 DEF Find
  <1> QED BY <1>2, <1>3

-------------------------------------------------------------------------------
(***************************************************************************)
(* Induction and counting, for the other containers.                       *)
(***************************************************************************)
\* Every nonempty set of naturals has a least element.
LEMMA LeastNatural ==
    ASSUME NEW T \in SUBSET Nat, T # {}
    PROVE  \E n \in T : \A m \in T : n <= m
  <1> DEFINE R == OpToRel(<, Nat)
  <1>1. IsWellFoundedOn(R, Nat)
    BY NatLessThanWellFounded
  <1>2. \A m, n \in Nat : m < n => <<m, n>> \in R
    BY DEF OpToRel
  <1> HIDE DEF R
  <1>3. PICK n \in T : \A m \in T : ~ (<<m, n>> \in R)
    BY <1>1, WFMin
  <1>4. ASSUME NEW m \in T PROVE n <= m
    <2>1. m \in Nat /\ n \in Nat
      OBVIOUS
    <2>2. ~ (m < n)
      BY <2>1, <1>2, <1>3
    <2> QED BY <2>1, <2>2
  <1> QED BY <1>4

\* Induction, with the property as a set.
LEMMA SetInduction ==
    ASSUME NEW P, 0 \in P, \A n \in Nat : n \in P => n + 1 \in P
    PROVE  Nat \subseteq P
  <1> DEFINE T == Nat \ P
  <1>1. SUFFICES ASSUME T # {} PROVE FALSE
    OBVIOUS
  <1>2. PICK n \in T : \A m \in T : n <= m
    BY <1>1, LeastNatural
  <1>3. n - 1 \in Nat /\ n - 1 \in P
    BY <1>2
  <1> QED BY <1>2, <1>3

\* Counting pairs by their first element.
StartingIn(E, s) == {e \in E : e[1] \in s}

\* Finitely many from each of finitely many.
LEMMA FromFinite ==
    ASSUME NEW E, NEW s, IsFiniteSet(s), \A x \in s : IsFiniteSet(StartingIn(E, {x}))
    PROVE  IsFiniteSet(StartingIn(E, s))
  <1> DEFINE parts == {StartingIn(E, {x}) : x \in s}
  <1>1. IsFiniteSet(parts)
    <2> DEFINE f == [x \in s |-> StartingIn(E, {x})]
    <2>1. f \in Surjection(s, parts)
      BY DEF Surjection
    <2> QED BY <2>1, FS_Surjection
  <1>2. \A p \in parts : IsFiniteSet(p)
    OBVIOUS
  <1>3. IsFiniteSet(UNION parts)
    BY <1>1, <1>2, FS_UNION
  <1>4. StartingIn(E, s) = UNION parts
    BY DEF StartingIn
  <1> QED BY <1>3, <1>4

\* Those from x, and the others.
LEMMA FromSplit ==
    ASSUME NEW E, NEW s, IsFiniteSet(s), \A x \in s : IsFiniteSet(StartingIn(E, {x})), NEW x \in s
    PROVE  Cardinality(StartingIn(E, s)) = Cardinality(StartingIn(E, {x})) + Cardinality(StartingIn(E, s \ {x}))
  <1> DEFINE one == StartingIn(E, {x})
             rest == StartingIn(E, s \ {x})
  <1>1. IsFiniteSet(one) /\ IsFiniteSet(rest)
    BY FS_RemoveElement, FromFinite
  <1>2. StartingIn(E, s) = one \cup rest
    BY DEF StartingIn
  <1>3. one \cap rest = {}
    BY DEF StartingIn
  <1> HIDE DEF one, rest
  <1>4. /\ Cardinality(one \cup rest)
              = Cardinality(one) + Cardinality(rest) - Cardinality(one \cap rest)
        /\ Cardinality(one) \in Nat
        /\ Cardinality(rest) \in Nat
    BY <1>1, FS_Union, FS_CardinalityType
  <1>5. Cardinality(one \cup rest) = Cardinality(one) + Cardinality(rest)
    <2>1. Cardinality(one \cap rest) = 0
      BY <1>3, FS_EmptySet
    <2> QED BY <1>4, <2>1
  <1> QED BY <1>2, <1>5 DEF one, rest

\* The pairs from x are as many as their second elements.
LEMMA PairsFrom ==
    ASSUME NEW E, NEW x, NEW A, IsFiniteSet(A), StartingIn(E, {x}) = {<<x, a>> : a \in A}
    PROVE  IsFiniteSet(StartingIn(E, {x})) /\ Cardinality(StartingIn(E, {x})) = Cardinality(A)
  <1> DEFINE f == [a \in A |-> <<x, a>>]
             T == {<<x, a>> : a \in A}
  <1>1. f \in Bijection(A, T)
    BY DEF Bijection, Injection, Surjection, IsInjective
  <1>2. ExistsBijection(A, T)
    BY <1>1 DEF ExistsBijection
  <1> HIDE DEF T
  <1>3. IsFiniteSet(T) /\ Cardinality(T) = Cardinality(A)
    BY <1>2, FS_Bijection
  <1> QED BY <1>3 DEF T

\* A sum over the first elements of how many pairs each has counts the pairs: iter is the
\* recursion of the sum, which the count of the pairs satisfies, and a smallest set on
\* which the two differed could not be.
LEMMA SumOfCounts ==
    ASSUME NEW h, IsFiniteSet(DOMAIN h), NEW E,
           \A x \in DOMAIN h : /\ IsFiniteSet(StartingIn(E, {x}))
                               /\ h[x] = Cardinality(StartingIn(E, {x}))
    PROVE  /\ IsFiniteSet(StartingIn(E, DOMAIN h))
           /\ SumFunction(h) = Cardinality(StartingIn(E, DOMAIN h))
  <1> DEFINE D == DOMAIN h
             Sum(f) == [s \in SUBSET D |->
                           IF s = {} THEN 0
                           ELSE LET x == CHOOSE x \in s : TRUE IN h[x] + f[s \ {x}]]
             iter == CHOOSE iter : iter = Sum(iter)
             count == [s \in SUBSET D |-> Cardinality(StartingIn(E, s))]
  <1>1. SumFunction(h) = iter[D]
    BY DEF SumFunction, SumFunctionOnSet, FoldFunctionOnSet, MapThenFoldSet
  <1>2. \A s \in SUBSET D : IsFiniteSet(s)
    BY FS_Subset
  <1>3. count[{}] = 0
    BY FS_EmptySet DEF StartingIn
  <1>4. ASSUME NEW s \in SUBSET D, NEW x \in s
        PROVE  count[s] = h[x] + count[s \ {x}]
    <2>1. IsFiniteSet(s) /\ \A y \in s : IsFiniteSet(StartingIn(E, {y}))
      BY <1>2
    <2>2. Cardinality(StartingIn(E, s)) = Cardinality(StartingIn(E, {x})) + Cardinality(StartingIn(E, s \ {x}))
      BY <2>1, FromSplit
    <2> QED BY <2>2
  <1>5. count = Sum(count)
    <2>1. ASSUME NEW s \in SUBSET D
          PROVE  count[s] = IF s = {} THEN 0
                            ELSE LET x == CHOOSE x \in s : TRUE IN h[x] + count[s \ {x}]
      <3> HIDE DEF count
      <3> QED BY <1>3, <1>4
    <2> QED BY <2>1
  <1>6. iter = Sum(iter)
    BY <1>5
  <1> HIDE DEF iter, count
  <1>7. \A s \in SUBSET D : iter[s] = count[s]
    <2> DEFINE bad == {s \in SUBSET D : iter[s] # count[s]}
               sizes == {Cardinality(s) : s \in bad}
    <2>1. SUFFICES ASSUME bad # {} PROVE FALSE
      OBVIOUS
    <2>2. sizes \in SUBSET Nat /\ sizes # {}
      BY <1>2, <2>1, FS_CardinalityType
    <2>3. PICK s \in bad : \A u \in bad : Cardinality(s) <= Cardinality(u)
      <3>1. PICK n \in sizes : \A m \in sizes : n <= m
        <4> HIDE DEF sizes
        <4> QED BY <2>2, LeastNatural
      <3> QED BY <3>1
    <2>4. s # {}
      <3>1. iter[{}] = 0
        BY <1>6
      <3> QED BY <3>1, <1>3
    <2> DEFINE x == CHOOSE x \in s : TRUE
    <2>5. x \in s
      BY <2>4
    <2>6. iter[s] = h[x] + iter[s \ {x}]
      BY <1>6, <2>4
    <2> HIDE DEF x
    <2>7. iter[s \ {x}] = count[s \ {x}]
      <3>1. Cardinality(s \ {x}) = Cardinality(s) - 1 /\ Cardinality(s) \in Nat
        BY <1>2, <2>5, FS_RemoveElement, FS_CardinalityType
      <3> QED BY <2>3, <3>1
    <2> QED BY <1>4, <2>4, <2>5, <2>6, <2>7
  <1>8. IsFiniteSet(StartingIn(E, D))
    BY FromFinite
  <1> QED BY <1>1, <1>7, <1>8 DEF count
===============================================================================
