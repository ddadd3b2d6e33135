--------------------------- MODULE CollabDataProofs ---------------------------
(***************************************************************************)
(* Theorems about CollabDataReplicas, for every set of replicas,           *)
(* observers, keys, values and timestamps, and any depth of nesting: the   *)
(* types, that a display told all operations shows the data, and that      *)
(* displays of equal histories agree.                                      *)
(***************************************************************************)
EXTENDS CollabDataReplicas, MapOfRegistersLemmas, SequenceTheorems

(***************************************************************************)
(* What a display of a map shows, and how one operation changes it.        *)
(***************************************************************************)
LEMMA LivingContent ==
    ASSUME NEW m, MapOK(m)
    PROVE  /\ \A k : k \in Living(m) <=> Find(m.keys, k)
           /\ \A k \in Living(m) : k \in Key /\ k \in DOMAIN m.keys.map /\ At(m, k) = Content(m, k)
           /\ m.keys.sizeAlive = Cardinality(Living(m))
           /\ IsFiniteSet(Living(m))
           /\ m.keys.sizeAlive \in Nat
  <1>1. \A k : k \in Living(m) <=> Find(m.keys, k)
    BY AliveIsFound DEF Living
  <1>2. \A k \in Living(m) : k \in Key /\ k \in DOMAIN m.keys.map /\ At(m, k) = Content(m, k)
    BY <1>1 DEF MapOK, Find, At, Content
  <1>3. /\ m.keys.sizeAlive = Cardinality(Living(m))
        /\ IsFiniteSet(Living(m))
        /\ m.keys.sizeAlive \in Nat
    BY KeysWellFormed, AliveFinite DEF WellFormed, Living
  <1> QED BY <1>1, <1>2, <1>3

LEMMA ShowFields ==
    ASSUME NEW m, MapOK(m)
    PROVE  /\ Show(m) = [content |-> Show(m).content, size |-> Show(m).size]
           /\ Show(m).content = [k \in Living(m) |-> Content(m, k).reg]
           /\ Show(m).size = m.keys.sizeAlive
  BY LivingContent DEF Show

\* The keys the user sees after an operation: Visible tells whether they changed.
LEMMA AppliedLiving ==
    ASSUME NEW m, MapOK(m), NEW op \in MapOp, NEW n, n = Applied(m, op)
    PROVE  /\ op.kind = "add" =>
                 /\ Living(n) = Living(m) \cup (IF Visible(m, op) THEN {op.key} ELSE {})
                 /\ Visible(m, op) => op.key \notin Living(m)
           /\ op.kind = "remove" =>
                 /\ Living(n) = Living(m) \ (IF Visible(m, op) THEN {op.key} ELSE {})
                 /\ Visible(m, op) => op.key \in Living(m)
           /\ op.kind = "update" => Living(n) = Living(m)
           /\ op.kind = "clear" /\ ~ Visible(m, op) => n.keys = m.keys
  <1>1. WellFormed(m.keys) /\ MapOK(n) /\ op.stamp \in Nat
    BY KeysWellFormed, AppliedOK, OpType
  <1>2. /\ \A k : k \in Living(m) <=> Find(m.keys, k)
        /\ \A k : k \in Living(n) <=> Find(n.keys, k)
    BY <1>1, LivingContent
  <1>3. CASE op.kind = "add"
    <2>1. n.keys = Add(m.keys, op.key, op.stamp) /\ Visible(m, op) = AddResult(m.keys, op.key, op.stamp)
      BY <1>3, AppliedKeys DEF Visible
    <2>2. /\ Visible(m, op) <=> Find(n.keys, op.key) /\ ~ Find(m.keys, op.key)
          /\ Find(m.keys, op.key) => Find(n.keys, op.key)
          /\ \A x : x # op.key => (Find(n.keys, x) <=> Find(m.keys, x))
      BY <1>1, <2>1, AddVisible
    <2>3. CASE Visible(m, op)
      BY <1>2, <1>3, <2>2, <2>3
    <2>4. CASE ~ Visible(m, op)
      BY <1>2, <1>3, <2>2, <2>4
    <2> QED BY <2>3, <2>4
  <1>4. CASE op.kind = "remove"
    <2>1. /\ n.keys = Remove(m.keys, op.key, op.stamp)
          /\ Visible(m, op) = RemoveResult(m.keys, op.key, op.stamp)
      BY <1>4, AppliedKeys DEF Visible
    <2>2. /\ Visible(m, op) <=> Find(m.keys, op.key) /\ ~ Find(n.keys, op.key)
          /\ Find(n.keys, op.key) => Find(m.keys, op.key)
          /\ \A x : x # op.key => (Find(n.keys, x) <=> Find(m.keys, x))
      BY <1>1, <2>1, RemoveVisible
    <2>3. CASE Visible(m, op)
      BY <1>2, <1>4, <2>2, <2>3
    <2>4. CASE ~ Visible(m, op)
      BY <1>2, <1>4, <2>2, <2>4
    <2> QED BY <2>3, <2>4
  <1>5. CASE op.kind = "update"
    <2>1. n.keys = Remove(m.keys, op.key, 0)
      BY <1>5, AppliedKeys
    <2>2. /\ RemoveResult(m.keys, op.key, 0) <=> Find(m.keys, op.key) /\ ~ Find(n.keys, op.key)
          /\ Find(n.keys, op.key) => Find(m.keys, op.key)
          /\ \A x : x # op.key => (Find(n.keys, x) <=> Find(m.keys, x))
      BY <1>1, <2>1, RemoveVisible
    <2>3. ~ RemoveResult(m.keys, op.key, 0)
      BY <1>1, FieldTypes DEF RemoveResult, Find, Newer
    <2> QED BY <1>2, <1>5, <2>2, <2>3
  <1>6. CASE op.kind = "clear"
    <2>1. n.keys = Clear(m.keys, op.stamp) /\ Visible(m, op) = ClearResult(m.keys, op.stamp)
      BY <1>6, AppliedKeys DEF Visible
    <2>2. ~ ClearResult(m.keys, op.stamp) => Clear(m.keys, op.stamp) = m.keys
      BY DEF ClearResult, Clear
    <2> QED BY <1>6, <2>1, <2>2
  <1> QED BY <1>3, <1>4, <1>5, <1>6, OpType

\* An update of a living key changes its content if it is visible.
LEMMA UpdateSeen ==
    ASSUME NEW m, MapOK(m), NEW op \in MapOp, op.kind = "update", NEW n, n = Applied(m, op)
    PROVE  /\ Visible(m, op) => Content(n, op.key).reg = op.value
           /\ ~ Visible(m, op) /\ op.key \in Living(m) => Content(n, op.key) = Content(m, op.key)
           /\ \A k : k # op.key => Content(n, k) = Content(m, k)
  <1>1. /\ Content(n, op.key) = Update(Content(m, op.key), op.value, op.stamp)
        /\ \A k : k # op.key => Content(n, k) = Content(m, k)
    BY AppliedContent
  <1>2. /\ op.key \in Living(m) <=> Find(m.keys, op.key)
        /\ op.key \in Living(m) => At(m, op.key) = Content(m, op.key)
    BY LivingContent
  <1>3. Visible(m, op) <=> /\ Find(m.keys, op.key)
                           /\ UpdateResult(At(m, op.key), op.value, op.stamp)
    BY DEF Visible
  <1>4. CASE Visible(m, op)
    <2>1. op.stamp > Content(m, op.key).timestamp
      BY <1>2, <1>3, <1>4 DEF UpdateResult
    <2>2. Content(n, op.key) = Register(op.value, op.stamp)
      BY <1>1, <2>1 DEF Update
    <2> QED BY <1>1, <1>4, <2>2 DEF Register
  <1>5. CASE ~ Visible(m, op)
    <2>1. op.key \in Living(m) => ~ (op.stamp > Content(m, op.key).timestamp)
      BY <1>2, <1>3, <1>5 DEF UpdateResult
    <2> QED BY <1>1, <1>5, <2>1 DEF Update
  <1> QED BY <1>4, <1>5

\* What the user does not see leaves a display as it is.
LEMMA InvisibleShow ==
    ASSUME NEW m, MapOK(m), NEW op \in MapOp, ~ Visible(m, op), NEW n, n = Applied(m, op)
    PROVE  Show(n) = Show(m)
  <1>1. MapOK(n)
    BY AppliedOK
  <1>2. Living(n) = Living(m)
    <2>1. op.kind = "clear" => Living(n) = Living(m)
      BY AppliedLiving DEF Living
    <2> QED BY <2>1, AppliedLiving, OpType
  <1>3. \A k \in Living(m) : Content(n, k) = Content(m, k)
    <2>1. CASE op.kind = "update"
      BY <2>1, UpdateSeen
    <2>2. CASE op.kind # "update"
      BY <2>2, AppliedContent
    <2> QED BY <2>1, <2>2
  <1>4. n.keys.sizeAlive = m.keys.sizeAlive
    BY <1>1, <1>2, LivingContent
  <1>5. [k \in Living(n) |-> Content(n, k).reg] = [k \in Living(m) |-> Content(m, k).reg]
    BY <1>2, <1>3
  <1>6. /\ Show(m).content = [k \in Living(m) |-> Content(m, k).reg]
        /\ Show(n).content = [k \in Living(n) |-> Content(n, k).reg]
        /\ Show(m).size = m.keys.sizeAlive
        /\ Show(n).size = n.keys.sizeAlive
        /\ Show(m) = [content |-> Show(m).content, size |-> Show(m).size]
        /\ Show(n) = [content |-> Show(n).content, size |-> Show(n).size]
    BY <1>1, ShowFields
  <1> QED BY <1>4, <1>5, <1>6

\* A mirror that is told what the user sees shows the data again.
LEMMA VisibleShown ==
    ASSUME NEW m, MapOK(m), NEW op \in MapOp, Visible(m, op), NEW n, n = Applied(m, op)
    PROVE  Shown(Show(m), n, op) = Show(n)
  <1> DEFINE d == Show(m)
             e == Shown(d, n, op)
  <1>1. MapOK(n)
    BY AppliedOK
  <1>2. /\ d = [content |-> d.content, size |-> d.size]
        /\ d.content = [k \in Living(m) |-> Content(m, k).reg]
        /\ d.size = m.keys.sizeAlive
    BY ShowFields
  <1>3. /\ Show(n) = [content |-> Show(n).content, size |-> Show(n).size]
        /\ Show(n).content = [k \in Living(n) |-> Content(n, k).reg]
        /\ Show(n).size = n.keys.sizeAlive
    BY <1>1, ShowFields
  <1>4. /\ m.keys.sizeAlive = Cardinality(Living(m)) /\ IsFiniteSet(Living(m))
        /\ m.keys.sizeAlive \in Nat
        /\ n.keys.sizeAlive = Cardinality(Living(n))
    BY <1>1, LivingContent
  <1> HIDE DEF d
  <1>5. ASSUME op.kind = "add"
        PROVE  e = Show(n)
    <2>1. Living(n) = Living(m) \cup {op.key} /\ op.key \notin Living(m)
      BY <1>5, AppliedLiving
    <2>2. \A k : Content(n, k) = Content(m, k)
      BY <1>5, AppliedContent
    <2>3. n.keys.sizeAlive = m.keys.sizeAlive + 1
      <3>1. Cardinality(Living(m) \cup {op.key}) = Cardinality(Living(m)) + 1
        BY <1>4, <2>1, FS_AddElement
      <3> QED BY <1>4, <2>1, <3>1
    <2>4. op.key \in DOMAIN n.keys.map
      BY <1>1, <2>1, LivingContent
    <2>5. CrdtAt(n, op.key) = Content(n, op.key)
      BY <2>4 DEF CrdtAt, Content
    <2>6. e = [content |-> [k \in DOMAIN d.content \cup {op.key} |->
                               IF k = op.key THEN CrdtAt(n, k).reg ELSE d.content[k]],
               size |-> d.size + 1]
      BY <1>5 DEF Shown
    <2>7. [k \in DOMAIN d.content \cup {op.key} |->
              IF k = op.key THEN CrdtAt(n, k).reg ELSE d.content[k]]
              = [k \in Living(n) |-> Content(n, k).reg]
      BY <1>2, <2>1, <2>2, <2>5
    <2> QED BY <1>2, <1>3, <2>3, <2>6, <2>7
  <1>6. ASSUME op.kind = "remove"
        PROVE  e = Show(n)
    <2>1. Living(n) = Living(m) \ {op.key} /\ op.key \in Living(m)
      BY <1>6, AppliedLiving
    <2>2. \A k : Content(n, k) = Content(m, k)
      BY <1>6, AppliedContent
    <2>3. n.keys.sizeAlive = m.keys.sizeAlive - 1
      <3>1. Cardinality(Living(m) \ {op.key}) = Cardinality(Living(m)) - 1
        BY <1>4, <2>1, FS_RemoveElement
      <3> QED BY <1>4, <2>1, <3>1
    <2>4. e = [content |-> [k \in DOMAIN d.content \ {op.key} |-> d.content[k]],
               size |-> d.size - 1]
      BY <1>6 DEF Shown
    <2>5. [k \in DOMAIN d.content \ {op.key} |-> d.content[k]]
              = [k \in Living(n) |-> Content(n, k).reg]
      BY <1>2, <2>1, <2>2
    <2> QED BY <1>2, <1>3, <2>3, <2>4, <2>5
  <1>7. ASSUME op.kind = "update"
        PROVE  e = Show(n)
    <2>1. Living(n) = Living(m)
      BY <1>7, AppliedLiving
    <2>2. /\ Content(n, op.key).reg = op.value
          /\ \A k : k # op.key => Content(n, k) = Content(m, k)
      BY <1>7, UpdateSeen
    <2>3. n.keys.sizeAlive = m.keys.sizeAlive
      BY <1>4, <2>1
    <2>4. e = [d EXCEPT !.content = [k \in DOMAIN d.content |->
                                       IF k = op.key THEN op.value ELSE d.content[k]]]
      BY <1>7 DEF Shown
    <2>5. [k \in DOMAIN d.content |-> IF k = op.key THEN op.value ELSE d.content[k]]
              = [k \in Living(n) |-> Content(n, k).reg]
      BY <1>2, <2>1, <2>2
    <2>6. e = [content |-> [k \in Living(n) |-> Content(n, k).reg], size |-> d.size]
      BY <1>2, <2>4, <2>5
    <2> QED BY <1>2, <1>3, <2>3, <2>6
  <1>8. ASSUME op.kind = "clear"
        PROVE  e = Show(n)
    BY <1>8 DEF Shown
  <1> QED BY <1>5, <1>6, <1>7, <1>8, OpType DEF d

-------------------------------------------------------------------------------
(***************************************************************************)
(* The state: the data, the observers and the notifications under way.     *)
(* All notifications but the innermost wait for a reactor.                 *)
(***************************************************************************)
CallType == [op : MapOp, next : Nat]

NetOK ==
    /\ issued \subseteq MapOp
    /\ delivered \in [Replica -> SUBSET MapOp]
    /\ context \in [Stamp -> SUBSET MapOp]

DataOK == DOMAIN data = Replica /\ \A r \in Replica : MapOK(data[r])

ObserversOK(obs) ==
    /\ obs \in Seq(Observer)
    /\ \A i, j \in DOMAIN obs : obs[i] = obs[j] => i = j

CallsOK(c, obs, D) ==
    /\ c \in Seq(CallType)
    /\ \A n \in 1 .. Len(c) : c[n].op \in D /\ c[n].next \in 1 .. Len(obs)
    /\ \A n \in 1 .. Len(c) : n < Len(c) => obs[c[n].next] \in Reactor

LoopsOK ==
    /\ DOMAIN observers = Replica /\ DOMAIN calls = Replica
    /\ \A r \in Replica : /\ ObserversOK(observers[r])
                          /\ CallsOK(calls[r], observers[r], delivered[r])

StateOK == NetOK /\ DataOK /\ LoopsOK

LEMMA OneMoreCall ==
    ASSUME NEW c \in Seq(CallType), NEW op \in MapOp
    PROVE  /\ Append(c, Notification(op)) \in Seq(CallType)
           /\ Len(Append(c, Notification(op))) = Len(c) + 1
           /\ Append(c, Notification(op))[Len(c) + 1] = Notification(op)
           /\ \A n \in 1 .. Len(c) : Append(c, Notification(op))[n] = c[n]
           /\ Notification(op).op = op /\ Notification(op).next = 1
  BY DEF Notification, CallType

LEMMA LastReplaced ==
    ASSUME NEW S, NEW N \in Nat \ {0}, NEW c \in [1 .. N -> S], NEW e,
           NEW d, d = [c EXCEPT ![N] = e]
    PROVE  \A n \in 1 .. N : n < N => d[n] = c[n]
  OBVIOUS

\* The observer called returned: the notification is over, or calls the next one.
LEMMA ReturnedCalls ==
    ASSUME NEW c \in Seq(CallType), c # <<>>, NEW obs \in Seq(Observer),
           NEW d, d = Returned(c, obs)
    PROVE  /\ d \in Seq(CallType)
           /\ \A n \in 1 .. Len(d) : n < Len(c) => d[n] = c[n]
           /\ \/ c[Len(c)].next = Len(obs) /\ Len(d) = Len(c) - 1
              \/ /\ c[Len(c)].next # Len(obs) /\ Len(d) = Len(c)
                 /\ d[Len(c)].op = c[Len(c)].op
                 /\ d[Len(c)].next = c[Len(c)].next + 1
  <1>1. Len(c) \in Nat \ {0} /\ \A n \in 1 .. Len(c) : c[n] \in CallType
    BY EmptySeq
  <1>2. CASE c[Len(c)].next = Len(obs)
    <2>1. d = SubSeq(c, 1, Len(c) - 1)
      BY <1>2 DEF Returned
    <2> DEFINE m == Len(c) - 1
    <2>2. m \in Nat /\ \A n \in 1 .. m : c[n] \in CallType
      BY <1>1
    <2>3. d = SubSeq(c, 1, m)
      BY <2>1
    <2> HIDE DEF m
    <2>4. /\ d \in Seq(CallType)
          /\ Len(d) = IF 1 <= m THEN m - 1 + 1 ELSE 0
          /\ \A n \in 1 .. m - 1 + 1 : d[n] = c[1 + n - 1]
      BY <2>2, <2>3, SubSeqProperties
    <2>5. Len(d) = m /\ \A n \in 1 .. m : d[n] = c[n]
      BY <2>2, <2>4
    <2> QED BY <1>2, <2>4, <2>5 DEF m
  <1>3. CASE c[Len(c)].next # Len(obs)
    <2> DEFINE last == c[Len(c)]
               e == [last EXCEPT !.next = last.next + 1]
    <2>1. d = [c EXCEPT ![Len(c)] = e]
      BY <1>3 DEF Returned
    <2>2. last \in CallType
      BY <1>1
    <2>3. e \in CallType /\ e.op = last.op /\ e.next = last.next + 1
      BY <2>2 DEF CallType
    <2> HIDE DEF e
    <2>4. d \in Seq(CallType) /\ Len(d) = Len(c) /\ d[Len(c)] = e
      BY <1>1, <2>1, <2>3
    <2>5. \A n \in 1 .. Len(d) : n < Len(c) => d[n] = c[n]
      <3>1. c \in [1 .. Len(c) -> CallType]
        BY LenProperties
      <3> DEFINE N == Len(c)
      <3>2. N \in Nat \ {0} /\ c \in [1 .. N -> CallType] /\ d = [c EXCEPT ![N] = e]
        BY <1>1, <2>1, <3>1
      <3> HIDE DEF N
      <3>3. \A n \in 1 .. N : n < N => d[n] = c[n]
        BY <3>2, LastReplaced
      <3> QED BY <2>4, <3>3 DEF N
    <2> QED BY <1>3, <2>3, <2>4, <2>5
  <1> QED BY <1>2, <1>3

(***************************************************************************)
(* The displays: a mirror before every reactor that has still to be told   *)
(* of the innermost notification is one Shown away from the data.          *)
(***************************************************************************)
First(obs, o, i) ==
    /\ i \in 1 .. Len(obs) /\ obs[i] = o
    /\ \A j \in 1 .. i : obs[j] \notin Reactor

Past(c, i) == \A n \in 1 .. Len(c) : c[n].next > i

MirrorsOK(obs, c, d, m) ==
    \A o \in Mirror : \A i \in 1 .. Len(obs) : First(obs, o, i) =>
        /\ Past(c, i) => d[o] = Show(m)
        /\ ~ Past(c, i) => Shown(d[o], m, c[Len(c)].op) = Show(m)

\* A reactor changes the data, or nobody is being called: the mirrors before every reactor
\* were told everything, and are now to be told op if the user sees it.
LEMMA AppliedMirrors ==
    ASSUME NEW obs, ObserversOK(obs), NEW D, NEW c, CallsOK(c, obs, D),
           c # <<>> => obs[c[Len(c)].next] \in Reactor,
           NEW m, MapOK(m), NEW d, MirrorsOK(obs, c, d, m), NEW op \in MapOp,
           NEW n, n = Applied(m, op),
           NEW e, e = IF Visible(m, op) THEN Notify(c, obs, op) ELSE c
    PROVE  CallsOK(e, obs, D \cup {op}) /\ MirrorsOK(obs, e, d, n)
  <1>1. /\ obs \in Seq(Observer) /\ Len(obs) \in Nat
        /\ c \in Seq(CallType) /\ Len(c) \in Nat
    BY DEF ObserversOK, CallsOK
  <1>2. \A k \in 1 .. Len(c) : obs[c[k].next] \in Reactor /\ c[k].next \in 1 .. Len(obs)
    <2>1. TAKE k \in 1 .. Len(c)
    <2>2. k = Len(c) \/ k < Len(c)
      BY <1>1
    <2>3. c # <<>>
      BY <1>1, EmptySeq
    <2> QED BY <2>2, <2>3 DEF CallsOK
  <1>3. \A o : \A i \in 1 .. Len(obs) : First(obs, o, i) => Past(c, i)
    BY <1>1, <1>2 DEF First, Past
  <1>4. CASE ~ Visible(m, op)
    <2>1. e = c /\ Show(n) = Show(m)
      BY <1>4, InvisibleShow
    <2>2. CallsOK(e, obs, D \cup {op})
      BY <2>1 DEF CallsOK
    <2>3. MirrorsOK(obs, e, d, n)
      BY <1>3, <2>1 DEF MirrorsOK
    <2> QED BY <2>2, <2>3
  <1>5. CASE Visible(m, op) /\ obs = <<>>
    <2>1. e = c /\ 1 .. Len(obs) = {}
      BY <1>5 DEF Notify
    <2>2. CallsOK(e, obs, D \cup {op})
      BY <2>1 DEF CallsOK
    <2> QED BY <2>1, <2>2 DEF MirrorsOK
  <1>6. CASE Visible(m, op) /\ obs # <<>>
    <2>1. e = Append(c, Notification(op))
      BY <1>6 DEF Notify
    <2>2. /\ e \in Seq(CallType) /\ Len(e) = Len(c) + 1
          /\ e[Len(c) + 1].op = op /\ e[Len(c) + 1].next = 1
          /\ \A k \in 1 .. Len(c) : e[k] = c[k]
      BY <1>1, <2>1, OneMoreCall
    <2>3. 1 \in 1 .. Len(obs)
      BY <1>1, <1>6, EmptySeq
    <2>4. \A k \in 1 .. Len(e) : k < Len(e) => k \in 1 .. Len(c)
      BY <1>1, <2>2
    <2>5. \A k \in 1 .. Len(e) : k = Len(c) + 1 \/ k \in 1 .. Len(c)
      BY <1>1, <2>2
    <2>6. CallsOK(e, obs, D \cup {op})
      <3>1. \A k \in 1 .. Len(e) : e[k].op \in D \cup {op} /\ e[k].next \in 1 .. Len(obs)
        BY <2>2, <2>3, <2>5 DEF CallsOK
      <3>2. \A k \in 1 .. Len(e) : k < Len(e) => obs[e[k].next] \in Reactor
        BY <1>2, <2>2, <2>4
      <3> QED BY <2>2, <3>1, <3>2 DEF CallsOK
    <2>7. ASSUME NEW o \in Mirror, NEW i \in 1 .. Len(obs), First(obs, o, i)
          PROVE  ~ Past(e, i) /\ Shown(d[o], n, e[Len(e)].op) = Show(n)
      <3>1. Len(c) + 1 \in 1 .. Len(e) /\ ~ (e[Len(c) + 1].next > i)
        BY <1>1, <2>2, <2>7
      <3>2. ~ Past(e, i)
        BY <3>1 DEF Past
      <3>3. d[o] = Show(m)
        BY <1>3, <2>7 DEF MirrorsOK
      <3>4. Shown(d[o], n, op) = Show(n)
        BY <1>6, <3>3, VisibleShown
      <3> QED BY <2>2, <3>2, <3>4
    <2>8. MirrorsOK(obs, e, d, n)
      BY <2>7 DEF MirrorsOK
    <2> QED BY <2>6, <2>8
  <1> QED BY <1>4, <1>5, <1>6

\* The observer called handles the operation of the innermost notification.
LEMMA ReturnedMirrors ==
    ASSUME NEW obs, ObserversOK(obs), NEW D, NEW c, CallsOK(c, obs, D), c # <<>>,
           NEW m, NEW d, MirrorsOK(obs, c, d, m),
           NEW e, e = Returned(c, obs), NEW f,
           \A o \in Mirror : f[o] = IF o = obs[c[Len(c)].next]
                                    THEN Shown(d[o], m, c[Len(c)].op) ELSE d[o]
    PROVE  CallsOK(e, obs, D) /\ MirrorsOK(obs, e, f, m)
  <1> DEFINE q == c[Len(c)].next
             op == c[Len(c)].op
  <1>1. /\ obs \in Seq(Observer) /\ Len(obs) \in Nat
        /\ c \in Seq(CallType) /\ Len(c) \in Nat
    BY DEF ObserversOK, CallsOK
  <1>2. Len(c) \in 1 .. Len(c)
    BY <1>1, EmptySeq
  <1>3. q \in 1 .. Len(obs) /\ op \in D
    BY <1>2 DEF CallsOK
  <1>4. \A k \in 1 .. Len(c) : k < Len(c) =>
           c[k].op \in D /\ c[k].next \in 1 .. Len(obs) /\ obs[c[k].next] \in Reactor
    BY DEF CallsOK
  <1>5. /\ e \in Seq(CallType) /\ Len(e) \in Nat
        /\ \A k \in 1 .. Len(e) : k < Len(c) => e[k] = c[k]
        /\ \/ q = Len(obs) /\ Len(e) = Len(c) - 1
           \/ q # Len(obs) /\ Len(e) = Len(c) /\ e[Len(c)].op = op /\ e[Len(c)].next = q + 1
    BY <1>1, ReturnedCalls
  <1>6. /\ \A o \in Mirror : o = obs[q] => f[o] = Shown(d[o], m, op)
        /\ \A o \in Mirror : o # obs[q] => f[o] = d[o]
    OBVIOUS
  <1>7. /\ \A o \in Mirror : \A i \in 1 .. Len(obs) : First(obs, o, i) /\ Past(c, i) => d[o] = Show(m)
        /\ \A o \in Mirror : \A i \in 1 .. Len(obs) :
              First(obs, o, i) /\ ~ Past(c, i) => Shown(d[o], m, op) = Show(m)
    BY DEF MirrorsOK
  <1>8. \A k \in 1 .. Len(c) : k # Len(c) => k < Len(c)
    BY <1>1
  <1>9. q = c[Len(c)].next /\ op = c[Len(c)].op
    OBVIOUS
  <1> HIDE DEF q, op
  <1>10. CallsOK(e, obs, D)
    <2>1. \A k \in 1 .. Len(e) : k \in 1 .. Len(c) /\ (k < Len(e) => k < Len(c))
      BY <1>1, <1>5
    <2>2. ASSUME NEW k \in 1 .. Len(e)
          PROVE  e[k].op \in D /\ e[k].next \in 1 .. Len(obs)
      <3>1. CASE k < Len(c)
        BY <1>4, <1>5, <2>1, <3>1
      <3>2. CASE ~ (k < Len(c))
        <4>1. k = Len(c)
          BY <1>8, <2>1, <3>2
        <4>2. q # Len(obs) /\ e[k].op = op /\ e[k].next = q + 1
          BY <1>1, <1>5, <2>2, <4>1
        <4>3. q + 1 \in 1 .. Len(obs)
          BY <1>1, <1>3, <4>2
        <4> QED BY <1>3, <4>2, <4>3
      <3> QED BY <3>1, <3>2
    <2>3. ASSUME NEW k \in 1 .. Len(e), k < Len(e)
          PROVE  obs[e[k].next] \in Reactor
      BY <1>4, <1>5, <2>1, <2>3
    <2> QED BY <1>5, <2>2, <2>3 DEF CallsOK
  <1>11. ASSUME NEW o \in Mirror, NEW i \in 1 .. Len(obs), First(obs, o, i)
         PROVE  /\ Past(e, i) => f[o] = Show(m)
                /\ ~ Past(e, i) => Shown(f[o], m, e[Len(e)].op) = Show(m)
    <2>1. i \in Nat /\ obs[i] = o /\ \A j \in 1 .. i : obs[j] \notin Reactor
      BY <1>1, <1>11 DEF First
    <2>2. \A k \in 1 .. Len(c) : k < Len(c) => c[k].next > i
      BY <1>1, <1>4, <2>1
    <2>3. o = obs[q] <=> q = i
      BY <1>3, <2>1 DEF ObserversOK
    <2>4. Past(c, i) <=> q > i
      BY <1>2, <1>8, <1>9, <2>2 DEF Past
    <2>5. CASE q >= i
      <3>1. f[o] = Show(m)
        <4>1. CASE q = i
          BY <1>6, <1>7, <1>11, <2>1, <2>3, <2>4, <4>1
        <4>2. CASE q > i
          <5>1. q # i
            BY <1>3, <2>1, <4>2
          <5> QED BY <1>6, <1>7, <1>11, <2>3, <2>4, <4>2, <5>1
        <4> QED BY <1>3, <2>1, <2>5, <4>1, <4>2
      <3>2. ASSUME NEW k \in 1 .. Len(e)
            PROVE  e[k].next > i
        <4>1. CASE k < Len(c)
          BY <1>1, <1>5, <2>2, <4>1
        <4>2. CASE ~ (k < Len(c))
          <5>1. k = Len(c) /\ e[k].next = q + 1
            BY <1>1, <1>5, <4>2
          <5> QED BY <1>1, <1>3, <2>1, <2>5, <5>1
        <4> QED BY <4>1, <4>2
      <3> QED BY <3>1, <3>2 DEF Past
    <2>6. CASE q < i
      <3>1. q # i /\ ~ (q > i) /\ q # Len(obs)
        BY <1>1, <1>3, <2>1, <2>6
      <3>2. f[o] = d[o] /\ Shown(d[o], m, op) = Show(m)
        BY <1>6, <1>7, <1>11, <2>3, <2>4, <3>1
      <3>3. Len(e) = Len(c) /\ e[Len(c)].op = op /\ e[Len(c)].next = q + 1
        BY <1>5, <3>1
      <3>4. ~ (q + 1 > i)
        BY <1>3, <2>1, <2>6
      <3>5. ~ Past(e, i)
        BY <1>2, <3>3, <3>4 DEF Past
      <3> QED BY <3>2, <3>3, <3>5
    <2> QED BY <1>3, <2>1, <2>5, <2>6
  <1> QED BY <1>10, <1>11 DEF MirrorsOK

\* A new observer, while nobody is called: it comes last, and a mirror shows the data.
LEMMA AddedMirrors ==
    ASSUME NEW obs, ObserversOK(obs), NEW m, NEW d, MirrorsOK(obs, <<>>, d, m),
           NEW o \in Observer, NEW n, n = AddObserver(obs, o), NEW f,
           \A x \in Mirror : x # o => f[x] = d[x],
           o \in Mirror /\ ~ Registered(obs, o) => f[o] = Show(m),
           o \in Mirror /\ Registered(obs, o) => f[o] = d[o]
    PROVE  ObserversOK(n) /\ MirrorsOK(n, <<>>, f, m)
  <1>1. obs \in Seq(Observer) /\ Len(obs) \in Nat /\ DOMAIN obs = 1 .. Len(obs)
    BY DEF ObserversOK
  <1>2. \A i : Past(<<>>, i)
    BY DEF Past
  <1>3. CASE Registered(obs, o)
    <2>1. n = obs
      BY <1>3 DEF AddObserver
    <2> QED BY <1>2, <1>3, <2>1 DEF MirrorsOK
  <1>4. CASE ~ Registered(obs, o)
    <2>1. /\ n \in Seq(Observer) /\ Len(n) = Len(obs) + 1 /\ n[Len(obs) + 1] = o
          /\ \A i \in 1 .. Len(obs) : n[i] = obs[i]
      BY <1>1, <1>4 DEF AddObserver
    <2>2. \A i \in 1 .. Len(obs) : obs[i] # o
      BY <1>1, <1>4 DEF Registered
    <2>3. DOMAIN n = 1 .. Len(n) /\ \A i \in 1 .. Len(n) : i \in 1 .. Len(obs) \/ i = Len(obs) + 1
      BY <1>1, <2>1
    <2>4. ObserversOK(n)
      BY <1>1, <2>1, <2>2, <2>3 DEF ObserversOK
    <2>5. ASSUME NEW x \in Mirror, NEW i \in 1 .. Len(n), First(n, x, i)
          PROVE  f[x] = Show(m)
      <3>1. CASE i = Len(obs) + 1
        BY <1>4, <2>1, <2>5, <3>1 DEF First
      <3>2. CASE i \in 1 .. Len(obs)
        <4>1. \A j \in 1 .. i : j \in 1 .. Len(obs)
          BY <1>1, <3>2
        <4>2. First(obs, x, i)
          BY <2>1, <2>5, <3>2, <4>1 DEF First
        <4>3. x # o
          BY <2>2, <3>2, <4>2 DEF First
        <4> QED BY <1>2, <3>2, <4>2, <4>3 DEF MirrorsOK
      <3> QED BY <2>3, <3>1, <3>2
    <2> QED BY <1>2, <2>4, <2>5 DEF MirrorsOK
  <1> QED BY <1>3, <1>4

-------------------------------------------------------------------------------
(***************************************************************************)
(* The steps.                                                              *)
(***************************************************************************)
DisplaysOK ==
    /\ DOMAIN display = Replica
    /\ \A r \in Replica :
          /\ DOMAIN display[r] = Mirror
          /\ MirrorsOK(observers[r], calls[r], display[r], data[r])

CollabInv == StateOK /\ DisplaysOK

LEMMA NoMirrors ==
    ASSUME NEW d, NEW m
    PROVE  /\ ObserversOK(<<>>)
           /\ MirrorsOK(<<>>, <<>>, d, m)
           /\ \A obs, D : CallsOK(<<>>, obs, D)
  BY DEF ObserversOK, MirrorsOK, CallsOK

LEMMA InitCollab == Init => CollabInv
  <1> SUFFICES ASSUME Init
               PROVE  CollabInv
    OBVIOUS
  <1>1. NetOK
    BY DEF Init, NetInit, NetOK
  <1>2. DataOK
    BY NewMapOK DEF Init, DataOK
  <1>3. LoopsOK
    BY NoMirrors DEF Init, LoopsOK
  <1>4. DisplaysOK
    BY NoMirrors DEF Init, DisplaysOK
  <1> QED BY <1>1, <1>2, <1>3, <1>4 DEF CollabInv, StateOK

\* What the invariant says of one replica.
LEMMA ReplicaInv ==
    ASSUME CollabInv, NEW r \in Replica
    PROVE  /\ MapOK(data[r])
           /\ ObserversOK(observers[r])
           /\ CallsOK(calls[r], observers[r], delivered[r])
           /\ MirrorsOK(observers[r], calls[r], display[r], data[r])
           /\ DOMAIN display[r] = Mirror
  BY DEF CollabInv, StateOK, DataOK, LoopsOK, DisplaysOK

\* A local operation or one of another replica.
LEMMA ApplyCollab ==
    ASSUME CollabInv, NEW r \in Replica, NEW op \in MapOp, Call(r, op), Apply(r, op),
           ~ Idle(r) => Called(r) \in Reactor
    PROVE  CollabInv'
  <1> DEFINE c == calls[r]
             n == Applied(data[r], op)
             e == IF Visible(data[r], op) THEN Notify(c, observers[r], op) ELSE c
  <1>1. /\ NetOK'
        /\ delivered' = [delivered EXCEPT ![r] = delivered[r] \cup {op}]
        /\ delivered \in [Replica -> SUBSET MapOp]
    <2>1. CASE Originate(r, op)
      BY <2>1, OpType DEF CollabInv, StateOK, NetOK, Originate
    <2>2. CASE Receive(r, op)
      BY <2>2 DEF CollabInv, StateOK, NetOK, Receive
    <2> QED BY <2>1, <2>2 DEF Call
  <1>2. /\ data' = [data EXCEPT ![r] = n] /\ DOMAIN data = Replica
        /\ calls' = [calls EXCEPT ![r] = e] /\ DOMAIN calls = Replica
        /\ UNCHANGED <<observers, display>>
        /\ DOMAIN observers = Replica /\ DOMAIN display = Replica
    BY DEF Apply, CollabInv, StateOK, DataOK, LoopsOK, DisplaysOK
  <1>3. /\ MapOK(data[r])
        /\ ObserversOK(observers[r])
        /\ CallsOK(c, observers[r], delivered[r])
        /\ MirrorsOK(observers[r], c, display[r], data[r])
    BY ReplicaInv
  <1>4. MapOK(n)
    BY <1>3, AppliedOK
  <1>5. c # <<>> => observers[r][c[Len(c)].next] \in Reactor
    BY DEF Idle, Called, Innermost
  <1>6. /\ n = Applied(data[r], op)
        /\ e = IF Visible(data[r], op) THEN Notify(c, observers[r], op) ELSE c
    OBVIOUS
  <1> HIDE DEF n, e, c
  <1>7. /\ CallsOK(e, observers[r], delivered[r] \cup {op})
        /\ MirrorsOK(observers[r], e, display[r], n)
    BY <1>3, <1>5, <1>6, AppliedMirrors
  <1>8. /\ data'[r] = n /\ calls'[r] = e /\ delivered'[r] = delivered[r] \cup {op}
        /\ observers'[r] = observers[r] /\ display'[r] = display[r]
        /\ \A q \in Replica : q # r =>
              /\ data'[q] = data[q] /\ calls'[q] = calls[q] /\ delivered'[q] = delivered[q]
              /\ observers'[q] = observers[q] /\ display'[q] = display[q]
    BY <1>1, <1>2
  <1>9. ASSUME NEW q \in Replica
        PROVE  /\ MapOK(data'[q])
               /\ ObserversOK(observers'[q])
               /\ CallsOK(calls'[q], observers'[q], delivered'[q])
               /\ MirrorsOK(observers'[q], calls'[q], display'[q], data'[q])
               /\ DOMAIN display'[q] = Mirror
    <2>1. CASE q = r
      BY <1>3, <1>4, <1>7, <1>8, <2>1, ReplicaInv
    <2>2. CASE q # r
      BY <1>8, <2>2, ReplicaInv
    <2> QED BY <2>1, <2>2
  <1>10. DOMAIN data' = Replica /\ DOMAIN calls' = Replica
        /\ DOMAIN observers' = Replica /\ DOMAIN display' = Replica
    BY <1>2
  <1> QED BY <1>1, <1>9, <1>10 DEF CollabInv, StateOK, DataOK, LoopsOK, DisplaysOK

\* The other steps leave the data and the transport alone: what they must keep up.
LEMMA LocalCollab ==
    ASSUME CollabInv, NEW r \in Replica, UNCHANGED <<issued, delivered, context, data>>,
           DOMAIN observers' = Replica, DOMAIN calls' = Replica, DOMAIN display' = Replica,
           \A q \in Replica : q # r =>
              observers'[q] = observers[q] /\ calls'[q] = calls[q] /\ display'[q] = display[q],
           ObserversOK(observers'[r]),
           CallsOK(calls'[r], observers'[r], delivered[r]),
           DOMAIN display'[r] = Mirror,
           MirrorsOK(observers'[r], calls'[r], display'[r], data[r])
    PROVE  CollabInv'
  <1>1. NetOK' /\ DataOK'
    BY DEF CollabInv, StateOK, NetOK, DataOK
  <1>2. ASSUME NEW q \in Replica
        PROVE  /\ ObserversOK(observers'[q])
               /\ CallsOK(calls'[q], observers'[q], delivered'[q])
               /\ MirrorsOK(observers'[q], calls'[q], display'[q], data'[q])
               /\ DOMAIN display'[q] = Mirror
    <2>1. CASE q = r
      BY <2>1
    <2>2. CASE q # r
      BY <2>2, ReplicaInv
    <2> QED BY <2>1, <2>2
  <1> QED BY <1>1, <1>2 DEF CollabInv, StateOK, LoopsOK, DisplaysOK

LEMMA ReturnCollab ==
    ASSUME CollabInv, NEW r \in Replica, onOperation(r)
    PROVE  CollabInv'
  <1> DEFINE c == calls[r]
             e == Returned(c, observers[r])
             f == [o \in Mirror |-> IF o = Called(r)
                     THEN Shown(display[r][o], data[r], Innermost(c).op) ELSE display[r][o]]
  <1>1. /\ MapOK(data[r])
        /\ ObserversOK(observers[r])
        /\ CallsOK(c, observers[r], delivered[r])
        /\ MirrorsOK(observers[r], c, display[r], data[r])
    BY ReplicaInv
  <1>2. /\ c # <<>>
        /\ display' = [display EXCEPT ![r] = f] /\ DOMAIN display = Replica
        /\ calls' = [calls EXCEPT ![r] = e] /\ DOMAIN calls = Replica
        /\ UNCHANGED <<issued, delivered, context, data, observers>>
        /\ DOMAIN observers = Replica
    BY DEF onOperation, Idle, CollabInv, StateOK, LoopsOK, DisplaysOK
  <1>3. /\ e = Returned(c, observers[r]) /\ DOMAIN f = Mirror
        /\ \A o \in Mirror : f[o] = IF o = observers[r][c[Len(c)].next]
                                    THEN Shown(display[r][o], data[r], c[Len(c)].op)
                                    ELSE display[r][o]
    BY DEF Called, Innermost
  <1> HIDE DEF e, f, c
  <1>4. /\ CallsOK(e, observers[r], delivered[r])
        /\ MirrorsOK(observers[r], e, f, data[r])
    BY <1>1, <1>2, <1>3, ReturnedMirrors
  <1>5. /\ calls'[r] = e /\ display'[r] = f /\ observers'[r] = observers[r]
        /\ \A q \in Replica : q # r =>
              observers'[q] = observers[q] /\ calls'[q] = calls[q] /\ display'[q] = display[q]
        /\ DOMAIN observers' = Replica /\ DOMAIN calls' = Replica /\ DOMAIN display' = Replica
    BY <1>2
  <1>6. /\ ObserversOK(observers'[r])
        /\ CallsOK(calls'[r], observers'[r], delivered[r])
        /\ DOMAIN display'[r] = Mirror
        /\ MirrorsOK(observers'[r], calls'[r], display'[r], data[r])
    BY <1>1, <1>3, <1>4, <1>5
  <1> QED BY <1>2, <1>5, <1>6, LocalCollab

LEMMA AddCollab ==
    ASSUME CollabInv, NEW r \in Replica, NEW o \in Observer, addOperationObserver(r, o)
    PROVE  CollabInv'
  <1> DEFINE n == AddObserver(observers[r], o)
             f == IF o \in Mirror /\ ~ Registered(observers[r], o)
                  THEN [display[r] EXCEPT ![o] = Show(data[r])] ELSE display[r]
  <1>1. /\ calls[r] = <<>>
        /\ observers' = [observers EXCEPT ![r] = n] /\ DOMAIN observers = Replica
        /\ DOMAIN display = Replica /\ DOMAIN calls = Replica
        /\ UNCHANGED <<issued, delivered, context, data, calls>>
    BY DEF addOperationObserver, Idle, CollabInv, StateOK, LoopsOK, DisplaysOK
  <1>2. ObserversOK(observers[r]) /\ MirrorsOK(observers[r], <<>>, display[r], data[r])
    BY <1>1, ReplicaInv
  <1>3. DOMAIN display[r] = Mirror
    BY ReplicaInv
  <1>4. display' = IF o \in Mirror /\ ~ Registered(observers[r], o)
                   THEN [display EXCEPT ![r][o] = Show(data[r])] ELSE display
    BY DEF addOperationObserver
  <1>5. /\ display'[r] = f /\ DOMAIN display' = Replica
        /\ \A q \in Replica : q # r => display'[q] = display[q]
    BY <1>1, <1>4
  <1>6. /\ n = AddObserver(observers[r], o) /\ DOMAIN f = Mirror
        /\ \A x \in Mirror : x # o => f[x] = display[r][x]
        /\ o \in Mirror /\ ~ Registered(observers[r], o) => f[o] = Show(data[r])
        /\ o \in Mirror /\ Registered(observers[r], o) => f[o] = display[r][o]
    BY <1>3
  <1> HIDE DEF n, f
  <1>7. ObserversOK(n) /\ MirrorsOK(n, <<>>, f, data[r])
    BY <1>2, <1>6, AddedMirrors
  <1>8. /\ observers'[r] = n /\ calls'[r] = <<>>
        /\ \A q \in Replica : q # r => observers'[q] = observers[q] /\ calls'[q] = calls[q]
        /\ DOMAIN observers' = Replica /\ DOMAIN calls' = Replica
    BY <1>1
  <1>9. /\ ObserversOK(observers'[r])
        /\ CallsOK(calls'[r], observers'[r], delivered[r])
        /\ DOMAIN display'[r] = Mirror
        /\ MirrorsOK(observers'[r], calls'[r], display'[r], data[r])
    BY <1>5, <1>6, <1>7, <1>8, NoMirrors
  <1> QED BY <1>1, <1>5, <1>8, <1>9, LocalCollab

LEMMA ClearCollab ==
    ASSUME CollabInv, NEW r \in Replica, clearOperationObservers(r)
    PROVE  CollabInv'
  <1>1. /\ calls[r] = <<>>
        /\ observers' = [observers EXCEPT ![r] = <<>>] /\ DOMAIN observers = Replica
        /\ display' = [display EXCEPT ![r] = [o \in Mirror |-> NewDisplay]]
        /\ DOMAIN display = Replica /\ DOMAIN calls = Replica
        /\ UNCHANGED <<issued, delivered, context, data, calls>>
    BY DEF clearOperationObservers, Idle, CollabInv, StateOK, LoopsOK, DisplaysOK
  <1>2. /\ observers'[r] = <<>> /\ calls'[r] = <<>> /\ display'[r] = [o \in Mirror |-> NewDisplay]
        /\ \A q \in Replica : q # r =>
              observers'[q] = observers[q] /\ calls'[q] = calls[q] /\ display'[q] = display[q]
        /\ DOMAIN observers' = Replica /\ DOMAIN calls' = Replica /\ DOMAIN display' = Replica
    BY <1>1
  <1>3. /\ ObserversOK(observers'[r])
        /\ CallsOK(calls'[r], observers'[r], delivered[r])
        /\ DOMAIN display'[r] = Mirror
        /\ MirrorsOK(observers'[r], calls'[r], display'[r], data[r])
    BY <1>2, NoMirrors
  <1> QED BY <1>1, <1>2, <1>3, LocalCollab

LEMMA StutterCollab ==
    ASSUME CollabInv,
           UNCHANGED <<issued, delivered, context, data, observers, calls, display>>
    PROVE  CollabInv'
  BY DEF CollabInv, StateOK, NetOK, DataOK, LoopsOK, DisplaysOK

LEMMA NextCollab == CollabInv /\ [Next]_vars => CollabInv'
  <1> SUFFICES ASSUME CollabInv, [Next]_vars
               PROVE  CollabInv'
    OBVIOUS
  <1>1. ASSUME NEW r \in Replica, NEW op \in MapOp, localOperation(r, op)
        PROVE  CollabInv'
    BY <1>1, ApplyCollab DEF localOperation, Call
  <1>2. ASSUME NEW r \in Replica, NEW op \in MapOp, applyExternOperation(r, op)
        PROVE  CollabInv'
    BY <1>2, ApplyCollab DEF applyExternOperation, Call
  <1>3. ASSUME NEW r \in Replica, onOperation(r)
        PROVE  CollabInv'
    BY <1>3, ReturnCollab
  <1>4. ASSUME NEW r \in Replica, NEW o \in Observer, addOperationObserver(r, o)
        PROVE  CollabInv'
    BY <1>4, AddCollab
  <1>5. ASSUME NEW r \in Replica, clearOperationObservers(r)
        PROVE  CollabInv'
    BY <1>5, ClearCollab
  <1>6. ASSUME NEW r \in Replica, NEW b, SetBroadcaster(r, b)
        PROVE  CollabInv'
    BY <1>6, StutterCollab DEF SetBroadcaster
  <1>7. CASE UNCHANGED vars
    BY <1>7, StutterCollab DEF vars, collabVars
  <1> QED BY <1>1, <1>2, <1>3, <1>4, <1>5, <1>6, <1>7
          DEF Next, setOperationBroadcaster, removeOperationBroadcaster

\* The inductive invariant: the notifications around the innermost wait for a reactor, and
\* a mirror before every reactor is one Shown away from the data until it is told.
THEOREM CollabInvHolds == Spec => []CollabInv
  BY InitCollab, NextCollab, PTL DEF Spec

\* A mirror registered before every reactor shows the data itself once it is told, inside
\* the callbacks of the observers after it too, however deep they nest (CollabData.h:151).
THEOREM DisplayIsDataCorrect == Spec => []DisplayIsData
  <1>1. ASSUME CollabInv, NEW r \in Replica, NEW o \in Mirror, NEW i \in DOMAIN observers[r],
               WatchesFirst(r, o, i), Told(r, i)
        PROVE  display[r][o] = Show(data[r])
    <2>1. /\ ObserversOK(observers[r]) /\ CallsOK(calls[r], observers[r], delivered[r])
          /\ MirrorsOK(observers[r], calls[r], display[r], data[r])
      BY <1>1, ReplicaInv
    <2>2. DOMAIN observers[r] = 1 .. Len(observers[r]) /\ DOMAIN calls[r] = 1 .. Len(calls[r])
      BY <2>1 DEF ObserversOK, CallsOK
    <2>3. First(observers[r], o, i) /\ Past(calls[r], i)
      BY <1>1, <2>2 DEF First, Past, WatchesFirst, Told
    <2> QED BY <1>1, <2>1, <2>2, <2>3 DEF MirrorsOK
  <1>2. CollabInv => DisplayIsData
    BY <1>1 DEF DisplayIsData
  <1> QED BY <1>2, CollabInvHolds, PTL

-------------------------------------------------------------------------------
(***************************************************************************)
(* Types.  A mirror told an add takes the content with crdt_at, which only *)
(* finds keys that were entered: those of all operations told.             *)
(***************************************************************************)
DisplayOK(d) == d = [content |-> d.content, size |-> d.size] /\ IsDisplay(d)

Entered(D, m) == \A op \in D : op.kind # "clear" => op.key \in DOMAIN m.keys.map

WireOK == wire \subseteq issued /\ broadcaster \in [Replica -> BOOLEAN]

ShowsOK ==
    \A r \in Replica : /\ Entered(delivered[r], data[r])
                       /\ \A o \in Mirror : DisplayOK(display[r][o])

TypeInv == CollabInv /\ WireOK /\ ShowsOK

LEMMA ShowOK ==
    ASSUME NEW m, MapOK(m)
    PROVE  DisplayOK(Show(m))
  <1>1. \A k \in Living(m) : k \in Key /\ Content(m, k).reg \in Value \cup {Default}
    BY LivingContent, ContentType DEF RegisterType
  <1>2. m.keys.sizeAlive \in Int
    BY LivingContent
  <1>3. /\ Show(m) = [content |-> Show(m).content, size |-> Show(m).size]
        /\ Show(m).content = [k \in Living(m) |-> Content(m, k).reg]
        /\ Show(m).size = m.keys.sizeAlive
    BY ShowFields
  <1> QED BY <1>1, <1>2, <1>3 DEF DisplayOK, IsDisplay

LEMMA ShownOK ==
    ASSUME NEW d, DisplayOK(d), NEW m, MapOK(m), NEW op \in MapOp, Entered({op}, m)
    PROVE  DisplayOK(Shown(d, m, op))
  <1> DEFINE e == Shown(d, m, op)
  <1>1. /\ d = [content |-> d.content, size |-> d.size]
        /\ DOMAIN d.content \subseteq Key
        /\ \A k \in DOMAIN d.content : d.content[k] \in Value \cup {Default}
        /\ d.size \in Int
    BY DEF DisplayOK, IsDisplay
  <1>2. ASSUME op.kind = "add"
        PROVE  DisplayOK(e)
    <2>1. op.key \in Key /\ op.key \in DOMAIN m.keys.map
      BY <1>2, OpType DEF Entered
    <2>2. CrdtAt(m, op.key).reg \in Value \cup {Default}
      BY <2>1, ContentType DEF CrdtAt, Content, RegisterType
    <2>3. e = [content |-> [k \in DOMAIN d.content \cup {op.key} |->
                               IF k = op.key THEN CrdtAt(m, k).reg ELSE d.content[k]],
               size |-> d.size + 1]
      BY <1>2 DEF Shown
    <2> HIDE DEF e
    <2> QED BY <1>1, <2>1, <2>2, <2>3 DEF DisplayOK, IsDisplay
  <1>3. ASSUME op.kind = "remove"
        PROVE  DisplayOK(e)
    <2>1. e = [content |-> [k \in DOMAIN d.content \ {op.key} |-> d.content[k]],
               size |-> d.size - 1]
      BY <1>3 DEF Shown
    <2> HIDE DEF e
    <2> QED BY <1>1, <2>1 DEF DisplayOK, IsDisplay
  <1>4. ASSUME op.kind = "update"
        PROVE  DisplayOK(e)
    <2> DEFINE g == [k \in DOMAIN d.content |-> IF k = op.key THEN op.value ELSE d.content[k]]
    <2>1. e = [d EXCEPT !.content = g]
      BY <1>4 DEF Shown
    <2>2. op.value \in Value
      BY <1>4, OpType
    <2>3. DOMAIN g \subseteq Key /\ \A k \in DOMAIN g : g[k] \in Value \cup {Default}
      BY <1>1, <2>2
    <2> HIDE DEF e, g
    <2>4. e = [content |-> g, size |-> d.size]
      BY <1>1, <2>1
    <2> QED BY <1>1, <2>3, <2>4 DEF DisplayOK, IsDisplay
  <1>5. ASSUME op.kind = "clear"
        PROVE  DisplayOK(e)
    BY <1>5, ShowOK DEF Shown
  <1> QED BY <1>2, <1>3, <1>4, <1>5, OpType

LEMMA AppliedEntered ==
    ASSUME NEW m, MapOK(m), NEW op \in MapOp, NEW D, Entered(D, m)
    PROVE  Entered(D \cup {op}, Applied(m, op))
  <1> DEFINE n == Applied(m, op)
  <1>1. WellFormed(m.keys) /\ op.stamp \in Nat
    BY KeysWellFormed, OpType
  <1>2. n = Applied(m, op)
    OBVIOUS
  <1> HIDE DEF n
  <1>3. /\ DOMAIN m.keys.map \subseteq DOMAIN n.keys.map
        /\ op.kind # "clear" => op.key \in DOMAIN n.keys.map
    <2>1. CASE op.kind = "add"
      BY <1>1, <1>2, <2>1, AppliedKeys, AddGrows
    <2>2. CASE op.kind = "remove"
      BY <1>1, <1>2, <2>2, AppliedKeys, RemoveGrows
    <2>3. CASE op.kind = "update"
      BY <1>1, <1>2, <2>3, AppliedKeys, RemoveGrows
    <2>4. CASE op.kind = "clear"
      BY <1>1, <1>2, <2>4, AppliedKeys, ClearGrows
    <2> QED BY <2>1, <2>2, <2>3, <2>4, OpType
  <1> QED BY <1>2, <1>3 DEF Entered

LEMMA InitTypes == Init => TypeInv
  <1> SUFFICES ASSUME Init
               PROVE  TypeInv
    OBVIOUS
  <1>1. DisplayOK(NewDisplay)
    BY NewMapOK, ShowOK DEF NewDisplay
  <1> QED BY <1>1, InitCollab DEF Init, NetInit, TypeInv, WireOK, ShowsOK, Entered

LEMMA ApplyTypes ==
    ASSUME CollabInv, ShowsOK, NEW r \in Replica, NEW op \in MapOp, Call(r, op), Apply(r, op)
    PROVE  ShowsOK'
  <1>1. delivered' = [delivered EXCEPT ![r] = delivered[r] \cup {op}] /\ DOMAIN delivered = Replica
    BY DEF Call, Originate, Receive, CollabInv, StateOK, NetOK
  <1>2. /\ data' = [data EXCEPT ![r] = Applied(data[r], op)] /\ DOMAIN data = Replica
        /\ UNCHANGED display
    BY DEF Apply, CollabInv, StateOK, DataOK
  <1>3. ASSUME NEW q \in Replica
        PROVE  Entered(delivered'[q], data'[q])
    <2>1. CASE q = r
      BY <1>1, <1>2, <2>1, AppliedEntered, ReplicaInv DEF ShowsOK
    <2>2. CASE q # r
      BY <1>1, <1>2, <2>2 DEF ShowsOK
    <2> QED BY <2>1, <2>2
  <1> QED BY <1>2, <1>3 DEF ShowsOK

LEMMA NextTypes == TypeInv /\ [Next]_vars => TypeInv'
  <1> SUFFICES ASSUME TypeInv, [Next]_vars
               PROVE  TypeInv'
    OBVIOUS
  <1>1. CollabInv /\ CollabInv'
    BY NextCollab DEF TypeInv
  <1>2. WireOK /\ ShowsOK /\ DOMAIN display = Replica
    BY DEF TypeInv, CollabInv, DisplaysOK
  <1>3. \A r \in Replica : MapOK(data[r]) /\ DOMAIN display[r] = Mirror
    BY <1>1, ReplicaInv
  <1>4. ASSUME NEW r \in Replica, NEW op \in MapOp, localOperation(r, op)
        PROVE  WireOK' /\ ShowsOK'
    <2>1. ShowsOK'
      BY <1>1, <1>2, <1>4, ApplyTypes DEF localOperation, Call
    <2>2. WireOK'
      BY <1>2, <1>4 DEF localOperation, Originate, Apply, WireOK
    <2> QED BY <2>1, <2>2
  <1>5. ASSUME NEW r \in Replica, NEW op \in MapOp, applyExternOperation(r, op)
        PROVE  WireOK' /\ ShowsOK'
    <2>1. ShowsOK'
      BY <1>1, <1>2, <1>5, ApplyTypes DEF applyExternOperation, Call
    <2>2. WireOK'
      BY <1>2, <1>5 DEF applyExternOperation, Receive, Apply, WireOK
    <2> QED BY <2>1, <2>2
  <1>6. ASSUME NEW r \in Replica, onOperation(r)
        PROVE  WireOK' /\ ShowsOK'
    <2> DEFINE op == Innermost(calls[r]).op
    <2>1. op \in delivered[r] /\ op \in MapOp
      <3>1. CallsOK(calls[r], observers[r], delivered[r]) /\ delivered[r] \subseteq MapOp
        BY <1>1, ReplicaInv DEF CollabInv, StateOK, NetOK
      <3>2. calls[r] # <<>>
        BY <1>6 DEF onOperation, Idle
      <3>3. Len(calls[r]) \in 1 .. Len(calls[r])
        BY <3>1, <3>2, EmptySeq DEF CallsOK
      <3> QED BY <3>1, <3>3 DEF CallsOK, Innermost
    <2>2. Entered({op}, data[r])
      BY <1>2, <2>1 DEF ShowsOK, Entered
    <2>3. /\ UNCHANGED <<issued, delivered, data, broadcaster, wire>>
          /\ display' = [display EXCEPT ![r] = [o \in Mirror |->
                IF o = Called(r) THEN Shown(display[r][o], data[r], op) ELSE display[r][o]]]
      BY <1>6 DEF onOperation
    <2> HIDE DEF op
    <2>4. ASSUME NEW o \in Mirror
          PROVE  DisplayOK(display'[r][o])
      <3>1. DisplayOK(display[r][o])
        BY <1>2 DEF ShowsOK
      <3>2. DisplayOK(Shown(display[r][o], data[r], op))
        BY <1>3, <2>1, <2>2, <3>1, ShownOK
      <3> QED BY <1>2, <2>3, <3>1, <3>2
    <2>5. \A q \in Replica : q # r => display'[q] = display[q]
      BY <1>2, <2>3
    <2>6. ShowsOK'
      BY <1>2, <2>3, <2>4, <2>5 DEF ShowsOK
    <2> QED BY <1>2, <2>3, <2>6 DEF WireOK
  <1>7. ASSUME NEW r \in Replica, NEW o \in Observer, addOperationObserver(r, o)
        PROVE  WireOK' /\ ShowsOK'
    <2>1. /\ UNCHANGED <<issued, delivered, data, broadcaster, wire>>
          /\ display' = IF o \in Mirror /\ ~ Registered(observers[r], o)
                        THEN [display EXCEPT ![r][o] = Show(data[r])] ELSE display
      BY <1>7 DEF addOperationObserver
    <2>2. DisplayOK(Show(data[r]))
      BY <1>3, ShowOK
    <2>3. \A q \in Replica : \A x \in Mirror :
             display'[q][x] = display[q][x] \/ display'[q][x] = Show(data[r])
      BY <1>2, <1>3, <2>1
    <2>4. ShowsOK'
      BY <1>2, <2>1, <2>2, <2>3 DEF ShowsOK
    <2> QED BY <1>2, <2>1, <2>4 DEF WireOK
  <1>8. ASSUME NEW r \in Replica, clearOperationObservers(r)
        PROVE  WireOK' /\ ShowsOK'
    <2>1. /\ UNCHANGED <<issued, delivered, data, broadcaster, wire>>
          /\ display' = [display EXCEPT ![r] = [o \in Mirror |-> NewDisplay]]
      BY <1>8 DEF clearOperationObservers
    <2>2. DisplayOK(NewDisplay)
      BY NewMapOK, ShowOK DEF NewDisplay
    <2>3. \A q \in Replica : \A x \in Mirror :
             display'[q][x] = display[q][x] \/ display'[q][x] = NewDisplay
      BY <1>2, <2>1
    <2>4. ShowsOK'
      BY <1>2, <2>1, <2>2, <2>3 DEF ShowsOK
    <2> QED BY <1>2, <2>1, <2>4 DEF WireOK
  <1>9. ASSUME NEW r \in Replica, NEW b \in BOOLEAN, SetBroadcaster(r, b)
        PROVE  WireOK' /\ ShowsOK'
    BY <1>2, <1>9 DEF SetBroadcaster, WireOK, ShowsOK
  <1>10. ASSUME UNCHANGED vars
         PROVE  WireOK' /\ ShowsOK'
    BY <1>2, <1>10 DEF vars, collabVars, WireOK, ShowsOK
  <1>11. ASSUME NEW r \in Replica, setOperationBroadcaster(r) \/ removeOperationBroadcaster(r)
         PROVE  WireOK' /\ ShowsOK'
    BY <1>9, <1>11 DEF setOperationBroadcaster, removeOperationBroadcaster
  <1>12. WireOK' /\ ShowsOK'
    BY <1>4, <1>5, <1>6, <1>7, <1>8, <1>10, <1>11 DEF Next
  <1> QED BY <1>1, <1>12 DEF TypeInv

\* Types, for any depth of nesting: no observer is registered twice, every loop under way is
\* at an observer, and a mirror never asks crdt_at for a key that was not entered.
THEOREM CollabTypeCorrect == Spec => []TypeOK
  <1>1. TypeInv => TypeOK
    <2> SUFFICES ASSUME TypeInv
                 PROVE  TypeOK
      OBVIOUS
    <2>1. issued \subseteq MapOp /\ wire \subseteq issued /\ broadcaster \in [Replica -> BOOLEAN]
      BY DEF TypeInv, WireOK, CollabInv, StateOK, NetOK
    <2>2. ASSUME NEW r \in Replica
          PROVE  /\ observers[r] \in Seq(Observer)
                 /\ \A i, j \in DOMAIN observers[r] : observers[r][i] = observers[r][j] => i = j
                 /\ \A i \in DOMAIN calls[r] :
                       calls[r][i].op \in delivered[r] /\ calls[r][i].next \in DOMAIN observers[r]
                 /\ \A o \in Mirror : IsDisplay(display[r][o])
      <3>1. /\ ObserversOK(observers[r])
            /\ CallsOK(calls[r], observers[r], delivered[r])
        BY ReplicaInv DEF TypeInv
      <3>2. DOMAIN observers[r] = 1 .. Len(observers[r]) /\ DOMAIN calls[r] = 1 .. Len(calls[r])
        BY <3>1 DEF ObserversOK, CallsOK
      <3>3. \A i \in DOMAIN calls[r] :
               calls[r][i].op \in delivered[r] /\ calls[r][i].next \in DOMAIN observers[r]
        BY <3>1, <3>2 DEF CallsOK
      <3>4. \A o \in Mirror : IsDisplay(display[r][o])
        BY DEF TypeInv, ShowsOK, DisplayOK
      <3> QED BY <3>1, <3>3, <3>4 DEF ObserversOK
    <2> QED BY <2>1, <2>2 DEF TypeOK
  <1> QED BY <1>1, InitTypes, NextTypes, PTL DEF Spec

-------------------------------------------------------------------------------
(***************************************************************************)
(* The data is a replicated map, so what LWWMapProofs proves of the map    *)
(* holds of the data.  Map is that module read with the data in place of   *)
(* the map; its operators are copies of those this module works with.      *)
(***************************************************************************)
Map == INSTANCE LWWMapProofs WITH map <- data

\* The methods of the instance are those of the data.
LEMMA SameMethods ==
    ASSUME NEW m, NEW k, NEW v, NEW t
    PROVE  /\ Map!NewMap = NewMap
           /\ Map!AddKey(m, k, t, Map!NewRegister) = AddKey(m, k, t, NewRegister)
           /\ Map!RemoveKey(m, k, t, Map!NewRegister) = RemoveKey(m, k, t, NewRegister)
           /\ Map!ClearKeys(m, t) = ClearKeys(m, t)
           /\ Map!UpdateValue(m, k, v, t) = UpdateValue(m, k, v, t)
  <1>1. Map!NewMap = NewMap
    BY DEF NewMap, NewSet, MapState, SetState, Added,
           Map!NewMap, Map!NewSet, Map!MapState, Map!SetState, Map!Added
  <1>2. Map!NewRegister = NewRegister
    BY DEF NewRegister, Register, Map!NewRegister, Map!Register
  <1>3. Map!Add(m.keys, k, t) = Add(m.keys, k, t)
    BY DEF Add, SetState, Put, Added, Removed, Newer,
           Map!Add, Map!SetState, Map!Put, Map!Added, Map!Removed, Map!Newer
  <1>4. ASSUME NEW u
        PROVE  Map!Remove(m.keys, k, u) = Remove(m.keys, k, u)
    BY DEF Remove, SetState, Put, Removed, Newer,
           Map!Remove, Map!SetState, Map!Put, Map!Removed, Map!Newer
  <1>5. Map!Clear(m.keys, t) = Clear(m.keys, t)
    <2>1. Map!Alive(m.keys) = Alive(m.keys)
      BY DEF Alive, Find, Map!Alive, Map!Find
    <2>2. \A x : Map!Newer(m.keys, x, t) = Newer(m.keys, x, t)
      BY DEF Newer, Map!Newer
    <2>3. \A x, y, z : Map!SetState(x, y, z) = SetState(x, y, z)
      BY DEF SetState, Map!SetState
    <2>4. Map!Removed(t) = Removed(t)
      BY DEF Removed, Map!Removed
    <2>5. {x \in Alive(m.keys) : Map!Newer(m.keys, x, t)} = {x \in Alive(m.keys) : Newer(m.keys, x, t)}
      BY <2>2
    <2>6. [x \in DOMAIN m.keys.map |-> IF Map!Newer(m.keys, x, t) THEN Removed(t) ELSE m.keys.map[x]]
            = [x \in DOMAIN m.keys.map |-> IF Newer(m.keys, x, t) THEN Removed(t) ELSE m.keys.map[x]]
      BY <2>2
    <2>7. ASSUME NEW S
          PROVE  Map!Cardinality(S) = Cardinality(S)
      BY DEF Cardinality, Map!Cardinality
    <2> QED BY <2>1, <2>3, <2>4, <2>5, <2>6, <2>7 DEF Clear, Map!Clear
  <1>6. \A keys, d : Map!WithKeys(m, keys, d) = WithKeys(m, keys, d)
    BY DEF WithKeys, MapState, Map!WithKeys, Map!MapState
  <1>7. /\ Map!AddKey(m, k, t, Map!NewRegister) = AddKey(m, k, t, NewRegister)
        /\ \A u : Map!RemoveKey(m, k, u, Map!NewRegister) = RemoveKey(m, k, u, NewRegister)
        /\ Map!ClearKeys(m, t) = ClearKeys(m, t)
    BY <1>2, <1>3, <1>4, <1>5, <1>6 DEF AddKey, RemoveKey, ClearKeys, MapState,
                            Map!AddKey, Map!RemoveKey, Map!ClearKeys, Map!MapState
  <1>8. \A x : Map!Update(x, v, t) = Update(x, v, t)
    BY DEF Update, Register, Map!Update, Map!Register
  <1>9. Map!UpdateValue(m, k, v, t) = UpdateValue(m, k, v, t)
    BY <1>7, <1>8 DEF UpdateValue, SetValue, CrdtAt, Map!UpdateValue, Map!SetValue, Map!CrdtAt
  <1> QED BY <1>1, <1>7, <1>9

\* An operation on the data, local or extern, is a step of the replicated map.
LEMMA AppliesOnMap ==
    ASSUME NEW r \in Replica, NEW op \in MapOp, Call(r, op),
           data' = [data EXCEPT ![r] = Applied(data[r], op)]
    PROVE  Map!Next
  <1>1. op \in Map!MapOp /\ Map!Call(r, op)
    BY DEF MapOp, Op, KeyOp, ClearOp, UpdateOp, Call, Originate, Receive,
           Map!MapOp, Map!Op, Map!KeyOp, Map!ClearOp, Map!UpdateOp,
           Map!Call, Map!Originate, Map!Receive
  <1>2. CASE op.kind = "add"
    <2>1. data' = [data EXCEPT ![r] = Map!AddKey(data[r], op.key, op.stamp, Map!NewRegister)]
      BY <1>2, SameMethods DEF Applied
    <2>2. Map!add(r, op)
      BY <1>1, <1>2, <2>1 DEF Map!add
    <2> QED BY <1>1, <2>2 DEF Map!Next, Map!Step
  <1>3. CASE op.kind = "remove"
    <2>1. data' = [data EXCEPT ![r] = Map!RemoveKey(data[r], op.key, op.stamp, Map!NewRegister)]
      BY <1>3, SameMethods DEF Applied
    <2>2. Map!remove(r, op)
      BY <1>1, <1>3, <2>1 DEF Map!remove
    <2> QED BY <1>1, <2>2 DEF Map!Next, Map!Step
  <1>4. CASE op.kind = "clear"
    <2>1. data' = [data EXCEPT ![r] = Map!ClearKeys(data[r], op.stamp)]
      BY <1>4, SameMethods DEF Applied
    <2>2. Map!clear(r, op)
      BY <1>1, <1>4, <2>1 DEF Map!clear
    <2> QED BY <1>1, <2>2 DEF Map!Next, Map!Step
  <1>5. CASE op.kind = "update"
    <2>1. data' = [data EXCEPT ![r] = Map!UpdateValue(data[r], op.key, op.value, op.stamp)]
      BY <1>5, SameMethods DEF Applied
    <2>2. Map!update(r, op)
      BY <1>1, <1>5, <2>1 DEF Map!update
    <2> QED BY <1>1, <2>2 DEF Map!Next, Map!Step
  <1> QED BY <1>2, <1>3, <1>4, <1>5, OpType

\* Every step of a CollabData is a step of the replicated map or leaves the data alone.
LEMMA DataIsMap == Spec => Map!Spec
  <1>1. Init => Map!Init
    BY SameMethods DEF Init, NetInit, Map!Init, Map!NetInit
  <1>2. ASSUME [Next]_vars
        PROVE  [Map!Next]_(Map!vars)
    <2>1. ASSUME NEW r \in Replica, NEW op \in MapOp,
                 localOperation(r, op) \/ applyExternOperation(r, op)
          PROVE  Map!Next
      BY <2>1, AppliesOnMap DEF localOperation, applyExternOperation, Apply, Call
    <2>2. CASE UNCHANGED <<issued, delivered, context, data>>
      BY <2>2 DEF Map!vars
    <2> QED
      BY <1>2, <2>1, <2>2
      DEF Next, vars, collabVars, onOperation, addOperationObserver, clearOperationObservers,
          setOperationBroadcaster, removeOperationBroadcaster, SetBroadcaster
  <1> QED BY <1>1, <1>2, PTL DEF Spec, Map!Spec

\* Mirrors of two replicas that applied the same operations, no clear among them, show the
\* same: each shows its data (DisplayIsDataCorrect), and the data, being a replicated map,
\* converges (MapConvergenceCorrect).
THEOREM DisplaysAgreeCorrect == Spec => []DisplaysAgree
  <1>1. Map!Convergence /\ DisplayIsData => DisplaysAgree
    <2> SUFFICES ASSUME Map!Convergence, DisplayIsData,
                        NEW r1 \in Replica, NEW r2 \in Replica, NEW o \in Mirror,
                        NEW i \in DOMAIN observers[r1], NEW j \in DOMAIN observers[r2],
                        delivered[r1] = delivered[r2],
                        \A op \in delivered[r1] : op.kind # "clear",
                        WatchesFirst(r1, o, i), Told(r1, i),
                        WatchesFirst(r2, o, j), Told(r2, j)
                 PROVE  display[r1][o] = display[r2][o]
      BY DEF DisplaysAgree
    <2>1. data[r1] = data[r2]
      BY DEF Map!Convergence, Map!NoClear
    <2>2. display[r1][o] = Show(data[r1]) /\ display[r2][o] = Show(data[r2])
      BY DEF DisplayIsData
    <2> QED BY <2>1, <2>2
  <1>2. Spec => []Map!Convergence
    <2>1. Map!Spec => []Map!Convergence
      BY StampAssumption, CausalAssumption, Map!MapConvergenceCorrect
    <2> QED BY <2>1, DataIsMap, PTL
  <1> QED BY <1>1, <1>2, DisplayIsDataCorrect, PTL
===============================================================================
