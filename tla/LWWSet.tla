-------------------------------- MODULE LWWSet --------------------------------
(***************************************************************************)
(* The container LWWSet<Key, U> of include/collabserver/datatypes/CmRDT/   *)
(* LWWSet.h: one replica's state and the effect and result of each method. *)
(* LWWMap runs the same algorithm on its elements and is built on this     *)
(* module.                                                                 *)
(*                                                                         *)
(* A set is a record: map is the unordered_map from a key to its Metadata, *)
(* a function whose domain holds the keys ever seen; sizeAlive counts the  *)
(* keys not marked as removed; lastClearTime is the latest clear applied.  *)
(***************************************************************************)
EXTENDS Integers, FiniteSets

Metadata == [timestamp : Nat, isRemoved : BOOLEAN]

Added(t) == [timestamp |-> t, isRemoved |-> FALSE]
Removed(t) == [timestamp |-> t, isRemoved |-> TRUE]

SetState(m, size, clearTime) ==
    [map |-> m, sizeAlive |-> size, lastClearTime |-> clearTime]

NewSet == SetState([k \in {} |-> Added(0)], 0, 0)

\* The map with key k bound to e.
Put(m, k, e) == [x \in DOMAIN m \cup {k} |-> IF x = k THEN e ELSE m[x]]

-------------------------------------------------------------------------------
(* Lookup. *)

\* find(): keys marked as removed are not found.
Find(s, key) == key \in DOMAIN s.map /\ ~ s.map[key].isRemoved

\* What the iterators walk, and what a user sees of the set.
Alive(s) == {k \in DOMAIN s.map : Find(s, k)}

\* operator==: equal sizes, and each side finds every key of the other.
SameSet(lhs, rhs) ==
    /\ lhs.sizeAlive = rhs.sizeAlive
    /\ \A k \in Alive(lhs) : Find(rhs, k)
    /\ \A k \in Alive(rhs) : Find(lhs, k)

\* crdt_equal(): the metadata of all keys, removed ones too; not the clear time.
CrdtEqual(s, other) == s.map = other.map

-------------------------------------------------------------------------------
(* Modifiers.  The Result operators are the returned booleans. *)

Newer(s, key, stamp) == stamp > s.map[key].timestamp

(* Slips: what a method becomes when one line of it goes missing or wrong.  The runs   *)
(* are checked to reject each of them; no specification uses them.                     *)

\* Slip of add(): every newer add counts, the key being alive already or not.
AddCountsTwice(s, key, stamp) ==
    IF key \in DOMAIN s.map => Newer(s, key, stamp)
    THEN SetState(Put(s.map, key, Added(stamp)), s.sizeAlive + 1, s.lastClearTime)
    ELSE s

\* Slip of add(): the stamp is not compared with the key's.
AddUnchecked(s, key, stamp) ==
    SetState(Put(s.map, key, Added(stamp)),
             IF Find(s, key) THEN s.sizeAlive ELSE s.sizeAlive + 1, s.lastClearTime)

\* Slip of add(): a key seen for the first time is not compared with the last clear.
AddIgnoresClear(s, key, stamp) ==
    IF key \in DOMAIN s.map => Newer(s, key, stamp) THEN AddUnchecked(s, key, stamp) ELSE s

\* Slip of add()'s result: true for every add that is applied.
AddAppliedResult(s, key, stamp) == key \in DOMAIN s.map => Newer(s, key, stamp)

\* Slip of remove(): the stamp is not compared with the key's.
RemoveUnchecked(s, key, stamp) ==
    SetState(Put(s.map, key, Removed(stamp)),
             IF Find(s, key) THEN s.sizeAlive - 1 ELSE s.sizeAlive, s.lastClearTime)

\* Slip of remove(): every remove counts, the key being removed already or not.
RemoveCountsTwice(s, key, stamp) ==
    IF key \in DOMAIN s.map => Newer(s, key, stamp)
    THEN SetState(Put(s.map, key, Removed(stamp)), s.sizeAlive - 1, s.lastClearTime)
    ELSE s

\* Slip of remove(): a key never seen is not inserted.
RemoveForgets(s, key, stamp) ==
    IF key \in DOMAIN s.map /\ Newer(s, key, stamp) THEN RemoveUnchecked(s, key, stamp) ELSE s

\* Slip of clear(): every key is marked, newer ones too.
ClearUnchecked(s, stamp) ==
    IF stamp > s.lastClearTime
    THEN SetState([k \in DOMAIN s.map |-> Removed(stamp)], 0, stamp) ELSE s

\* Slip of clear(): every newly marked key is counted as alive before.
ClearCountsRemoved(s, stamp) ==
    IF stamp > s.lastClearTime
    THEN SetState([k \in DOMAIN s.map |->
                      IF Newer(s, k, stamp) THEN Removed(stamp) ELSE s.map[k]],
                  s.sizeAlive - Cardinality({k \in DOMAIN s.map : Newer(s, k, stamp)}),
                  stamp)
    ELSE s

\* Slip of clear(): the time of the clear is not kept.
ClearForgetsTime(s, stamp) ==
    SetState([k \in DOMAIN s.map |->
                 IF Newer(s, k, stamp) THEN Removed(stamp) ELSE s.map[k]],
             s.sizeAlive - Cardinality({k \in Alive(s) : Newer(s, k, stamp)}),
             s.lastClearTime)

-------------------------------------------------------------------------------
(* The methods. *)

\* add(): a key seen for the first time is still measured against the last clear.
Add(s, key, stamp) ==
    IF key \in DOMAIN s.map
    THEN IF Newer(s, key, stamp)
         THEN SetState(Put(s.map, key, Added(stamp)),
                       IF s.map[key].isRemoved THEN s.sizeAlive + 1 ELSE s.sizeAlive,
                       s.lastClearTime)
         ELSE s
    ELSE IF stamp > s.lastClearTime
         THEN SetState(Put(s.map, key, Added(stamp)),
                       s.sizeAlive + 1, s.lastClearTime)
         ELSE SetState(Put(s.map, key, Removed(s.lastClearTime)),
                       s.sizeAlive, s.lastClearTime)

AddResult(s, key, stamp) ==
    IF key \in DOMAIN s.map
    THEN Newer(s, key, stamp) /\ s.map[key].isRemoved
    ELSE stamp > s.lastClearTime

\* remove(): a key seen for the first time is inserted as removed, at the stamp.
Remove(s, key, stamp) ==
    IF key \in DOMAIN s.map
    THEN IF Newer(s, key, stamp)
         THEN SetState(Put(s.map, key, Removed(stamp)),
                       IF s.map[key].isRemoved THEN s.sizeAlive ELSE s.sizeAlive - 1,
                       s.lastClearTime)
         ELSE s
    ELSE SetState(Put(s.map, key, Removed(stamp)), s.sizeAlive, s.lastClearTime)

RemoveResult(s, key, stamp) == Find(s, key) /\ Newer(s, key, stamp)

\* clear(): a newer clear marks every older key; the loop's order does not matter.
Clear(s, stamp) ==
    IF stamp > s.lastClearTime
    THEN SetState([k \in DOMAIN s.map |->
                      IF Newer(s, k, stamp) THEN Removed(stamp) ELSE s.map[k]],
                  s.sizeAlive - Cardinality({k \in Alive(s) : Newer(s, k, stamp)}),
                  stamp)
    ELSE s

ClearResult(s, stamp) == stamp > s.lastClearTime
===============================================================================
