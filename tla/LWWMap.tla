-------------------------------- MODULE LWWMap --------------------------------
(***************************************************************************)
(* The container LWWMap<Key, T, U> of include/collabserver/datatypes/      *)
(* CmRDT/LWWMap.h.  Its Element is the Metadata of a set together with a   *)
(* value: keys runs the algorithm of LWWSet, value holds the content of    *)
(* every key ever seen, removed ones too.                                  *)
(***************************************************************************)
EXTENDS LWWSet

MapState(keys, value) == [keys |-> keys, value |-> value]

NewMap == MapState(NewSet, [k \in {} |-> NewSet])

\* The map m after its keys became keys: a key seen for the first time gets a default
\* value, any other keeps the value it had, even across a remove.
WithKeys(m, keys, default) ==
    MapState(keys, [k \in DOMAIN keys.map |->
                       IF k \in DOMAIN m.value THEN m.value[k] ELSE default])

\* Slip of add(): an element that comes back gets a default value, as its doc says.
AddKeyFresh(m, key, stamp, default) ==
    LET n == WithKeys(m, Add(m.keys, key, stamp), default)
    IN  IF AddResult(m.keys, key, stamp)
        THEN MapState(n.keys, [n.value EXCEPT ![key] = default]) ELSE n

AddKey(m, key, stamp, default) == WithKeys(m, Add(m.keys, key, stamp), default)

RemoveKey(m, key, stamp, default) == WithKeys(m, Remove(m.keys, key, stamp), default)

ClearKeys(m, stamp) == MapState(Clear(m.keys, stamp), m.value)

-------------------------------------------------------------------------------
(* Lookup. *)

\* What begin() to end() and crdt_begin() to crdt_end() go through: the living keys and
\* all the keys ever seen.
Living(m) == Alive(m.keys)
CrdtKeys(m) == DOMAIN m.keys.map

\* find(), count(): living keys only.
FindKey(m, key) == Find(m.keys, key)

\* crdt_find(), crdt_count(): the entry of a key, whether removed or not.
CrdtFind(m, key) == key \in CrdtKeys(m)

\* at() finds living keys, crdt_at() removed ones too; both throw for any other key, and
\* are defined here where they return.
At(m, key) == [k \in Living(m) |-> m.value[k]][key]
CrdtAt(m, key) == m.value[key]

\* operator==, where equal holds the keys of both sides whose values are equal: equal sizes,
\* and each living key of either side is found in the other with an equal value.
SameMap(lhs, rhs, equal) ==
    /\ lhs.keys.sizeAlive = rhs.keys.sizeAlive
    /\ \A k \in Living(lhs) : FindKey(rhs, k) /\ k \in equal
    /\ \A k \in Living(rhs) : FindKey(lhs, k) /\ k \in equal

\* crdt_equal(): all elements, removed ones too; their values only by operator==.
CrdtEqualMap(m, other, equal) ==
    CrdtEqual(m.keys, other.keys) /\ CrdtKeys(m) \subseteq equal

\* A change of the value found by crdt_find or crdt_at: no timestamp is involved.
SetValue(m, key, v) == [m EXCEPT !.value = [m.value EXCEPT ![key] = v]]
===============================================================================
