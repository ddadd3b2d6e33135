---------------------------- MODULE LWWMapIterator ----------------------------
(***************************************************************************)
(* The iterator and const_iterator of LWWMap.h.  An unordered_map holds    *)
(* its elements in some bucket order: here a sequence, order, of all the   *)
(* keys of the map.  A position is an index of it, End the one after.      *)
(***************************************************************************)
EXTENDS LWWMap, Sequences

End(order) == Len(order) + 1

IsLiving(m, order, i) == i < End(order) => ~ m.keys.map[order[i]].isRemoved

\* Slip of the constructor and of operator++: one removed element is skipped, not all.
SkipOne(m, order, i) == IF IsLiving(m, order, i) THEN i ELSE i + 1

\* The loop of the constructor and of operator++: up to a living element or the end.
Skip(m, order, i) ==
    CHOOSE j \in i .. End(order) :
        /\ IsLiving(m, order, j)
        /\ \A h \in i .. j - 1 : ~ IsLiving(m, order, h)

Begin(m, order) == Skip(m, order, 1)
Advance(m, order, i) == Skip(m, order, i + 1)

\* for (const auto& elt : map): the keys visited, in order.
Walk(m, order) ==
    LET From[i \in 1 .. End(order)] ==
            IF i = End(order) THEN <<>> ELSE <<order[i]>> \o From[Advance(m, order, i)]
    IN  From[Begin(m, order)]

\* The orders an unordered_map of these keys may have.
Orders(m) ==
    LET n == Cardinality(CrdtKeys(m))
    IN  {o \in [1 .. n -> CrdtKeys(m)] : \A i, j \in 1 .. n : o[i] = o[j] => i = j}
===============================================================================
