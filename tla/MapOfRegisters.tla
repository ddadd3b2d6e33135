---------------------------- MODULE MapOfRegisters ----------------------------
(***************************************************************************)
(* The map of registers LWWMap.h recommends for contents that change ("you *)
(* may use a map of LWWRegister", LWWMap.h:63): the operations of its      *)
(* users and what each does to the map.                                    *)
(*                                                                         *)
(* How an update reaches its register is left to the user of LWWMap.  Here *)
(* it does as LWWGraph::remove_edge: a key not seen yet is entered as      *)
(* removed at timestamp 0, and the element is taken from crdt_find.        *)
(***************************************************************************)
EXTENDS SetOperations, LWWMapIterator, LWWRegister

CONSTANTS
    Value,   \* the contents users write in a register
    Default  \* the content of a new element: T{}

UpdateOp == [kind : {"update"}, key : Key, value : Value, stamp : Stamp]
MapOp == Op \cup UpdateOp

\* T{} for an Element: unlike a register of its own, its content is initialised.
NewRegister == Register(Default, 0)

UpdateValue(m, key, v, stamp) ==
    LET n == RemoveKey(m, key, 0, NewRegister)
    IN  SetValue(n, key, Update(CrdtAt(n, key), v, stamp))

\* The effect of op on the map m.
Applied(m, op) ==
    CASE op.kind = "add"    -> AddKey(m, op.key, op.stamp, NewRegister)
      [] op.kind = "remove" -> RemoveKey(m, op.key, op.stamp, NewRegister)
      [] op.kind = "update" -> UpdateValue(m, op.key, op.value, op.stamp)
      [] op.kind = "clear"  -> ClearKeys(m, op.stamp)

\* operator== of registers: the contents, not the timestamps.
SameRegister(lhs, rhs) == lhs.reg = rhs.reg
EqualRegisters(lhs, rhs) ==
    {k \in CrdtKeys(lhs) \cap CrdtKeys(rhs) : SameRegister(CrdtAt(lhs, k), CrdtAt(rhs, k))}

\* operator== and crdt_equal of a map of registers.
SameData(lhs, rhs) == SameMap(lhs, rhs, EqualRegisters(lhs, rhs))
CrdtEqualData(m, other) == CrdtEqualMap(m, other, EqualRegisters(m, other))
===============================================================================
