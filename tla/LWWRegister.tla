----------------------------- MODULE LWWRegister -----------------------------
(***************************************************************************)
(* The container LWWRegister<T, U> of include/collabserver/datatypes/      *)
(* CmRDT/LWWRegister.h: a value and the timestamp of its last update.      *)
(***************************************************************************)
EXTENDS Integers

Register(reg, timestamp) == [reg |-> reg, timestamp |-> timestamp]

\* _reg has no initializer: a built-in T starts with whatever was in memory.
NewRegisters(T) == {Register(v, 0) : v \in T}

\* Slips of update(): the stamp is not compared; value and stamp are swapped.
UpdateUnchecked(x, value, stamp) == Register(value, stamp)
UpdateSwapped(x, value, stamp) ==
    IF stamp > x.timestamp THEN Register(stamp, value) ELSE x

\* update(): only a newer stamp changes the register.
Update(x, value, stamp) ==
    IF stamp > x.timestamp THEN Register(value, stamp) ELSE x

UpdateResult(x, value, stamp) == stamp > x.timestamp
===============================================================================
