------------------------------ MODULE CollabData ------------------------------
(***************************************************************************)
(* The base class of collabdata/CollabData.h: the operation observers of a *)
(* data, in order of registration, and the calls of its notification loop. *)
(* What an observer does in onOperation is the application's.              *)
(***************************************************************************)
EXTENDS Integers, Sequences

\* The search loop of addOperationObserver().
Registered(observers, o) == \E i \in DOMAIN observers : observers[i] = o

\* Slip of addOperationObserver(): registered twice.
AddObserverTwice(observers, o) == Append(observers, o)

\* addOperationObserver(): the result is ~ Registered(observers, o).
AddObserver(observers, o) ==
    IF Registered(observers, o) THEN observers ELSE Append(observers, o)

\* notifyOperationObservers(): one call of the loop, about to call observer number next.
\* Calls nest when an observer changes the data: the last of calls is the innermost.
Notification(op) == [op |-> op, next |-> 1]

Notify(calls, observers, op) ==
    IF observers = <<>> THEN calls ELSE Append(calls, Notification(op))

Innermost(calls) == calls[Len(calls)]

\* The observer being called returned: on to the next one, or out of the loop.
Returned(calls, observers) ==
    LET n == Len(calls)
    IN  IF calls[n].next = Len(observers) THEN SubSeq(calls, 1, n - 1)
        ELSE [calls EXCEPT ![n].next = @ + 1]
===============================================================================
