-------------------------- MODULE CollabDataReplicas --------------------------
(***************************************************************************)
(* A data built as the doc of CollabData.h asks: a map of registers whose  *)
(* operations are sent to the broadcaster when they are local, and told to *)
(* the observers when the user sees them.  Replicas exchange what their    *)
(* broadcasters sent.  The data, the mirrors and the reactors stand for    *)
(* application code; the base class, the map and the registers are the     *)
(* library's.                                                              *)
(*                                                                         *)
(* A mirror is a display kept up to date from the operations it is told.   *)
(* A reactor is an observer that changes the data from inside onOperation, *)
(* which starts a notification inside the one that called it.              *)
(***************************************************************************)
EXTENDS MapOfRegisters, CollabData

CONSTANTS
    Mirror, Reactor,  \* the observers of either kind, on each replica
    Plain             \* the replicas without reactors, and with a broadcaster for all their
                      \* operations: bounds the instance

VARIABLES
    data,         \* data[r]: the map of registers of replica r
    observers,    \* observers[r]: _operationObservers
    broadcaster,  \* broadcaster[r]: whether _broadcaster is set
    calls,        \* calls[r]: the notifications under way, the innermost last
    display,      \* display[r][o]: what mirror o shows of the data
    wire          \* the operations sent by some broadcaster

collabVars == <<data, observers, broadcaster, calls, display, wire>>
vars == <<issued, delivered, context, collabVars>>

Observer == Mirror \cup Reactor

\* A display of the whole map, filled by iterating over it.
Show(m) ==
    [content |-> [k \in Living(m) |-> At(m, k).reg], size |-> m.keys.sizeAlive]

NewDisplay == Show(NewMap)

\* onOperation() of a mirror that shows d, over the data m.  An element that comes back
\* has a content already; after a clear the mirror iterates, as LWWMap.h:296 says.
Shown(d, m, op) ==
    CASE op.kind = "add" ->
            [content |-> [k \in DOMAIN d.content \cup {op.key} |->
                             IF k = op.key THEN CrdtAt(m, k).reg ELSE d.content[k]],
             size |-> d.size + 1]
      [] op.kind = "remove" ->
            [content |-> [k \in DOMAIN d.content \ {op.key} |-> d.content[k]],
             size |-> d.size - 1]
      [] op.kind = "update" ->
            [d EXCEPT !.content = [k \in DOMAIN @ |-> IF k = op.key THEN op.value ELSE @[k]]]
      [] op.kind = "clear" -> Show(m)

\* What the methods of the map and the register return of op: whether the user sees it.
Visible(m, op) ==
    CASE op.kind = "add"    -> AddResult(m.keys, op.key, op.stamp)
      [] op.kind = "remove" -> RemoveResult(m.keys, op.key, op.stamp)
      [] op.kind = "update" -> /\ Find(m.keys, op.key)
                               /\ UpdateResult(At(m, op.key), op.value, op.stamp)
      [] op.kind = "clear"  -> ClearResult(m.keys, op.stamp)

-------------------------------------------------------------------------------

Init ==
    /\ NetInit
    /\ data = [r \in Replica |-> NewMap]
    /\ observers = [r \in Replica |-> <<>>]
    /\ broadcaster = [r \in Replica |-> FALSE]
    /\ calls = [r \in Replica |-> <<>>]
    /\ display = [r \in Replica |-> [o \in Mirror |-> NewDisplay]]
    /\ wire = {}

Idle(r) == calls[r] = <<>>
Called(r) == observers[r][Innermost(calls[r]).next]

\* Replica r applies op and tells its observers if the user sees it.
Apply(r, op) ==
    /\ data' = [data EXCEPT ![r] = Applied(@, op)]
    /\ calls' = [calls EXCEPT ![r] =
                    IF Visible(data[r], op) THEN Notify(@, observers[r], op) ELSE @]
    /\ UNCHANGED <<observers, broadcaster, display>>

\* Slip of localOperation: an operation the user does not see is not broadcast.
localOperationIfVisible(r, op) ==
    /\ ~ Idle(r) => Called(r) \in Reactor
    /\ r \in Plain => broadcaster[r]
    /\ Originate(r, op)
    /\ Apply(r, op)
    /\ wire' = IF broadcaster[r] /\ Visible(data[r], op) THEN wire \cup {op} ELSE wire

\* A method of the data, called by its user or by a reactor from inside onOperation:
\* the broadcaster is told every operation, visible or not.
localOperation(r, op) ==
    /\ ~ Idle(r) => Called(r) \in Reactor
    /\ r \in Plain => broadcaster[r]
    /\ Originate(r, op)
    /\ Apply(r, op)
    /\ wire' = IF broadcaster[r] THEN wire \cup {op} ELSE wire

\* The operation of another replica, never sent on.
applyExternOperation(r, op) ==
    /\ Idle(r)
    /\ op \in wire
    /\ Receive(r, op)
    /\ Apply(r, op)
    /\ UNCHANGED wire

\* The observer whose turn it is handles the operation and returns.
onOperation(r) ==
    /\ ~ Idle(r)
    /\ display' = [display EXCEPT ![r] = [o \in Mirror |->
                      IF o = Called(r) THEN Shown(@[o], data[r], Innermost(calls[r]).op)
                      ELSE @[o]]]
    /\ calls' = [calls EXCEPT ![r] = Returned(@, observers[r])]
    /\ UNCHANGED <<issued, delivered, context, data, observers, broadcaster, wire>>

\* A mirror that was not registered yet shows the whole map first.
addOperationObserver(r, o) ==
    /\ Idle(r)
    /\ r \in Plain => o \in Mirror
    /\ observers' = [observers EXCEPT ![r] = AddObserver(@, o)]
    /\ display' = IF o \in Mirror /\ ~ Registered(observers[r], o)
                  THEN [display EXCEPT ![r][o] = Show(data[r])] ELSE display
    /\ UNCHANGED <<issued, delivered, context, data, broadcaster, calls, wire>>

\* The mirrors are closed.
clearOperationObservers(r) ==
    /\ Idle(r)
    /\ observers' = [observers EXCEPT ![r] = <<>>]
    /\ display' = [display EXCEPT ![r] = [o \in Mirror |-> NewDisplay]]
    /\ UNCHANGED <<issued, delivered, context, data, broadcaster, calls, wire>>

SetBroadcaster(r, b) ==
    /\ Idle(r)
    /\ broadcaster' = [broadcaster EXCEPT ![r] = b]
    /\ UNCHANGED <<issued, delivered, context, data, observers, calls, display, wire>>

setOperationBroadcaster(r) == SetBroadcaster(r, TRUE)
removeOperationBroadcaster(r) == r \notin Plain /\ SetBroadcaster(r, FALSE)

Next ==
    \E r \in Replica :
        \/ \E op \in MapOp : localOperation(r, op) \/ applyExternOperation(r, op)
        \/ onOperation(r)
        \/ \E o \in Observer : addOperationObserver(r, o)
        \/ clearOperationObservers(r)
        \/ setOperationBroadcaster(r)
        \/ removeOperationBroadcaster(r)

Spec == Init /\ [][Next]_vars

\* The transport gives up on no operation it was sent, and observers return.
Delivery(r) == \E op \in wire \ delivered[r] : applyExternOperation(r, op)

FairSpec ==
    /\ Spec
    /\ \A r \in Replica : WF_vars(Delivery(r)) /\ WF_vars(onOperation(r))

-------------------------------------------------------------------------------
(* Properties. *)

IsDisplay(d) ==
    /\ DOMAIN d.content \subseteq Key
    /\ \A k \in DOMAIN d.content : d.content[k] \in Value \cup {Default}
    /\ d.size \in Int

\* Type correctness: no observer is registered twice (CollabData.h:139), and the index of
\* every loop under way is that of an observer, however deep the calls are nested.
TypeOK ==
    /\ issued \subseteq MapOp
    /\ wire \subseteq issued
    /\ broadcaster \in [Replica -> BOOLEAN]
    /\ \A r \in Replica :
          /\ observers[r] \in Seq(Observer)
          /\ \A i, j \in DOMAIN observers[r] : observers[r][i] = observers[r][j] => i = j
          /\ \A i \in DOMAIN calls[r] :
                calls[r][i].op \in delivered[r] /\ calls[r][i].next \in DOMAIN observers[r]
          /\ \A o \in Mirror : IsDisplay(display[r][o])

\* Mirror o is number i of replica r, before every reactor.
WatchesFirst(r, o, i) ==
    /\ i \in DOMAIN observers[r] /\ observers[r][i] = o
    /\ \A j \in 1 .. i : observers[r][j] \notin Reactor

\* No notification under way has still to reach observer number i.
Told(r, i) == \A n \in DOMAIN calls[r] : calls[r][n].next > i

\* A mirror told all the operations shows the data itself: its keys, their contents and
\* size().  It holds from inside the callbacks of the reactors registered after it too,
\* but not of a mirror registered after a reactor, which is told the inner operation
\* before the outer one.
DisplayIsData ==
    \A r \in Replica : \A o \in Mirror : \A i \in DOMAIN observers[r] :
        WatchesFirst(r, o, i) /\ Told(r, i) => display[r][o] = Show(data[r])

\* Displays on two replicas whose data went through the same operations, no clear among
\* them, show the same, though they were told other operations in another order.
DisplaysAgree ==
    \A r1, r2 \in Replica : \A o \in Mirror :
        \A i \in DOMAIN observers[r1] : \A j \in DOMAIN observers[r2] :
            /\ delivered[r1] = delivered[r2]
            /\ \A op \in delivered[r1] : op.kind # "clear"
            /\ WatchesFirst(r1, o, i) /\ Told(r1, i)
            /\ WatchesFirst(r2, o, j) /\ Told(r2, j)
            => display[r1][o] = display[r2][o]

\* "All replicates must apply the exact same set of operations" (CollabData.h:70): if the
\* broadcasters are there from the first operation on, and nobody clears the map, the
\* users of all replicas end up looking at the same display.
EventualDisplays ==
    [](issued # {} => \A r \in Replica : broadcaster[r])
        => <>[]((\A op \in issued : op.kind # "clear") =>
                  \A r1, r2 \in Replica : \A o \in Mirror :
                      (\E i, j \in 1 .. Cardinality(Observer) :
                          WatchesFirst(r1, o, i) /\ WatchesFirst(r2, o, j))
                      => display[r1][o] = display[r2][o])
===============================================================================
