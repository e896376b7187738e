------------------------------ MODULE Signals ------------------------------
(***************************************************************************)
(* libpurple/signals.c: the handlers of one signal, and its emission.      *)
(* Everything runs in one thread, but a handler that an emission calls may *)
(* connect and disconnect handlers, its own among them, emit the signal    *)
(* anew and unregister it: the emissions in progress are a stack.  What    *)
(* the loop of an emission keeps across a call is only the next node of    *)
(* the list; if that was freed, the behaviour is undefined, and ends here. *)
(*                                                                         *)
(* A definition that a comment calls a slip is a plausible mistake in the  *)
(* definition after it; nothing uses it.                                   *)
(***************************************************************************)
EXTENDS Integers, Sequences, SequencesExt

CONSTANTS
    Handles,        \* owners of handlers: plugins, protocols, windows
    Funcs,          \* the functions they connect
    Priorities,
    MaxIds,         \* a bound on the handlers ever connected
    MaxDepth        \* a bound on nested emissions

ASSUME SignalsAssumption == /\ Priorities \subseteq Int
                            /\ MaxIds \in Nat /\ MaxDepth \in Nat

NULL == 0
Ids  == 1..MaxIds

VARIABLE s

Handler == [id : Ids, handle : Handles, func : Funcs, priority : Priorities]

\* An emission: the handler it is calling, and l_next.
Emission == [
    running  : Ids,
    next     : Ids \cup {NULL},
    return_1 : BOOLEAN,         \* purple_signal_emit_return_1
    due      : SUBSET Ids,      \* history: those connected all the while
    called   : Seq(Handler) ]   \* history

State == [
    registered : BOOLEAN,
    handlers   : Seq(Handler),
    next_handler_id : 1..MaxIds + 1,
    stack      : Seq(Emission),
    dangling   : BOOLEAN,       \* freed memory was used
    reckless   : BOOLEAN ]      \* history: a handler disconnected another one,
                                \* or emitted or unregistered the signal

Init == s = [registered |-> TRUE, handlers |-> <<>>, next_handler_id |-> 1,
             stack |-> <<>>, dangling |-> FALSE, reckless |-> FALSE]

-----------------------------------------------------------------------------
(* The list of handlers.                                                   *)

IdsOf(handlers) == {h.id : h \in ToSet(handlers)}

\* The node with an id, for the ids in the list.
Position(handlers, id) == CHOOSE i \in DOMAIN handlers : handlers[i].id = id

\* node->next
NextOf(handlers, i) == IF i < Len(handlers) THEN handlers[i + 1].id ELSE NULL

\* Slip: at the end.
InsertedLast(handlers, h) == Append(handlers, h)

\* g_list_insert_sorted with handler_priority: before the first not smaller.
Inserted(handlers, h) ==
    LET place == CHOOSE i \in 1..Len(handlers) + 1 :
                    /\ \A j \in 1..i - 1 : handlers[j].priority < h.priority
                    /\ i <= Len(handlers) => handlers[i].priority >= h.priority
    IN  InsertAt(handlers, place, h)

\* What g_list_delete_link leaves of the list, for each handler of those ids.
Staying(handlers, gone) ==
    LET W[i \in 0..Len(handlers)] ==
            IF i = 0 THEN <<>>
            ELSE IF handlers[i].id \in gone THEN W[i - 1]
            ELSE Append(W[i - 1], handlers[i])
    IN  W[Len(handlers)]

\* The handlers without those of the ids gone; a callback is to remove only its
\* own.
Without(gone) ==
    LET InCall == s.stack # <<>>
    IN  [s EXCEPT
            !.handlers = Staying(@, gone),
            !.stack    = [i \in DOMAIN s.stack |->
                            [s.stack[i] EXCEPT !.due = @ \ gone]],
            !.reckless = @ \/ (InCall /\ gone \ {Last(s.stack).running} # {})]

Alive == ~s.dangling

-----------------------------------------------------------------------------
(* The operations: of the program, or of the handler being called.         *)

\* Slip: handlers are numbered by how many there are.
ConnectCounting(handle, func, priority) ==
    /\ Alive /\ s.registered /\ s.next_handler_id <= MaxIds
    /\ LET h == [id |-> Len(s.handlers) + 1, handle |-> handle, func |-> func,
                 priority |-> priority]
       IN  s' = [s EXCEPT !.handlers = Inserted(@, h), !.next_handler_id = @ + 1]

\* signal_connect_common
Connect(handle, func, priority) ==
    /\ Alive /\ s.registered /\ s.next_handler_id <= MaxIds
    /\ LET h == [id |-> s.next_handler_id, handle |-> handle, func |-> func,
                 priority |-> priority]
       IN  s' = [s EXCEPT !.handlers = Inserted(@, h), !.next_handler_id = @ + 1]

\* purple_signal_disconnect: the first that matches.
Disconnect(handle, func) ==
    LET Matches(h) == h.handle = handle /\ h.func = func
    IN  /\ Alive
        /\ \E i \in DOMAIN s.handlers :
              /\ Matches(s.handlers[i])
              /\ \A j \in 1..i - 1 : ~Matches(s.handlers[j])
              /\ s' = Without({s.handlers[i].id})

\* purple_signals_disconnect_by_handle
DisconnectByHandle(handle) ==
    /\ Alive
    /\ s' = Without({h.id : h \in {h \in ToSet(s.handlers) : h.handle = handle}})

\* purple_signal_unregister
Unregister ==
    /\ Alive /\ s.registered
    /\ s' = [Without(IdsOf(s.handlers)) EXCEPT
                !.registered = FALSE,
                !.reckless   = s.reckless \/ s.stack # <<>>]

\* purple_signal_emit and purple_signal_emit_return_1, to the first call.
Emit(return_1) ==
    /\ Alive /\ Len(s.stack) < MaxDepth /\ s.handlers # <<>>
    /\ LET h == Head(s.handlers)
           emission == [running |-> h.id, next |-> NextOf(s.handlers, 1),
                        return_1 |-> return_1, due |-> IdsOf(s.handlers),
                        called |-> <<h>>]
       IN  s' = [s EXCEPT !.stack = Append(@, emission),
                          !.reckless = @ \/ s.stack # <<>>]

-----------------------------------------------------------------------------
(* The loop of an emission, when the handler it called returns.            *)

\* It calls the handler l_next: the node must still be there.
Called(emission) ==
    IF emission.next \notin IdsOf(s.handlers)
    THEN [s EXCEPT !.dangling = TRUE]
    ELSE LET i == Position(s.handlers, emission.next) IN
         [s EXCEPT !.stack[Len(s.stack)] =
            [Last(s.stack) EXCEPT !.running = emission.next,
                                  !.next    = NextOf(s.handlers, i),
                                  !.called  = Append(@, s.handlers[i])]]

Finished == [s EXCEPT !.stack = Front(@)]

\* Slip: the next handler is looked up after the call.
ReturnLate(value) ==
    /\ Alive /\ s.stack # <<>>
    /\ LET emission == Last(s.stack)
           i == Position(s.handlers, emission.running)
       IN  IF emission.running \notin IdsOf(s.handlers)
           THEN s' = [s EXCEPT !.dangling = TRUE]
           ELSE IF (value /\ emission.return_1) \/ i = Len(s.handlers)
           THEN s' = Finished
           ELSE s' = Called([emission EXCEPT !.next = NextOf(s.handlers, i)])

\* Slip: any emission stops at a handler that returns something.
ReturnStops(value) ==
    /\ Alive /\ s.stack # <<>>
    /\ LET emission == Last(s.stack) IN
       s' = IF value \/ emission.next = NULL THEN Finished ELSE Called(emission)

\* An emission is over at its last handler, or the first to return something
\* if it is a return_1.  In the first case purple_signal_emit_vargs then passes
\* the signal's data to D-Bus, in a build with D-Bus.
Return(value) ==
    /\ Alive /\ s.stack # <<>>
    /\ LET emission == Last(s.stack) IN
       IF value /\ emission.return_1 THEN s' = Finished
       ELSE IF emission.next # NULL THEN s' = Called(emission)
       ELSE \/ s' = Finished
            \/ /\ ~emission.return_1 /\ ~s.registered
               /\ s' = [s EXCEPT !.dangling = TRUE]

Next ==
    \/ \E handle \in Handles, func \in Funcs :
          \/ \E priority \in Priorities : Connect(handle, func, priority)
          \/ Disconnect(handle, func)
    \/ \E handle \in Handles : DisconnectByHandle(handle)
    \/ Unregister
    \/ \E return_1 \in BOOLEAN : Emit(return_1)
    \/ \E value \in BOOLEAN : Return(value)

Spec == Init /\ [][Next]_s

-----------------------------------------------------------------------------
(* Properties.                                                             *)

\* Type invariant; the ids of handlers are their own.
TypeOK ==
    /\ s \in State
    /\ \A i, j \in DOMAIN s.handlers : s.handlers[i].id = s.handlers[j].id => i = j

\* What signals.h promises of priorities: an emission calls handlers in ascending
\* order of priority, and none twice, whatever its handlers connect and
\* disconnect as it goes, and whatever other emissions they start.
CalledInOrder ==
    \A e \in ToSet(s.stack) : \A i, j \in DOMAIN e.called :
        i < j => /\ e.called[i].priority <= e.called[j].priority
                 /\ e.called[i].id # e.called[j].id

\* An emission that ends has called every handler connected all the while; one
\* that a handler answered, those of smaller priority than that handler.
EverybodyIsCalled ==
    [][Len(s'.stack) < Len(s.stack) =>
        LET e == Last(s.stack)
            missed == e.due \ {h.id : h \in ToSet(e.called)}
        IN  \A h \in ToSet(s.handlers) : h.id \in missed =>
                /\ e.return_1 /\ e.next # NULL
                /\ h.priority >= Last(e.called).priority]_s

\* purple_signal_emit_vargs remembers the next handler, so that the one it calls
\* may disconnect itself; handlers that disconnect only themselves, connect what
\* they like and leave the signal alone never make it use freed memory.
SelfDisconnectIsSafe == s.dangling => s.reckless
=============================================================================
