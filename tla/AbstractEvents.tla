--------------------------- MODULE AbstractEvents ---------------------------
(***************************************************************************)
(* What event.h promises the code that uses it, with no queue, descriptor  *)
(* table or counter: an event is armed by event_add, becomes due when what *)
(* it waits for happens, and is called once for each time it became due,   *)
(* unless event_del comes first.  An event that does not persist has to be *)
(* armed again to become due again.                                        *)
(***************************************************************************)
CONSTANTS Event, NoEvent, Persistent

VARIABLES armed, due, running

vars == <<armed, due, running>>

Init == armed = {} /\ due = {} /\ running = NoEvent

\* A timer armed again before it is called is not due any more: an event
\* that does not persist is never both armed and due.
Arm(e) ==
    /\ armed' = armed \union {e}
    /\ due' = due \ ({e} \ Persistent)
    /\ UNCHANGED running

Disarm(e) ==
    /\ armed' = armed \ {e}
    /\ due' = due \ {e}
    /\ UNCHANGED running

\* Several events of one descriptor become due together.
Trigger(S) ==
    /\ due' = due \union S
    /\ armed' = armed \ (S \ Persistent)
    /\ UNCHANGED running

Start(e) ==
    /\ running = NoEvent
    /\ due' = due \ {e}
    /\ running' = e
    /\ UNCHANGED armed

\* A callback may arm its own event as it returns.
Return ==
    /\ running' = NoEvent
    /\ armed' \in {armed, armed \union {running}}
    /\ UNCHANGED due

Next ==
    \/ \E e \in Event : Arm(e) \/ Disarm(e)
    \/ \E S \in SUBSET armed : Trigger(S)
    \/ \E e \in due : Start(e)
    \/ (running # NoEvent /\ Return)

Spec == Init /\ [][Next]_vars
=============================================================================
