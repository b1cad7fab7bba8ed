----------------------------- MODULE EventBase -----------------------------
(***************************************************************************)
(* The data structure behind the event loop: struct event_base together    *)
(* with the epoll back end's descriptor table (net/event.c, net/epoll.c),  *)
(* as a record, and every operation the loop and its clients apply to it,  *)
(* as an operator from records to records.  EventLoop runs these           *)
(* operators from the loop's program counter; Server runs them from the    *)
(* callbacks of the accept and session code.                               *)
(*                                                                         *)
(* What an event waits for (ev_events) and the descriptor it is set on     *)
(* never change during the life of one struct event in this program, so    *)
(* they are constants.  The priority of every event is the same (the base  *)
(* has one active queue), user data and callback pointers are left out.    *)
(*                                                                         *)
(* A definition whose name ends in Mutant is the definition after it with  *)
(* a plausible mistake in it: PROJECT.json says which property notices.    *)
(***************************************************************************)
EXTENDS Integers, FiniteSets, SequencesExt

CONSTANTS
    Event,      \* the struct event objects, ev_signal among them
    ev_signal,  \* signal.c's internal event, never counted
    NoEvent,    \* a NULL slot of the table
    Garbage,    \* what a slot outside the table may hold
    What,       \* [Event -> SUBSET Interests]: ev_events
    FdOf,       \* [Event -> Int]: ev_fd; -1 for timers and signals
    Fd,         \* the descriptors the process can hold
    NFiles      \* epollop->nfds = RLIMIT_NOFILE - 1

Queues == {"TIMEOUT", "INSERTED", "SIGNAL", "ACTIVE"}
Interests == {"READ", "WRITE", "SIGNAL", "PERSIST"}
Directions == {"IN", "OUT"}

EventAssumption ==
    /\ IsFiniteSet(Event) /\ ev_signal \in Event
    /\ NoEvent \notin Event
    /\ Garbage \notin Event /\ Garbage # NoEvent
    /\ NFiles \in Nat
    /\ Fd \subseteq 0 .. NFiles
    /\ What \in [Event -> SUBSET Interests]
    /\ FdOf \in [Event -> Fd \union {-1}]
    /\ \A e \in Event :
         /\ FdOf[e] \in Fd <=> What[e] \intersect {"READ", "WRITE"} # {}
         /\ "SIGNAL" \in What[e] => What[e] = {"SIGNAL", "PERSIST"}

ASSUME BaseConstants == EventAssumption

IsSignal(e) == "SIGNAL" \in What[e]
IsTimer(e)  == What[e] = {}

\* The descriptor conditions an event waits for.
Wanted(e) == (IF "READ" \in What[e] THEN {"IN"} ELSE {})
             \union (IF "WRITE" \in What[e] THEN {"OUT"} ELSE {})

(***************************************************************************)
(* event_queue_insert and event_queue_remove: the flag, the two counters   *)
(* (an internal event is not counted) and the active queue move together.  *)
(* Adding an event to the active queue a second time does nothing.         *)
(***************************************************************************)
DocountMutant(e) == 1

Docount(e) == IF e = ev_signal THEN 0 ELSE 1

QueueInsertMutant(b, e, q) ==
    IF q = "ACTIVE" /\ q \in b.flags[e]
    THEN b
    ELSE [b EXCEPT !.flags[e] = @ \union {q},
                   !.count    = IF q = "ACTIVE" THEN @ + Docount(e) ELSE @,
                   !.active   = IF q = "ACTIVE" THEN @ + Docount(e) ELSE @,
                   !.activeq  = IF q = "ACTIVE" THEN Append(@, e) ELSE @]

QueueInsert(b, e, q) ==
    IF q = "ACTIVE" /\ q \in b.flags[e]
    THEN b
    ELSE [b EXCEPT !.flags[e] = @ \union {q},
                   !.count    = @ + Docount(e),
                   !.active   = IF q = "ACTIVE" THEN @ + Docount(e) ELSE @,
                   !.activeq  = IF q = "ACTIVE" THEN Append(@, e) ELSE @]

QueueRemoveMutant(b, e, q) ==
    [b EXCEPT !.flags[e] = @ \ {q},
              !.count    = @ - Docount(e),
              !.active   = IF q = "ACTIVE" THEN @ - Docount(e) ELSE @,
              !.activeq  = IF q = "ACTIVE" THEN Tail(@) ELSE @]

QueueRemove(b, e, q) ==
    [b EXCEPT !.flags[e] = @ \ {q},
              !.count    = @ - Docount(e),
              !.active   = IF q = "ACTIVE" THEN @ - Docount(e) ELSE @,
              !.activeq  = IF q = "ACTIVE" THEN RemoveFirst(@, e) ELSE @]

RemoveIfOn(b, e, q) == IF q \in b.flags[e] THEN QueueRemove(b, e, q) ELSE b

(***************************************************************************)
(* The epoll back end.  evread and evwrite are the table of descriptors,   *)
(* kern[f] what the kernel watches f for ({} when f is not registered),    *)
(* open the descriptors that are open.  epoll_ctl fails on a closed        *)
(* descriptor, when it adds one that is registered and when it changes or  *)
(* deletes one that is not; epoll_add then leaves the table alone,         *)
(* epoll_del has already cleared it.                                       *)
(*                                                                         *)
(* epoll_recalc is asked to grow the table to fd entries when              *)
(* fd >= nfds, and grows it only when fd > nfds.  No descriptor is above   *)
(* NFiles, so the table never grows: descriptor NFiles uses the entry one  *)
(* past its end when it is added, and epoll_del ignores it.                *)
(***************************************************************************)
CtlOK(b, f, op) == f \in b.open /\ (op = "ADD" <=> b.kern[f] = {})

Ctl(b, f, op, interest) ==
    IF CtlOK(b, f, op) THEN [b EXCEPT !.kern[f] = interest] ELSE b

\* The directions the table says somebody waits for.
Watched(b, f) == (IF b.evread[f] # NoEvent THEN {"IN"} ELSE {})
                 \union (IF b.evwrite[f] # NoEvent THEN {"OUT"} ELSE {})

EpollAdd(b, e) ==
    LET f  == FdOf[e]
        op == IF Watched(b, f) = {} THEN "ADD" ELSE "MOD"
    IN  IF CtlOK(b, f, op)
        THEN [b EXCEPT
                !.kern[f]    = Watched(b, f) \union Wanted(e),
                !.evread[f]  = IF "READ" \in What[e] THEN e ELSE @,
                !.evwrite[f] = IF "WRITE" \in What[e] THEN e ELSE @]
        ELSE b

EpollDelMutant(b, e) ==
    LET f == FdOf[e]
    IN  Ctl([b EXCEPT !.evread[f] = NoEvent, !.evwrite[f] = NoEvent],
            f, "DEL", {})

EpollDel(b, e) ==
    LET f         == FdOf[e]
        keepWrite == Wanted(e) = {"IN"} /\ b.evwrite[f] # NoEvent
        keepRead  == Wanted(e) = {"OUT"} /\ b.evread[f] # NoEvent
        cleared   == [b EXCEPT
                       !.evread[f]  = IF keepRead THEN @ ELSE NoEvent,
                       !.evwrite[f] = IF keepWrite THEN @ ELSE NoEvent]
    IN  IF f >= NFiles THEN b
        ELSE IF keepWrite THEN Ctl(cleared, f, "MOD", {"OUT"})
        ELSE IF keepRead THEN Ctl(cleared, f, "MOD", {"IN"})
        ELSE Ctl(cleared, f, "DEL", {})

(***************************************************************************)
(* event_set, event_add, event_del and event_active.                       *)
(*                                                                         *)
(* ev_pncalls points to the local variable of event_process_active that    *)
(* counts the calls still to make; that variable is left here, and pn the  *)
(* set of events whose pointer is not NULL.  It is one stack slot for      *)
(* every event the loop executes.                                          *)
(***************************************************************************)
EventSet(b, e) == [b EXCEPT !.flags[e] = {}, !.ncalls[e] = 0, !.pn = @ \ {e}]

AbortCalls(b, e) ==
    IF b.ncalls[e] # 0 /\ e \in b.pn THEN [b EXCEPT !.left = 0] ELSE b

ScheduleMutant(b, e) == QueueInsert(RemoveIfOn(b, e, "TIMEOUT"), e, "TIMEOUT")

\* event_add with a timeout reschedules one that is pending and takes back
\* one that has expired and is not executed yet.
Schedule(b, e) ==
    LET b1      == RemoveIfOn(b, e, "TIMEOUT")
        expired == "ACTIVE" \in b.flags[e] /\ "TIMEOUT" \in b.res[e]
        b2      == IF expired THEN QueueRemove(AbortCalls(b1, e), e, "ACTIVE")
                              ELSE b1
    IN  QueueInsert(b2, e, "TIMEOUT")

\* An I/O event that is already active is not inserted again.
Watch(b, e) ==
    IF Wanted(e) # {} /\ b.flags[e] \intersect {"INSERTED", "ACTIVE"} = {}
    THEN EpollAdd(QueueInsert(b, e, "INSERTED"), e)
    ELSE IF IsSignal(e) /\ "SIGNAL" \notin b.flags[e]
    THEN QueueInsert(b, e, "SIGNAL")
    ELSE b

EventAdd(b, e)        == Watch(b, e)
EventAddTimeout(b, e) == Watch(Schedule(b, e), e)

EventDel(b, e) ==
    LET b1 == RemoveIfOn(AbortCalls(b, e), e, "TIMEOUT")
        b2 == RemoveIfOn(b1, e, "ACTIVE")
    IN  IF "INSERTED" \in b.flags[e]
        THEN EpollDel(QueueRemove(b2, e, "INSERTED"), e)
        ELSE RemoveIfOn(b2, e, "SIGNAL")

EventActive(b, e, why, n) ==
    IF "ACTIVE" \in b.flags[e]
    THEN [b EXCEPT !.res[e] = @ \union {why}]
    ELSE QueueInsert([b EXCEPT !.res[e]    = {why},
                               !.ncalls[e] = n,
                               !.pn        = @ \ {e}], e, "ACTIVE")

(***************************************************************************)
(* One entry of epoll_wait's answer: a hang-up or an error counts as both  *)
(* directions; the events that do not persist are deleted before any is    *)
(* made active, the reader first.                                          *)
(***************************************************************************)
DelOneShotMutant(b, e) == b

DelOneShot(b, e) == IF "PERSIST" \in What[e] THEN b ELSE EventDel(b, e)

Report(b, f, what) ==
    LET w    == IF "HUP" \in what THEN Directions ELSE what
        rd   == IF "IN" \in w THEN b.evread[f] ELSE NoEvent
        wr   == IF "OUT" \in w THEN b.evwrite[f] ELSE NoEvent
        b1   == IF rd # NoEvent THEN DelOneShot(b, rd) ELSE b
        b2   == IF wr # NoEvent /\ wr # rd THEN DelOneShot(b1, wr) ELSE b1
        b3   == IF rd # NoEvent THEN EventActive(b2, rd, "READ", 1) ELSE b2
    IN  IF wr # NoEvent THEN EventActive(b3, wr, "WRITE", 1) ELSE b3

\* One expired timer of timeout_process.
Expire(b, e) ==
    EventActive(EventDel(QueueRemove(b, e, "TIMEOUT"), e), e, "TIMEOUT", 1)

\* The head of the active queue leaves it, in event_process_active; the
\* event's own copy of the count follows the local one.
PopActive(b) ==
    LET e == Head(b.activeq)
    IN  [QueueRemove(b, e, "ACTIVE") EXCEPT !.left = b.ncalls[e],
                                            !.pn   = @ \union {e}]

CountCallMutant(b, e) == [b EXCEPT !.ncalls[e] = b.left]

CountCall(b, e) == [b EXCEPT !.left = @ - 1, !.ncalls[e] = b.left - 1]

\* close() on a descriptor: the kernel forgets its registration, the table
\* does not.
CloseFd(b, f) == [b EXCEPT !.open = @ \ {f}, !.kern[f] = {}]

-----------------------------------------------------------------------------
(***************************************************************************)
(* The states of the base, and what keeps it coherent.                     *)
(***************************************************************************)
TableEntry == Event \union {NoEvent, Garbage}

BaseState ==
    [flags   : [Event -> SUBSET Queues],
     res     : [Event -> SUBSET (Interests \union {"TIMEOUT"})],
     ncalls  : [Event -> Nat],
     pn      : SUBSET Event,
     left    : Nat,
     evread  : [Fd -> TableEntry],
     evwrite : [Fd -> TableEntry],
     kern    : [Fd -> SUBSET Directions],
     open    : SUBSET Fd,
     activeq : Seq(Event),
     count   : Int,
     active  : Int]

\* A fresh base.  calloc clears the table; the memory past its end, which
\* entry NFiles reads, is clear or not.
FreshBase(past) ==
    [flags   |-> [e \in Event |-> {}],
     res     |-> [e \in Event |-> {}],
     ncalls  |-> [e \in Event |-> 0],
     pn      |-> {},
     left    |-> 0,
     evread  |-> [f \in Fd |-> NoEvent],
     evwrite |-> [f \in Fd |-> IF f = NFiles THEN past ELSE NoEvent],
     kern    |-> [f \in Fd |-> {}],
     open    |-> Fd,
     activeq |-> << >>,
     count   |-> 0,
     active  |-> 0]

EmptyBase == {FreshBase(past) : past \in {NoEvent, Garbage}}

Memberships(b) ==
    {m \in (Event \ {ev_signal}) \X Queues : m[2] \in b.flags[m[1]]}

\* event_count counts the queues every event but ev_signal is on, and
\* event_count_active those on the active queue.
CountsCoherent(b) ==
    /\ b.count = Cardinality(Memberships(b))
    /\ b.active = Cardinality({e \in Event \ {ev_signal} :
                                 "ACTIVE" \in b.flags[e]})

\* The active queue holds the events flagged active, each once.
ActiveCoherent(b) ==
    /\ \A e \in Event : "ACTIVE" \in b.flags[e] <=> e \in Range(b.activeq)
    /\ \A i, j \in 1 .. Len(b.activeq) :
         b.activeq[i] = b.activeq[j] => i = j

\* The table points to exactly the events on the INSERTED queue, and the
\* kernel watches each open descriptor for exactly what they wait for.
TableCoherent(b) ==
    /\ \A e \in Event, f \in Fd :
         /\ b.evread[f] = e <=>
              FdOf[e] = f /\ "READ" \in What[e] /\ "INSERTED" \in b.flags[e]
         /\ b.evwrite[f] = e <=>
              FdOf[e] = f /\ "WRITE" \in What[e] /\ "INSERTED" \in b.flags[e]
    /\ \A f \in b.open : b.kern[f] = Watched(b, f)
=============================================================================
