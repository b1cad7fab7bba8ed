----------------------------- MODULE EventLoop -----------------------------
(***************************************************************************)
(* event_base_loop as the reactor runs it: with EVLOOP_NONBLOCK, again and *)
(* again, from one thread (ReactorStation.cpp:154).  The loop's position   *)
(* is pc; a pass is                                                        *)
(*                                                                         *)
(*   top -> wait -> (scan -> clear ->) report -> timeouts -> process       *)
(*                                                        <-> call         *)
(*                                                                         *)
(* Callbacks are those of any client: while one runs it may set, add and   *)
(* delete events.  Signal handlers run on whichever thread the kernel      *)
(* picks (the loop blocks them in its own thread only), so a delivery can  *)
(* fall between any two steps.                                             *)
(*                                                                         *)
(* Clients add and delete events only from a callback or between two       *)
(* passes, before the loop enters epoll.                                   *)
(***************************************************************************)
EXTENDS EventBase

CONSTANTS
    SignalFd,   \* ev_signal_pair[1], what ev_signal reads
    loopexit,   \* the timer event_base_loopexit makes (event_once)
    MaxCaught,  \* bound: deliveries of one signal counted between two scans
    Readiness   \* [Fd -> sets of conditions]: what can become true of each

Signal == {e \in Event : IsSignal(e)}
Client == Event \ {ev_signal}
Conditions == Directions \union {"HUP"}

LoopAssumption ==
    /\ What[ev_signal] = {"READ"} /\ FdOf[ev_signal] = SignalFd
    /\ loopexit \in Event /\ IsTimer(loopexit)
    /\ MaxCaught \in Nat \ {0}
    /\ Readiness \in [Fd -> SUBSET SUBSET Conditions]
    /\ \A e \in Event : FdOf[e] = SignalFd => e = ev_signal

ASSUME LoopConstants == LoopAssumption

VARIABLES
    base,       \* the event_base and its epoll table
    pc,         \* where the loop is
    batch,      \* epoll_wait's answers not reported yet: [Fd -> conditions]
    toscan,     \* the signal events evsignal_process has still to look at
    cur,        \* the event being executed, or NoEvent
    gotterm,    \* base->event_gotterm
    sigadded,   \* ev_signal_added
    installed,  \* the signals whose handler is evsignal_handler
    caught,     \* evsigcaught
    sigflag,    \* evsignal_caught
    ready,      \* the environment: the conditions true of each descriptor
    owed        \* history: signals delivered and not called for since

loopVars == <<base, pc, batch, toscan, cur, gotterm, sigadded>>
sigVars  == <<installed, caught, sigflag, owed>>
vars     == <<loopVars, sigVars, ready>>

Init ==
    /\ base \in EmptyBase
    /\ pc = "top"
    /\ batch = << >>
    /\ toscan = {}
    /\ cur = NoEvent
    /\ gotterm = FALSE
    /\ sigadded = FALSE
    /\ installed = {}
    /\ caught = [s \in Signal |-> 0]
    /\ sigflag = FALSE
    /\ ready = [f \in Fd |-> {}]
    /\ owed = {}

(***************************************************************************)
(* The top of a pass: evsignal_recalc adds ev_signal the first time and    *)
(* installs the handlers of the signal events; a requested exit, or a base *)
(* without events, ends the pass and the reactor starts the next one.      *)
(***************************************************************************)
LoopTop ==
    /\ pc = "top"
    /\ base' = IF sigadded THEN base ELSE EventAdd(base, ev_signal)
    /\ sigadded' = TRUE
    /\ installed' = installed \union {s \in Signal : "SIGNAL" \in base.flags[s]}
    /\ gotterm' = FALSE
    /\ pc' = IF gotterm \/ base.count <= 0 THEN "top" ELSE "wait"
    /\ UNCHANGED <<batch, toscan, cur, caught, sigflag, owed, ready>>

\* What epoll_wait may answer of f: the conditions asked for, and hang-ups
\* of every registered descriptor.
Answer(b, f, conditions) ==
    IF b.kern[f] = {} THEN {} ELSE conditions \intersect (b.kern[f] \union {"HUP"})

Wait ==
    /\ pc = "wait"
    /\ LET reported == {f \in Fd : Answer(base, f, ready[f]) # {}}
       IN  batch' = [f \in reported |-> Answer(base, f, ready[f])]
    /\ IF sigflag
       THEN /\ pc' = "scan"
            /\ toscan' = {s \in Signal : "SIGNAL" \in base.flags[s]}
       ELSE /\ pc' = "report"
            /\ UNCHANGED toscan
    /\ UNCHANGED <<base, cur, gotterm, sigadded, sigVars, ready>>

(***************************************************************************)
(* evsignal_process: the event of each caught signal becomes active, with  *)
(* one call per delivery counted; then the counts are cleared, and then    *)
(* the flag.  A delivery after its event was looked at and before the      *)
(* memset is cleared unseen; one between the memset and the flag stays     *)
(* counted, and waits for the next delivery to be looked at.               *)
(***************************************************************************)
Scan(s) ==
    /\ pc = "scan" /\ s \in toscan
    /\ base' = IF caught[s] > 0 THEN EventActive(base, s, "SIGNAL", caught[s])
                               ELSE base
    /\ toscan' = toscan \ {s}
    /\ UNCHANGED <<pc, batch, cur, gotterm, sigadded, sigVars, ready>>

ClearCounts ==
    /\ pc = "scan" /\ toscan = {}
    /\ caught' = [s \in Signal |-> 0]
    /\ pc' = "clear"
    /\ UNCHANGED <<base, batch, toscan, cur, gotterm, sigadded, installed,
                   sigflag, owed, ready>>

ClearFlag ==
    /\ pc = "clear"
    /\ sigflag' = FALSE
    /\ pc' = "report"
    /\ UNCHANGED <<base, batch, toscan, cur, gotterm, sigadded, installed, caught,
                   owed, ready>>

\* epoll_wait lists ready descriptors in an order of its own.
ReportFd(f) ==
    /\ pc = "report" /\ f \in DOMAIN batch
    /\ base' = Report(base, f, batch[f])
    /\ batch' = [g \in DOMAIN batch \ {f} |-> batch[g]]
    /\ UNCHANGED <<pc, toscan, cur, gotterm, sigadded, sigVars, ready>>

ReportDone ==
    /\ pc = "report" /\ DOMAIN batch = {}
    /\ pc' = "timeouts"
    /\ UNCHANGED <<base, batch, toscan, cur, gotterm, sigadded, sigVars, ready>>

\* timeout_process: a timer expires at any time after it is scheduled.
TimerExpires(e) ==
    /\ pc = "timeouts" /\ "TIMEOUT" \in base.flags[e]
    /\ base' = Expire(base, e)
    /\ UNCHANGED <<pc, batch, toscan, cur, gotterm, sigadded, sigVars, ready>>

\* Without an active event a EVLOOP_NONBLOCK loop returns, and is called
\* again.
TimeoutsDone ==
    /\ pc = "timeouts"
    /\ pc' = IF base.active # 0 THEN "process" ELSE "top"
    /\ UNCHANGED <<base, batch, toscan, cur, gotterm, sigadded, sigVars, ready>>

(***************************************************************************)
(* event_process_active: each event leaves the queue and its callback runs *)
(* ev_ncalls times, less when the callback aborts the count.  Starting a   *)
(* call pays what was owed for the signal.                                 *)
(***************************************************************************)
Call(b, e) ==
    /\ base' = CountCall(b, e)
    /\ cur' = e
    /\ pc' = "call"
    /\ owed' = owed \ {e}

Process ==
    /\ pc = "process" /\ base.activeq # << >>
    /\ Call(PopActive(base), Head(base.activeq))
    /\ UNCHANGED <<batch, toscan, gotterm, sigadded, installed, caught, sigflag,
                   ready>>

ProcessDone ==
    /\ pc = "process" /\ base.activeq = << >>
    /\ pc' = "top"
    /\ UNCHANGED <<base, batch, toscan, cur, gotterm, sigadded, sigVars, ready>>

CallAgainMutant ==
    /\ pc = "call" /\ base.left >= 0
    /\ Call(base, cur)
    /\ UNCHANGED <<batch, toscan, gotterm, sigadded, installed, caught, sigflag,
                   ready>>

CallAgain ==
    /\ pc = "call" /\ base.left > 0
    /\ Call(base, cur)
    /\ UNCHANGED <<batch, toscan, gotterm, sigadded, installed, caught, sigflag,
                   ready>>

CallReturns ==
    /\ pc = "call" /\ base.left = 0 /\ cur \notin {ev_signal, loopexit}
    /\ pc' = "process"
    /\ cur' = NoEvent
    /\ UNCHANGED <<base, batch, toscan, gotterm, sigadded, sigVars, ready>>

\* evsignal_cb: what the handlers wrote is read, the event added again.
EvsignalCb ==
    /\ pc = "call" /\ cur = ev_signal
    /\ ready' = [ready EXCEPT ![SignalFd] = {}]
    /\ base' = EventAdd(base, ev_signal)
    /\ pc' = "process"
    /\ cur' = NoEvent
    /\ UNCHANGED <<batch, toscan, gotterm, sigadded, sigVars>>

LoopexitCb ==
    /\ pc = "call" /\ cur = loopexit
    /\ gotterm' = TRUE
    /\ pc' = "process"
    /\ cur' = NoEvent
    /\ UNCHANGED <<base, batch, toscan, sigadded, sigVars, ready>>

(***************************************************************************)
(* The clients.  Every caller sets an event that is on no queue before it  *)
(* adds it; timers are added with a timeout (event_once), other events     *)
(* without.  The table has room for one reader and one writer of each      *)
(* descriptor, so a client adds none while another one is in use.          *)
(***************************************************************************)
Clash(d, e) == /\ d # e /\ FdOf[d] = FdOf[e]
               /\ Wanted(d) \intersect Wanted(e) # {}

ClientTurn(e) ==
    /\ e \in Client
    /\ pc = "top" \/ (pc = "call" /\ cur \notin {ev_signal, loopexit})
    /\ UNCHANGED <<pc, batch, toscan, cur, gotterm, sigadded, installed, caught,
                   sigflag, ready>>

ClientAdds(e) ==
    /\ ClientTurn(e)
    /\ base.flags[e] = {}
    /\ \A d \in Event : Clash(d, e) => base.flags[d] = {}
    /\ base' = IF IsTimer(e) THEN EventAddTimeout(EventSet(base, e), e)
                             ELSE EventAdd(EventSet(base, e), e)
    /\ UNCHANGED owed

ClientReschedules(e) ==
    /\ ClientTurn(e)
    /\ IsTimer(e) /\ e # loopexit /\ base.flags[e] # {}
    /\ base' = EventAddTimeout(base, e)
    /\ UNCHANGED owed

ClientDeletes(e) ==
    /\ ClientTurn(e)
    /\ e # loopexit
    /\ base' = EventDel(base, e)
    /\ owed' = owed \ {e}

(***************************************************************************)
(* The environment: evsignal_handler, and the readiness of descriptors.    *)
(***************************************************************************)
SignalArrives(s) ==
    /\ s \in installed /\ caught[s] < MaxCaught
    /\ caught' = [caught EXCEPT ![s] = @ + 1]
    /\ sigflag' = TRUE
    /\ ready' = [ready EXCEPT ![SignalFd] = {"IN"}]
    /\ owed' = IF "SIGNAL" \in base.flags[s] THEN owed \union {s} ELSE owed
    /\ UNCHANGED <<loopVars, installed>>

ReadyChanges(f) ==
    /\ f # SignalFd
    /\ \E c \in Readiness[f] : ready' = [ready EXCEPT ![f] = c]
    /\ UNCHANGED <<loopVars, sigVars>>

LoopStep ==
    \/ LoopTop \/ Wait
    \/ \E s \in Signal : Scan(s)
    \/ ClearCounts \/ ClearFlag
    \/ \E f \in Fd : ReportFd(f)
    \/ ReportDone \/ TimeoutsDone
    \/ Process \/ ProcessDone \/ CallAgain \/ CallReturns
    \/ EvsignalCb \/ LoopexitCb

ClientStep ==
    \E e \in Event : ClientAdds(e) \/ ClientReschedules(e) \/ ClientDeletes(e)

Environment ==
    \/ \E s \in Signal : SignalArrives(s)
    \/ \E f \in Fd : ReadyChanges(f)
    \/ \E e \in Event : TimerExpires(e)

Next == LoopStep \/ ClientStep \/ Environment

Spec == Init /\ [][Next]_vars

(***************************************************************************)
(* The loop's thread keeps running and every callback returns.             *)
(***************************************************************************)
FairSpec == Spec /\ WF_vars(LoopStep)

-----------------------------------------------------------------------------
(***************************************************************************)
(* Properties.                                                             *)
(***************************************************************************)
\* Types of the loop's state (struct event_base, struct epollop, the
\* statics of signal.c).
TypeOK ==
    /\ base \in BaseState
    /\ pc \in {"top", "wait", "scan", "clear", "report", "timeouts", "process",
              "call"}
    /\ DOMAIN batch \subseteq Fd
    /\ \A f \in DOMAIN batch : batch[f] \in SUBSET Conditions
    /\ toscan \subseteq Signal
    /\ cur \in Event \union {NoEvent}
    /\ (pc = "call") <=> (cur # NoEvent)
    /\ gotterm \in BOOLEAN /\ sigadded \in BOOLEAN /\ sigflag \in BOOLEAN
    /\ installed \subseteq Signal
    /\ caught \in [Signal -> 0 .. MaxCaught]
    /\ ready \in [Fd -> SUBSET Conditions]
    /\ owed \subseteq Signal

\* event_count and event_count_active, which event_haveevents and the loop
\* trust, agree with the queues after any sequence of insertions, removals
\* and re-insertions (event.c:711-796); an event on the active queue has
\* calls to make.
CountsOK ==
    /\ CountsCoherent(base)
    /\ \A e \in Event : "ACTIVE" \in base.flags[e] => base.ncalls[e] > 0

\* The loop pops what is flagged, once each: an event deleted while it
\* waits in the active queue leaves it, one activated twice is there once
\* (event.c:578-641).
ActiveOK == ActiveCoherent(base)

\* Adding and deleting the reader or the writer of a descriptor in any order
\* leaves the table and the kernel with the other one's interest intact
\* (epoll.c:261-358).
TableOK == TableCoherent(base)

\* signal.c:96-99, "The event loop then scans for signals that got
\* delivered": a delivery not called for yet is counted, or its event active.
SignalNotLost ==
    \A s \in owed : caught[s] > 0 \/ "ACTIVE" \in base.flags[s]

\* An event that stays armed on a descriptor that stays ready is called
\* again and again: neither the order of reports, nor other events'
\* callbacks, nor the counters can keep the loop from it.
Armed(e) == base.flags[e] \intersect {"INSERTED", "ACTIVE"} # {}
Waited(e) == FdOf[e] \in Fd
             /\ ready[FdOf[e]] \intersect (Wanted(e) \union {"HUP"}) # {}

Served == \A e \in Client : <>[](Armed(e) /\ Waited(e)) => []<>(cur = e)

\* Whatever the clients do from their callbacks, every pass ends and the
\* loop asks epoll again while an event is registered.
PassEnds == []<>(pc = "top" \/ pc = "wait")

(***************************************************************************)
(* What the loop promises its clients: see AbstractEvents.                 *)
(***************************************************************************)
Abstract == INSTANCE AbstractEvents WITH
    Persistent <- {e \in Event : "PERSIST" \in What[e]},
    armed      <- {e \in Event : base.flags[e] \ {"ACTIVE"} # {}},
    due        <- {e \in Event : "ACTIVE" \in base.flags[e]},
    running    <- cur

\* The loop with its queues, table and batches implements the abstract one.
ImplementsAbstract == Abstract!Spec
=============================================================================
