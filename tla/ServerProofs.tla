----------------------------- MODULE ServerProofs -----------------------------
(***************************************************************************)
(* Theorems about the server.  The server drives the event loop's          *)
(* operators; what they keep of the base is Coherent of EventBaseProofs,   *)
(* so the proofs here are about who owns which event and descriptor, and   *)
(* when.  ServerInv ties the queues to the sessions that are live, and     *)
(* NumbersInv adds what SessionManager's sequence numbers count.           *)
(*                                                                         *)
(* NFiles \notin Fd is again the one hypothesis: the descriptor whose entry *)
(* lies past epoll.c's table is never open.                                *)
(***************************************************************************)
EXTENDS Server, EventBaseProofs

\* The operators of the loop's instance, L!, are those of the base, by the
\* same definitions: five lemmas from the smallest operator up.
LEMMA LoopMin == ASSUME NEW S PROVE L!Min(S) = Min(S)
  BY DEF L!Min, Min

LEMMA LoopRemoveFirst ==
    ASSUME NEW s, NEW x PROVE L!RemoveFirst(s, x) = RemoveFirst(s, x)
  BY LoopMin DEF L!RemoveFirst, RemoveFirst, L!SelectInSeq, SelectInSeq,
                 L!RemoveAt, RemoveAt

LEMMA LoopQueues ==
    ASSUME NEW b, NEW e, NEW q
    PROVE  /\ L!QueueInsert(b, e, q) = QueueInsert(b, e, q)
           /\ L!QueueRemove(b, e, q) = QueueRemove(b, e, q)
           /\ L!RemoveIfOn(b, e, q) = RemoveIfOn(b, e, q)
           /\ L!AbortCalls(b, e) = AbortCalls(b, e)
           /\ L!Wanted(e) = Wanted(e)
<1>1. \A d : L!Docount(d) = Docount(d)
  BY DEF L!Docount, Docount
<1>2. L!QueueInsert(b, e, q) = QueueInsert(b, e, q)
  BY <1>1 DEF L!QueueInsert, QueueInsert
<1>3. L!QueueRemove(b, e, q) = QueueRemove(b, e, q)
  BY <1>1, LoopRemoveFirst DEF L!QueueRemove, QueueRemove
<1>4. L!RemoveIfOn(b, e, q) = RemoveIfOn(b, e, q)
  BY <1>3 DEF L!RemoveIfOn, RemoveIfOn
<1>5. L!AbortCalls(b, e) = AbortCalls(b, e)
  BY DEF L!AbortCalls, AbortCalls
<1>6. L!Wanted(e) = Wanted(e)
  BY DEF L!Wanted, Wanted
<1> QED BY <1>2, <1>3, <1>4, <1>5, <1>6

LEMMA LoopTable ==
    ASSUME NEW b, NEW e
    PROVE  /\ L!EpollAdd(b, e) = EpollAdd(b, e)
           /\ L!EpollDel(b, e) = EpollDel(b, e)
<1>2. ASSUME NEW c, NEW f, NEW op, NEW i
      PROVE  L!Ctl(c, f, op, i) = Ctl(c, f, op, i)
  BY DEF L!Ctl, Ctl, L!CtlOK, CtlOK
<1>3. \A f : L!Watched(b, f) = Watched(b, f)
  BY DEF L!Watched, Watched
<1>4. L!Wanted(e) = Wanted(e)
  BY LoopQueues
<1>5. L!EpollAdd(b, e) = EpollAdd(b, e)
  BY <1>3, <1>4 DEF L!EpollAdd, EpollAdd, L!CtlOK, CtlOK
<1>6. L!EpollDel(b, e) = EpollDel(b, e)
  BY <1>2, <1>4 DEF L!EpollDel, EpollDel
<1> QED BY <1>5, <1>6

LEMMA LoopOperators ==
    ASSUME NEW b, NEW e
    PROVE  /\ L!EventAdd(b, e) = EventAdd(b, e)
           /\ \A f, what : L!Report(b, f, what) = Report(b, f, what)
           /\ L!PopActive(b) = PopActive(b)
           /\ L!CountCall(b, e) = CountCall(b, e)
<1>1. ASSUME NEW c, NEW d PROVE L!EventAdd(c, d) = EventAdd(c, d)
  BY LoopQueues, LoopTable
  DEF L!EventAdd, EventAdd, L!Watch, Watch, L!IsSignal, IsSignal
<1>2. ASSUME NEW c, NEW d PROVE L!EventDel(c, d) = EventDel(c, d)
  BY LoopQueues, LoopTable DEF L!EventDel, EventDel
<1>3. ASSUME NEW c, NEW d, NEW why, NEW n
      PROVE  L!EventActive(c, d, why, n) = EventActive(c, d, why, n)
  BY LoopQueues DEF L!EventActive, EventActive
<1>4. ASSUME NEW c, NEW d PROVE L!DelOneShot(c, d) = DelOneShot(c, d)
  BY <1>2 DEF L!DelOneShot, DelOneShot
<1>5. ASSUME NEW f, NEW what PROVE L!Report(b, f, what) = Report(b, f, what)
  BY <1>3, <1>4 DEF L!Report, Report, L!Directions, Directions
<1>6. L!PopActive(b) = PopActive(b)
  BY LoopQueues DEF L!PopActive, PopActive
<1>7. L!CountCall(b, e) = CountCall(b, e)
  BY DEF L!CountCall, CountCall
<1> QED BY <1>1, <1>5, <1>6, <1>7

-----------------------------------------------------------------------------
ServerEvents == {ev_signal, acceptEv} \union {ReadEv[s] : s \in Session}
                                      \union {WriteEv[s] : s \in Session}

\* The server's events are objects of their own; only the accept event
\* persists.
LEMMA TheEvents ==
    /\ ServerEvents \subseteq Event /\ NoEvent \notin Event
    /\ acceptEv # ev_signal
    /\ Wanted(ev_signal) = {"IN"} /\ Wanted(acceptEv) = {"IN"}
    /\ FdOf[ev_signal] = SignalFd /\ FdOf[acceptEv] = ListenFd
    /\ "PERSIST" \in What[acceptEv] /\ "PERSIST" \notin What[ev_signal]
    /\ \A e \in ServerEvents : Wanted(e) # {} /\ FdOf[e] \in Fd
<1>1. /\ ev_signal \in Event /\ acceptEv \in Event /\ NoEvent \notin Event
      /\ What[ev_signal] = {"READ"} /\ What[acceptEv] = {"READ", "PERSIST"}
      /\ FdOf[ev_signal] = SignalFd /\ FdOf[acceptEv] = ListenFd
      /\ ReadEv \in [Session -> Event] /\ WriteEv \in [Session -> Event]
      /\ SignalFd \in Fd /\ ListenFd \in Fd
      /\ SockOf \in [Session -> Fd \ {SignalFd, ListenFd}]
  BY BaseConstants, ServerConstants DEF EventAssumption, ServerAssumption
<1>2. \A s \in Session : /\ What[ReadEv[s]] = {"READ"} /\ FdOf[ReadEv[s]] = SockOf[s]
                         /\ What[WriteEv[s]] = {"WRITE"} /\ FdOf[WriteEv[s]] = SockOf[s]
  BY ServerConstants DEF ServerAssumption
<1>3. ServerEvents \subseteq Event
  BY <1>1 DEF ServerEvents
<1>4. \A e \in ServerEvents : What[e] \in {{"READ"}, {"READ", "PERSIST"}, {"WRITE"}}
                              /\ FdOf[e] \in Fd
  BY <1>1, <1>2 DEF ServerEvents
<1>5. \A e \in ServerEvents : Wanted(e) # {}
  BY <1>4 DEF Wanted
<1>6. /\ Wanted(ev_signal) = {"IN"} /\ Wanted(acceptEv) = {"IN"}
      /\ "PERSIST" \in What[acceptEv] /\ "PERSIST" \notin What[ev_signal]
      /\ acceptEv # ev_signal
  BY <1>1 DEF Wanted
<1> QED
  BY <1>1, <1>3, <1>4, <1>5, <1>6

\* A session's two events are its own, and sit on its descriptor.
LEMMA TheSessions ==
    ASSUME NEW s \in Session
    PROVE  /\ SockOf[s] \in Fd /\ SockOf[s] # SignalFd /\ SockOf[s] # ListenFd
           /\ ReadEv[s] \in ServerEvents /\ WriteEv[s] \in ServerEvents
           /\ ReadEv[s] \notin {ev_signal, acceptEv}
           /\ WriteEv[s] \notin {ev_signal, acceptEv}
           /\ FdOf[ReadEv[s]] = SockOf[s] /\ FdOf[WriteEv[s]] = SockOf[s]
           /\ Wanted(ReadEv[s]) = {"IN"} /\ Wanted(WriteEv[s]) = {"OUT"}
           /\ "PERSIST" \notin What[ReadEv[s]] /\ "PERSIST" \notin What[WriteEv[s]]
           /\ \A t \in Session :
                /\ ReadEv[s] # WriteEv[t] /\ WriteEv[s] # ReadEv[t]
                /\ s # t => ReadEv[s] # ReadEv[t] /\ WriteEv[s] # WriteEv[t]
<1>1. /\ What[ev_signal] = {"READ"} /\ FdOf[ev_signal] = SignalFd
      /\ What[acceptEv] = {"READ", "PERSIST"}
      /\ SockOf \in [Session -> Fd \ {SignalFd, ListenFd}]
  BY ServerConstants DEF ServerAssumption
<1>2. \A t \in Session : /\ What[ReadEv[t]] = {"READ"} /\ FdOf[ReadEv[t]] = SockOf[t]
                         /\ What[WriteEv[t]] = {"WRITE"} /\ FdOf[WriteEv[t]] = SockOf[t]
  BY ServerConstants DEF ServerAssumption
<1>3. \A t \in Session : s # t => ReadEv[s] # ReadEv[t] /\ WriteEv[s] # WriteEv[t]
  BY ServerConstants DEF ServerAssumption
<1>4. \A t \in Session : ReadEv[s] # WriteEv[t] /\ WriteEv[s] # ReadEv[t]
  BY <1>2
<1>5. /\ ReadEv[s] \in ServerEvents /\ WriteEv[s] \in ServerEvents
  BY DEF ServerEvents
<1>6. /\ ReadEv[s] \notin {ev_signal, acceptEv}
      /\ WriteEv[s] \notin {ev_signal, acceptEv}
  BY <1>1, <1>2
<1>7. Wanted(ReadEv[s]) = {"IN"} /\ Wanted(WriteEv[s]) = {"OUT"}
  BY <1>2 DEF Wanted
<1>8. "PERSIST" \notin What[ReadEv[s]] /\ "PERSIST" \notin What[WriteEv[s]]
  BY <1>2
<1> QED
  BY <1>1, <1>2, <1>3, <1>4, <1>5, <1>6, <1>7, <1>8

(***************************************************************************)
(* The inductive invariant, in parts.                                      *)
(***************************************************************************)
Types ==
    /\ server \in {"new", "up", "down"}
    /\ obj \in [Session -> {"new", "live", "freed"}]
    /\ reading \subseteq Live /\ writing \subseteq Live /\ task \subseteq Live
    /\ entry \in [Fd -> Session \union {NoSession}]

\* Only the server's events are on a queue; those that do not persist are
\* on one at most, and on none while their callback runs.
Events ==
    /\ \A e \in Event \ ServerEvents : base.flags[e] = {}
    /\ \A e \in Event : base.flags[e] \subseteq {"INSERTED", "ACTIVE"}
    /\ \A e \in Event \ {acceptEv} : base.flags[e] # {"INSERTED", "ACTIVE"}
    /\ cur # NoEvent => cur \in ServerEvents
    /\ cur # NoEvent /\ cur # acceptEv => base.flags[cur] = {}
    /\ pc = "call" <=> cur # NoEvent
    /\ server # "up" => base.flags[acceptEv] = {}

\* The events of a session that is not live are on no queue; the live
\* sessions, the table's entries and the open descriptors are the same.
Owners ==
    /\ \A s \in Session : obj[s] # "live" =>
         /\ base.flags[ReadEv[s]] = {} /\ base.flags[WriteEv[s]] = {}
         /\ cur # ReadEv[s] /\ cur # WriteEv[s]
    /\ \A f \in Fd : entry[f] # NoSession =>
         entry[f] \in Live /\ SockOf[entry[f]] = f
    /\ \A s \in Live : entry[SockOf[s]] = s /\ SockOf[s] \in base.open
    /\ \A f \in base.open \ {SignalFd, ListenFd} : entry[f] # NoSession
    /\ SignalFd \in base.open
    /\ server # "down" => ListenFd \in base.open

ServerInv == Coherent(base) /\ Types /\ Events /\ Owners /\ FlagsTrue

\* What a step does to the flags of one event.
Reflagged(e, F) ==
    \A d \in Event : base'.flags[d] = IF d = e THEN F ELSE base.flags[d]

LEMMA Reflag ==
    ASSUME Coherent(base), NEW e \in Event, NEW F,
           base'.flags = [base.flags EXCEPT ![e] = F]
    PROVE  Reflagged(e, F)
BY DEF Coherent, Sound, BaseState, Reflagged

\* Steps that leave flags, descriptors, sessions and the current event alone.
LEMMA QuietKeeps ==
    ASSUME ServerInv, Coherent(base'), base'.flags = base.flags,
           base'.open = base.open, cur' = cur, pc' = "call" <=> pc = "call",
           UNCHANGED <<server, obj, reading, writing, task, entry>>
    PROVE  ServerInv'
<1>1. Types'
  BY DEF ServerInv, Types, Live
<1>2. Events'
  BY DEF ServerInv, Events
<1>3. Owners'
  BY DEF ServerInv, Owners, Live
<1>4. FlagsTrue'
  BY DEF ServerInv, FlagsTrue, Live, Queued
<1> QED
  BY <1>1, <1>2, <1>3, <1>4 DEF ServerInv

\* The loop makes inserted events active.
LEMMA ReportKeeps ==
    ASSUME NFiles \notin Fd, ServerInv, NEW f \in Fd, L!ReportFd(f),
           UNCHANGED <<objVars, tableVars>>
    PROVE  ServerInv'
<1>1. /\ base' = Report(base, f, batch[f]) /\ pc = "report"
      /\ cur' = cur /\ pc' = pc
  BY LoopOperators DEF L!ReportFd
<1>2. UNCHANGED <<server, obj, reading, writing, task, entry>>
  BY DEF objVars, tableVars
<1>3. /\ Coherent(base') /\ base'.open = base.open
      /\ \E S \in SUBSET Inserted(base) : MadeActive(base, base', S)
  BY <1>1, ReportCoherent DEF ServerInv
<1>4. PICK S \in SUBSET Inserted(base) : MadeActive(base, base', S)
  BY <1>3
<1>5. \A d \in Event :
        base'.flags[d] = IF d \notin S THEN base.flags[d]
                         ELSE IF "PERSIST" \in What[d] THEN base.flags[d] \union {"ACTIVE"}
                         ELSE {"ACTIVE"}
  BY <1>4 DEF MadeActive
<1>6. \A d \in S : base.flags[d] # {} /\ d \in ServerEvents
  BY <1>4 DEF Inserted, ServerInv, Events
<1>7. \A d \in Event : base'.flags[d] = {} <=> base.flags[d] = {}
  BY <1>5, <1>6
<1>8. \A d \in ServerEvents \ {acceptEv} : d \in Event /\ "PERSIST" \notin What[d]
  BY TheEvents, TheSessions DEF ServerEvents
<1>9. cur = NoEvent
  BY <1>1 DEF ServerInv, Events
<1>10. Types'
  BY <1>2 DEF ServerInv, Types, Live
<1>11. Events'
  <2>1. \A e \in Event : base'.flags[e] \subseteq {"INSERTED", "ACTIVE"}
    BY <1>5 DEF ServerInv, Events
  <2>2. \A e \in Event \ {acceptEv} : base'.flags[e] # {"INSERTED", "ACTIVE"}
    BY <1>5, <1>6, <1>8 DEF ServerInv, Events
  <2>3. \A e \in Event \ ServerEvents : base'.flags[e] = {}
    BY <1>7 DEF ServerInv, Events
  <2>4. server' # "up" => base'.flags[acceptEv] = {}
    BY <1>2, <1>7, TheEvents DEF ServerInv, Events, ServerEvents
  <2> QED
    BY <1>1, <1>9, <2>1, <2>2, <2>3, <2>4 DEF Events
<1>12. Owners'
  <2>1. \A s \in Session : obj'[s] # "live" =>
          /\ base'.flags[ReadEv[s]] = {} /\ base'.flags[WriteEv[s]] = {}
          /\ cur' # ReadEv[s] /\ cur' # WriteEv[s]
    BY <1>1, <1>2, <1>7, TheEvents, TheSessions DEF ServerInv, Owners
  <2> QED
    BY <1>2, <1>3, <2>1 DEF ServerInv, Owners, Live
<1>13. FlagsTrue'
  BY <1>1, <1>2, <1>7, TheEvents, TheSessions
     DEF ServerInv, FlagsTrue, Live, Queued
<1> QED
  BY <1>3, <1>10, <1>11, <1>12, <1>13 DEF ServerInv
\* An event leaves the active queue and its callback begins.
LEMMA ProcessKeeps ==
    ASSUME ServerInv, L!Process, UNCHANGED <<objVars, tableVars>>
    PROVE  ServerInv'
<1> DEFINE e == Head(base.activeq)
           c == PopActive(base)
<1>1. /\ e \in Event /\ "ACTIVE" \in base.flags[e]
      /\ Coherent(c) /\ c.left > 0
      /\ Flagged(base, c, e, base.flags[e] \ {"ACTIVE"})
  BY PopCoherent DEF L!Process, ServerInv
<1>2. /\ base' = CountCall(c, e) /\ cur' = e /\ pc' = "call" /\ pc = "process"
  BY LoopOperators DEF L!Process, L!Call
<1>3. UNCHANGED <<server, obj, reading, writing, task, entry>>
  BY DEF objVars, tableVars
<1> HIDE DEF e, c
<1>4. c.flags = [base.flags EXCEPT ![e] = base.flags[e] \ {"ACTIVE"}]
      /\ c.open = base.open
  BY <1>1 DEF Flagged, SameTable
<1>5. base.flags \in [Event -> SUBSET Queues]
  BY DEF ServerInv, Coherent, Sound, BaseState
<1>6. "ACTIVE" \notin c.flags[e]
  BY <1>1, <1>4, <1>5
<1>7. Coherent(base') /\ base'.flags = c.flags /\ base'.open = base.open
  BY <1>1, <1>2, <1>4, <1>6, CountCallCoherent DEF Flagged, SameTable
<1>8. Reflagged(e, base.flags[e] \ {"ACTIVE"})
  BY <1>1, <1>4, <1>7, Reflag DEF ServerInv
<1>9. e \in ServerEvents /\ e # NoEvent /\ cur = NoEvent
  BY <1>1, <1>2, TheEvents DEF ServerInv, Events
<1>10. e # acceptEv => base.flags[e] = {"ACTIVE"} /\ base'.flags[e] = {}
  BY <1>1, <1>8 DEF ServerInv, Events, Reflagged
<1>11. Types'
  BY <1>3 DEF ServerInv, Types, Live
<1>12. Events'
  <2>1. \A d \in Event : /\ base'.flags[d] \subseteq base.flags[d]
                         /\ d # e => base'.flags[d] = base.flags[d]
    BY <1>8 DEF Reflagged
  <2>2. \A d \in Event \ {acceptEv} : base'.flags[d] # {"INSERTED", "ACTIVE"}
    BY <2>1, <1>10 DEF ServerInv, Events
  <2>3. acceptEv \in Event
    BY TheEvents DEF ServerEvents
  <2> QED
    BY <1>2, <1>3, <1>9, <1>10, <2>1, <2>2, <2>3 DEF ServerInv, Events
<1>13. ASSUME NEW s \in Session
       PROVE  \A d \in {ReadEv[s], WriteEv[s]} :
                (base'.flags[d] # {} \/ cur' = d) <=> (base.flags[d] # {} \/ cur = d)
  <2>1. ASSUME NEW d \in {ReadEv[s], WriteEv[s]}
        PROVE (base'.flags[d] # {} \/ cur' = d) <=> (base.flags[d] # {} \/ cur = d)
    <3>1. d \in Event /\ d # acceptEv /\ d # NoEvent
      BY TheEvents, TheSessions
    <3>2. CASE d = e
      BY <1>1, <1>2, <3>2
    <3>3. CASE d # e
      BY <1>2, <1>8, <1>9, <3>1, <3>3 DEF Reflagged
    <3> QED BY <3>2, <3>3
  <2> QED BY <2>1
<1>14. Owners'
  <2>1. \A s \in Session : obj'[s] # "live" =>
          /\ base'.flags[ReadEv[s]] = {} /\ base'.flags[WriteEv[s]] = {}
          /\ cur' # ReadEv[s] /\ cur' # WriteEv[s]
    BY <1>3, <1>13 DEF ServerInv, Owners
  <2> QED
    BY <1>3, <1>7, <2>1 DEF ServerInv, Owners, Live
<1>15. FlagsTrue'
  <2>1. \A s \in Session :
          /\ (base'.flags[ReadEv[s]] # {} \/ cur' = ReadEv[s])
               <=> (base.flags[ReadEv[s]] # {} \/ cur = ReadEv[s])
          /\ (base'.flags[WriteEv[s]] # {} \/ cur' = WriteEv[s])
               <=> (base.flags[WriteEv[s]] # {} \/ cur = WriteEv[s])
    BY <1>13
  <2> QED
    BY <1>3, <2>1 DEF ServerInv, FlagsTrue, Live, Queued
<1> QED
  BY <1>7, <1>11, <1>12, <1>14, <1>15 DEF ServerInv

\* ev_signal is alone on its descriptor.
LEMMA AddEvSignal ==
    ASSUME ServerInv, base' = EventAdd(base, ev_signal)
    PROVE  /\ Coherent(base') /\ base'.open = base.open
           /\ \A d \in Event \ {ev_signal} : base'.flags[d] = base.flags[d]
           /\ base'.flags[ev_signal] \in {base.flags[ev_signal], {"INSERTED"}}
<1>1. ev_signal \in Event /\ Wanted(ev_signal) # {} /\ FdOf[ev_signal] \in base.open
  BY TheEvents DEF ServerEvents, ServerInv, Owners
<1>2. Alone(ev_signal, Inserted(base))
  <2>1. \A d \in ServerEvents \ {ev_signal} : FdOf[d] # SignalFd
    BY TheEvents, TheSessions, ServerConstants DEF ServerEvents, ServerAssumption
  <2>2. Inserted(base) \subseteq ServerEvents
    BY DEF Inserted, ServerInv, Events
  <2> QED
    BY <2>1, <2>2, TheEvents DEF Alone
<1>3. /\ Coherent(base') /\ base'.open = base.open
      /\ base'.flags = IF base.flags[ev_signal] = {}
                       THEN [base.flags EXCEPT ![ev_signal] = {"INSERTED"}]
                       ELSE base.flags
  BY <1>1, <1>2, AddIOCoherent DEF ServerInv
<1>4. base.flags \in [Event -> SUBSET Queues]
  BY DEF ServerInv, Coherent, Sound, BaseState
<1> QED
  BY <1>1, <1>3, <1>4

\* The loop's thread adds ev_signal again: before the wait or from its callback.
LEMMA SignalKeeps ==
    ASSUME ServerInv, base' = EventAdd(base, ev_signal),
           \/ cur' = cur /\ pc # "call" /\ pc' # "call"
           \/ cur = ev_signal /\ cur' = NoEvent /\ pc' # "call",
           UNCHANGED <<server, obj, reading, writing, task, entry>>
    PROVE  ServerInv'
<1>1. /\ Coherent(base') /\ base'.open = base.open
      /\ \A d \in Event \ {ev_signal} : base'.flags[d] = base.flags[d]
      /\ base'.flags[ev_signal] \in {base.flags[ev_signal], {"INSERTED"}}
  BY AddEvSignal
<1>2. ev_signal \in Event /\ ev_signal \in ServerEvents /\ acceptEv \in Event
      /\ acceptEv # ev_signal /\ NoEvent \notin Event
  BY TheEvents DEF ServerEvents
<1>3. cur' = NoEvent
  BY DEF ServerInv, Events
<1>4. Types'
  BY DEF ServerInv, Types, Live
<1>5. Events'
  BY <1>1, <1>2, <1>3 DEF ServerInv, Events
<1>6. \A s \in Session :
        /\ base'.flags[ReadEv[s]] = base.flags[ReadEv[s]]
        /\ base'.flags[WriteEv[s]] = base.flags[WriteEv[s]]
        /\ cur # ReadEv[s] /\ cur # WriteEv[s]
        /\ cur' # ReadEv[s] /\ cur' # WriteEv[s]
  BY <1>1, <1>2, <1>3, TheEvents, TheSessions DEF ServerInv, Events
<1>7. Owners'
  BY <1>1, <1>6 DEF ServerInv, Owners, Live
<1>8. FlagsTrue'
  BY <1>6 DEF ServerInv, FlagsTrue, Live, Queued
<1> QED
  BY <1>1, <1>4, <1>5, <1>7, <1>8 DEF ServerInv

\* The steps of the loop's own thread outside the program's callbacks.
LEMMA LoopKeeps ==
    ASSUME NFiles \notin Fd, ServerInv, LoopStep
    PROVE  ServerInv'
<1>1. UNCHANGED <<objVars, tableVars>>
  BY DEF LoopStep
<1>2. UNCHANGED <<server, obj, reading, writing, task, entry>>
  BY <1>1 DEF objVars, tableVars
<1>3. CASE L!LoopTop
  <2>1. /\ base' = IF sigadded THEN base ELSE EventAdd(base, ev_signal)
        /\ cur' = cur /\ pc = "top" /\ pc' \in {"top", "wait"}
    BY <1>3, LoopOperators DEF L!LoopTop
  <2>2. CASE sigadded
    BY <1>2, <2>1, <2>2, QuietKeeps DEF ServerInv
  <2>3. CASE ~sigadded
    BY <1>2, <2>1, <2>3, SignalKeeps
  <2> QED BY <2>2, <2>3
<1>4. CASE L!Wait \/ L!ReportDone \/ L!TimeoutsDone \/ L!ProcessDone
  <2>1. base' = base /\ cur' = cur /\ pc # "call" /\ pc' # "call"
    BY <1>4 DEF L!Wait, L!ReportDone, L!TimeoutsDone, L!ProcessDone
  <2> QED
    BY <1>2, <2>1, QuietKeeps DEF ServerInv
<1>5. CASE \E f \in Fd : L!ReportFd(f)
  BY <1>1, <1>5, ReportKeeps
<1>6. CASE L!Process
  BY <1>1, <1>6, ProcessKeeps
<1>7. CASE L!EvsignalCb
  <2>1. /\ base' = EventAdd(base, ev_signal) /\ cur = ev_signal /\ cur' = NoEvent
        /\ pc' # "call"
    BY <1>7, LoopOperators DEF L!EvsignalCb
  <2> QED
    BY <1>2, <2>1, SignalKeeps
<1> QED
  BY <1>3, <1>4, <1>5, <1>6, <1>7 DEF LoopStep
-----------------------------------------------------------------------------
\* event_set and event_add of an event on no queue.
LEMMA SetAddCoherent ==
    ASSUME NEW b, Coherent(b), NEW e \in Event, Wanted(e) # {}, b.flags[e] = {},
           FdOf[e] \in b.open, Alone(e, Inserted(b))
    PROVE  LET c == EventAdd(EventSet(b, e), e)
           IN  /\ Coherent(c) /\ c.open = b.open
               /\ \A d \in Event : c.flags[d] = IF d = e THEN {"INSERTED"} ELSE b.flags[d]
<1> DEFINE a == EventSet(b, e)
<1>1. Coherent(a) /\ a.flags = b.flags /\ a.open = b.open
  BY SetCoherent DEF Flagged, SameTable
<1> HIDE DEF a
<1>2. Alone(e, Inserted(a))
  BY <1>1 DEF Alone, Inserted
<1>3. /\ Coherent(EventAdd(a, e)) /\ EventAdd(a, e).open = b.open
      /\ EventAdd(a, e).flags = [b.flags EXCEPT ![e] = {"INSERTED"}]
  BY <1>1, <1>2, AddIOCoherent
<1>4. b.flags \in [Event -> SUBSET Queues]
  BY DEF Coherent, Sound, BaseState
<1>5. \A d \in Event : EventAdd(a, e).flags[d]
                         = IF d = e THEN {"INSERTED"} ELSE b.flags[d]
  BY <1>3, <1>4
<1> QED
  BY <1>3, <1>5 DEF a

\* Session::addEvent, one event at a time.
LEMMA AddReadCoherent ==
    ASSUME NEW b, Coherent(b), NEW s \in Session, NEW rd, SockOf[s] \in b.open,
           Alone(ReadEv[s], Inserted(b)), s \notin rd => b.flags[ReadEv[s]] = {}
    PROVE  LET c == AddRead(b, s, rd)
           IN  /\ Coherent(c) /\ c.open = b.open
               /\ \A d \in Event :
                    c.flags[d] = IF d = ReadEv[s] /\ s \notin rd
                                 THEN {"INSERTED"} ELSE b.flags[d]
<1>1. ReadEv[s] \in Event /\ Wanted(ReadEv[s]) # {} /\ FdOf[ReadEv[s]] = SockOf[s]
  BY TheEvents, TheSessions
<1>2. CASE s \in rd
  BY <1>2 DEF AddRead
<1>3. CASE s \notin rd
  <2> DEFINE e == ReadEv[s]
             c == EventAdd(EventSet(b, e), e)
  <2>1. /\ Coherent(c) /\ c.open = b.open
        /\ \A d \in Event : c.flags[d] = IF d = e THEN {"INSERTED"} ELSE b.flags[d]
    BY <1>1, <1>3, SetAddCoherent
  <2>2. AddRead(b, s, rd) = c
    BY <1>3 DEF AddRead
  <2> QED
    BY <1>3, <2>1, <2>2
<1> QED
  BY <1>2, <1>3

LEMMA AddWriteCoherent ==
    ASSUME NEW b, Coherent(b), NEW s \in Session, NEW wr, SockOf[s] \in b.open,
           Alone(WriteEv[s], Inserted(b)), s \notin wr => b.flags[WriteEv[s]] = {}
    PROVE  LET c == AddWrite(b, s, wr)
           IN  /\ Coherent(c) /\ c.open = b.open
               /\ \A d \in Event :
                    c.flags[d] = IF d = WriteEv[s] /\ s \notin wr
                                 THEN {"INSERTED"} ELSE b.flags[d]
<1>1. WriteEv[s] \in Event /\ Wanted(WriteEv[s]) # {} /\ FdOf[WriteEv[s]] = SockOf[s]
  BY TheEvents, TheSessions
<1>2. CASE s \in wr
  BY <1>2 DEF AddWrite
<1>3. CASE s \notin wr
  <2> DEFINE e == WriteEv[s]
             c == EventAdd(EventSet(b, e), e)
  <2>1. /\ Coherent(c) /\ c.open = b.open
        /\ \A d \in Event : c.flags[d] = IF d = e THEN {"INSERTED"} ELSE b.flags[d]
    BY <1>1, <1>3, SetAddCoherent
  <2>2. AddWrite(b, s, wr) = c
    BY <1>3 DEF AddWrite
  <2> QED
    BY <1>3, <2>1, <2>2
<1> QED
  BY <1>2, <1>3

\* Nobody but the live session of a descriptor has an event inserted on it.
LEMMA Uninvolved ==
    ASSUME ServerInv, NEW d \in Inserted(base), NEW f \in Fd \ {SignalFd, ListenFd},
           FdOf[d] = f
    PROVE  \E t \in Live : /\ SockOf[t] = f /\ entry[f] = t
                           /\ d = ReadEv[t] \/ d = WriteEv[t]
<1>1. d \in ServerEvents /\ base.flags[d] # {}
  BY DEF Inserted, ServerInv, Events
<1>2. PICK t \in Session : d = ReadEv[t] \/ d = WriteEv[t]
  BY <1>1, TheEvents DEF ServerEvents
<1>3. t \in Live /\ SockOf[t] = f
  BY <1>1, <1>2, TheSessions DEF Live, ServerInv, Owners
<1> QED
  BY <1>2, <1>3 DEF ServerInv, Owners

\* A live session's events share their descriptor with no other's.
LEMMA SessionAlone ==
    ASSUME ServerInv, NEW s \in Live, NEW b,
           \A d \in Event : d # ReadEv[s] /\ d # WriteEv[s]
                              => b.flags[d] = base.flags[d]
    PROVE  Alone(ReadEv[s], Inserted(b)) /\ Alone(WriteEv[s], Inserted(b))
<1>1. s \in Session
  BY DEF Live
<1>2. ASSUME NEW d \in Inserted(b), FdOf[d] = SockOf[s]
      PROVE  d = ReadEv[s] \/ d = WriteEv[s]
  <2> SUFFICES ASSUME d # ReadEv[s], d # WriteEv[s] PROVE FALSE
    OBVIOUS
  <2>1. d \in Inserted(base)
    BY DEF Inserted
  <2>2. SockOf[s] \in Fd \ {SignalFd, ListenFd}
    BY <1>1, TheSessions
  <2>3. \E t \in Live : /\ SockOf[t] = SockOf[s] /\ entry[SockOf[s]] = t
                        /\ d = ReadEv[t] \/ d = WriteEv[t]
    BY <1>2, <2>1, <2>2, Uninvolved
  <2> QED
    BY <2>3 DEF ServerInv, Owners
<1>3. Wanted(ReadEv[s]) \intersect Wanted(WriteEv[s]) = {}
  BY <1>1, TheSessions
<1> QED
  BY <1>1, <1>2, <1>3, TheSessions DEF Alone

(***************************************************************************)
(* onRead and onWrite, when they add the event again.                      *)
(***************************************************************************)
LEMMA ReadsKeep ==
    ASSUME ServerInv, NEW s \in Session, NEW wr, wr \in {writing, writing \union {s}},
           Callback(ReadEv[s]),
           ReadOn(s, AddWrite(base, s, IF wr = writing THEN {s} ELSE writing), wr),
           task' \subseteq task \union {s}, UNCHANGED <<obj, entry>>
    PROVE  ServerInv'
<1> DEFINE W == IF wr = writing THEN {s} ELSE writing
           b == AddWrite(base, s, W)
<1>1. /\ cur = ReadEv[s] /\ cur' = NoEvent /\ pc' # "call"
      /\ UNCHANGED <<server, obj, entry>>
  BY DEF Callback
<1>2. s \in Live /\ obj[s] = "live"
  BY <1>1 DEF ServerInv, Owners, Types, Live
<1>3. base.flags[ReadEv[s]] = {}
  BY <1>1, TheEvents, TheSessions DEF ServerInv, Events
<1>4. s \notin W => base.flags[WriteEv[s]] = {}
  BY <1>2 DEF ServerInv, FlagsTrue, Queued
<1>5. SockOf[s] \in base.open
  BY <1>2 DEF ServerInv, Owners
<1>6. ReadEv[s] \in ServerEvents /\ WriteEv[s] \in ServerEvents
      /\ ReadEv[s] \in Event /\ WriteEv[s] \in Event
      /\ ReadEv[s] # WriteEv[s]
      /\ ReadEv[s] # acceptEv /\ WriteEv[s] # acceptEv
  BY TheEvents, TheSessions
<1>7. /\ base' = AddRead(b, s, reading \ {s})
      /\ reading' = reading \union {s} /\ writing' = wr
  BY DEF ReadOn
<1>8. W = IF wr = writing THEN {s} ELSE writing
  OBVIOUS
<1> HIDE DEF W
<1>9. Alone(WriteEv[s], Inserted(base))
  BY <1>2, SessionAlone
<1>10. /\ Coherent(b) /\ b.open = base.open
       /\ \A d \in Event : b.flags[d] = IF d = WriteEv[s] /\ s \notin W
                                        THEN {"INSERTED"} ELSE base.flags[d]
  BY <1>4, <1>5, <1>9, AddWriteCoherent DEF ServerInv
<1> HIDE DEF b
<1>11. Alone(ReadEv[s], Inserted(b))
  BY <1>2, <1>10, SessionAlone
<1>12. /\ Coherent(base') /\ base'.open = base.open
       /\ \A d \in Event : base'.flags[d] =
            IF d = ReadEv[s] THEN {"INSERTED"} ELSE b.flags[d]
  BY <1>3, <1>5, <1>6, <1>7, <1>10, <1>11, AddReadCoherent
<1>13. /\ \A d \in Event : d # ReadEv[s] /\ d # WriteEv[s] => base'.flags[d] = base.flags[d]
       /\ base'.flags[ReadEv[s]] = {"INSERTED"}
       /\ base'.flags[WriteEv[s]] = IF s \in W THEN base.flags[WriteEv[s]] ELSE {"INSERTED"}
  BY <1>6, <1>10, <1>12
<1>14. \A t \in Session : t # s =>
         /\ base'.flags[ReadEv[t]] = base.flags[ReadEv[t]]
         /\ base'.flags[WriteEv[t]] = base.flags[WriteEv[t]]
         /\ cur # ReadEv[t] /\ cur # WriteEv[t]
  BY <1>1, <1>13, TheEvents, TheSessions
<1>15. \A t \in Session : cur' # ReadEv[t] /\ cur' # WriteEv[t]
  BY <1>1, TheEvents, TheSessions
<1>16. Types'
  BY <1>1, <1>2, <1>7 DEF ServerInv, Types, Live
<1>17. Events'
  <2>1. acceptEv \in Event
    BY TheEvents DEF ServerEvents
  <2> QED
    BY <1>1, <1>6, <1>13, <2>1 DEF ServerInv, Events
<1>18. Owners'
  BY <1>1, <1>2, <1>12, <1>14, <1>15 DEF ServerInv, Owners, Live
<1>19. FlagsTrue'
  <2>1. cur # WriteEv[s] /\ Live' = Live
    BY <1>1, <1>6 DEF Live
  <2>2. \A t \in Live :
          /\ t \in reading <=> base.flags[ReadEv[t]] # {} \/ cur = ReadEv[t]
          /\ t \in writing <=> base.flags[WriteEv[t]] # {} \/ cur = WriteEv[t]
    BY DEF ServerInv, FlagsTrue, Queued
  <2>3. s \in writing' <=> base'.flags[WriteEv[s]] # {}
    BY <1>2, <1>7, <1>8, <1>13, <2>1, <2>2
  <2>4. ASSUME NEW t \in Live
        PROVE  /\ t \in reading' <=> base'.flags[ReadEv[t]] # {} \/ cur' = ReadEv[t]
               /\ t \in writing' <=> base'.flags[WriteEv[t]] # {} \/ cur' = WriteEv[t]
    <3>1. t \in Session
      BY DEF Live
    <3>2. CASE t = s
      BY <1>7, <1>13, <1>15, <2>3, <3>1, <3>2
    <3>3. CASE t # s
      BY <1>7, <1>14, <1>15, <2>2, <3>1, <3>3
    <3> QED BY <3>2, <3>3
  <2> QED
    BY <2>1, <2>4 DEF FlagsTrue, Queued
<1> QED
  BY <1>12, <1>16, <1>17, <1>18, <1>19 DEF ServerInv

LEMMA WritesKeep ==
    ASSUME ServerInv, NEW s \in Session, NEW result, WriteWith(s, result)
    PROVE  ServerInv'
<1>1. /\ cur = WriteEv[s] /\ cur' = NoEvent /\ pc' # "call"
      /\ UNCHANGED <<server, obj, entry, reading, task>>
  BY DEF WriteWith, Callback, tableVars
<1>2. s \in Live /\ s \in writing
  BY <1>1 DEF ServerInv, Owners, Types, Live, FlagsTrue
<1>3. base.flags[WriteEv[s]] = {}
  BY <1>1, TheEvents, TheSessions DEF ServerInv, Events
<1>4. SockOf[s] \in base.open
  BY <1>2 DEF ServerInv, Owners
<1>5. WriteEv[s] \in ServerEvents /\ WriteEv[s] \in Event /\ WriteEv[s] # acceptEv
      /\ ReadEv[s] # WriteEv[s] /\ ReadEv[s] \in Event
  BY TheEvents, TheSessions
<1>6. \/ base' = AddWrite(base, s, writing \ {s}) /\ writing' = writing
      \/ base' = base /\ writing' = writing \ {s}
  BY DEF WriteWith
<1>7. Alone(WriteEv[s], Inserted(base))
  BY <1>2, SessionAlone
<1>8. /\ Coherent(base') /\ base'.open = base.open
      /\ \A d \in Event : d # WriteEv[s] => base'.flags[d] = base.flags[d]
      /\ base'.flags[WriteEv[s]] = IF s \in writing' THEN {"INSERTED"} ELSE {}
  <2>1. CASE base' = AddWrite(base, s, writing \ {s}) /\ writing' = writing
    BY <1>2, <1>3, <1>4, <1>5, <1>7, <2>1, AddWriteCoherent DEF ServerInv
  <2>2. CASE base' = base /\ writing' = writing \ {s}
    BY <1>3, <2>2 DEF ServerInv
  <2> QED BY <1>6, <2>1, <2>2
<1>9. \A t \in Session : t # s =>
        /\ base'.flags[ReadEv[t]] = base.flags[ReadEv[t]]
        /\ base'.flags[WriteEv[t]] = base.flags[WriteEv[t]]
        /\ cur # ReadEv[t] /\ cur # WriteEv[t]
  BY <1>1, <1>8, TheEvents, TheSessions
<1>10. \A t \in Session : cur' # ReadEv[t] /\ cur' # WriteEv[t]
  BY <1>1, TheEvents, TheSessions
<1>11. \A t \in Session : t # s => (t \in writing' <=> t \in writing)
  BY <1>6
<1>12. Types'
  BY <1>1, <1>6 DEF ServerInv, Types, Live
<1>13. Events'
  <2>1. acceptEv \in Event
    BY TheEvents DEF ServerEvents
  <2> QED
    BY <1>1, <1>5, <1>8, <2>1 DEF ServerInv, Events
<1>14. Owners'
  BY <1>1, <1>2, <1>8, <1>9, <1>10 DEF ServerInv, Owners, Live
<1>15. FlagsTrue'
  <2>1. cur # ReadEv[s] /\ base'.flags[ReadEv[s]] = base.flags[ReadEv[s]]
    BY <1>1, <1>5, <1>8
  <2>2. Live' = Live /\ reading' = reading
    BY <1>1 DEF Live
  <2>3. \A t \in Live :
          /\ t \in reading <=> base.flags[ReadEv[t]] # {} \/ cur = ReadEv[t]
          /\ t \in writing <=> base.flags[WriteEv[t]] # {} \/ cur = WriteEv[t]
    BY DEF ServerInv, FlagsTrue, Queued
  <2>4. s \in writing' <=> base'.flags[WriteEv[s]] # {}
    BY <1>8
  <2>5. ASSUME NEW t \in Live
        PROVE  /\ t \in reading' <=> base'.flags[ReadEv[t]] # {} \/ cur' = ReadEv[t]
               /\ t \in writing' <=> base'.flags[WriteEv[t]] # {} \/ cur' = WriteEv[t]
    <3>1. t \in Session
      BY DEF Live
    <3>2. CASE t = s
      BY <1>10, <2>1, <2>2, <2>3, <2>4, <3>1, <3>2
    <3>3. CASE t # s
      BY <1>9, <1>10, <1>11, <2>2, <2>3, <3>1, <3>3
    <3> QED BY <3>2, <3>3
  <2> QED
    BY <2>2, <2>5 DEF FlagsTrue, Queued
<1> QED
  BY <1>8, <1>12, <1>13, <1>14, <1>15 DEF ServerInv
(***************************************************************************)
(* The main thread: the accept event is added and deleted while the loop's *)
(* thread is anywhere.                                                     *)
(***************************************************************************)
LEMMA AcceptEventKeeps ==
    ASSUME ServerInv, Coherent(base'),
           \A d \in Event \ {acceptEv} : base'.flags[d] = base.flags[d],
           base'.flags[acceptEv] \in {{}, {"INSERTED"}},
           server' # "up" => base'.flags[acceptEv] = {},
           server' \in {"new", "up", "down"},
           base'.open = IF server' = "down" THEN base.open \ {ListenFd} ELSE base.open,
           server = "down" => server' = "down", MainStep
    PROVE  ServerInv'
<1>1. UNCHANGED <<pc, cur, obj, reading, writing, task, entry>>
  BY DEF MainStep, tableVars
<1>2. acceptEv \in ServerEvents /\ acceptEv \in Event /\ NoEvent \notin Event
  BY TheEvents DEF ServerEvents
<1>3. \A s \in Session : /\ base'.flags[ReadEv[s]] = base.flags[ReadEv[s]]
                         /\ base'.flags[WriteEv[s]] = base.flags[WriteEv[s]]
                         /\ SockOf[s] # ListenFd
  BY TheEvents, TheSessions
<1>4. Types'
  BY <1>1 DEF ServerInv, Types, Live
<1>5. Events'
  <2>1. \A e \in Event \ ServerEvents : base'.flags[e] = {}
    BY <1>2 DEF ServerInv, Events
  <2>2. \A e \in Event : base'.flags[e] \subseteq {"INSERTED", "ACTIVE"}
    BY <1>2 DEF ServerInv, Events
  <2>3. cur' # NoEvent /\ cur' # acceptEv => base'.flags[cur'] = {}
    BY <1>1, TheEvents DEF ServerInv, Events
  <2> QED
    BY <1>1, <2>1, <2>2, <2>3 DEF ServerInv, Events
<1>6. Owners'
  <2>1. SignalFd # ListenFd
    BY ServerConstants DEF ServerAssumption
  <2> QED
    BY <1>1, <1>3, <2>1 DEF ServerInv, Owners, Live
<1>7. FlagsTrue'
  BY <1>1, <1>3 DEF ServerInv, FlagsTrue, Live, Queued
<1> QED
  BY <1>4, <1>5, <1>6, <1>7 DEF ServerInv

LEMMA MainKeeps ==
    ASSUME NFiles \notin Fd, ServerInv, RegisterEvent \/ Shutdown
    PROVE  ServerInv'
<1>1. /\ acceptEv \in ServerEvents /\ acceptEv \in Event
      /\ Wanted(acceptEv) # {} /\ FdOf[acceptEv] = ListenFd /\ ListenFd \in Fd
  BY TheEvents DEF ServerEvents
<1>2. CASE RegisterEvent
  <2>1. /\ server = "new" /\ server' = "up" /\ MainStep
        /\ base' = EventAdd(EventSet(base, acceptEv), acceptEv)
    BY <1>2 DEF RegisterEvent
  <2>2. base.flags[acceptEv] = {} /\ ListenFd \in base.open
    BY <2>1 DEF ServerInv, Events, Owners
  <2>3. Alone(acceptEv, Inserted(base))
    <3>1. \A d \in ServerEvents \ {acceptEv} : FdOf[d] # ListenFd
      BY TheEvents, TheSessions, ServerConstants DEF ServerEvents, ServerAssumption
    <3>2. Inserted(base) \subseteq ServerEvents
      BY DEF Inserted, ServerInv, Events
    <3> QED
      BY <1>1, <3>1, <3>2 DEF Alone
  <2>4. /\ Coherent(base') /\ base'.open = base.open
        /\ \A d \in Event : base'.flags[d] = IF d = acceptEv THEN {"INSERTED"}
                                             ELSE base.flags[d]
    BY <1>1, <2>1, <2>2, <2>3, SetAddCoherent DEF ServerInv
  <2> QED
    BY <1>1, <2>1, <2>4, AcceptEventKeeps
<1>3. CASE Shutdown
  <2> DEFINE b == EventDel(base, acceptEv)
  <2>1. /\ server = "up" /\ server' = "down" /\ MainStep
        /\ base' = CloseFd(b, ListenFd)
    BY <1>3 DEF Shutdown
  <2>2. /\ Coherent(b) /\ b.open = base.open
        /\ b.flags = [base.flags EXCEPT ![acceptEv] = {}]
    BY <1>1, DelCoherent DEF ServerInv
  <2> HIDE DEF b
  <2>3. Coherent(base') /\ base'.flags = b.flags /\ base'.open = b.open \ {ListenFd}
    BY <1>1, <2>1, <2>2, CloseCoherent
  <2>4. base.flags \in [Event -> SUBSET Queues]
    BY DEF ServerInv, Coherent, Sound, BaseState
  <2>5. /\ \A d \in Event \ {acceptEv} : base'.flags[d] = base.flags[d]
        /\ base'.flags[acceptEv] = {}
    BY <1>1, <2>2, <2>3, <2>4
  <2> QED
    BY <2>1, <2>2, <2>3, <2>5, AcceptEventKeeps
<1> QED
  BY <1>2, <1>3

(***************************************************************************)
(* onAccept: a session takes the descriptor the kernel gives it.           *)
(***************************************************************************)
LEMMA AcceptFailsKeeps ==
    ASSUME ServerInv, AcceptFails
    PROVE  ServerInv'
<1>1. /\ cur = acceptEv /\ cur' = NoEvent /\ pc' # "call"
      /\ UNCHANGED <<base, server, obj, reading, writing, task, entry>>
  BY DEF AcceptFails, Callback, tableVars
<1>2. \A s \in Session : /\ cur # ReadEv[s] /\ cur # WriteEv[s]
                         /\ cur' # ReadEv[s] /\ cur' # WriteEv[s]
  BY <1>1, TheEvents, TheSessions
<1>3. Types' /\ Events'
  BY <1>1 DEF ServerInv, Types, Live, Events
<1>4. Owners'
  BY <1>1, <1>2 DEF ServerInv, Owners, Live
<1>5. FlagsTrue'
  BY <1>1, <1>2 DEF ServerInv, FlagsTrue, Live, Queued
<1> QED
  BY <1>1, <1>3, <1>4, <1>5 DEF ServerInv

LEMMA AcceptsKeeps ==
    ASSUME ServerInv, NEW s \in Session, Accepts(s)
    PROVE  ServerInv'
<1> DEFINE f == SockOf[s]
           a == [base EXCEPT !.open = @ \union {f}]
           b == AddRead(a, s, reading)
<1>1. /\ cur = acceptEv /\ cur' = NoEvent /\ pc' # "call" /\ server' = server
      /\ f \in Fd \ base.open /\ obj[s] = "new"
      /\ obj' = [obj EXCEPT ![s] = "live"]
      /\ entry' = [entry EXCEPT ![f] = s]
      /\ base' = AddWrite(b, s, writing)
      /\ reading' = reading \union {s} /\ writing' = writing \union {s}
      /\ task' = task
  BY DEF Accepts, Callback, FreeFds, Put
<1>2. f \in Fd /\ f # SignalFd /\ f # ListenFd /\ f \notin base.open
  BY <1>1, TheSessions
<1>3. entry[f] = NoSession
  BY <1>2 DEF ServerInv, Owners, Types, Live
<1>4. s \notin Live /\ s \notin reading /\ s \notin writing /\ s \notin task
  BY <1>1 DEF ServerInv, Types, Live
<1>5. ReadEv[s] \in Event /\ WriteEv[s] \in Event /\ ReadEv[s] # WriteEv[s]
      /\ ReadEv[s] \in ServerEvents /\ WriteEv[s] \in ServerEvents
      /\ ReadEv[s] # acceptEv /\ WriteEv[s] # acceptEv
      /\ FdOf[ReadEv[s]] = f /\ FdOf[WriteEv[s]] = f
      /\ Wanted(ReadEv[s]) \intersect Wanted(WriteEv[s]) = {}
  BY TheEvents, TheSessions
<1>6. base.flags[ReadEv[s]] = {} /\ base.flags[WriteEv[s]] = {}
  BY <1>1 DEF ServerInv, Owners
<1>7. \A d \in Inserted(base) : FdOf[d] # f
  BY <1>2, <1>3, Uninvolved DEF ServerInv, Owners, Live
<1> HIDE DEF f
<1>8. Coherent(a) /\ a.flags = base.flags /\ a.open = base.open \union {f}
  BY <1>2, <1>7, OpenCoherent DEF ServerInv
<1> HIDE DEF a
<1>9. Alone(ReadEv[s], Inserted(a))
  BY <1>5, <1>7, <1>8 DEF Alone, Inserted
<1>10. SockOf[s] \in a.open
  BY <1>8 DEF f
<1>11. /\ Coherent(b) /\ b.open = a.open
       /\ \A d \in Event : b.flags[d] = IF d = ReadEv[s] THEN {"INSERTED"}
                                        ELSE base.flags[d]
  BY <1>4, <1>6, <1>8, <1>9, <1>10, AddReadCoherent
<1> HIDE DEF b
<1>12. Alone(WriteEv[s], Inserted(b))
  <2>1. \A d \in Inserted(b) : d # ReadEv[s] => FdOf[d] # f
    BY <1>7, <1>11 DEF Inserted
  <2> QED
    BY <1>5, <2>1 DEF Alone
<1>13. /\ Coherent(base') /\ base'.open = base.open \union {f}
       /\ \A d \in Event : base'.flags[d] = IF d = WriteEv[s] THEN {"INSERTED"}
                                            ELSE b.flags[d]
  BY <1>1, <1>4, <1>5, <1>6, <1>8, <1>10, <1>11, <1>12, AddWriteCoherent
<1>14. /\ \A d \in Event : d # ReadEv[s] /\ d # WriteEv[s] => base'.flags[d] = base.flags[d]
       /\ base'.flags[ReadEv[s]] = {"INSERTED"}
       /\ base'.flags[WriteEv[s]] = {"INSERTED"}
  BY <1>5, <1>11, <1>13
<1>15. \A t \in Session : /\ t # s => /\ base'.flags[ReadEv[t]] = base.flags[ReadEv[t]]
                                      /\ base'.flags[WriteEv[t]] = base.flags[WriteEv[t]]
                          /\ cur # ReadEv[t] /\ cur # WriteEv[t]
                          /\ cur' # ReadEv[t] /\ cur' # WriteEv[t]
  BY <1>1, <1>14, TheEvents, TheSessions
<1>16. Live' = Live \union {s} /\ \A t \in Session : t # s => obj'[t] = obj[t]
  BY <1>1 DEF Live, ServerInv, Types
<1>17. Types'
  <2>1. obj' \in [Session -> {"new", "live", "freed"}]
        /\ entry' \in [Fd -> Session \union {NoSession}]
    BY <1>1, <1>2 DEF ServerInv, Types
  <2> QED
    BY <1>1, <1>16, <2>1 DEF ServerInv, Types
<1>18. Events'
  <2>1. acceptEv \in Event
    BY TheEvents DEF ServerEvents
  <2> QED
    BY <1>1, <1>5, <1>14, <2>1 DEF ServerInv, Events
<1>19. Owners'
  <2>1. \A t \in Session : obj'[t] # "live" =>
          /\ base'.flags[ReadEv[t]] = {} /\ base'.flags[WriteEv[t]] = {}
          /\ cur' # ReadEv[t] /\ cur' # WriteEv[t]
    BY <1>15, <1>16 DEF ServerInv, Owners, Live
  <2>2. \A g \in Fd : entry'[g] = IF g = f THEN s ELSE entry[g]
    BY <1>1, <1>2 DEF ServerInv, Types
  <2>3. NoSession \notin Session /\ SockOf[s] = f
    BY ServerConstants DEF ServerAssumption, f
  <2>4. \A g \in Fd : entry'[g] # NoSession => entry'[g] \in Live' /\ SockOf[entry'[g]] = g
    BY <1>16, <2>2, <2>3 DEF ServerInv, Owners
  <2>5. \A t \in Live' : entry'[SockOf[t]] = t /\ SockOf[t] \in base'.open
    <3>1. ASSUME NEW t \in Live'
          PROVE entry'[SockOf[t]] = t /\ SockOf[t] \in base'.open
      <4>1. CASE t = s
        BY <1>2, <1>13, <2>2, <2>3, <4>1
      <4>2. CASE t # s
        <5>1. t \in Live /\ t \in Session
          BY <1>16, <4>2 DEF Live
        <5>2. entry[SockOf[t]] = t /\ SockOf[t] \in base.open /\ SockOf[t] \in Fd
          BY <5>1, TheSessions DEF ServerInv, Owners
        <5> QED
          BY <1>2, <1>13, <2>2, <5>2
      <4> QED BY <4>1, <4>2
    <3> QED BY <3>1
  <2>6. \A g \in base'.open \ {SignalFd, ListenFd} : entry'[g] # NoSession
    <3>1. base.open \subseteq Fd
      BY DEF ServerInv, Coherent, Sound, BaseState
    <3> QED
      BY <1>2, <1>13, <2>2, <2>3, <3>1 DEF ServerInv, Owners
  <2>7. SignalFd \in base'.open /\ (server' # "down" => ListenFd \in base'.open)
    BY <1>1, <1>13 DEF ServerInv, Owners
  <2> QED
    BY <2>1, <2>4, <2>5, <2>6, <2>7 DEF Owners
<1>20. FlagsTrue'
  <2>1. \A t \in Live :
          /\ t \in reading <=> base.flags[ReadEv[t]] # {} \/ cur = ReadEv[t]
          /\ t \in writing <=> base.flags[WriteEv[t]] # {} \/ cur = WriteEv[t]
    BY DEF ServerInv, FlagsTrue, Queued
  <2>2. ASSUME NEW t \in Live'
        PROVE  /\ t \in reading' <=> base'.flags[ReadEv[t]] # {} \/ cur' = ReadEv[t]
               /\ t \in writing' <=> base'.flags[WriteEv[t]] # {} \/ cur' = WriteEv[t]
    <3>1. CASE t = s
      BY <1>1, <1>14, <3>1
    <3>2. CASE t # s
      <4>1. t \in Live /\ t \in Session
        BY <1>16, <3>2 DEF Live
      <4> QED
        BY <1>1, <1>15, <2>1, <3>2, <4>1
    <3> QED BY <3>1, <3>2
  <2> QED
    BY <2>2 DEF FlagsTrue, Queued
<1> QED
  BY <1>13, <1>17, <1>18, <1>19, <1>20 DEF ServerInv

\* event_del, seen by the flags.
LEMMA DelReflags ==
    ASSUME NFiles \notin Fd, NEW b, Coherent(b), NEW e \in Event
    PROVE  /\ Coherent(EventDel(b, e)) /\ EventDel(b, e).open = b.open
           /\ \A d \in Event : EventDel(b, e).flags[d] = IF d = e THEN {} ELSE b.flags[d]
<1>1. b.flags \in [Event -> SUBSET Queues]
  BY DEF Coherent, Sound, BaseState
<1>2. /\ Coherent(EventDel(b, e)) /\ EventDel(b, e).open = b.open
      /\ EventDel(b, e).flags = [b.flags EXCEPT ![e] = {}]
  BY DelCoherent
<1> QED
  BY <1>1, <1>2

(***************************************************************************)
(* The end of onRead: whatever waits, the session's events leave every     *)
(* queue and the table before the session and its descriptor go.           *)
(***************************************************************************)
LEMMA DestroyCoherent ==
    ASSUME NFiles \notin Fd, NEW b, Coherent(b), NEW s \in Session
    PROVE  LET c == Destroy(b, s)
           IN  /\ Coherent(c) /\ c.open = b.open \ {SockOf[s]}
               /\ \A d \in Event : c.flags[d] = IF d \in {ReadEv[s], WriteEv[s]} THEN {}
                                                ELSE b.flags[d]
<1> DEFINE r == EventDel(b, ReadEv[s])
           w == EventDel(r, WriteEv[s])
           a == EventDel(w, ReadEv[s])
           z == IF s \in writing THEN EventDel(a, WriteEv[s]) ELSE a
<1>1. ReadEv[s] \in Event /\ WriteEv[s] \in Event /\ SockOf[s] \in Fd
  BY TheEvents, TheSessions
<1>2. /\ Coherent(r) /\ r.open = b.open
      /\ \A d \in Event : r.flags[d] = IF d = ReadEv[s] THEN {} ELSE b.flags[d]
  BY <1>1, DelReflags
<1> HIDE DEF r
<1>3. /\ Coherent(w) /\ w.open = b.open
      /\ \A d \in Event : w.flags[d] = IF d = WriteEv[s] THEN {} ELSE r.flags[d]
  BY <1>1, <1>2, DelReflags
<1> HIDE DEF w
<1>4. /\ Coherent(a) /\ a.open = b.open
      /\ \A d \in Event : a.flags[d] = IF d = ReadEv[s] THEN {} ELSE w.flags[d]
  BY <1>1, <1>3, DelReflags
<1> HIDE DEF a
<1>5. /\ Coherent(EventDel(a, WriteEv[s])) /\ EventDel(a, WriteEv[s]).open = b.open
      /\ \A d \in Event : EventDel(a, WriteEv[s]).flags[d]
                            = IF d = WriteEv[s] THEN {} ELSE a.flags[d]
  BY <1>1, <1>4, DelReflags
<1>6. /\ Coherent(z) /\ z.open = b.open
      /\ \A d \in Event : z.flags[d] = IF d \in {ReadEv[s], WriteEv[s]} THEN {}
                                       ELSE b.flags[d]
  <2>1. CASE s \in writing
    BY <1>2, <1>3, <1>4, <1>5, <2>1
  <2>2. CASE s \notin writing
    BY <1>2, <1>3, <1>4, <2>2
  <2> QED BY <2>1, <2>2
<1>7. Destroy(b, s) = CloseFd(z, SockOf[s])
  BY DEF Destroy, z, a, w, r
<1> HIDE DEF z
<1>8. /\ Coherent(CloseFd(z, SockOf[s])) /\ CloseFd(z, SockOf[s]).flags = z.flags
      /\ CloseFd(z, SockOf[s]).open = z.open \ {SockOf[s]}
  BY <1>1, <1>6, CloseCoherent
<1> QED
  BY <1>6, <1>7, <1>8

LEMMA EndsKeep ==
    ASSUME NFiles \notin Fd, ServerInv, NEW s \in Session, ReadEnds(s)
    PROVE  ServerInv'
<1> DEFINE f == SockOf[s]
<1>1. /\ cur = ReadEv[s] /\ cur' = NoEvent /\ pc' # "call" /\ server' = server
      /\ obj' = [obj EXCEPT ![s] = "freed"]
      /\ entry' = [entry EXCEPT ![f] = NoSession]
      /\ base' = Destroy(base, s)
      /\ reading' = reading \ {s} /\ writing' = writing \ {s} /\ task' = task \ {s}
  BY DEF ReadEnds, Callback, GetAndRemove, Forget
<1>2. f \in Fd /\ f # SignalFd /\ f # ListenFd
  BY TheSessions
<1>3. s \in Live
  BY <1>1 DEF ServerInv, Owners, Types, Live
<1>4. /\ Coherent(base') /\ base'.open = base.open \ {f}
      /\ \A d \in Event : base'.flags[d] = IF d \in {ReadEv[s], WriteEv[s]} THEN {}
                                           ELSE base.flags[d]
  BY <1>1, DestroyCoherent DEF ServerInv
<1>5. \A t \in Session : /\ t # s => /\ base'.flags[ReadEv[t]] = base.flags[ReadEv[t]]
                                     /\ base'.flags[WriteEv[t]] = base.flags[WriteEv[t]]
                                     /\ cur # ReadEv[t] /\ cur # WriteEv[t]
                         /\ cur' # ReadEv[t] /\ cur' # WriteEv[t]
  BY <1>1, <1>4, TheEvents, TheSessions
<1>6. base'.flags[ReadEv[s]] = {} /\ base'.flags[WriteEv[s]] = {}
  BY <1>4, TheEvents, TheSessions
<1>7. Live' = Live \ {s} /\ \A t \in Session : t # s => obj'[t] = obj[t]
  BY <1>1 DEF Live, ServerInv, Types
<1> HIDE DEF f
<1>8. \A g \in Fd : entry'[g] = IF g = f THEN NoSession ELSE entry[g]
  BY <1>1, <1>2 DEF ServerInv, Types
<1>9. Types'
  <2>1. obj' \in [Session -> {"new", "live", "freed"}]
        /\ entry' \in [Fd -> Session \union {NoSession}]
    BY <1>1, <1>2 DEF ServerInv, Types
  <2> QED
    BY <1>1, <1>7, <2>1 DEF ServerInv, Types
<1>10. Events'
  <2>1. acceptEv \in Event /\ acceptEv \notin {ReadEv[s], WriteEv[s]}
    BY TheEvents, TheSessions DEF ServerEvents
  <2> QED
    BY <1>1, <1>4, <2>1 DEF ServerInv, Events
<1>11. Owners'
  <2>1. \A t \in Session : obj'[t] # "live" =>
          /\ base'.flags[ReadEv[t]] = {} /\ base'.flags[WriteEv[t]] = {}
          /\ cur' # ReadEv[t] /\ cur' # WriteEv[t]
    BY <1>5, <1>6, <1>7 DEF ServerInv, Owners, Live
  <2>2. SockOf[s] = f
    BY DEF f
  <2>3. \A g \in Fd : entry'[g] # NoSession => entry'[g] \in Live' /\ SockOf[entry'[g]] = g
    BY <1>7, <1>8, <2>2 DEF ServerInv, Owners
  <2>4. \A t \in Live' : entry'[SockOf[t]] = t /\ SockOf[t] \in base'.open
    <3>1. ASSUME NEW t \in Live'
          PROVE entry'[SockOf[t]] = t /\ SockOf[t] \in base'.open
      <4>1. t \in Live /\ t \in Session /\ t # s
        BY <1>7 DEF Live
      <4>2. entry[SockOf[t]] = t /\ SockOf[t] \in base.open /\ SockOf[t] \in Fd
            /\ entry[f] = s
        BY <1>3, <2>2, <4>1, TheSessions DEF ServerInv, Owners
      <4> QED
        BY <1>4, <1>8, <4>1, <4>2
    <3> QED BY <3>1
  <2>5. \A g \in base'.open \ {SignalFd, ListenFd} : entry'[g] # NoSession
    <3>1. base.open \subseteq Fd
      BY DEF ServerInv, Coherent, Sound, BaseState
    <3> QED
      BY <1>4, <1>8, <3>1 DEF ServerInv, Owners
  <2>6. SignalFd \in base'.open /\ (server' # "down" => ListenFd \in base'.open)
    BY <1>1, <1>2, <1>4 DEF ServerInv, Owners
  <2> QED
    BY <2>1, <2>3, <2>4, <2>5, <2>6 DEF Owners
<1>12. FlagsTrue'
  <2>1. \A t \in Live :
          /\ t \in reading <=> base.flags[ReadEv[t]] # {} \/ cur = ReadEv[t]
          /\ t \in writing <=> base.flags[WriteEv[t]] # {} \/ cur = WriteEv[t]
    BY DEF ServerInv, FlagsTrue, Queued
  <2>2. ASSUME NEW t \in Live'
        PROVE  /\ t \in reading' <=> base'.flags[ReadEv[t]] # {} \/ cur' = ReadEv[t]
               /\ t \in writing' <=> base'.flags[WriteEv[t]] # {} \/ cur' = WriteEv[t]
    <3>1. t \in Live /\ t \in Session /\ t # s
      BY <1>7 DEF Live
    <3> QED
      BY <1>1, <1>5, <2>1, <3>1
  <2> QED
    BY <2>2 DEF FlagsTrue, Queued
<1> QED
  BY <1>4, <1>9, <1>10, <1>11, <1>12 DEF ServerInv
\* onRead, whatever it finds.
LEMMA ReadingKeeps ==
    ASSUME ServerInv, NEW s \in Session,
           ReadFails(s) \/ ReadMore(s) \/ ReadLogin(s) \/ ReadStart(s)
    PROVE  ServerInv'
<1> DEFINE W(wr) == IF wr = writing THEN {s} ELSE writing
<1>1. AddWrite(base, s, {s}) = base
  BY DEF AddWrite
<1>2. CASE ReadFails(s) \/ ReadMore(s) \/ ReadLogin(s)
  <2>1. /\ Callback(ReadEv[s]) /\ ReadOn(s, base, writing)
        /\ task' \subseteq task \union {s} /\ UNCHANGED <<obj, entry>>
    BY <1>2 DEF ReadFails, ReadMore, ReadLogin, tableVars
  <2>2. AddWrite(base, s, W(writing)) = base
    BY <1>1
  <2>3. ReadOn(s, AddWrite(base, s, W(writing)), writing)
    BY <2>1, <2>2
  <2> QED
    BY <2>1, <2>3, ReadsKeep
<1>3. CASE ReadStart(s)
  <2> DEFINE wr == writing \union {s}
  <2>1. /\ Callback(ReadEv[s]) /\ ReadOn(s, AddWrite(base, s, writing), wr)
        /\ task' \subseteq task \union {s} /\ UNCHANGED <<obj, entry>>
    BY <1>3 DEF ReadStart, tableVars
  <2>2. AddWrite(base, s, W(wr)) = AddWrite(base, s, writing)
    BY DEF AddWrite
  <2>3. ReadOn(s, AddWrite(base, s, W(wr)), wr)
    BY <2>1, <2>2
  <2> HIDE DEF wr
  <2>4. wr \in {writing, writing \union {s}}
    BY DEF wr
  <2> QED
    BY <2>1, <2>3, <2>4, ReadsKeep
<1> QED
  BY <1>2, <1>3

\* The peers touch nothing of the server's.
LEMMA PeersKeep ==
    ASSUME ServerInv, PeerStep
    PROVE  ServerInv'
<1>1. UNCHANGED <<base, pc, cur, server, obj, reading, writing, task, entry>>
  BY DEF PeerStep, objVars, tableVars
<1> QED
  BY <1>1, QuietKeeps DEF ServerInv

\* ServerInv is inductive.
LEMMA ServerInit == ASSUME NFiles \notin Fd PROVE Init => ServerInv
<1> SUFFICES ASSUME Init PROVE ServerInv
  OBVIOUS
<1> DEFINE O == {SignalFd, ListenFd}
<1>1. O \in SUBSET Fd
  BY TheEvents DEF ServerEvents
<1> HIDE DEF O
<1>2. PICK b \in EmptyBase : base = [b EXCEPT !.open = O]
  BY DEF Init, O
<1>3. /\ Coherent(base) /\ base.open = O /\ base.flags = [e \in Event |-> {}]
  BY <1>1, <1>2, EmptyBaseCoherent
<1>4. /\ pc = "top" /\ cur = NoEvent /\ server = "new"
      /\ obj = [s \in Session |-> "new"]
      /\ reading = {} /\ writing = {} /\ task = {}
      /\ entry = [f \in Fd |-> NoSession]
  BY DEF Init
<1>5. Live = {}
  BY <1>4 DEF Live
<1>6. Types
  BY <1>4 DEF Types
<1>7. Events
  BY <1>3, <1>4, TheEvents DEF Events, ServerEvents
<1>8. Owners
  BY <1>3, <1>4, <1>5, TheEvents, TheSessions DEF Owners, O
<1>9. FlagsTrue
  BY <1>5 DEF FlagsTrue
<1> QED
  BY <1>3, <1>6, <1>7, <1>8, <1>9 DEF ServerInv

LEMMA ServerNext ==
    ASSUME NFiles \notin Fd PROVE ServerInv /\ [Next]_vars => ServerInv'
<1> SUFFICES ASSUME ServerInv, [Next]_vars PROVE ServerInv'
  OBVIOUS
<1>1. CASE UNCHANGED vars
  BY <1>1, QuietKeeps DEF vars, objVars, tableVars, ServerInv
<1>2. CASE LoopStep
  BY <1>2, LoopKeeps
<1>3. CASE Callbacks
  <2>1. CASE AcceptFails
    BY <2>1, AcceptFailsKeeps
  <2>2. ASSUME NEW s \in Session, Accepts(s) PROVE ServerInv'
    BY <2>2, AcceptsKeeps
  <2>3. ASSUME NEW s \in Session,
               ReadFails(s) \/ ReadMore(s) \/ ReadLogin(s) \/ ReadStart(s)
        PROVE  ServerInv'
    BY <2>3, ReadingKeeps
  <2>4. ASSUME NEW s \in Session, ReadEnds(s) PROVE ServerInv'
    BY <2>4, EndsKeep
  <2>5. ASSUME NEW s \in Session, OnWrite(s) PROVE ServerInv'
    BY <2>5, WritesKeep DEF OnWrite
  <2> QED
    BY <1>3, <2>1, <2>2, <2>3, <2>4, <2>5 DEF Callbacks
<1>4. CASE RegisterEvent \/ Shutdown
  BY <1>4, MainKeeps
<1>5. CASE Peers
  <2>1. PeerStep
    BY <1>5 DEF Peers, PeerConnects, PeerSends, PeerReads, PeerCloses, PeerResets
  <2> QED
    BY <2>1, PeersKeep
<1> QED
  BY <1>1, <1>2, <1>3, <1>4, <1>5 DEF Next, LoopThread

\* ServerInv, the inductive invariant, holds in every reachable state.
THEOREM ServerInvariance == ASSUME NFiles \notin Fd PROVE Spec => []ServerInv
<1>1. Init => ServerInv
  BY ServerInit
<1>2. ServerInv /\ [Next]_vars => ServerInv'
  BY ServerNext
<1> QED
  BY <1>1, <1>2, PTL DEF Spec

\* No queue, table entry or call in progress leads to a session that was
\* freed, nor to the accept event after shutdown (Session.cpp:340-403).
THEOREM FreedNotReached == ASSUME NFiles \notin Fd PROVE Spec => []NoUseAfterFree
<1>1. ServerInv => NoUseAfterFree
  <2> SUFFICES ASSUME ServerInv PROVE NoUseAfterFree
    OBVIOUS
  <2>1. ASSUME NEW e \in Event, base.flags[e] = {} PROVE ~Queued(e) /\ ~InTable(e)
    <3>1. \A f \in Fd : base.evread[f] # e /\ base.evwrite[f] # e
      BY <2>1 DEF ServerInv, Coherent, TableOf, Inserted
    <3> QED
      BY <2>1, <3>1 DEF Queued, InTable
  <2>2. ASSUME NEW s \in Session, obj[s] # "live", NEW e \in {ReadEv[s], WriteEv[s]}
        PROVE  ~Queued(e) /\ ~InTable(e) /\ cur # e
    <3>1. e \in Event /\ base.flags[e] = {} /\ cur # e
      BY <2>2, TheEvents, TheSessions DEF ServerInv, Owners
    <3> QED
      BY <2>1, <3>1
  <2>3. server = "down" => ~Queued(acceptEv) /\ ~InTable(acceptEv)
    BY <2>1, TheEvents DEF ServerEvents, ServerInv, Events
  <2> QED
    BY <2>2, <2>3 DEF NoUseAfterFree
<1> QED
  BY <1>1, ServerInvariance, PTL

\* mReading and mWriting tell the truth (Session.cpp:254-294, 340-403).
THEOREM FlagsCorrect == ASSUME NFiles \notin Fd PROVE Spec => []FlagsTrue
<1>1. ServerInv => FlagsTrue
  BY DEF ServerInv
<1> QED
  BY <1>1, ServerInvariance, PTL

\* The server's own use of the loop keeps its counters and its table.
THEOREM BaseCorrect == ASSUME NFiles \notin Fd PROVE Spec => []BaseTrue
<1>1. ServerInv => BaseTrue
  BY CoherentTable DEF ServerInv, Coherent, Sound, BaseTrue
<1> QED
  BY <1>1, ServerInvariance, PTL
-----------------------------------------------------------------------------
(***************************************************************************)
(* The numbers: nth counts the sessions a descriptor had before, so that a *)
(* live session's is the number of those that have ended on it and a freed *)
(* one's is smaller; a session's sequence number, and its entry's, is that *)
(* modulo SeqWrap.                                                         *)
(***************************************************************************)
Ended(f) == {s \in Session : obj[s] = "freed" /\ SockOf[s] = f}
Before(f) == Cardinality(Ended(f))

Ordinals ==
    /\ nth \in [Session -> Nat]
    /\ \A s \in Session : /\ obj[s] = "live" => nth[s] = Before(SockOf[s])
                          /\ obj[s] = "freed" => nth[s] < Before(SockOf[s])
    /\ \A s, t \in Session :
         s # t /\ obj[s] # "new" /\ obj[t] # "new" =>
           <<SockOf[s], nth[s]>> # <<SockOf[t], nth[t]>>

Numbers ==
    /\ seq \in [Session -> Nat] /\ mSeq \in [Fd -> Nat]
    /\ \A s \in Session : obj[s] # "new" => seq[s] = nth[s] % SeqWrap
    /\ \A f \in Fd : mSeq[f] = Before(f) % SeqWrap
    /\ mCount = Cardinality(Live)

NetTypes ==
    /\ left \in [Session -> 0 .. MaxChunks] /\ ended \subseteq Session
    /\ backlog \in Nat /\ connects \in 0 .. MaxConnects /\ sent \in 0 .. MaxTokens
    /\ peer \in [Fd -> {"none", "open", "fin", "reset", "dead"}]
    /\ inq \in [Fd -> Seq(Token)]
    /\ room \subseteq Fd

NumbersInv == ServerInv /\ Ordinals /\ Numbers /\ NetTypes

LEMMA FiniteSessions ==
    ASSUME NEW S \in SUBSET Session
    PROVE  IsFiniteSet(S) /\ Cardinality(S) \in Nat
<1>1. IsFiniteSet(Session)
  BY ServerConstants DEF ServerAssumption
<1> QED
  BY <1>1, FS_Subset, FS_CardinalityType

\* What leaves the sessions and the table alone leaves the numbers alone.
LEMMA NumbersKept ==
    ASSUME Ordinals, Numbers, UNCHANGED <<obj, seq, mSeq, mCount, nth>>
    PROVE  Ordinals' /\ Numbers'
<1>1. Live' = Live /\ \A f \in Fd : Before(f)' = Before(f)
  BY DEF Live, Before, Ended
<1>2. \A s \in Session : SockOf[s] \in Fd
  BY TheSessions
<1> QED
  BY <1>1, <1>2 DEF Ordinals, Numbers

\* Remainders: two numbers with the same one are SeqWrap apart at least, and
\* counting on commutes with taking it.
LEMMA Quotient ==
    ASSUME NEW a \in Nat, NEW M \in Nat \ {0}
    PROVE  a = M * (a \div M) + (a % M) /\ a \div M \in Nat /\ a % M \in 0 .. M - 1
OBVIOUS

LEMMA SameRemainder ==
    ASSUME NEW a \in Nat, NEW b \in Nat, NEW M \in Nat \ {0}, a < b, a % M = b % M
    PROVE  a + M <= b
<1> DEFINE p == a \div M
           q == b \div M
<1>1. a = M * p + (a % M) /\ p \in Nat /\ b = M * q + (b % M) /\ q \in Nat
  BY Quotient
<1> HIDE DEF p, q
<1>2. b - a = M * q - M * p
  BY <1>1
<1>3. q > p
  <2>1. CASE q <= p
    <3>1. M * q <= M * p /\ M * p \in Int /\ M * q \in Int
      BY <1>1, <2>1
    <3>2. b - a <= 0
      BY <3>1, <1>2
    <3> QED BY <3>2
  <2> QED BY <2>1, <1>1
<1>4. PICK d \in Nat : q = p + 1 + d
  <2>1. q - p - 1 \in Nat /\ q = p + 1 + (q - p - 1)
    BY <1>1, <1>3
  <2> QED BY <2>1
<1>5. M * q = M * p + M + M * d /\ M * d \in Nat
  BY <1>1, <1>4
<1> QED
  BY <1>1, <1>2, <1>5

LEMMA NextRemainder ==
    ASSUME NEW a \in Nat, NEW M \in Nat \ {0}
    PROVE  ((a % M) + 1) % M = (a + 1) % M
<1> DEFINE p == a \div M
           r == a % M
<1>1. a = M * p + r /\ p \in Nat /\ r \in 0 .. M - 1
  BY Quotient
<1> HIDE DEF p, r
<1>2. a + 1 = M * p + (r + 1)
  BY <1>1
<1>3. (M * p + (r + 1)) % M = (r + 1) % M
  BY <1>1
<1> QED
  BY <1>2, <1>3 DEF r

\* Put gives a session the number of its entry, and the place after every
\* earlier one of the descriptor.
LEMMA AcceptNumbers ==
    ASSUME NumbersInv, NEW s \in Session, Accepts(s)
    PROVE  Ordinals' /\ Numbers'
<1> DEFINE f == SockOf[s]
<1>1. /\ obj[s] = "new" /\ obj' = [obj EXCEPT ![s] = "live"] /\ f \notin base.open
      /\ seq' = [seq EXCEPT ![s] = mSeq[f]] /\ mSeq' = mSeq /\ mCount' = mCount + 1
      /\ nth' = [nth EXCEPT ![s] =
                   Cardinality({t \in Session : SockOf[t] = f /\ obj[t] # "new"})]
  BY DEF Accepts, Put, Callback, FreeFds
<1>2. f \in Fd /\ \A t \in Session : SockOf[t] \in Fd
  BY TheSessions
<1>3. \A t \in Session : obj[t] = "live" => SockOf[t] # f
  BY <1>1 DEF NumbersInv, ServerInv, Owners, Live
<1>4. /\ \A t \in Session : obj[t] \in {"new", "live", "freed"}
      /\ \A t \in Session : obj'[t] = IF t = s THEN "live" ELSE obj[t]
  BY <1>1 DEF NumbersInv, ServerInv, Types
<1>5. Before(f) \in Nat /\ \A g \in Fd : Before(g)' = Before(g)
  <2>1. Ended(f) \in SUBSET Session /\ \A g \in Fd : Ended(g)' = Ended(g)
    BY <1>1, <1>4 DEF Ended
  <2> QED
    BY <2>1, FiniteSessions DEF Before
<1>6. nth' = [nth EXCEPT ![s] = Before(f)]
  <2>1. {t \in Session : SockOf[t] = f /\ obj[t] # "new"} = Ended(f)
    BY <1>3, <1>4 DEF Ended
  <2> QED
    BY <1>1, <2>1 DEF Before
<1> HIDE DEF f
<1>7. \A t \in Session : /\ nth'[t] = IF t = s THEN Before(f) ELSE nth[t]
                         /\ seq'[t] = IF t = s THEN mSeq[f] ELSE seq[t]
  BY <1>1, <1>6 DEF NumbersInv, Ordinals, Numbers
<1>8. Ordinals'
  <2>1. nth' \in [Session -> Nat]
    BY <1>5, <1>6 DEF NumbersInv, Ordinals
  <2>2. ASSUME NEW t \in Session
        PROVE  /\ obj'[t] = "live" => nth'[t] = Before(SockOf[t])'
               /\ obj'[t] = "freed" => nth'[t] < Before(SockOf[t])'
    BY <1>1, <1>2, <1>4, <1>5, <1>7 DEF NumbersInv, Ordinals, f
  <2>3. ASSUME NEW t \in Session, t # s, obj[t] # "new", SockOf[t] = f
        PROVE  nth[t] # Before(f)
    BY <1>2, <1>3, <1>4, <1>5, <2>3 DEF NumbersInv, Ordinals
  <2>4. ASSUME NEW t \in Session, NEW u \in Session, t # u,
               obj'[t] # "new", obj'[u] # "new",
               SockOf[t] = SockOf[u], nth'[t] = nth'[u]
        PROVE  FALSE
    <3>1. CASE t = s \/ u = s
      BY <1>4, <1>7, <2>3, <2>4, <3>1 DEF f
    <3>2. CASE t # s /\ u # s
      BY <1>4, <1>7, <2>4, <3>2 DEF NumbersInv, Ordinals
    <3> QED BY <3>1, <3>2
  <2> QED
    BY <2>1, <2>2, <2>4 DEF Ordinals
<1>9. mCount' = Cardinality(Live')
  <2>1. Live' = Live \union {s} /\ s \notin Live /\ Live \in SUBSET Session
    BY <1>1, <1>4 DEF Live
  <2> QED
    BY <1>1, <2>1, FiniteSessions, FS_AddElement DEF NumbersInv, Numbers
<1>10. Numbers'
  <2>1. seq' \in [Session -> Nat] /\ mSeq' \in [Fd -> Nat]
    BY <1>1, <1>2 DEF NumbersInv, Numbers, f
  <2>2. ASSUME NEW t \in Session, obj'[t] # "new"
        PROVE  seq'[t] = nth'[t] % SeqWrap
    BY <1>2, <1>4, <1>7, <2>2 DEF NumbersInv, Numbers
  <2>3. \A g \in Fd : mSeq'[g] = Before(g)' % SeqWrap
    BY <1>1, <1>5 DEF NumbersInv, Numbers
  <2> QED
    BY <1>9, <2>1, <2>2, <2>3 DEF Numbers
<1> QED
  BY <1>8, <1>10

\* Removing advances the entry's number to that of the place after the
\* session that ends.
LEMMA EndNumbers ==
    ASSUME NumbersInv, NEW s \in Session, ReadEnds(s)
    PROVE  Ordinals' /\ Numbers'
<1> DEFINE f == SockOf[s]
<1>1. /\ cur = ReadEv[s] /\ obj' = [obj EXCEPT ![s] = "freed"]
      /\ mSeq' = [mSeq EXCEPT ![f] = (@ + 1) % SeqWrap] /\ mCount' = mCount - 1
      /\ UNCHANGED <<seq, nth>>
  BY DEF ReadEnds, Forget, GetAndRemove, Callback
<1>2. f \in Fd /\ (\A t \in Session : SockOf[t] \in Fd) /\ SeqWrap \in Nat \ {0}
  BY TheSessions, ServerConstants DEF ServerAssumption
<1>3. obj[s] = "live" /\ s \in Live
  BY <1>1 DEF NumbersInv, ServerInv, Owners, Types, Live
<1>4. \A t \in Session : obj[t] = "live" /\ t # s => SockOf[t] # f
  BY <1>3 DEF NumbersInv, ServerInv, Owners, Live
<1>5. /\ \A t \in Session : obj'[t] = IF t = s THEN "freed" ELSE obj[t]
      /\ \A t \in Session : obj[t] \in {"new", "live", "freed"}
  BY <1>1 DEF NumbersInv, ServerInv, Types
<1>6. ASSUME NEW g \in Fd
      PROVE  Before(g) \in Nat /\ Before(g)' = IF g = f THEN Before(g) + 1 ELSE Before(g)
  <2>1. Ended(g) \in SUBSET Session
    BY DEF Ended
  <2>2. CASE g = f
    <3>1. Ended(g)' = Ended(g) \union {s} /\ s \notin Ended(g)
      BY <1>3, <1>5, <2>2 DEF Ended
    <3> QED
      BY <2>1, <2>2, <3>1, FiniteSessions, FS_AddElement DEF Before
  <2>3. CASE g # f
    <3>1. Ended(g)' = Ended(g)
      BY <1>3, <1>5, <2>3 DEF Ended
    <3> QED
      BY <2>1, <2>3, <3>1, FiniteSessions DEF Before
  <2> QED BY <2>2, <2>3
<1>7. Ordinals'
  <2>1. ASSUME NEW t \in Session
        PROVE  /\ obj'[t] = "live" => nth[t] = Before(SockOf[t])'
               /\ obj'[t] = "freed" => nth[t] < Before(SockOf[t])'
    <3>1. nth[t] \in Nat /\ SockOf[t] \in Fd
          /\ (obj[t] = "live" => nth[t] = Before(SockOf[t]))
          /\ (obj[t] = "freed" => nth[t] < Before(SockOf[t]))
      BY <1>2 DEF NumbersInv, Ordinals
    <3>2. CASE t = s
      BY <1>2, <1>3, <1>5, <1>6, <3>1, <3>2
    <3>3. CASE t # s
      BY <1>4, <1>5, <1>6, <3>1, <3>3
    <3> QED BY <3>2, <3>3
  <2>2. \A t, u \in Session :
          t # u /\ obj'[t] # "new" /\ obj'[u] # "new" =>
            <<SockOf[t], nth[t]>> # <<SockOf[u], nth[u]>>
    BY <1>3, <1>5 DEF NumbersInv, Ordinals
  <2> QED
    BY <1>1, <2>1, <2>2 DEF NumbersInv, Ordinals
<1>8. mCount' = Cardinality(Live')
  <2>1. Live' = Live \ {s} /\ Live \in SUBSET Session
    BY <1>3, <1>5 DEF Live
  <2> QED
    BY <1>1, <1>3, <2>1, FiniteSessions, FS_RemoveElement DEF NumbersInv, Numbers
<1>9. ASSUME NEW g \in Fd PROVE mSeq'[g] = Before(g)' % SeqWrap
  <2>1. mSeq[g] = Before(g) % SeqWrap
    BY DEF NumbersInv, Numbers
  <2>2. CASE g = f
    <3>1. mSeq'[g] = ((Before(g) % SeqWrap) + 1) % SeqWrap
      BY <1>1, <2>1, <2>2 DEF NumbersInv, Numbers
    <3> QED
      BY <1>2, <1>6, <2>2, <3>1, NextRemainder
  <2>3. CASE g # f
    BY <1>1, <1>6, <2>1, <2>3 DEF NumbersInv, Numbers
  <2> QED BY <2>2, <2>3
<1>10. mSeq' \in [Fd -> Nat]
  <2>1. mSeq[f] \in Nat
    BY <1>2 DEF NumbersInv, Numbers
  <2>2. (mSeq[f] + 1) % SeqWrap \in Nat
    BY <1>2, <2>1
  <2> QED
    BY <1>1, <2>2 DEF NumbersInv, Numbers
<1>11. \A t \in Session : obj'[t] # "new" => seq[t] = nth[t] % SeqWrap
  BY <1>3, <1>5 DEF NumbersInv, Numbers
<1>12. Numbers'
  BY <1>1, <1>8, <1>9, <1>10, <1>11 DEF NumbersInv, Numbers
<1> QED
  BY <1>7, <1>12

\* The connections keep their types.
LEMMA TypesOfCallbacks ==
    ASSUME NetTypes, Callbacks
    PROVE  NetTypes'
<1> USE DEF NetTypes
<1>1. CASE AcceptFails
  BY <1>1 DEF AcceptFails, Callback
<1>2. ASSUME NEW s \in Session, Accepts(s) PROVE NetTypes'
  <2>1. SockOf[s] \in Fd
    BY TheSessions
  <2>2. /\ backlog > 0 /\ backlog' = backlog - 1
        /\ peer' = [peer EXCEPT ![SockOf[s]] = "open"]
        /\ inq' = [inq EXCEPT ![SockOf[s]] = << >>]
        /\ room' = room \union {SockOf[s]}
        /\ UNCHANGED <<left, ended, connects, sent>>
    BY <1>2 DEF Accepts, Callback
  <2> QED
    BY <2>1, <2>2
<1>3. ASSUME NEW f \in Fd, Take(f), inq[f] # << >>
      PROVE  inq' \in [Fd -> Seq(Token)]
  <2>1. Tail(inq[f]) \in Seq(Token)
    BY <1>3
  <2> QED
    BY <1>3, <2>1 DEF Take
<1>4. ASSUME NEW s \in Session,
             ReadFails(s) \/ ReadMore(s) \/ ReadLogin(s) \/ ReadStart(s)
      PROVE  NetTypes'
  <2>1. SockOf[s] \in Fd
    BY TheSessions
  <2>2. CASE ReadFails(s)
    <3>1. peer' \in [Fd -> {"none", "open", "fin", "reset", "dead"}]
      BY <2>1, <2>2 DEF ReadFails
    <3> QED
      BY <2>2, <3>1 DEF ReadFails, Callback
  <2>3. CASE ReadMore(s)
    <3>1. inq' \in [Fd -> Seq(Token)]
      BY <1>3, <2>1, <2>3 DEF ReadMore, NextToken
    <3> QED
      BY <2>3, <3>1 DEF ReadMore, Callback
  <2>4. CASE ReadLogin(s)
    <3>1. inq' \in [Fd -> Seq(Token)]
      BY <1>3, <2>1, <2>4 DEF ReadLogin, NextToken
    <3>2. left' \in [Session -> 0 .. MaxChunks]
      BY <2>4 DEF ReadLogin
    <3>3. room' \subseteq Fd
      BY <2>4 DEF ReadLogin, Sends
    <3> QED
      BY <2>4, <3>1, <3>2, <3>3 DEF ReadLogin, Callback
  <2>5. CASE ReadStart(s)
    <3>1. inq' \in [Fd -> Seq(Token)]
      BY <1>3, <2>1, <2>5 DEF ReadStart, NextToken
    <3> QED
      BY <2>5, <3>1 DEF ReadStart, Callback
  <2> QED BY <1>4, <2>2, <2>3, <2>4, <2>5
<1>5. ASSUME NEW s \in Session, ReadEnds(s) PROVE NetTypes'
  <2>1. SockOf[s] \in Fd
    BY TheSessions
  <2>2. /\ peer' = [peer EXCEPT ![SockOf[s]] = "none"]
        /\ inq' = [inq EXCEPT ![SockOf[s]] = << >>]
        /\ room' = room \ {SockOf[s]}
        /\ UNCHANGED <<left, ended, backlog, connects, sent>>
    BY <1>5 DEF ReadEnds, Callback
  <2> QED
    BY <2>1, <2>2
<1>6. ASSUME NEW s \in Session, NEW result, WriteWith(s, result) PROVE NetTypes'
  <2>1. /\ result \in WriteResult(s)
        /\ left' = IF result = "positive" THEN [left EXCEPT ![s] = @ - 1] ELSE left
        /\ ended' \in {ended, ended \union {s}}
        /\ UNCHANGED <<backlog, connects, sent, peer, inq>>
    BY <1>6 DEF WriteWith, Callback
  <2>2. room' \subseteq Fd
    BY <1>6 DEF WriteWith, Sends
  <2>3. result = "positive" => left[s] # 0
    BY <2>1 DEF WriteResult
  <2>4. left' \in [Session -> 0 .. MaxChunks]
    BY <2>1, <2>3, ServerConstants DEF ServerAssumption
  <2> QED
    BY <2>1, <2>2, <2>4
<1> QED
  BY <1>1, <1>2, <1>4, <1>5, <1>6 DEF Callbacks, OnWrite

LEMMA TypesOfOthers ==
    ASSUME NetTypes, RegisterEvent \/ Shutdown \/ Peers
    PROVE  NetTypes'
<1> USE DEF NetTypes
<1>1. CASE RegisterEvent \/ Shutdown
  BY <1>1 DEF RegisterEvent, Shutdown, MainStep
<1>2. CASE PeerConnects
  BY <1>2, ServerConstants
     DEF PeerConnects, PeerStep, objVars, ServerAssumption
<1>3. ASSUME NEW f \in Fd, NEW tok \in Token, PeerSends(f, tok) PROVE NetTypes'
  <2>1. Append(inq[f], tok) \in Seq(Token)
    OBVIOUS
  <2>2. inq' \in [Fd -> Seq(Token)]
    BY <1>3, <2>1 DEF PeerSends
  <2> QED
    BY <1>3, <2>2, ServerConstants DEF PeerSends, PeerStep, objVars, ServerAssumption
<1>4. ASSUME NEW f \in Fd, PeerReads(f) \/ PeerCloses(f) \/ PeerResets(f)
      PROVE  NetTypes'
  <2>1. UNCHANGED <<left, ended, backlog, connects, sent>>
    BY <1>4 DEF PeerReads, PeerCloses, PeerResets, PeerStep, objVars
  <2>2. CASE PeerReads(f)
    BY <2>1, <2>2 DEF PeerReads
  <2>3. CASE PeerCloses(f)
    <3>1. peer' \in [Fd -> {"none", "open", "fin", "reset", "dead"}]
      BY <2>3 DEF PeerCloses
    <3> QED
      BY <2>1, <2>3, <3>1 DEF PeerCloses
  <2>4. CASE PeerResets(f)
    <3>1. peer' \in [Fd -> {"none", "open", "fin", "reset", "dead"}]
      BY <2>4 DEF PeerResets
    <3>2. inq' \in [Fd -> Seq(Token)]
      BY <2>4 DEF PeerResets
    <3> QED
      BY <2>1, <2>4, <3>1, <3>2 DEF PeerResets
  <2> QED
    BY <1>4, <2>2, <2>3, <2>4
<1> QED
  BY <1>1, <1>2, <1>3, <1>4 DEF Peers

LEMMA NumbersInit == ASSUME NFiles \notin Fd PROVE Init => NumbersInv
<1> SUFFICES ASSUME Init PROVE NumbersInv
  OBVIOUS
<1>1. ServerInv
  BY ServerInit
<1>2. /\ obj = [s \in Session |-> "new"] /\ left = [s \in Session |-> 0]
      /\ seq = [s \in Session |-> 0] /\ mSeq = [f \in Fd |-> 0] /\ mCount = 0
      /\ nth = [s \in Session |-> 0]
      /\ backlog = 0 /\ connects = 0 /\ ended = {} /\ sent = 0 /\ room = {}
      /\ peer = [f \in Fd |-> "none"] /\ inq = [f \in Fd |-> << >>]
  BY DEF Init
<1>3. Live = {} /\ \A f \in Fd : Before(f) = 0
  <2>1. Live = {} /\ \A f \in Fd : Ended(f) = {}
    BY <1>2 DEF Live, Ended
  <2> QED
    BY <2>1, FS_EmptySet DEF Before
<1>4. Ordinals /\ Numbers
  <2>1. SeqWrap \in Nat \ {0} /\ 0 % SeqWrap = 0
    BY ServerConstants DEF ServerAssumption
  <2> QED
    BY <1>2, <1>3, <2>1, FS_EmptySet DEF Ordinals, Numbers
<1>5. NetTypes
  BY <1>2, ServerConstants DEF NetTypes, ServerAssumption
<1> QED
  BY <1>1, <1>4, <1>5 DEF NumbersInv

LEMMA NumbersNext ==
    ASSUME NFiles \notin Fd PROVE NumbersInv /\ [Next]_vars => NumbersInv'
<1> SUFFICES ASSUME NumbersInv, [Next]_vars PROVE NumbersInv'
  OBVIOUS
<1>1. ServerInv'
  BY ServerNext DEF NumbersInv
<1>2. Ordinals /\ Numbers /\ NetTypes
  BY DEF NumbersInv
<1>3. CASE UNCHANGED vars \/ LoopStep
  <2>1. UNCHANGED <<objVars, tableVars, netVars>>
    BY <1>3 DEF vars, LoopStep
  <2>2. Ordinals' /\ Numbers'
    BY <1>2, <2>1, NumbersKept DEF objVars, tableVars, netVars
  <2>3. NetTypes'
    BY <1>2, <2>1 DEF NetTypes, objVars, netVars
  <2> QED
    BY <1>1, <2>2, <2>3 DEF NumbersInv
<1>4. CASE Callbacks
  <2>1. NetTypes'
    BY <1>2, <1>4, TypesOfCallbacks
  <2>2. ASSUME AcceptFails PROVE Ordinals' /\ Numbers'
    <3>1. UNCHANGED <<obj, seq, mSeq, mCount, nth>>
      BY <2>2 DEF AcceptFails, Callback, tableVars
    <3> QED
      BY <1>2, <3>1, NumbersKept
  <2>3. ASSUME NEW s \in Session, Accepts(s) PROVE Ordinals' /\ Numbers'
    BY <2>3, AcceptNumbers
  <2>4. ASSUME NEW s \in Session,
               ReadFails(s) \/ ReadMore(s) \/ ReadLogin(s) \/ ReadStart(s)
        PROVE  Ordinals' /\ Numbers'
    <3>1. UNCHANGED <<obj, seq, mSeq, mCount, nth>>
      BY <2>4 DEF ReadFails, ReadMore, ReadLogin, ReadStart, Callback, tableVars
    <3> QED
      BY <1>2, <3>1, NumbersKept
  <2>5. ASSUME NEW s \in Session, ReadEnds(s) PROVE Ordinals' /\ Numbers'
    BY <2>5, EndNumbers
  <2>6. ASSUME NEW s \in Session, OnWrite(s) PROVE Ordinals' /\ Numbers'
    <3>1. UNCHANGED <<obj, seq, mSeq, mCount, nth>>
      BY <2>6 DEF OnWrite, WriteWith, Callback, tableVars
    <3> QED
      BY <1>2, <3>1, NumbersKept
  <2>7. Ordinals' /\ Numbers'
    <3>1. ASSUME NEW s \in Session,
                 \/ Accepts(s)
                 \/ ReadFails(s) \/ ReadMore(s) \/ ReadLogin(s)
                 \/ ReadStart(s) \/ ReadEnds(s) \/ OnWrite(s)
          PROVE  Ordinals' /\ Numbers'
      BY <2>3, <2>4, <2>5, <2>6, <3>1
    <3> QED
      BY <1>4, <2>2, <3>1 DEF Callbacks
  <2> QED
    BY <1>1, <2>1, <2>7 DEF NumbersInv
<1>5. CASE RegisterEvent \/ Shutdown \/ Peers
  <2>1. NetTypes'
    BY <1>2, <1>5, TypesOfOthers
  <2>2. UNCHANGED <<obj, seq, mSeq, mCount, nth>>
    BY <1>5 DEF RegisterEvent, Shutdown, MainStep, Peers, PeerConnects, PeerSends,
                PeerReads, PeerCloses, PeerResets, PeerStep, objVars, tableVars
  <2>3. Ordinals' /\ Numbers'
    BY <1>2, <2>2, NumbersKept
  <2> QED
    BY <1>1, <2>1, <2>3 DEF NumbersInv
<1> QED
  BY <1>3, <1>4, <1>5 DEF Next, LoopThread

\* NumbersInv is inductive.
THEOREM NumbersInvariance == ASSUME NFiles \notin Fd PROVE Spec => []NumbersInv
<1>1. Init => NumbersInv
  BY NumbersInit
<1>2. NumbersInv /\ [Next]_vars => NumbersInv'
  BY NumbersNext
<1> QED
  BY <1>1, <1>2, PTL DEF Spec

\* A pair of descriptor and sequence number names one session among any
\* SeqWrap successive ones of the descriptor (Session.cpp:494, 551, 589).
THEOREM SidsUnique == ASSUME NFiles \notin Fd PROVE Spec => []SidUnique
<1>1. NumbersInv => SidUnique
  <2> SUFFICES ASSUME NumbersInv, NEW s \in Session, NEW t \in Session, s # t,
                      obj[s] # "new", obj[t] # "new",
                      SockOf[s] = SockOf[t], seq[s] = seq[t]
               PROVE  nth[s] + SeqWrap <= nth[t] \/ nth[t] + SeqWrap <= nth[s]
    BY DEF SidUnique
  <2>1. /\ nth[s] \in Nat /\ nth[t] \in Nat /\ nth[s] # nth[t]
        /\ nth[s] % SeqWrap = nth[t] % SeqWrap
    BY DEF NumbersInv, Ordinals, Numbers
  <2>2. SeqWrap \in Nat \ {0}
    BY ServerConstants DEF ServerAssumption
  <2>3. nth[s] < nth[t] \/ nth[t] < nth[s]
    BY <2>1
  <2> QED
    BY <2>1, <2>2, <2>3, SameRemainder
<1> QED
  BY <1>1, NumbersInvariance, PTL

\* SessionManager's table and its count are the live sessions
\* (Session.cpp:540-596).
THEOREM TableIsLive == ASSUME NFiles \notin Fd PROVE Spec => []TableTrue
<1>1. NumbersInv => TableTrue
  <2> SUFFICES ASSUME NumbersInv PROVE TableTrue
    OBVIOUS
  <2>1. NoSession \notin Live
    BY ServerConstants DEF ServerAssumption, Live
  <2> QED
    BY <2>1 DEF NumbersInv, Numbers, ServerInv, Owners, TableTrue
<1> QED
  BY <1>1, NumbersInvariance, PTL

\* The server's state keeps its types: an entry's number fits its uint16_t.
THEOREM ServerTypeCorrect == ASSUME NFiles \notin Fd PROVE Spec => []TypeOK
<1>1. NumbersInv => TypeOK
  <2> SUFFICES ASSUME NumbersInv PROVE TypeOK
    OBVIOUS
  <2>1. ASSUME NEW f \in Fd PROVE mSeq[f] \in 0 .. SeqWrap - 1
    <3>1. Ended(f) \in SUBSET Session
      BY DEF Ended
    <3>2. Before(f) \in Nat
      BY <3>1, FiniteSessions DEF Before
    <3> QED
      BY <3>2, Quotient, ServerConstants DEF NumbersInv, Numbers, ServerAssumption
  <2>2. \A f \in Fd : \A i \in 1 .. Len(inq[f]) : inq[f][i] \in Token
    <3>1. ASSUME NEW f \in Fd, NEW i \in 1 .. Len(inq[f]) PROVE inq[f][i] \in Token
      <4>1. inq[f] \in Seq(Token)
        BY DEF NumbersInv, NetTypes
      <4> QED
        BY <3>1, <4>1
    <3> QED BY <3>1
  <2>3. base \in BaseState
    BY DEF NumbersInv, ServerInv, Coherent, Sound
  <2> QED
    BY <2>1, <2>2, <2>3 DEF NumbersInv, ServerInv, Types, NetTypes, TypeOK
<1> QED
  BY <1>1, NumbersInvariance, PTL
====
