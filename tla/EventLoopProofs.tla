--------------------------- MODULE EventLoopProofs ---------------------------
(***************************************************************************)
(* Type correctness of the event loop, the coherence of its counters, of   *)
(* its active queue and of its table of descriptors, and that it           *)
(* implements AbstractEvents, for any set of events, descriptors and       *)
(* signals and whatever the clients do.                                    *)
(*                                                                         *)
(* The base is Sound at every step (EventBaseProofs): types, counters and  *)
(* queue depend on each other, because removing an event from the queue is *)
(* defined only while the queue agrees with the flags.  While a callback   *)
(* runs its event is not active (Running), so that counting its calls down *)
(* to 0 is no active event without a call.  TableInv adds what the table   *)
(* and the refinement need.                                                *)
(*                                                                         *)
(* NFiles \notin Fd is the one hypothesis: the descriptor whose entry lies *)
(* after the table's end is not used.  Without it the loop may take what   *)
(* it finds there for an event.                                            *)
(***************************************************************************)
EXTENDS EventLoop, EventBaseProofs

Running == pc = "call" => "ACTIVE" \notin base.flags[cur]

LoopTypes ==
    /\ pc \in {"top", "wait", "scan", "clear", "report", "timeouts", "process",
              "call"}
    /\ DOMAIN batch \subseteq Fd
    /\ \A f \in DOMAIN batch : batch[f] \in SUBSET Conditions
    /\ toscan \subseteq Signal
    /\ cur \in Event \union {NoEvent}
    /\ (pc = "call") <=> (cur # NoEvent)
    /\ gotterm \in BOOLEAN /\ sigadded \in BOOLEAN
    /\ ready \in [Fd -> SUBSET Conditions]

SignalTypes ==
    /\ sigflag \in BOOLEAN
    /\ installed \subseteq Signal
    /\ caught \in [Signal -> 0 .. MaxCaught]
    /\ owed \subseteq Signal

LoopInv == Sound(base) /\ LoopTypes /\ SignalTypes /\ Running

\* The loop starts in a sound state, its first pass at the top.
LEMMA LoopInit == ASSUME NFiles \notin Fd, Init PROVE LoopInv
<1>1. Sound(base)
  BY EmptyBaseSound DEF Init
<1>2. LoopTypes
  <2>1. DOMAIN batch = {}
    BY DEF Init
  <2>2. ready \in [Fd -> SUBSET Conditions]
    BY DEF Init
  <2> QED
    BY <2>1, <2>2 DEF Init, LoopTypes
<1>3. SignalTypes
  <2>1. caught \in [Signal -> 0 .. MaxCaught]
    <3>1. MaxCaught \in Nat
      BY LoopConstants DEF LoopAssumption
    <3> QED
      BY <3>1 DEF Init
  <2> QED
    BY <2>1 DEF Init, SignalTypes
<1> QED
  BY <1>1, <1>2, <1>3 DEF LoopInv, Running, Init

\* The steps between two reports: they touch the base at the top only.
LEMMA StepsOfAPass ==
    ASSUME LoopInv,
           \/ LoopTop \/ Wait \/ ClearCounts \/ ClearFlag \/ ReportDone
           \/ TimeoutsDone
    PROVE  LoopInv'
<1> USE DEF LoopInv
<1>1. CASE LoopTop
  <2>1. ev_signal \in Event /\ Sound(EventAdd(base, ev_signal))
    BY BaseConstants, EventAddSound DEF EventAssumption
  <2>2. Sound(base')
    BY <1>1, <2>1 DEF LoopTop
  <2>3. LoopTypes' /\ SignalTypes' /\ Running'
    BY <1>1 DEF LoopTop, LoopTypes, SignalTypes, Running, Signal
  <2> QED
    BY <2>2, <2>3
<1>2. CASE Wait
  <2>1. Sound(base') /\ SignalTypes' /\ Running'
    BY <1>2 DEF Wait, SignalTypes, sigVars, Running
  <2>2. /\ DOMAIN batch' \subseteq Fd
        /\ \A f \in DOMAIN batch' : batch'[f] \in SUBSET Conditions
    BY <1>2 DEF Wait, LoopTypes, Answer, Conditions
  <2>3. toscan' \subseteq Signal
    BY <1>2 DEF Wait, LoopTypes
  <2>4. LoopTypes'
    BY <1>2, <2>2, <2>3 DEF Wait, LoopTypes
  <2> QED
    BY <2>1, <2>4
<1>3. CASE ClearCounts
  <2>1. [s \in Signal |-> 0] \in [Signal -> 0 .. MaxCaught]
    BY LoopConstants DEF LoopAssumption
  <2> QED
    BY <1>3, <2>1 DEF ClearCounts, LoopTypes, SignalTypes, Running
<1>3a. CASE ClearFlag
  BY <1>3a DEF ClearFlag, LoopTypes, SignalTypes, Running
<1>4. CASE ReportDone
  BY <1>4 DEF ReportDone, LoopTypes, SignalTypes, sigVars, Running
<1>5. CASE TimeoutsDone
  BY <1>5 DEF TimeoutsDone, LoopTypes, SignalTypes, sigVars, Running
<1> QED
  BY <1>1, <1>2, <1>3, <1>3a, <1>4, <1>5

\* The steps that make events active.
LEMMA StepsThatActivate ==
    ASSUME LoopInv,
           \/ \E s \in Signal : Scan(s)
           \/ \E f \in Fd : ReportFd(f)
           \/ \E e \in Event : TimerExpires(e)
    PROVE  LoopInv'
<1> USE DEF LoopInv
<1>1. ASSUME NEW s \in Signal, Scan(s) PROVE LoopInv'
  <2>1. caught[s] \in Nat /\ s \in Event
    BY LoopConstants DEF SignalTypes, LoopAssumption, Signal
  <2>2. Sound(base')
    BY <1>1, <2>1, EventActiveSound DEF Scan, Interests
  <2> QED
    BY <1>1, <2>2 DEF Scan, LoopTypes, SignalTypes, sigVars, Running
<1>2. ASSUME NEW f \in Fd, ReportFd(f) PROVE LoopInv'
  <2>1. Sound(base')
    BY <1>2, ReportSound DEF ReportFd
  <2>2. /\ DOMAIN batch' \subseteq Fd
        /\ \A g \in DOMAIN batch' : batch'[g] \in SUBSET Conditions
    BY <1>2 DEF ReportFd, LoopTypes
  <2> QED
    BY <1>2, <2>1, <2>2 DEF ReportFd, LoopTypes, SignalTypes, sigVars, Running
<1>3. ASSUME NEW e \in Event, TimerExpires(e) PROVE LoopInv'
  <2>1. Sound(base')
    BY <1>3, ExpireSound DEF TimerExpires
  <2> QED
    BY <1>3, <2>1 DEF TimerExpires, LoopTypes, SignalTypes, sigVars, Running
<1> QED
  BY <1>1, <1>2, <1>3

\* The steps of event_process_active.
LEMMA StepsOfProcess ==
    ASSUME LoopInv,
           Process \/ ProcessDone \/ CallAgain \/ CallReturns
    PROVE  LoopInv'
<1> USE DEF LoopInv
<1>1. CASE Process
  <2> DEFINE e == Head(base.activeq)
             c == PopActive(base)
  <2>1. /\ e \in Event /\ Sound(c) /\ c.left > 0
        /\ c.flags = [base.flags EXCEPT ![e] = @ \ {"ACTIVE"}]
    BY <1>1, PopActiveSound DEF Process
  <2>2. /\ base' = CountCall(c, e) /\ cur' = e /\ pc' = "call"
        /\ owed' = owed \ {e}
        /\ UNCHANGED <<batch, toscan, gotterm, sigadded, installed, caught,
                       sigflag, ready>>
    BY <1>1 DEF Process, Call
  <2> HIDE DEF e, c
  <2>3. "ACTIVE" \notin c.flags[e]
    BY <2>1 DEF Sound, BaseState
  <2>4. Sound(CountCall(c, e)) /\ CountCall(c, e).flags = c.flags
    BY <2>1, <2>3, CountCallSound
  <2>5. e # NoEvent
    BY <2>1, BaseConstants DEF EventAssumption
  <2> QED
    BY <2>1, <2>2, <2>3, <2>4, <2>5 DEF LoopTypes, SignalTypes, Running
<1>2. CASE ProcessDone
  BY <1>2 DEF ProcessDone, LoopTypes, SignalTypes, sigVars, Running
<1>3. CASE CallAgain
  <2>1. cur \in Event /\ "ACTIVE" \notin base.flags[cur]
    BY <1>3 DEF CallAgain, LoopTypes, Running
  <2>2. Sound(CountCall(base, cur)) /\ CountCall(base, cur).flags = base.flags
    BY <1>3, <2>1, CountCallSound DEF CallAgain
  <2> QED
    BY <1>3, <2>1, <2>2 DEF CallAgain, Call, LoopTypes, SignalTypes, Running
<1>4. CASE CallReturns
  BY <1>4 DEF CallReturns, LoopTypes, SignalTypes, sigVars, Running
<1> QED
  BY <1>1, <1>2, <1>3, <1>4

\* The ends of the callbacks, signal.c's own among them.
LEMMA StepsOfCallbacks ==
    ASSUME LoopInv, EvsignalCb \/ LoopexitCb
    PROVE  LoopInv'
<1> USE DEF LoopInv
<1>1. CASE EvsignalCb
  <2>1. ev_signal \in Event /\ Sound(EventAdd(base, ev_signal))
    BY BaseConstants, EventAddSound DEF EventAssumption
  <2>2. ready' \in [Fd -> SUBSET Conditions]
    BY <1>1 DEF EvsignalCb, LoopTypes
  <2> QED
    BY <1>1, <2>1, <2>2 DEF EvsignalCb, LoopTypes, SignalTypes, sigVars, Running
<1>2. CASE LoopexitCb
  BY <1>2 DEF LoopexitCb, LoopTypes, SignalTypes, sigVars, Running
<1> QED
  BY <1>1, <1>2

\* The clients' operations, from a callback or between two passes.
LEMMA StepsOfClients ==
    ASSUME LoopInv, ClientStep
    PROVE  LoopInv'
<1> USE DEF LoopInv
<1>1. PICK e \in Event : ClientAdds(e) \/ ClientReschedules(e) \/ ClientDeletes(e)
  BY DEF ClientStep
<1>2. Sound(base') /\ Only(e, base, base')
  <2>1. CASE ClientAdds(e)
    <3>1. /\ Sound(EventSet(base, e))
          /\ EventSet(base, e).flags = base.flags
      BY <2>1, EventSetSound DEF ClientAdds
    <3>2. base' \in {EventAddTimeout(EventSet(base, e), e), EventAdd(EventSet(base, e), e)}
      BY <2>1 DEF ClientAdds
    <3>3. Sound(base') /\ Only(e, EventSet(base, e), base')
      BY <3>1, <3>2, EventAddSound
    <3> QED
      BY <3>1, <3>3 DEF Only
  <2>2. CASE ClientReschedules(e)
    BY <2>2, EventAddSound DEF ClientReschedules
  <2>3. CASE ClientDeletes(e)
    BY <2>3, EventDelSound DEF ClientDeletes
  <2> QED
    BY <1>1, <2>1, <2>2, <2>3
<1>3. /\ UNCHANGED <<pc, batch, toscan, cur, gotterm, sigadded, installed, caught,
                     sigflag, ready>>
      /\ owed' \subseteq owed
  BY <1>1 DEF ClientAdds, ClientReschedules, ClientDeletes, ClientTurn
<1>4. LoopTypes' /\ SignalTypes'
  BY <1>3 DEF LoopTypes, SignalTypes
<1>5. Running'
  BY <1>2, <1>3 DEF Running, Only, LoopTypes
<1> QED
  BY <1>2, <1>4, <1>5

\* Deliveries of signals and changes of readiness leave the base alone.
LEMMA StepsOfEnvironment ==
    ASSUME LoopInv,
           \/ \E s \in Signal : SignalArrives(s)
           \/ \E f \in Fd : ReadyChanges(f)
    PROVE  LoopInv'
<1> USE DEF LoopInv
<1>1. ASSUME NEW s \in Signal, SignalArrives(s) PROVE LoopInv'
  <2>1. caught' \in [Signal -> 0 .. MaxCaught]
    BY <1>1, LoopConstants DEF SignalArrives, SignalTypes, LoopAssumption
  <2>2. ready' \in [Fd -> SUBSET Conditions]
    BY <1>1 DEF SignalArrives, LoopTypes, Conditions, Directions
  <2> QED
    BY <1>1, <2>1, <2>2
       DEF SignalArrives, loopVars, LoopTypes, SignalTypes, Running
<1>2. ASSUME NEW f \in Fd, ReadyChanges(f) PROVE LoopInv'
  <2>1. PICK c \in Readiness[f] : ready' = [ready EXCEPT ![f] = c]
    BY <1>2 DEF ReadyChanges
  <2>2. c \in SUBSET Conditions
    BY LoopConstants DEF LoopAssumption
  <2>3. ready' \in [Fd -> SUBSET Conditions]
    BY <2>1, <2>2 DEF LoopTypes
  <2> QED
    BY <1>2, <2>3
       DEF ReadyChanges, loopVars, sigVars, LoopTypes, SignalTypes, Running
<1> QED
  BY <1>1, <1>2

\* Every step of the loop, its clients and its environment keeps LoopInv.
LEMMA LoopNext == LoopInv /\ [Next]_vars => LoopInv'
<1> SUFFICES ASSUME LoopInv, [Next]_vars PROVE LoopInv'
  OBVIOUS
<1>1. CASE UNCHANGED vars
  BY <1>1 DEF vars, loopVars, sigVars, LoopInv, LoopTypes, SignalTypes, Running
<1>2. CASE Next
  BY <1>2, StepsOfAPass, StepsThatActivate, StepsOfProcess, StepsOfCallbacks,
     StepsOfClients, StepsOfEnvironment DEF Next, LoopStep, Environment
<1> QED
  BY <1>1, <1>2

\* LoopInv, the inductive invariant, holds in every reachable state.
THEOREM LoopInvariance == ASSUME NFiles \notin Fd PROVE Spec => []LoopInv
<1>1. Init => LoopInv
  BY LoopInit
<1> QED
  BY <1>1, LoopNext, PTL DEF Spec

\* The loop's state keeps its types through any interleaving of the loop's
\* steps, the clients' calls and signals.
THEOREM TypeCorrect == ASSUME NFiles \notin Fd PROVE Spec => []TypeOK
<1>1. LoopInv => TypeOK
  BY DEF LoopInv, Sound, LoopTypes, SignalTypes, TypeOK
<1> QED
  BY <1>1, LoopInvariance, PTL

\* event_count and event_count_active never drift from the queues
\* (event.c:711-796).
THEOREM CountersCorrect == ASSUME NFiles \notin Fd PROVE Spec => []CountsOK
<1>1. LoopInv => CountsOK
  BY DEF LoopInv, Sound, HaveCalls, CountsOK
<1> QED
  BY <1>1, LoopInvariance, PTL

\* What event_process_active pops is flagged active, and waits there once.
THEOREM ActiveQueueCorrect == ASSUME NFiles \notin Fd PROVE Spec => []ActiveOK
<1>1. LoopInv => ActiveOK
  BY DEF LoopInv, Sound, ActiveOK
<1> QED
  BY <1>1, LoopInvariance, PTL
-----------------------------------------------------------------------------
(***************************************************************************)
(* The table, and the promise of AbstractEvents.                           *)
(*                                                                         *)
(* TableInv strengthens TableOK: the base is Coherent (EventBaseProofs),   *)
(* no descriptor is closed, and the signals still to be looked at are      *)
(* registered: no client runs between epoll_wait and the end of the scan.  *)
(* Every step keeps it, and is an abstract step or none.                   *)
(***************************************************************************)
TableInv ==
    /\ Coherent(base) /\ base.open = Fd
    /\ pc = "scan" => \A s \in toscan : "SIGNAL" \in base.flags[s]

\* The step is one of AbstractEvents, or none.
Implements == [Abstract!Next]_(Abstract!vars)

\* How changes of the flags look to AbstractEvents.
LEMMA SeenArming ==
    ASSUME Coherent(base), NEW e \in Event, NEW F,
           base'.flags = [base.flags EXCEPT ![e] = F],
           F \ {"ACTIVE"} # {}, cur' = cur,
           "ACTIVE" \in F <=> "ACTIVE" \in base.flags[e] /\ "PERSIST" \in What[e]
    PROVE  Implements
<1>1. \A d \in Event : base'.flags[d] = IF d = e THEN F ELSE base.flags[d]
  BY DEF Coherent, Sound, BaseState
<1>2. {d \in Event : base'.flags[d] \ {"ACTIVE"} # {}}
      = {d \in Event : base.flags[d] \ {"ACTIVE"} # {}} \union {e}
  BY <1>1
<1>3. {d \in Event : "ACTIVE" \in base'.flags[d]}
      = {d \in Event : "ACTIVE" \in base.flags[d]}
        \ ({e} \ {d \in Event : "PERSIST" \in What[d]})
  BY <1>1
<1>4. Abstract!Arm(e)
  BY <1>2, <1>3 DEF Abstract!Arm
<1> QED
  BY <1>4 DEF Implements, Abstract!Next

LEMMA SeenDisarming ==
    ASSUME Coherent(base), NEW e \in Event,
           base'.flags = [base.flags EXCEPT ![e] = {}], cur' = cur
    PROVE  Implements
<1>1. \A d \in Event : base'.flags[d] = IF d = e THEN {} ELSE base.flags[d]
  BY DEF Coherent, Sound, BaseState
<1>2. {d \in Event : base'.flags[d] \ {"ACTIVE"} # {}}
      = {d \in Event : base.flags[d] \ {"ACTIVE"} # {}} \ {e}
  BY <1>1
<1>3. {d \in Event : "ACTIVE" \in base'.flags[d]}
      = {d \in Event : "ACTIVE" \in base.flags[d]} \ {e}
  BY <1>1
<1>4. Abstract!Disarm(e)
  BY <1>2, <1>3 DEF Abstract!Disarm
<1> QED
  BY <1>4 DEF Implements, Abstract!Next

LEMMA SeenTriggering ==
    ASSUME NEW S \in SUBSET Event, MadeActive(base, base', S), cur' = cur,
           \A d \in S : base.flags[d] \ {"ACTIVE"} # {}
    PROVE  Implements
<1> DEFINE P == {d \in Event : "PERSIST" \in What[d]}
           A == {d \in Event : base.flags[d] \ {"ACTIVE"} # {}}
<1>1. \A d \in Event :
        base'.flags[d] = IF d \notin S THEN base.flags[d]
                         ELSE IF "PERSIST" \in What[d]
                         THEN base.flags[d] \union {"ACTIVE"} ELSE {"ACTIVE"}
  BY DEF MadeActive
<1>2. {d \in Event : base'.flags[d] \ {"ACTIVE"} # {}} = A \ (S \ P)
  BY <1>1
<1>3. {d \in Event : "ACTIVE" \in base'.flags[d]}
      = {d \in Event : "ACTIVE" \in base.flags[d]} \union S
  BY <1>1
<1>4. Abstract!Trigger(S) /\ S \in SUBSET A
  BY <1>2, <1>3 DEF Abstract!Trigger
<1> QED
  BY <1>4 DEF Implements, Abstract!Next

LEMMA SeenNothing ==
    ASSUME base'.flags = base.flags, cur' = cur
    PROVE  Implements
BY DEF Implements, Abstract!vars

\* A callback's end: its event may be armed again.
LEMMA SeenReturning ==
    ASSUME Coherent(base), cur \in Event, cur' = NoEvent,
           \/ base'.flags = base.flags
           \/ base'.flags = [base.flags EXCEPT ![cur] = {"INSERTED"}]
              /\ base.flags[cur] = {}
    PROVE  Implements
<1>1. cur # NoEvent
  BY BaseConstants DEF EventAssumption
<1>2. CASE base'.flags = base.flags
  <2>1. Abstract!Return
    BY <1>2 DEF Abstract!Return
  <2> QED
    BY <1>1, <2>1 DEF Implements, Abstract!Next
<1>3. CASE /\ base'.flags = [base.flags EXCEPT ![cur] = {"INSERTED"}]
           /\ base.flags[cur] = {}
  <2>1. \A d \in Event : base'.flags[d] = IF d = cur THEN {"INSERTED"} ELSE base.flags[d]
    BY <1>3 DEF Coherent, Sound, BaseState
  <2>2. {d \in Event : base'.flags[d] \ {"ACTIVE"} # {}}
        = {d \in Event : base.flags[d] \ {"ACTIVE"} # {}} \union {cur}
    BY <2>1
  <2>3. {d \in Event : "ACTIVE" \in base'.flags[d]}
        = {d \in Event : "ACTIVE" \in base.flags[d]}
    BY <1>3, <2>1
  <2>4. Abstract!Return
    BY <2>2, <2>3 DEF Abstract!Return
  <2> QED
    BY <1>1, <2>4 DEF Implements, Abstract!Next
<1> QED
  BY <1>2, <1>3

\* ev_signal is added when nothing else is on its descriptor.
LEMMA AddSignalFd ==
    ASSUME TableInv
    PROVE  LET c == EventAdd(base, ev_signal)
           IN  /\ Coherent(c) /\ c.open = Fd
               /\ c.flags = IF base.flags[ev_signal] = {}
                            THEN [base.flags EXCEPT ![ev_signal] = {"INSERTED"}]
                            ELSE base.flags
<1>1. ev_signal \in Event /\ What[ev_signal] = {"READ"} /\ FdOf[ev_signal] = SignalFd
  BY BaseConstants, LoopConstants DEF EventAssumption, LoopAssumption
<1>2. Wanted(ev_signal) # {} /\ FdOf[ev_signal] \in base.open
  <2>1. "IN" \in Wanted(ev_signal)
    BY <1>1, WantedDirections
  <2> QED
    BY <1>1, <2>1, WantedDirections DEF TableInv
<1>3. Alone(ev_signal, Inserted(base))
  BY <1>1, LoopConstants DEF LoopAssumption, Alone, Inserted
<1> QED
  BY <1>1, <1>2, <1>3, AddIOCoherent DEF TableInv

\* The steps of a pass that add ev_signal or change nothing of the base.
LEMMA PassRefines ==
    ASSUME LoopInv, TableInv,
           \/ LoopTop \/ Wait \/ ClearCounts \/ ClearFlag \/ ReportDone
           \/ TimeoutsDone
           \/ ProcessDone \/ CallReturns \/ EvsignalCb \/ LoopexitCb
    PROVE  TableInv' /\ Implements
<1>1. CASE LoopTop
  <2>1. CASE sigadded
    <3>1. base' = base /\ cur' = cur /\ pc' # "scan"
      BY <1>1, <2>1 DEF LoopTop
    <3> QED
      BY <3>1, SeenNothing DEF TableInv
  <2>2. CASE ~sigadded
    <3>1. base' = EventAdd(base, ev_signal) /\ cur' = cur /\ pc' # "scan"
      BY <1>1, <2>2 DEF LoopTop
    <3>2. /\ Coherent(base') /\ base'.open = Fd
          /\ base'.flags = IF base.flags[ev_signal] = {}
                           THEN [base.flags EXCEPT ![ev_signal] = {"INSERTED"}]
                           ELSE base.flags
      BY <3>1, AddSignalFd
    <3>3. TableInv'
      BY <3>1, <3>2 DEF TableInv
    <3>4. CASE base.flags[ev_signal] = {}
      <4> DEFINE F == {"INSERTED"}
      <4>1. /\ ev_signal \in Event /\ F \ {"ACTIVE"} # {} /\ "ACTIVE" \notin F
            /\ base'.flags = [base.flags EXCEPT ![ev_signal] = F]
        BY <3>2, <3>4, BaseConstants DEF EventAssumption
      <4> HIDE DEF F
      <4>2. Implements
        BY <3>1, <3>4, <4>1, SeenArming DEF TableInv
      <4> QED
        BY <3>3, <4>2
    <3>5. CASE base.flags[ev_signal] # {}
      BY <3>1, <3>2, <3>3, <3>5, SeenNothing
    <3> QED
      BY <3>4, <3>5
  <2> QED
    BY <2>1, <2>2
<1>2. CASE Wait
  <2>1. base' = base /\ cur' = cur
        /\ (pc' = "scan" => toscan' = {s \in Signal : "SIGNAL" \in base.flags[s]})
    BY <1>2 DEF Wait
  <2> QED
    BY <2>1, SeenNothing DEF TableInv
<1>3. CASE \/ ClearCounts \/ ClearFlag \/ ReportDone
           \/ TimeoutsDone \/ ProcessDone
  <2>1. base' = base /\ cur' = cur /\ pc' # "scan"
    BY <1>3 DEF ClearCounts, ClearFlag, ReportDone, TimeoutsDone, ProcessDone
  <2> QED
    BY <2>1, SeenNothing DEF TableInv
<1>4. CASE CallReturns \/ LoopexitCb
  <2>1. base' = base /\ cur' = NoEvent /\ pc' # "scan" /\ pc = "call"
    BY <1>4 DEF CallReturns, LoopexitCb
  <2>2. cur \in Event
    BY <2>1 DEF LoopInv, LoopTypes
  <2> QED
    BY <2>1, <2>2, SeenReturning DEF TableInv
<1>5. CASE EvsignalCb
  <2>1. /\ base' = EventAdd(base, ev_signal) /\ cur' = NoEvent /\ cur = ev_signal
        /\ pc' # "scan"
    BY <1>5 DEF EvsignalCb
  <2>2. /\ Coherent(base') /\ base'.open = Fd
        /\ base'.flags = IF base.flags[ev_signal] = {}
                         THEN [base.flags EXCEPT ![ev_signal] = {"INSERTED"}]
                         ELSE base.flags
    BY <2>1, AddSignalFd
  <2>3. cur \in Event
    BY <2>1, BaseConstants DEF EventAssumption
  <2>4. TableInv'
    BY <2>1, <2>2 DEF TableInv
  <2>5. Implements
    BY <2>1, <2>2, <2>3, SeenReturning DEF TableInv
  <2> QED
    BY <2>4, <2>5
<1> QED
  BY <1>1, <1>2, <1>3, <1>4, <1>5

\* The steps that make events active trigger events that are armed.
LEMMA ActivationRefines ==
    ASSUME NFiles \notin Fd, LoopInv, TableInv,
           \/ \E s \in Signal : Scan(s)
           \/ \E f \in Fd : ReportFd(f)
           \/ \E e \in Event : TimerExpires(e)
    PROVE  TableInv' /\ Implements
<1>1. ASSUME NEW s \in Signal, Scan(s) PROVE TableInv' /\ Implements
  <2>1. /\ s \in Event /\ "SIGNAL" \in base.flags[s] /\ "PERSIST" \in What[s]
        /\ ~IsTimer(s) /\ cur' = cur /\ pc' = "scan" /\ pc = "scan"
        /\ toscan' = toscan \ {s} /\ caught[s] \in Nat
    BY <1>1, BaseConstants, LoopConstants
       DEF Scan, TableInv, Signal, IsSignal, IsTimer, EventAssumption,
           LoopAssumption, LoopInv, SignalTypes
  <2>2. CASE caught[s] > 0
    <3>1. base' = EventActive(base, s, "SIGNAL", caught[s])
      BY <1>1, <2>2 DEF Scan
    <3>2. "SIGNAL" \in Interests \union {"TIMEOUT"} /\ caught[s] \in Nat \ {0}
      BY <2>1, <2>2 DEF Interests
    <3>3. /\ Coherent(base') /\ SameTable(base, base')
          /\ base'.flags = [base.flags EXCEPT ![s] = @ \union {"ACTIVE"}]
      BY <2>1, <3>1, <3>2, ActiveStaysCoherent DEF TableInv
    <3>4. \A d \in Event : base'.flags[d] = IF d = s THEN base.flags[s] \union {"ACTIVE"}
                                            ELSE base.flags[d]
      BY <3>3 DEF TableInv, Coherent, Sound, BaseState
    <3>5. TableInv'
      BY <2>1, <3>3, <3>4 DEF TableInv, SameTable, Signal
    <3>6. MadeActive(base, base', {s})
      BY <2>1, <3>4 DEF MadeActive
    <3>7. Implements
      BY <2>1, <3>6, SeenTriggering
    <3> QED
      BY <3>5, <3>7
  <2>3. CASE ~(caught[s] > 0)
    <3>1. base' = base
      BY <1>1, <2>3 DEF Scan
    <3> QED
      BY <2>1, <3>1, SeenNothing DEF TableInv
  <2> QED
    BY <2>2, <2>3
<1>2. ASSUME NEW f \in Fd, ReportFd(f) PROVE TableInv' /\ Implements
  <2>1. base' = Report(base, f, batch[f]) /\ cur' = cur /\ pc' # "scan"
    BY <1>2 DEF ReportFd
  <2>2. /\ Coherent(base') /\ base'.open = base.open
        /\ \E S \in SUBSET Inserted(base) : MadeActive(base, base', S)
    BY <2>1, ReportCoherent DEF TableInv
  <2>3. PICK S \in SUBSET Inserted(base) : MadeActive(base, base', S)
    BY <2>2
  <2>4. S \in SUBSET Event /\ \A d \in S : base.flags[d] \ {"ACTIVE"} # {}
    BY DEF Inserted
  <2>5. Implements
    BY <2>1, <2>3, <2>4, SeenTriggering
  <2> QED
    BY <2>1, <2>2, <2>5 DEF TableInv
<1>3. ASSUME NEW e \in Event, TimerExpires(e) PROVE TableInv' /\ Implements
  <2>1. /\ base' = Expire(base, e) /\ cur' = cur /\ pc' # "scan"
        /\ "TIMEOUT" \in base.flags[e]
    BY <1>3 DEF TimerExpires
  <2>2. /\ IsTimer(e) /\ Coherent(base') /\ base'.open = base.open
        /\ base'.flags = [base.flags EXCEPT ![e] = {"ACTIVE"}]
    BY <2>1, ExpireCoherent DEF TableInv
  <2>3. MadeActive(base, base', {e})
    BY <2>2 DEF MadeActive, IsTimer, TableInv, Coherent, Sound, BaseState
  <2>4. Implements
    BY <2>1, <2>3, SeenTriggering
  <2> QED
    BY <2>1, <2>2, <2>4 DEF TableInv
<1> QED
  BY <1>1, <1>2, <1>3

\* A call takes its event off the active queue; one more call of the same
\* event cannot be seen.
LEMMA CallRefines ==
    ASSUME LoopInv, TableInv, Process \/ CallAgain
    PROVE  TableInv' /\ Implements
<1>1. CASE Process
  <2> DEFINE e == Head(base.activeq)
             c == PopActive(base)
  <2>1. /\ e \in Event /\ "ACTIVE" \in base.flags[e] /\ Coherent(c) /\ c.left > 0
        /\ Flagged(base, c, e, base.flags[e] \ {"ACTIVE"})
    BY <1>1, PopCoherent DEF Process, TableInv
  <2>2. base' = CountCall(c, e) /\ cur' = e /\ pc' = "call" /\ pc = "process"
    BY <1>1 DEF Process, Call
  <2> HIDE DEF e, c
  <2>3. base.flags \in [Event -> SUBSET Queues]
    BY DEF TableInv, Coherent, Sound, BaseState
  <2>4. \A d \in Event : c.flags[d] = IF d = e THEN base.flags[e] \ {"ACTIVE"}
                                      ELSE base.flags[d]
    BY <2>3, <2>1 DEF Flagged
  <2>5. "ACTIVE" \notin c.flags[e]
    BY <2>1, <2>4
  <2>6. /\ Coherent(base') /\ Flagged(c, base', e, c.flags[e])
        /\ base'.flags = c.flags
    BY <2>1, <2>2, <2>5, CountCallCoherent
  <2>7. \A d \in Event : base'.flags[d] = IF d = e THEN base.flags[e] \ {"ACTIVE"}
                                          ELSE base.flags[d]
    BY <2>6, <2>4
  <2>8. TableInv'
    BY <2>1, <2>2, <2>6 DEF TableInv, Flagged, SameTable
  <2>9. {d \in Event : base'.flags[d] \ {"ACTIVE"} # {}}
        = {d \in Event : base.flags[d] \ {"ACTIVE"} # {}}
    BY <2>7
  <2>10. {d \in Event : "ACTIVE" \in base'.flags[d]}
        = {d \in Event : "ACTIVE" \in base.flags[d]} \ {e}
    BY <2>7
  <2>11. cur = NoEvent
    BY <2>2 DEF LoopInv, LoopTypes
  <2>12. PICK x \in Event : x = e
    BY <2>1
  <2>13. Abstract!Start(x) /\ x \in {d \in Event : "ACTIVE" \in base.flags[d]}
    BY <2>1, <2>2, <2>9, <2>10, <2>11, <2>12 DEF Abstract!Start
  <2>14. Implements
    BY <2>13 DEF Implements, Abstract!Next
  <2> QED
    BY <2>8, <2>14
<1>2. CASE CallAgain
  <2>1. /\ base' = CountCall(base, cur) /\ cur' = cur /\ pc' = "call"
        /\ base.left > 0 /\ pc = "call"
    BY <1>2 DEF CallAgain, Call
  <2>2. cur \in Event /\ "ACTIVE" \notin base.flags[cur]
    BY <2>1 DEF LoopInv, LoopTypes, Running
  <2>3. /\ Coherent(base') /\ Flagged(base, base', cur, base.flags[cur])
        /\ base'.flags = base.flags
    BY <2>1, <2>2, CountCallCoherent DEF TableInv
  <2>4. TableInv'
    BY <2>1, <2>3 DEF TableInv, Flagged, SameTable
  <2> QED
    BY <2>1, <2>3, <2>4, SeenNothing
<1> QED
  BY <1>1, <1>2

\* The clients arm and disarm their events.
LEMMA ClientRefines ==
    ASSUME NFiles \notin Fd, LoopInv, TableInv, ClientStep
    PROVE  TableInv' /\ Implements
<1>1. PICK e \in Event : ClientAdds(e) \/ ClientReschedules(e) \/ ClientDeletes(e)
  BY DEF ClientStep
<1>2. cur' = cur /\ pc' # "scan"
  BY <1>1 DEF ClientAdds, ClientReschedules, ClientDeletes, ClientTurn
<1>3. CASE ClientAdds(e)
  <2> DEFINE b == EventSet(base, e)
  <2>1. /\ base.flags[e] = {}
        /\ \A d \in Event : Clash(d, e) => base.flags[d] = {}
        /\ base' = IF IsTimer(e) THEN EventAddTimeout(b, e) ELSE EventAdd(b, e)
    BY <1>3 DEF ClientAdds
  <2>2. Coherent(b) /\ Flagged(base, b, e, {}) /\ b.flags = base.flags /\ b.open = Fd
    BY <2>1, SetCoherent DEF TableInv, Flagged, SameTable
  <2> HIDE DEF b
  <2>3. ASSUME NEW F, F \ {"ACTIVE"} # {}, "ACTIVE" \notin F,
               base'.flags = [b.flags EXCEPT ![e] = F], base'.open = b.open,
               Coherent(base')
        PROVE  TableInv' /\ Implements
    <3>1. Implements
      BY <1>2, <2>1, <2>2, <2>3, SeenArming DEF TableInv
    <3> QED
      BY <1>2, <2>2, <2>3, <3>1 DEF TableInv
  <2>4. CASE IsTimer(e)
    <3> DEFINE F == {"TIMEOUT"}
    <3>1. Coherent(base') /\ Flagged(b, base', e, F)
      BY <2>1, <2>2, <2>4, AddTimerCoherent
    <3>2. F \ {"ACTIVE"} # {} /\ "ACTIVE" \notin F
      OBVIOUS
    <3> HIDE DEF F
    <3>3. base'.flags = [b.flags EXCEPT ![e] = F] /\ base'.open = b.open
      BY <3>1 DEF Flagged, SameTable
    <3> QED
      BY <2>3, <3>1, <3>2, <3>3
  <2>5. CASE IsSignal(e)
    <3>1. ~IsTimer(e)
      BY <2>5 DEF IsSignal, IsTimer
    <3>2. Coherent(base') /\ Flagged(b, base', e, b.flags[e] \union {"SIGNAL"})
      BY <2>1, <2>2, <2>5, <3>1, AddSignalCoherent
    <3> DEFINE F == b.flags[e] \union {"SIGNAL"}
    <3>3. F \ {"ACTIVE"} # {} /\ "ACTIVE" \notin F
      BY <2>1, <2>2
    <3>4. base'.flags = [b.flags EXCEPT ![e] = F] /\ base'.open = b.open
      BY <3>2 DEF Flagged, SameTable
    <3> HIDE DEF F
    <3> QED
      BY <2>3, <3>2, <3>3, <3>4
  <2>6. CASE Wanted(e) # {}
    <3>1. ~IsTimer(e)
      BY <2>6 DEF Wanted, IsTimer
    <3>2. FdOf[e] \in b.open
      BY <2>2, <2>6, WantedDirections
    <3>3. Alone(e, Inserted(b))
      BY <2>1, <2>2 DEF Alone, Inserted, Clash
    <3>4. /\ Coherent(base') /\ base'.open = b.open
          /\ base'.flags = IF b.flags[e] = {}
                           THEN [b.flags EXCEPT ![e] = {"INSERTED"}] ELSE b.flags
      BY <2>1, <2>2, <2>6, <3>1, <3>2, <3>3, AddIOCoherent
    <3> DEFINE F == {"INSERTED"}
    <3>5. base'.flags = [b.flags EXCEPT ![e] = F]
      BY <2>1, <2>2, <3>4
    <3>6. F \ {"ACTIVE"} # {} /\ "ACTIVE" \notin F
      OBVIOUS
    <3> HIDE DEF F
    <3> QED
      BY <2>3, <3>4, <3>5, <3>6
  <2>7. CASE ~IsTimer(e) /\ ~IsSignal(e) /\ Wanted(e) = {}
    <3>1. base' = b
      BY <2>1, <2>7 DEF EventAdd, Watch
    <3> QED
      BY <1>2, <2>2, <3>1, SeenNothing DEF TableInv
  <2> QED
    BY <2>4, <2>5, <2>6, <2>7
<1>4. CASE ClientReschedules(e)
  <2>1. base' = EventAddTimeout(base, e) /\ IsTimer(e)
    BY <1>4 DEF ClientReschedules
  <2>2. Coherent(base') /\ Flagged(base, base', e, {"TIMEOUT"})
    BY <2>1, AddTimerCoherent DEF TableInv
  <2> DEFINE F == {"TIMEOUT"}
  <2>3. /\ F \ {"ACTIVE"} # {} /\ base'.flags = [base.flags EXCEPT ![e] = F]
        /\ "ACTIVE" \notin F /\ "PERSIST" \notin What[e]
    BY <2>1, <2>2 DEF Flagged, IsTimer
  <2> HIDE DEF F
  <2>4. Implements
    BY <1>2, <2>3, SeenArming DEF TableInv
  <2>5. TableInv'
    BY <1>2, <2>2 DEF TableInv, Flagged, SameTable
  <2> QED
    BY <2>4, <2>5
<1>5. CASE ClientDeletes(e)
  <2>1. base' = EventDel(base, e)
    BY <1>5 DEF ClientDeletes
  <2>2. /\ Coherent(base') /\ base'.open = base.open
        /\ base'.flags = [base.flags EXCEPT ![e] = {}]
    BY <2>1, DelCoherent DEF TableInv
  <2>3. Implements
    BY <1>2, <2>2, SeenDisarming DEF TableInv
  <2> QED
    BY <1>2, <2>2, <2>3 DEF TableInv
<1> QED
  BY <1>1, <1>3, <1>4, <1>5

\* Nothing outside the loop's thread touches the base.
LEMMA EnvironmentRefines ==
    ASSUME TableInv,
           \/ UNCHANGED vars
           \/ \E s \in Signal : SignalArrives(s)
           \/ \E f \in Fd : ReadyChanges(f)
    PROVE  TableInv' /\ Implements
<1>1. base' = base /\ cur' = cur /\ pc' = pc /\ toscan' = toscan
  BY DEF vars, loopVars, SignalArrives, ReadyChanges
<1> QED
  BY <1>1, SeenNothing DEF TableInv

LEMMA TableNext ==
    ASSUME NFiles \notin Fd, LoopInv, TableInv, [Next]_vars
    PROVE  TableInv' /\ Implements
BY PassRefines, ActivationRefines, CallRefines, ClientRefines, EnvironmentRefines
   DEF Next, LoopStep, Environment

LEMMA TableInit ==
    ASSUME NFiles \notin Fd, Init
    PROVE  TableInv /\ Abstract!Init
<1>1. PICK b \in EmptyBase : base = b
  BY DEF Init
<1>2. PICK past \in {NoEvent, Garbage} : b = FreshBase(past)
  BY DEF EmptyBase
<1>3. b = [b EXCEPT !.open = Fd]
  BY <1>2 DEF FreshBase
<1>4. Fd \in SUBSET Fd
  OBVIOUS
<1>5. Coherent(base) /\ base.open = Fd /\ base.flags = [e \in Event |-> {}]
  <2>1. LET c == [b EXCEPT !.open = Fd]
        IN  Coherent(c) /\ c.open = Fd /\ c.flags = [e \in Event |-> {}]
    BY <1>4, EmptyBaseCoherent
  <2> QED
    BY <1>1, <1>3, <2>1
<1>6. \A e \in Event : base.flags[e] = {}
  BY <1>5
<1>7. TableInv
  BY <1>5 DEF TableInv, Init
<1>8. Abstract!Init
  BY <1>6 DEF Abstract!Init, Init
<1> QED
  BY <1>7, <1>8

\* TableInv holds in every reachable state: the table and the kernel say what
\* the flags say (epoll.c:261-358).
THEOREM TableInvariance == ASSUME NFiles \notin Fd PROVE Spec => []TableInv
<1>1. Init => TableInv
  BY TableInit
<1>2. LoopInv /\ TableInv /\ [Next]_vars => TableInv'
  BY TableNext
<1>3. Spec => []LoopInv
  BY LoopInvariance
<1> QED
  BY <1>1, <1>2, <1>3, PTL DEF Spec

\* Adding and deleting the reader or the writer of a descriptor in any order
\* leaves the table and the kernel with the other one's interest intact
\* (epoll.c:261-358).
THEOREM TableCorrect == ASSUME NFiles \notin Fd PROVE Spec => []TableOK
<1>1. TableInv => TableOK
  BY CoherentTable DEF TableInv, TableOK
<1> QED
  BY <1>1, TableInvariance, PTL

\* The loop keeps the promise of event.h: an event is called when it was
\* armed and became due, once for each time, and not after it was deleted.
THEOREM LoopImplements == ASSUME NFiles \notin Fd PROVE Spec => ImplementsAbstract
<1>1. Init => Abstract!Init
  BY TableInit
<1>2. LoopInv /\ TableInv /\ [Next]_vars => [Abstract!Next]_(Abstract!vars)
  BY TableNext DEF Implements
<1>3. Spec => []LoopInv /\ []TableInv
  BY LoopInvariance, TableInvariance
<1>4. Spec => Abstract!Spec
  BY <1>1, <1>2, <1>3, PTL DEF Spec, Abstract!Spec
<1> QED
  BY <1>4 DEF ImplementsAbstract
=============================================================================
