------------------------ MODULE ReactorStationProofs ------------------------
(***************************************************************************)
(* Type correctness and the safety of shutdown, for any number of starts,  *)
(* with and without signals.                                               *)
(*                                                                         *)
(* LoopUsesLiveBase is not inductive: that no one frees the base while the *)
(* loop uses it follows from who may hold mExitMutex at each step of the   *)
(* application thread, and that only an overtaken thread comes too late,   *)
(* from where the others can be while there is no base.  Handover says     *)
(* both, and that a thread that is spawned is a new one.                   *)
(***************************************************************************)
EXTENDS ReactorStation, TLAPS

Handover ==
    /\ app \in {"spawn", "lock", "destroy"} => base # 0
    /\ app = "mutex" => base = 0
    /\ mutex = "none" => app = "idle" /\ base = 0
    /\ \A t \in Thread : loop[t] = "begin" =>
          t \in overtaken \/ (base # 0 /\ app \in {"idle", "lock"})
    /\ \A t \in Thread : loop[t] = "get" => t \in overtaken \/ base # 0
    /\ app = "spawn" =>
          \A t \in Thread : loop[t] = "none" \/ t \in overtaken
    /\ \A t \in Thread : loop[t] # "none" =>
          t <= starts /\ (app = "spawn" => t # starts)

IInv == TypeOK /\ LoopUsesLiveBase /\ Handover

\* Before the first startup the invariant holds.
LEMMA InitInvariant == Init => IInv
<1> SUFFICES ASSUME Init PROVE IInv
  OBVIOUS
<1>1. TypeOK
  <2>1. /\ starts \in 0 .. MaxStarts /\ base \in {0, starts}
        /\ loopBase \in [Thread -> 0 .. MaxStarts]
    BY ReactorAssumption DEF Init
  <2>2. \A t \in Thread : loop[t] = "none"
    BY DEF Init
  <2>3. \A t \in Thread : ~HasMutex(t)
    BY <2>2 DEF HasMutex, InLoop
  <2> QED
    BY <2>1, <2>3 DEF Init, TypeOK
<1>2. LoopUsesLiveBase /\ Handover
  BY DEF Init, InLoop, LoopUsesLiveBase, Handover
<1> QED
  BY <1>1, <1>2 DEF IInv

\* Every step of the application's thread and of a loop's preserves the
\* invariant.
LEMMA StepInvariant == IInv /\ [Next]_vars => IInv'
<1> SUFFICES ASSUME IInv, [Next]_vars PROVE IInv'
  OBVIOUS
<1> USE ReactorAssumption DEF IInv, TypeOK, InLoop, HasMutex, LoopUsesLiveBase,
                              Handover, Thread
<1>1. CASE Startup
  BY <1>1 DEF Startup
<1>2. CASE Shutdown
  BY <1>2 DEF Shutdown
<1>3. CASE AppStep
  <2>1. CASE Spawn
    BY <2>1 DEF Spawn
  <2>2. CASE LockForDestroy
    BY <2>2 DEF LockForDestroy
  <2>3. CASE DestroyGlobal
    BY <2>3 DEF DestroyGlobal
  <2>4. CASE DestroyMutex
    BY <2>4 DEF DestroyMutex
  <2> QED
    BY <1>3, <2>1, <2>2, <2>3, <2>4 DEF AppStep
<1>4. ASSUME NEW t \in Thread, LoopStep(t) PROVE IInv'
  <2>1. CASE LoopBegins(t)
    <3>1. CASE mutex = "free"
      BY <2>1, <3>1 DEF LoopBegins
    <3>2. CASE mutex = "none"
      BY <2>1, <3>2 DEF LoopBegins
    <3> QED
      BY <2>1, <3>1, <3>2 DEF LoopBegins
  <2>2. CASE GetGlobal(t)
    BY <2>2 DEF GetGlobal
  <2>3. CASE LoopDies(t)
    BY <2>3 DEF LoopDies
  <2>4. CASE AddSignals(t)
    BY <2>4 DEF AddSignals
  <2>5. CASE LoopPass(t)
    BY <2>5 DEF LoopPass
  <2>6. CASE LoopStops(t)
    BY <2>6 DEF LoopStops
  <2>7. CASE DelSignals(t)
    BY <2>7 DEF DelSignals
  <2>8. CASE SigHandler(t)
    BY <2>8 DEF SigHandler
  <2> QED
    BY <1>4, <2>1, <2>2, <2>3, <2>4, <2>5, <2>6, <2>7, <2>8 DEF LoopStep
<1>5. CASE SignalArrives
  BY <1>5 DEF SignalArrives
<1>6. CASE UNCHANGED vars
  BY <1>6 DEF vars
<1> QED
  BY <1>1, <1>2, <1>3, <1>4, <1>5, <1>6 DEF Next

\* The inductive invariant holds in every reachable state.
THEOREM Invariance == Spec => []IInv
<1> QED
  BY InitInvariant, StepInvariant, PTL DEF Spec

\* The types, and the owner of the mutex: at most one thread of all that were
\* ever started is between its lock and its unlock of mExitMutex.
THEOREM TypeCorrect == Spec => []TypeOK
<1>1. IInv => TypeOK
  BY DEF IInv
<1> QED
  BY <1>1, Invariance, PTL

\* shutdown never frees a base a thread uses, over any number of restarts,
\* and only a thread it has overtaken ever follows mEveGlobal without the
\* mutex, or finds it NULL.
THEOREM SafeShutdown == Spec => []LoopUsesLiveBase
<1>1. IInv => LoopUsesLiveBase
  BY DEF IInv
<1> QED
  BY <1>1, Invariance, PTL

\* When a loop's thread is started every earlier one has ended or has been
\* overtaken.
THEOREM SingleLoop == Spec => OneLoop
<1>1. IInv /\ [Next]_vars =>
          [app = "spawn" /\ app' = "idle" =>
               \A t \in Thread : loop[t] = "none" \/ t \in overtaken]_vars
  BY DEF IInv, Handover
<1> QED
  BY <1>1, Invariance, PTL DEF Spec, OneLoop
=============================================================================
