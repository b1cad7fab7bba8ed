--------------------------- MODULE ReactorStation ---------------------------
(***************************************************************************)
(* Starting and stopping the reactor: the application thread, which makes  *)
(* the calls of TcpEventServer's main and of StartNetWork and StopNetWork  *)
(* (NativeApi.cpp), and the detached threads that run the event loop, one  *)
(* for each start.  What they share is mIsStartup, mEveGlobal with its     *)
(* event base, and mExitMutex, which a loop's thread holds as long as it   *)
(* uses the base.                                                          *)
(*                                                                         *)
(* Nothing makes shutdown wait until the thread has the mutex: it may      *)
(* overtake a thread that has not locked it yet.  That thread then locks   *)
(* a mutex that is destroyed, or the next start's, or follows a NULL       *)
(* mEveGlobal; overtaken names the threads this can happen to.             *)
(*                                                                         *)
(* Each start makes a new base; the n-th base and the thread started with  *)
(* it have the number n.                                                   *)
(*                                                                         *)
(* A definition whose name ends in Mutant is the definition after it with  *)
(* a plausible mistake in it.                                              *)
(***************************************************************************)
EXTENDS Integers

CONSTANTS
    MaxStarts,      \* bound: how often the reactor is started
    Signals         \* whether SIGINT and SIGTERM are sent to the process

ASSUME ReactorAssumption == MaxStarts \in Nat \ {0} /\ Signals \in BOOLEAN

Thread == 1 .. MaxStarts

VARIABLES
    app,        \* where the application thread is
    loop,       \* where each loop's thread is; "none" when there is none
    mIsStartup,
    base,       \* mEveGlobal's base, 0 when mEveGlobal is NULL
    starts,     \* how many bases have been made
    loopBase,   \* the base each loop's thread uses
    mutex,      \* mExitMutex: "none" (not initialised), "free", "app", "loop"
    signalled,  \* a signal has been caught and its event is not executed yet
    overtaken   \* the threads a shutdown has locked the mutex before

vars == <<app, loop, mIsStartup, base, starts, loopBase, mutex, signalled,
          overtaken>>

Init ==
    /\ app = "idle" /\ loop = [t \in Thread |-> "none"]
    /\ mIsStartup = 0
    /\ base = 0 /\ starts = 0 /\ loopBase = [t \in Thread |-> 0]
    /\ mutex = "none"
    /\ signalled = FALSE
    /\ overtaken = {}

\* The process has died, or does what nobody can say any more.
Dead == \E t \in Thread : loop[t] = "dead"

(***************************************************************************)
(* ReactorStation::startup.  Who holds a mutex that is initialised again   *)
(* holds it no more.                                                       *)
(***************************************************************************)
Startup ==
    /\ app = "idle" /\ base = 0 /\ starts < MaxStarts
    /\ starts' = starts + 1
    /\ base' = starts + 1
    /\ mutex' = "free"
    /\ loop' = [t \in Thread |-> IF loop[t] = "get" THEN "unlocked" ELSE loop[t]]
    /\ mIsStartup' = 1
    /\ app' = "spawn"
    /\ UNCHANGED <<loopBase, signalled, overtaken>>

Spawn ==
    /\ app = "spawn"
    /\ loop' = [loop EXCEPT ![starts] = "begin"]
    /\ app' = "idle"
    /\ UNCHANGED <<mIsStartup, base, starts, loopBase, mutex, signalled,
                   overtaken>>

(***************************************************************************)
(* ReactorStation::shutdown in the application thread: the flag tells the  *)
(* loop to stop, the mutex waits until a thread that has it has ended.     *)
(***************************************************************************)
ShutdownMutant ==
    /\ app = "idle" /\ base # 0
    /\ mIsStartup' = 0 /\ base' = 0
    /\ app' = "lock"
    /\ UNCHANGED <<loop, starts, loopBase, mutex, signalled, overtaken>>

Shutdown ==
    /\ app = "idle" /\ base # 0
    /\ mIsStartup' = 0
    /\ app' = "lock"
    /\ UNCHANGED <<loop, base, starts, loopBase, mutex, signalled, overtaken>>

LockForDestroyMutant ==
    /\ app = "lock" /\ mutex # "none"
    /\ mutex' = "app"
    /\ overtaken' = overtaken \cup {t \in Thread : loop[t] = "begin"}
    /\ app' = "destroy"
    /\ UNCHANGED <<loop, mIsStartup, base, starts, loopBase, signalled>>

LockForDestroy ==
    /\ app = "lock" /\ mutex = "free"
    /\ mutex' = "app"
    /\ overtaken' = overtaken \cup {t \in Thread : loop[t] = "begin"}
    /\ app' = "destroy"
    /\ UNCHANGED <<loop, mIsStartup, base, starts, loopBase, signalled>>

\* The counts of the signals caught are in the base.
DestroyGlobal ==
    /\ app = "destroy"
    /\ base' = 0 /\ signalled' = FALSE
    /\ mutex' = "free"
    /\ app' = "mutex"
    /\ UNCHANGED <<loop, mIsStartup, starts, loopBase, overtaken>>

\* A mutex that is held is not destroyed: EBUSY, which nobody looks at.
DestroyMutex ==
    /\ app = "mutex"
    /\ mutex' = IF mutex = "free" THEN "none" ELSE mutex
    /\ app' = "idle"
    /\ UNCHANGED <<loop, mIsStartup, base, starts, loopBase, signalled,
                   overtaken>>

(***************************************************************************)
(* eventLoop and startThread: the loop's thread takes the mutex, asks for  *)
(* the base, adds the signal events, runs the loop while mIsStartup is     *)
(* set, deletes the signal events and gives the mutex back.                *)
(***************************************************************************)
\* Locking a destroyed mutex fails, which nobody looks at.
LoopBegins(t) ==
    /\ loop[t] = "begin" /\ mutex \in {"free", "none"}
    /\ IF mutex = "free"
       THEN mutex' = "loop" /\ loop' = [loop EXCEPT ![t] = "get"]
       ELSE loop' = [loop EXCEPT ![t] = "unlocked"] /\ UNCHANGED mutex
    /\ UNCHANGED <<app, mIsStartup, base, starts, loopBase, signalled, overtaken>>

GetGlobal(t) ==
    /\ loop[t] = "get" /\ base # 0
    /\ loopBase' = [loopBase EXCEPT ![t] = base]
    /\ loop' = [loop EXCEPT ![t] = "set"]
    /\ UNCHANGED <<app, mIsStartup, base, starts, mutex, signalled, overtaken>>

\* mEveGlobal is NULL, or is used without the mutex.
LoopDies(t) ==
    /\ loop[t] = "unlocked" \/ (loop[t] = "get" /\ base = 0)
    /\ loop' = [loop EXCEPT ![t] = "dead"]
    /\ UNCHANGED <<app, mIsStartup, base, starts, loopBase, mutex, signalled,
                   overtaken>>

AddSignals(t) ==
    /\ loop[t] = "set"
    /\ loop' = [loop EXCEPT ![t] = "run"]
    /\ UNCHANGED <<app, mIsStartup, base, starts, loopBase, mutex, signalled,
                   overtaken>>

\* A pass of the loop executes the event of a signal that has been caught;
\* mIsStartup may have been cleared since the pass has begun.
LoopPass(t) ==
    /\ loop[t] = "run"
    /\ signalled
    /\ signalled' = FALSE
    /\ loop' = [loop EXCEPT ![t] = "handler"]
    /\ UNCHANGED <<app, mIsStartup, base, starts, loopBase, mutex, overtaken>>


LoopStops(t) ==
    /\ loop[t] = "run" /\ mIsStartup = 0
    /\ loop' = [loop EXCEPT ![t] = "del"]
    /\ UNCHANGED <<app, mIsStartup, base, starts, loopBase, mutex, signalled,
                   overtaken>>

DelSignals(t) ==
    /\ loop[t] = "del"
    /\ loopBase' = [loopBase EXCEPT ![t] = 0]
    /\ mutex' = "free"
    /\ loop' = [loop EXCEPT ![t] = "none"]
    /\ UNCHANGED <<app, mIsStartup, base, starts, signalled, overtaken>>

\* sigHandler calls shutdown, in the loop's own thread, which holds the
\* mutex: pthread_mutex_lock never returns, and nothing leaves "locked".
SigHandler(t) ==
    /\ loop[t] = "handler"
    /\ mIsStartup' = 0
    /\ loop' = [loop EXCEPT ![t] = "locked"]
    /\ UNCHANGED <<app, base, starts, loopBase, mutex, signalled, overtaken>>

\* SIGINT or SIGTERM once the handlers are installed.
SignalArrives ==
    /\ Signals /\ \E t \in Thread : loop[t] = "run"
    /\ signalled' = TRUE
    /\ UNCHANGED <<app, loop, mIsStartup, base, starts, loopBase, mutex,
                   overtaken>>

AppStep == Spawn \/ LockForDestroy \/ DestroyGlobal \/ DestroyMutex

LoopStep(t) ==
    LoopBegins(t) \/ GetGlobal(t) \/ LoopDies(t) \/ AddSignals(t) \/ LoopPass(t)
    \/ LoopStops(t) \/ DelSignals(t) \/ SigHandler(t)

Next ==
    /\ ~Dead
    /\ \/ Startup \/ Shutdown \/ AppStep \/ SignalArrives
       \/ \E t \in Thread : LoopStep(t)

Spec == Init /\ [][Next]_vars

(***************************************************************************)
(* A thread that can take its next step does; no one has to start or stop  *)
(* the reactor, or send a signal.                                          *)
(***************************************************************************)
FairSpec ==
    /\ Spec
    /\ WF_vars(~Dead /\ AppStep)
    /\ \A t \in Thread : WF_vars(~Dead /\ LoopStep(t))

-----------------------------------------------------------------------------
\* The thread uses the base it has asked for.
InLoop(t) == loop[t] \in {"set", "run", "handler", "locked", "del"}

HasMutex(t) == loop[t] = "get" \/ InLoop(t)

\* Types of the station's state; who has mExitMutex is at its place in the
\* code, and nobody else is.
TypeOK ==
    /\ app \in {"idle", "spawn", "lock", "destroy", "mutex"}
    /\ loop \in [Thread -> {"none", "begin", "get", "set", "run", "handler",
                            "locked", "del", "unlocked", "dead"}]
    /\ mIsStartup \in {0, 1}
    /\ starts \in 0 .. MaxStarts
    /\ base \in {0, starts} /\ loopBase \in [Thread -> 0 .. MaxStarts]
    /\ mutex \in {"none", "free", "app", "loop"}
    /\ mutex = "app" <=> app = "destroy"
    /\ \A t \in Thread : HasMutex(t) => mutex = "loop"
    /\ \A t, u \in Thread : HasMutex(t) /\ HasMutex(u) => t = u
    /\ signalled \in BOOLEAN
    /\ overtaken \subseteq Thread

\* shutdown frees mEveGlobal only after the loop's thread has stopped using
\* it, over any number of restarts (ReactorStation.cpp:73-77, 126-128): a
\* thread that uses a base uses the present one.  Only a thread that a
\* shutdown has overtaken ever follows mEveGlobal without the mutex or when
\* it is NULL; the code does nothing to keep a shutdown from that.
LoopUsesLiveBase ==
    /\ \A t \in Thread : InLoop(t) => loopBase[t] = base /\ base # 0
    /\ \A t \in Thread : loop[t] \in {"unlocked", "dead"} => t \in overtaken

\* A new loop's thread is started only when the old one has ended, unless a
\* shutdown has overtaken the old one before it locked.
OneLoop ==
    [][app = "spawn" /\ app' = "idle" =>
           \A t \in Thread : loop[t] = "none" \/ t \in overtaken]_vars

\* ReactorStation.cpp:143, "Clean close on SIGINT or SIGTERM": a caught
\* signal closes the reactor (or an overtaken thread brings the process down
\* first).
CleanClose == signalled ~> (base = 0 \/ Dead)
=============================================================================
