----------------------------- MODULE ThreadPool -----------------------------
(***************************************************************************)
(* The pool of worker threads (common/gthread/gthreadpool.cpp): threads    *)
(* that call dispatch, the worker threads (wrapperFunc and saveThread),    *)
(* and the destructor, which runs when the calls of dispatch are over, as  *)
(* in TestThreadpool's main.                                               *)
(*                                                                         *)
(* A step is what a thread does between two points where it can be held    *)
(* up: a mutex it has to wait for, or a condition.  A thread that waits    *)
(* on a condition holds no mutex of it; one that has been signalled takes  *)
(* the mutex again before it goes on.                                      *)
(*                                                                         *)
(* A definition whose name ends in Mutant is the definition after it with  *)
(* a plausible mistake in it.                                              *)
(***************************************************************************)
EXTENDS Integers, Sequences, FiniteSets

CONSTANTS
    Caller,         \* the threads that call dispatch
    NJobs,          \* bound: how often dispatch is called
    maxThreads      \* the pool's size as the constructor is told

ASSUME PoolAssumption == NJobs \in Nat /\ maxThreads \in Int

Job == 1 .. NJobs

\* A worker thread, and its GThread_t, is known by the job it was made for.
Thread == Job

VARIABLES
    mMaxThreads,
    mThreadList,    \* the first mIndex entries: the idle threads
    mTotal,
    mIsShutdown,
    mMainMutex,     \* who holds it, or Nobody
    mMutex,         \* each thread's own mutex: who holds it, or Nobody
    at,             \* where each caller, each thread and the destructor is
    call,           \* the job a caller is dispatching
    thread,         \* the idle thread it has taken for it
    next,           \* the destructor's i: the next idle thread to signal
    mArg,           \* each thread's mFunc and mArg: the job it is given
    calls,          \* how many calls of dispatch have begun
    accepted,       \* the jobs for which dispatch has found a thread
    runs,           \* how often each job has been run
    freed           \* the threads whose GThread_t has been freed

pool   == <<mMaxThreads, mThreadList, mTotal, mIsShutdown>>
mutex  == <<mMainMutex, mMutex>>
local  == <<call, thread, next>>
work   == <<mArg, calls, accepted, runs>>
vars   == <<pool, mutex, at, local, work, freed>>

Nobody  == <<"nobody", 0>>
Dtor    == <<"destructor", 0>>
C(c)    == <<"caller", c>>
T(t)    == <<"thread", t>>
Process == {Dtor} \cup {C(c) : c \in Caller} \cup {T(t) : t \in Thread}

mIndex == Len(mThreadList)

Go(p, from, to) == at[p] = from /\ at' = [at EXCEPT ![p] = to]

\* The constructors and initPara.
PoolSize(n) == IF n <= 0 THEN 2 ELSE n

Init ==
    /\ mMaxThreads \in {0, PoolSize(maxThreads)}
    /\ mThreadList = <<>> /\ mTotal = 0 /\ mIsShutdown = 0
    /\ mMainMutex = Nobody
    /\ mMutex = [t \in Thread |-> Nobody]
    /\ at = [p \in Process |-> "idle"]
    /\ call = [c \in Caller |-> 0] /\ thread = [c \in Caller |-> 0]
    /\ next = 1
    /\ mArg = [t \in Thread |-> 0]
    /\ calls = 0 /\ accepted = {}
    /\ runs = [j \in Job |-> 0]
    /\ freed = {}

\* A pool made by the constructor without arguments is given its size before
\* it is used.
InitPara ==
    /\ mMaxThreads = 0
    /\ mMaxThreads' = PoolSize(maxThreads)
    /\ UNCHANGED <<mThreadList, mTotal, mIsShutdown, mutex, at, local, work,
                   freed>>

\* pthread_cond_wait returns: the mutex is taken again, the condition is not
\* looked at again.
Resume(p, from, to) ==
    /\ mMainMutex = Nobody
    /\ Go(p, from, to)
    /\ mMainMutex' = p
    /\ UNCHANGED <<pool, mMutex, local, work, freed>>

(***************************************************************************)
(* dispatch.                                                               *)
(***************************************************************************)
NoThread == mIndex <= 0 /\ mTotal >= mMaxThreads

\* Takes mMainMutex; waits on mIdleCond, which gives it back, when there is
\* no idle thread and no more threads may be made.
Dispatch(c) ==
    /\ mMaxThreads > 0 /\ calls < NJobs /\ mMainMutex = Nobody
    /\ calls' = calls + 1
    /\ call' = [call EXCEPT ![c] = calls + 1]
    /\ \/ NoThread /\ Go(C(c), "idle", "waitIdle") /\ UNCHANGED mMainMutex
       \/ ~NoThread /\ Go(C(c), "idle", "assign") /\ mMainMutex' = C(c)
    /\ UNCHANGED <<pool, mMutex, thread, next, mArg, accepted, runs, freed>>

IdleSeen(c) == Resume(C(c), "wokenIdle", "assign")

\* No idle thread: one is made for the job.
Create(c) ==
    LET t == call[c]
    IN  /\ mIndex <= 0 /\ at[C(c)] = "assign"
        /\ at' = [at EXCEPT ![C(c)] = "idle", ![T(t)] = "test"]
        /\ mArg' = [mArg EXCEPT ![t] = t]
        /\ mTotal' = mTotal + 1
        /\ accepted' = accepted \cup {t}
        /\ mMainMutex' = Nobody
        /\ UNCHANGED <<mMaxThreads, mThreadList, mIsShutdown, mMutex, local,
                       calls, runs, freed>>

CreateFailsMutant(c) ==
    /\ mIndex <= 0
    /\ Go(C(c), "assign", "idle")
    /\ mTotal' = mTotal + 1
    /\ mMainMutex' = Nobody
    /\ UNCHANGED <<mMaxThreads, mThreadList, mIsShutdown, mMutex, local, work,
                   freed>>

\* pthread_create fails: dispatch returns -1, the job is never run.
CreateFails(c) ==
    /\ mIndex <= 0
    /\ Go(C(c), "assign", "idle")
    /\ mMainMutex' = Nobody
    /\ UNCHANGED <<pool, mMutex, local, work, freed>>

Last(s)  == s[Len(s)]
Front(s) == SubSeq(s, 1, Len(s) - 1)

ReuseMutant(c) ==
    /\ mIndex > 0
    /\ Go(C(c), "assign", "signal")
    /\ thread' = [thread EXCEPT ![c] = Last(mThreadList)]
    /\ mArg' = [mArg EXCEPT ![Last(mThreadList)] = call[c]]
    /\ accepted' = accepted \cup {call[c]}
    /\ UNCHANGED <<pool, mutex, call, next, calls, runs, freed>>

\* The idle thread that came last is taken off the list and given the job.
Reuse(c) ==
    /\ mIndex > 0
    /\ Go(C(c), "assign", "signal")
    /\ mThreadList' = Front(mThreadList)
    /\ thread' = [thread EXCEPT ![c] = Last(mThreadList)]
    /\ mArg' = [mArg EXCEPT ![Last(mThreadList)] = call[c]]
    /\ accepted' = accepted \cup {call[c]}
    /\ UNCHANGED <<mMaxThreads, mTotal, mIsShutdown, mutex, call, next, calls,
                   runs, freed>>

\* pthread_cond_signal of a thread's own condition.
Woken(a, t) ==
    IF a[T(t)] = "waiting" THEN [a EXCEPT ![T(t)] = "woken"] ELSE a

\* dispatch signals the thread under the thread's mutex.
SignalThreadMutant(c) ==
    /\ at[C(c)] = "signal"
    /\ at' = [Woken(at, thread[c]) EXCEPT ![C(c)] = "idle"]
    /\ mMainMutex' = Nobody
    /\ UNCHANGED <<pool, mMutex, local, work, freed>>

SignalThread(c) ==
    /\ at[C(c)] = "signal" /\ mMutex[thread[c]] = Nobody
    /\ at' = [Woken(at, thread[c]) EXCEPT ![C(c)] = "idle"]
    /\ mMainMutex' = Nobody
    /\ UNCHANGED <<pool, mMutex, local, work, freed>>

(***************************************************************************)
(* wrapperFunc and saveThread.                                             *)
(***************************************************************************)
Test(t) ==
    /\ \/ mIsShutdown = 0 /\ Go(T(t), "test", "run")
       \/ mIsShutdown # 0 /\ Go(T(t), "test", "exit")
    /\ UNCHANGED <<pool, mutex, local, work, freed>>

RunJob(t) ==
    /\ Go(T(t), "run", "ran")
    /\ runs' = [runs EXCEPT ![mArg[t]] = @ + 1]
    /\ UNCHANGED <<pool, mutex, local, mArg, calls, accepted, freed>>

LockOwnMutant(t) ==
    /\ Go(T(t), "ran", "save")
    /\ UNCHANGED <<pool, mutex, local, work, freed>>

LockOwn(t) ==
    /\ mMutex[t] = Nobody
    /\ Go(T(t), "ran", "save")
    /\ mMutex' = [mMutex EXCEPT ![t] = T(t)]
    /\ UNCHANGED <<pool, mMainMutex, local, work, freed>>

\* pthread_cond_signal of mIdleCond wakes one of the callers that wait.
SignalIdle(a) ==
    LET waiting == {c \in Caller : a[C(c)] = "waitIdle"}
    IN  IF waiting = {} THEN {a}
        ELSE {[a EXCEPT ![C(c)] = "wokenIdle"] : c \in waiting}

\* pthread_cond_signal of mFullCond or mEmptyCond.
SignalDtor(a, from, to) ==
    IF a[Dtor] = from THEN [a EXCEPT ![Dtor] = to] ELSE a

ListFull == mIndex >= mMaxThreads

SaveThreadMutant(t) ==
    /\ mMainMutex = Nobody
    /\ ~ListFull
    /\ at[T(t)] = "save"
    /\ mThreadList' = Append(mThreadList, t)
    /\ \E a \in SignalIdle(at) :
        at' = [(IF mIndex >= mTotal THEN SignalDtor(a, "waitFull", "wokenFull")
                ELSE a) EXCEPT ![T(t)] = "wait"]
    /\ UNCHANGED <<mMaxThreads, mTotal, mIsShutdown, mutex, local, work, freed>>

\* The thread is put on the list; whoever waits for an idle thread, or for
\* all of them, is told.
SaveThread(t) ==
    /\ mMainMutex = Nobody
    /\ ~ListFull
    /\ at[T(t)] = "save"
    /\ mThreadList' = Append(mThreadList, t)
    /\ \E a \in SignalIdle(at) :
        at' = [(IF mIndex + 1 >= mTotal
                THEN SignalDtor(a, "waitFull", "wokenFull")
                ELSE a) EXCEPT ![T(t)] = "wait"]
    /\ UNCHANGED <<mMaxThreads, mTotal, mIsShutdown, mutex, local, work, freed>>

\* The list is full: the thread frees its structure and ends, and mTotal
\* goes on counting it.
Quit(t) ==
    /\ mMainMutex = Nobody
    /\ ListFull
    /\ Go(T(t), "save", "gone")
    /\ mMutex' = [mMutex EXCEPT ![t] = Nobody]
    /\ freed' = freed \cup {t}
    /\ UNCHANGED <<pool, mMainMutex, local, work>>

\* pthread_cond_wait on the thread's own condition gives its mutex back.
WaitOwn(t) ==
    /\ Go(T(t), "wait", "waiting")
    /\ mMutex' = [mMutex EXCEPT ![t] = Nobody]
    /\ UNCHANGED <<pool, mMainMutex, local, work, freed>>

\* It returns: the mutex is taken and given back.
WaitEnds(t) ==
    /\ mMutex[t] = Nobody
    /\ Go(T(t), "woken", "test")
    /\ UNCHANGED <<pool, mutex, local, work, freed>>

ExitMutant(t) ==
    /\ mMainMutex = Nobody
    /\ at[T(t)] = "exit"
    /\ mTotal' = mTotal - 1
    /\ at' = [SignalDtor(at, "waitEmpty", "wokenEmpty")
              EXCEPT ![T(t)] = "gone"]
    /\ UNCHANGED <<mMaxThreads, mThreadList, mIsShutdown, mutex, local, work,
                   freed>>

Exit(t) ==
    /\ mMainMutex = Nobody
    /\ at[T(t)] = "exit"
    /\ mTotal' = mTotal - 1
    /\ at' = [(IF mTotal - 1 <= 0
               THEN SignalDtor(at, "waitEmpty", "wokenEmpty")
               ELSE at) EXCEPT ![T(t)] = "gone"]
    /\ UNCHANGED <<mMaxThreads, mThreadList, mIsShutdown, mutex, local, work,
                   freed>>

(***************************************************************************)
(* ~GThreadPool.                                                           *)
(***************************************************************************)
CallsOver == calls = NJobs /\ \A c \in Caller : at[C(c)] = "idle"

\* Waits on mFullCond, once, when threads are busy.
Destroy ==
    /\ mMaxThreads > 0 /\ CallsOver /\ mMainMutex = Nobody
    /\ \/ mIndex < mTotal /\ Go(Dtor, "idle", "waitFull")
          /\ UNCHANGED mMainMutex
       \/ mIndex >= mTotal /\ Go(Dtor, "idle", "shut") /\ mMainMutex' = Dtor
    /\ UNCHANGED <<pool, mMutex, local, work, freed>>

FullSeen == Resume(Dtor, "wokenFull", "shut")

Shut ==
    /\ Go(Dtor, "shut", "signal")
    /\ mIsShutdown' = 1
    /\ UNCHANGED <<mMaxThreads, mThreadList, mTotal, mutex, local, work, freed>>

\* Each idle thread is signalled under its own mutex.
SignalNext ==
    LET t == mThreadList[next]
    IN  /\ at[Dtor] = "signal" /\ next <= mIndex
        /\ mMutex[t] = Nobody
        /\ at' = Woken(at, t)
        /\ next' = next + 1
        /\ UNCHANGED <<pool, mutex, call, thread, work, freed>>

\* Waits on mEmptyCond, once, when there are threads.
AllSignalled ==
    /\ next > mIndex
    /\ \/ mTotal > 0 /\ Go(Dtor, "signal", "waitEmpty") /\ mMainMutex' = Nobody
       \/ mTotal <= 0 /\ Go(Dtor, "signal", "free") /\ UNCHANGED mMainMutex
    /\ UNCHANGED <<pool, mMutex, local, work, freed>>

EmptySeen == Resume(Dtor, "wokenEmpty", "free")

\* The structures of the idle threads, the mutex and the list are freed.
FreeAll ==
    /\ Go(Dtor, "free", "gone")
    /\ freed' = freed \cup {mThreadList[i] : i \in 1 .. mIndex}
    /\ mThreadList' = <<>>
    /\ mMainMutex' = Nobody
    /\ UNCHANGED <<mMaxThreads, mTotal, mIsShutdown, mMutex, local, work>>

CallerStep(c) ==
    Dispatch(c) \/ IdleSeen(c) \/ Create(c) \/ CreateFails(c) \/ Reuse(c)
    \/ SignalThread(c)

ThreadStep(t) ==
    Test(t) \/ RunJob(t) \/ LockOwn(t) \/ SaveThread(t) \/ Quit(t)
    \/ WaitOwn(t) \/ WaitEnds(t) \/ Exit(t)

DtorStep ==
    Destroy \/ FullSeen \/ Shut \/ SignalNext \/ AllSignalled \/ EmptySeen
    \/ FreeAll

\* Where the program may stop: the pool is gone, or the destructor waits for
\* a thread that is counted although it has ended.
Ended ==
    /\ at[Dtor] = "gone" \/ (at[Dtor] = "waitFull" /\ mTotal > mMaxThreads)
    /\ \A t \in Thread : at[T(t)] \in {"idle", "waiting", "gone"}
    /\ UNCHANGED vars

Next ==
    \/ InitPara
    \/ \E c \in Caller : CallerStep(c)
    \/ \E t \in Thread : ThreadStep(t)
    \/ DtorStep
    \/ Ended

Spec == Init /\ [][Next]_vars

(***************************************************************************)
(* Every thread that can take its next step does.  A mutex is given back   *)
(* after a few steps, and no more than NJobs jobs contend for it.          *)
(***************************************************************************)
FairSpec ==
    /\ Spec
    /\ WF_vars(InitPara) /\ WF_vars(DtorStep)
    /\ \A c \in Caller : WF_vars(CallerStep(c))
    /\ \A t \in Thread : WF_vars(ThreadStep(t))

-----------------------------------------------------------------------------
Begun   == {t \in Thread : at[T(t)] # "idle"}
Gone    == {t \in Thread : at[T(t)] = "gone"}
Running == Begun \ Gone

HoldsMain(p) == at[p] \in {"assign", "signal", "shut", "free"}

\* Types of the pool's state; whoever holds a mutex is where the code holds it.
TypeOK ==
    /\ mMaxThreads \in {0, PoolSize(maxThreads)}
    /\ mThreadList \in Seq(Thread)
    /\ mTotal \in 0 .. NJobs /\ mIsShutdown \in {0, 1}
    /\ at \in [Process -> {"idle", "waitIdle", "wokenIdle", "assign", "signal",
           "test", "run", "ran", "save", "wait", "waiting", "woken", "exit",
           "gone", "waitFull", "wokenFull", "shut", "waitEmpty", "wokenEmpty",
           "free"}]
    /\ mMainMutex \in Process \cup {Nobody}
    /\ mMutex \in [Thread -> Process \cup {Nobody}]
    /\ call \in [Caller -> 0 .. NJobs] /\ thread \in [Caller -> 0 .. NJobs]
    /\ next \in Nat \ {0}
    /\ mArg \in [Thread -> 0 .. NJobs] /\ calls \in 0 .. NJobs
    /\ accepted \subseteq Job /\ runs \in [Job -> Nat] /\ freed \subseteq Thread
    /\ \A p \in Process : mMainMutex = p <=> HoldsMain(p)
    /\ \A t \in Thread :
        mMutex[t] = IF at[T(t)] \in {"save", "wait"} THEN T(t) ELSE Nobody

\* A job is run at most once, and only when dispatch has taken it: a thread
\* that is signalled never finds the job of the call before, and no job is
\* written over before it has been run (gthreadpool.cpp:159-170, 181-187).
RunsOnce ==
    \A j \in Job :
        /\ runs[j] <= 1
        /\ runs[j] = 1 => j \in accepted
        /\ j \in accepted /\ runs[j] = 0 =>
              \E t \in Running : mArg[t] = j

\* mTotal counts the threads that run, and goes on counting those that have
\* freed themselves because the list was full (147, 201, 188-195).
TotalCounts ==
    at[Dtor] # "gone" => mTotal = Cardinality(Running) + Cardinality(freed)

\* Nobody reaches a GThread_t, or the pool, after it has been freed: a thread
\* whose structure is gone has ended, one on the list is not gone, and all
\* threads have ended when the destructor has (95-111, 190-205).
NoUseAfterFree ==
    /\ \A t \in freed : at[T(t)] = "gone"
    /\ \A i \in 1 .. mIndex : mThreadList[i] \notin freed
    /\ at[Dtor] = "gone" => \A t \in Thread : at[T(t)] \in {"idle", "gone"}

\* Every job dispatch has taken is run: no signal is lost between saveThread
\* and pthread_cond_wait, and the destructor does not overtake a job.
AcceptedRun == \A j \in Job : j \in accepted ~> runs[j] = 1

\* Every call of dispatch returns and the destructor ends, and then every
\* structure has been freed, unless callers that overlapped have made more
\* threads than the pool may have (gthreadpool.cpp:74-79, 131-134, 197).
DestroyEnds ==
    <>[]( /\ CallsOver
          /\ \/ at[Dtor] = "gone" /\ freed = Begun
             \/ mTotal > mMaxThreads )
=============================================================================
