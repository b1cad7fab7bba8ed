-------------------------- MODULE ThreadPoolProofs --------------------------
(***************************************************************************)
(* What holds of the pool for any callers, any number of jobs and any      *)
(* size: its types and who holds its mutexes, that a job is run once, what *)
(* mTotal counts, and that nothing is used after it has been freed.        *)
(*                                                                         *)
(* None of these is inductive by itself.  What carries them is that a      *)
(* thread off the list which waits, or is about to test or run, has been   *)
(* given a job nobody has run and nobody else has (LoadedOnce), that a     *)
(* thread on the list waits until the destructor wakes it (ListWaits), and *)
(* what the destructor knows at each of its stages (Stages).               *)
(***************************************************************************)
EXTENDS ThreadPool, FiniteSetTheorems, SequenceTheorems, TLAPS

CallerAt == {"idle", "waitIdle", "wokenIdle", "assign", "signal"}
ThreadAt == {"idle", "test", "run", "ran", "save", "wait", "waiting", "woken",
             "exit", "gone"}
DtorAt   == {"idle", "waitFull", "wokenFull", "shut", "signal", "waitEmpty",
             "wokenEmpty", "free", "gone"}

Places ==
    /\ at \in [Process -> CallerAt \cup ThreadAt \cup DtorAt]
    /\ \A c \in Caller : at[C(c)] \in CallerAt
    /\ \A t \in Thread : at[T(t)] \in ThreadAt
    /\ at[Dtor] \in DtorAt

Types ==
    /\ mMaxThreads \in {0, PoolSize(maxThreads)}
    /\ mThreadList \in Seq(Thread)
    /\ mTotal \in Int /\ mIsShutdown \in {0, 1}
    /\ mMainMutex \in Process \cup {Nobody}
    /\ call \in [Caller -> 0 .. NJobs] /\ thread \in [Caller -> 0 .. NJobs]
    /\ next \in Nat \ {0}
    /\ mArg \in [Thread -> 0 .. NJobs] /\ calls \in 0 .. NJobs
    /\ accepted \subseteq Job /\ runs \in [Job -> 0 .. 1]
    /\ freed \subseteq Thread

\* Who holds which mutex.
Held ==
    /\ mMutex \in [Thread -> Process \cup {Nobody}]
    /\ \A c \in Caller : mMainMutex = C(c) <=> at[C(c)] \in {"assign", "signal"}
    /\ mMainMutex = Dtor <=> at[Dtor] \in {"shut", "signal", "free"}
    /\ \A t \in Thread :
        /\ mMainMutex # T(t)
        /\ mMutex[t] = IF at[T(t)] \in {"save", "wait"} THEN T(t) ELSE Nobody

OnList == {mThreadList[i] : i \in 1 .. mIndex}

\* The thread has been given a job and has not begun to run it.
Loaded(t) ==
    /\ at[T(t)] \in {"test", "run", "wait", "waiting", "woken"}
    /\ t \notin OnList

Dispatching(c) == at[C(c)] \in {"waitIdle", "wokenIdle", "assign"}

\* A job that is being dispatched is nobody else's yet.
CallsFresh ==
    /\ \A c \in Caller : Dispatching(c) =>
          /\ call[c] \in 1 .. calls /\ at[T(call[c])] = "idle"
          /\ call[c] \notin accepted
    /\ \A c, d \in Caller :
          Dispatching(c) /\ Dispatching(d) /\ call[c] = call[d] => c = d
    /\ \A j \in Job : j > calls => at[T(j)] = "idle" /\ j \notin accepted
    /\ \A c \in Caller : at[C(c)] = "signal" =>
          thread[c] \in Thread /\ thread[c] \notin OnList

ListWaits ==
    /\ \A i, j \in 1 .. mIndex : mThreadList[i] = mThreadList[j] => i = j
    /\ \A t \in OnList :
        \/ at[T(t)] \in {"wait", "waiting"}
        \/ mIsShutdown = 1 /\ at[T(t)] \in {"woken", "test", "exit", "gone"}

LoadedOnce ==
    /\ \A t \in Thread : Loaded(t) => mArg[t] \in accepted /\ runs[mArg[t]] = 0
    /\ \A t, u \in Thread :
          Loaded(t) /\ Loaded(u) /\ mArg[t] = mArg[u] => t = u
    /\ \A j \in accepted :
          runs[j] = 0 => \E t \in Thread : Loaded(t) /\ mArg[t] = j
    /\ \A j \in Job : runs[j] = 1 => j \in accepted

\* What the destructor knows on its way.
Stages ==
    /\ at[Dtor] # "idle" => CallsOver
    /\ mIsShutdown = 1 <=>
          at[Dtor] \in {"signal", "waitEmpty", "wokenEmpty", "free", "gone"}
    /\ at[Dtor] \in DtorAt \ {"idle", "waitFull", "gone"} =>
          Running \subseteq OnList
    /\ at[Dtor] \in {"wokenEmpty", "free"} => mTotal <= 0
    /\ at[Dtor] = "gone" => mThreadList = <<>> /\ Running = {} /\ mTotal = 0

Frees == freed \subseteq Gone /\ \A t \in freed : t \notin OnList

IInv ==
    /\ Places /\ Types /\ Held /\ CallsFresh /\ ListWaits /\ LoadedOnce
    /\ Stages /\ Frees /\ TotalCounts

-----------------------------------------------------------------------------
\* The processes are different from each other and from Nobody.
LEMMA Processes ==
    /\ Dtor \in Process /\ Dtor # Nobody /\ Nobody \notin Process
    /\ \A c \in Caller : C(c) \in Process /\ C(c) # Dtor /\ C(c) # Nobody
    /\ \A t \in Thread : T(t) \in Process /\ T(t) # Dtor /\ T(t) # Nobody
    /\ \A c, d \in Caller : C(c) = C(d) => c = d
    /\ \A t, u \in Thread : T(t) = T(u) => t = u
    /\ \A c \in Caller, t \in Thread : C(c) # T(t)
BY DEF Process, Dtor, Nobody, C, T

\* Every process is one of these.
LEMMA Kinds ==
    ASSUME NEW p \in Process
    PROVE  p = Dtor \/ (\E c \in Caller : p = C(c)) \/ (\E t \in Thread : p = T(t))
BY DEF Process

\* Threads are finitely many; they are the jobs.
LEMMA ThreadsFinite ==
    /\ IsFiniteSet(Thread) /\ Cardinality(Thread) = NJobs
    /\ Thread = Job /\ Job \subseteq Nat
BY PoolAssumption, FS_Interval DEF Thread, Job

\* The list as a set.
LEMMA ListSet ==
    ASSUME mThreadList \in Seq(Thread)
    PROVE  /\ mIndex \in Nat
           /\ OnList \subseteq Thread
           /\ \A i \in 1 .. mIndex : mThreadList[i] \in OnList
BY DEF mIndex, OnList

\* A list without repetitions has as many entries as it names threads.
LEMMA ListCard ==
    ASSUME mThreadList \in Seq(Thread),
           \A i, j \in 1 .. mIndex : mThreadList[i] = mThreadList[j] => i = j
    PROVE  IsFiniteSet(OnList) /\ Cardinality(OnList) = mIndex
<1>1. mIndex \in Nat
  BY ListSet
<1>2. mThreadList \in Bijection(1 .. mIndex, OnList)
  <2>1. mThreadList \in [1 .. mIndex -> OnList]
    BY DEF mIndex, OnList
  <2>2. mThreadList \in Injection(1 .. mIndex, OnList)
    BY <2>1 DEF Injection, IsInjective
  <2>3. mThreadList \in Surjection(1 .. mIndex, OnList)
    BY <2>1 DEF Surjection, OnList
  <2> QED
    BY <2>2, <2>3 DEF Bijection
<1>3. ExistsBijection(1 .. mIndex, OnList)
  BY <1>2 DEF ExistsBijection
<1> QED
  BY <1>1, <1>3, FS_CountingElements, FS_NatBijection

\* When as many threads are listed as are counted, all that run are listed.
LEMMA AllListed ==
    ASSUME IInv, at[Dtor] # "gone", mIsShutdown = 0, mIndex >= mTotal
    PROVE  Running \subseteq OnList
<1>1. Running \subseteq Thread /\ freed \subseteq Thread
  BY DEF IInv, Types, Running, Begun
<1>2. IsFiniteSet(Running) /\ IsFiniteSet(freed)
  BY <1>1, ThreadsFinite, FS_Subset
<1>3. Cardinality(Running) \in Nat /\ Cardinality(freed) \in Nat
  BY <1>2, FS_CardinalityType
<1>4. OnList \subseteq Running
  <2>1. OnList \subseteq Thread
    BY ListSet DEF IInv, Types
  <2>2. \A t \in OnList : at[T(t)] \in {"wait", "waiting"}
    BY DEF IInv, ListWaits
  <2> QED
    BY <2>1, <2>2 DEF Running, Begun, Gone
<1>5. Cardinality(OnList) = mIndex /\ mIndex \in Nat
  BY ListCard, ListSet DEF IInv, Types, ListWaits
<1>6. mIndex >= Cardinality(Running)
  BY <1>3, <1>5 DEF IInv, TotalCounts
<1>7. Cardinality(OnList) <= Cardinality(Running)
      /\ (Cardinality(Running) = Cardinality(OnList) => Running = OnList)
  BY <1>2, <1>4, FS_Subset
<1> QED
  BY <1>3, <1>5, <1>6, <1>7

\* In the beginning there are no threads.
LEMMA InitInvariant == Init => IInv
<1> SUFFICES ASSUME Init PROVE IInv
  OBVIOUS
<1> USE DEF Init
<1>1. /\ \A c \in Caller : at[C(c)] = "idle"
      /\ \A t \in Thread : at[T(t)] = "idle"
      /\ at[Dtor] = "idle"
  BY Processes
<1>2. mIndex = 0 /\ OnList = {} /\ Running = {} /\ freed = {}
  BY <1>1 DEF mIndex, OnList, Running, Begun
<1>3. Places
  BY <1>1 DEF Places, CallerAt, ThreadAt, DtorAt
<1>4. Types
  <2>1. 0 \in 0 .. NJobs /\ 0 \in 0 .. 1
    BY PoolAssumption
  <2>2. mThreadList \in Seq(Thread)
    OBVIOUS
  <2> QED
    BY <2>1, <2>2 DEF Types, Thread
<1>5. Held
  BY <1>1, Processes DEF Held
<1>6. CallsFresh /\ ListWaits
  BY <1>1, <1>2 DEF CallsFresh, Dispatching, ListWaits, Thread
<1>7. LoadedOnce
  BY <1>1 DEF LoadedOnce, Loaded
<1>8. Stages /\ Frees
  BY <1>1, <1>2 DEF Stages, Frees, DtorAt
<1>9. TotalCounts
  BY <1>2, FS_EmptySet DEF TotalCounts
<1> QED
  BY <1>3, <1>4, <1>5, <1>6, <1>7, <1>8, <1>9 DEF IInv

-----------------------------------------------------------------------------
\* A thread's step from one place to the next moves nobody else.
LEMMA ThreadGoes ==
    ASSUME Places, NEW t \in Thread, NEW from, NEW to \in ThreadAt,
           Go(T(t), from, to)
    PROVE  /\ at[T(t)] = from /\ at'[T(t)] = to
           /\ \A u \in Thread : u # t => at'[T(u)] = at[T(u)]
           /\ \A c \in Caller : at'[C(c)] = at[C(c)]
           /\ at'[Dtor] = at[Dtor]
           /\ Places'
<1>1. /\ at[T(t)] = from /\ at'[T(t)] = to
      /\ \A u \in Thread : u # t => at'[T(u)] = at[T(u)]
      /\ \A c \in Caller : at'[C(c)] = at[C(c)]
      /\ at'[Dtor] = at[Dtor]
  BY Processes DEF Go, Places
<1>2. at' \in [Process -> CallerAt \cup ThreadAt \cup DtorAt]
  BY DEF Go, Places
<1> QED
  BY <1>1, <1>2 DEF Places

\* So does a caller's.
LEMMA CallerGoes ==
    ASSUME Places, NEW c \in Caller, NEW from, NEW to \in CallerAt,
           Go(C(c), from, to)
    PROVE  /\ at[C(c)] = from /\ at'[C(c)] = to
           /\ \A d \in Caller : d # c => at'[C(d)] = at[C(d)]
           /\ \A t \in Thread : at'[T(t)] = at[T(t)]
           /\ at'[Dtor] = at[Dtor]
           /\ Places'
<1>1. /\ at[C(c)] = from /\ at'[C(c)] = to
      /\ \A d \in Caller : d # c => at'[C(d)] = at[C(d)]
      /\ \A t \in Thread : at'[T(t)] = at[T(t)]
      /\ at'[Dtor] = at[Dtor]
  BY Processes DEF Go, Places
<1>2. at' \in [Process -> CallerAt \cup ThreadAt \cup DtorAt]
  BY DEF Go, Places
<1> QED
  BY <1>1, <1>2 DEF Places

\* So does the destructor's.
LEMMA DtorGoes ==
    ASSUME Places, NEW from, NEW to \in DtorAt, Go(Dtor, from, to)
    PROVE  /\ at[Dtor] = from /\ at'[Dtor] = to
           /\ \A c \in Caller : at'[C(c)] = at[C(c)]
           /\ \A t \in Thread : at'[T(t)] = at[T(t)]
           /\ Places'
<1>1. /\ at[Dtor] = from /\ at'[Dtor] = to
      /\ \A c \in Caller : at'[C(c)] = at[C(c)]
      /\ \A t \in Thread : at'[T(t)] = at[T(t)]
  BY Processes DEF Go, Places
<1>2. at' \in [Process -> CallerAt \cup ThreadAt \cup DtorAt]
  BY DEF Go, Places
<1> QED
  BY <1>1, <1>2 DEF Places

\* A signal to a thread moves it from "waiting" to "woken" and nobody else.
LEMMA WokenAt ==
    ASSUME Places, NEW t \in Thread
    PROVE  /\ Woken(at, t) \in [Process -> CallerAt \cup ThreadAt \cup DtorAt]
           /\ Woken(at, t)[T(t)] =
                  IF at[T(t)] = "waiting" THEN "woken" ELSE at[T(t)]
           /\ \A u \in Thread : u # t => Woken(at, t)[T(u)] = at[T(u)]
           /\ \A c \in Caller : Woken(at, t)[C(c)] = at[C(c)]
           /\ Woken(at, t)[Dtor] = at[Dtor]
BY Processes DEF Woken, Places, ThreadAt

\* A step that changes no list, no job and no count, and by which no thread
\* begins, ends, or gets or loses a job.
LEMMA Kept ==
    ASSUME IInv,
           UNCHANGED <<mThreadList, mTotal, mArg, accepted, runs, freed>>,
           \A u \in Thread :
              /\ at'[T(u)] = "idle" <=> at[T(u)] = "idle"
              /\ at'[T(u)] = "gone" <=> at[T(u)] = "gone"
              /\ (at'[T(u)] \in {"test", "run", "wait", "waiting", "woken"}
                     <=> at[T(u)] \in {"test", "run", "wait", "waiting", "woken"})
                 \/ u \in OnList,
           at[Dtor] = "gone" => at'[Dtor] = "gone",
           at'[Dtor] = "gone" => at[Dtor] = "gone"
    PROVE  /\ mIndex' = mIndex /\ OnList' = OnList
           /\ Begun' = Begun /\ Gone' = Gone /\ Running' = Running
           /\ LoadedOnce' /\ Frees' /\ TotalCounts'
<1>1. mIndex' = mIndex /\ OnList' = OnList
  BY DEF mIndex, OnList
<1>2. Begun' = Begun /\ Gone' = Gone /\ Running' = Running
  BY DEF Begun, Gone, Running
<1>3. \A u \in Thread : Loaded(u)' <=> Loaded(u)
  BY <1>1 DEF Loaded
<1>4. LoadedOnce'
  BY <1>3 DEF IInv, LoadedOnce
<1>5. Frees'
  BY <1>1, <1>2 DEF IInv, Frees
<1>6. TotalCounts'
  BY <1>2 DEF IInv, TotalCounts
<1> QED
  BY <1>1, <1>2, <1>4, <1>5, <1>6

\* The list and the jobs being dispatched name threads.
LEMMA Named ==
    ASSUME IInv
    PROVE  /\ OnList \subseteq Thread
           /\ \A c \in Caller : Dispatching(c) => call[c] \in Thread
           /\ mIndex \in Nat
           /\ \A i \in 1 .. mIndex : mThreadList[i] \in OnList
<1>1. OnList \subseteq Thread /\ mIndex \in Nat
      /\ \A i \in 1 .. mIndex : mThreadList[i] \in OnList
  BY ListSet DEF IInv, Types
<1>2. \A c \in Caller : Dispatching(c) => call[c] \in Thread
  BY PoolAssumption DEF IInv, Types, CallsFresh, Thread, Job
<1> QED
  BY <1>1, <1>2

\* The thread takes its own mutex.
LEMMA LockOwnKeeps ==
    ASSUME IInv, NEW t \in Thread, LockOwn(t)
    PROVE  IInv'
<1>2. /\ at[T(t)] = "ran" /\ at'[T(t)] = "save"
      /\ \A u \in Thread : u # t => at'[T(u)] = at[T(u)]
      /\ \A c \in Caller : at'[C(c)] = at[C(c)]
      /\ at'[Dtor] = at[Dtor]
      /\ Places'
  BY ThreadGoes DEF IInv, LockOwn, ThreadAt
<1>3. Types'
  BY PoolAssumption DEF IInv, Types, LockOwn, pool, mutex, local, work
<1>4. Held'
  BY <1>2, Processes DEF IInv, Held, LockOwn, pool, mutex, local, work
<1>5. /\ mIndex' = mIndex /\ OnList' = OnList
      /\ Begun' = Begun /\ Gone' = Gone /\ Running' = Running
      /\ LoadedOnce' /\ Frees' /\ TotalCounts'
  <2>1. UNCHANGED <<mThreadList, mTotal, mArg, accepted, runs, freed>>
    BY DEF LockOwn, pool, mutex, local, work
  <2> QED
    BY <1>2, <2>1, Kept
<1>6. CallsFresh'
  BY <1>2, <1>5, Named DEF IInv, CallsFresh, Dispatching, LockOwn, pool, mutex,
     local, work, Thread
<1>7. ListWaits'
  BY <1>2, <1>5, Named DEF IInv, ListWaits, LockOwn, pool, mutex, local, work
<1>8. Stages'
  BY <1>2, <1>5 DEF IInv, Stages, CallsOver, DtorAt, LockOwn, pool, mutex,
     local, work
<1> QED
  BY <1>2, <1>3, <1>4, <1>5, <1>6, <1>7, <1>8 DEF IInv

\* It waits on its condition.
LEMMA WaitOwnKeeps ==
    ASSUME IInv, NEW t \in Thread, WaitOwn(t)
    PROVE  IInv'
<1>2. /\ at[T(t)] = "wait" /\ at'[T(t)] = "waiting"
      /\ \A u \in Thread : u # t => at'[T(u)] = at[T(u)]
      /\ \A c \in Caller : at'[C(c)] = at[C(c)]
      /\ at'[Dtor] = at[Dtor]
      /\ Places'
  BY ThreadGoes DEF IInv, WaitOwn, ThreadAt
<1>3. Types'
  BY PoolAssumption DEF IInv, Types, WaitOwn, pool, mutex, local, work
<1>4. Held'
  BY <1>2, Processes DEF IInv, Held, WaitOwn, pool, mutex, local, work
<1>5. /\ mIndex' = mIndex /\ OnList' = OnList
      /\ Begun' = Begun /\ Gone' = Gone /\ Running' = Running
      /\ LoadedOnce' /\ Frees' /\ TotalCounts'
  <2>1. UNCHANGED <<mThreadList, mTotal, mArg, accepted, runs, freed>>
    BY DEF WaitOwn, pool, mutex, local, work
  <2> QED
    BY <1>2, <2>1, Kept
<1>6. CallsFresh'
  BY <1>2, <1>5, Named DEF IInv, CallsFresh, Dispatching, WaitOwn, pool, mutex,
     local, work, Thread
<1>7. ListWaits'
  BY <1>2, <1>5, Named DEF IInv, ListWaits, WaitOwn, pool, mutex, local, work
<1>8. Stages'
  BY <1>2, <1>5 DEF IInv, Stages, CallsOver, DtorAt, WaitOwn, pool, mutex,
     local, work
<1> QED
  BY <1>2, <1>3, <1>4, <1>5, <1>6, <1>7, <1>8 DEF IInv

\* It goes on.
LEMMA WaitEndsKeeps ==
    ASSUME IInv, NEW t \in Thread, WaitEnds(t)
    PROVE  IInv'
<1>2. /\ at[T(t)] = "woken" /\ at'[T(t)] = "test"
      /\ \A u \in Thread : u # t => at'[T(u)] = at[T(u)]
      /\ \A c \in Caller : at'[C(c)] = at[C(c)]
      /\ at'[Dtor] = at[Dtor]
      /\ Places'
  BY ThreadGoes DEF IInv, WaitEnds, ThreadAt
<1>3. Types'
  BY PoolAssumption DEF IInv, Types, WaitEnds, pool, mutex, local, work
<1>4. Held'
  BY <1>2, Processes DEF IInv, Held, WaitEnds, pool, mutex, local, work
<1>5. /\ mIndex' = mIndex /\ OnList' = OnList
      /\ Begun' = Begun /\ Gone' = Gone /\ Running' = Running
      /\ LoadedOnce' /\ Frees' /\ TotalCounts'
  <2>1. UNCHANGED <<mThreadList, mTotal, mArg, accepted, runs, freed>>
    BY DEF WaitEnds, pool, mutex, local, work
  <2> QED
    BY <1>2, <2>1, Kept
<1>6. CallsFresh'
  BY <1>2, <1>5, Named DEF IInv, CallsFresh, Dispatching, WaitEnds, pool,
     mutex, local, work, Thread
<1>7. ListWaits'
  BY <1>2, <1>5, Named DEF IInv, ListWaits, WaitEnds, pool, mutex, local, work
<1>8. Stages'
  BY <1>2, <1>5 DEF IInv, Stages, CallsOver, DtorAt, WaitEnds, pool, mutex,
     local, work
<1> QED
  BY <1>2, <1>3, <1>4, <1>5, <1>6, <1>7, <1>8 DEF IInv

\* A caller is told of an idle thread.
LEMMA IdleSeenKeeps ==
    ASSUME IInv, NEW c \in Caller, IdleSeen(c)
    PROVE  IInv'
<1>2. /\ at[C(c)] = "wokenIdle" /\ at'[C(c)] = "assign"
      /\ \A d \in Caller : d # c => at'[C(d)] = at[C(d)]
      /\ \A t \in Thread : at'[T(t)] = at[T(t)]
      /\ at'[Dtor] = at[Dtor]
      /\ Places'
  BY CallerGoes DEF IInv, IdleSeen, Resume, CallerAt
<1>3. Types'
  BY Processes DEF IInv, Types, IdleSeen, Resume, pool, mutex, local, work
<1>4. Held'
  BY <1>2, Processes DEF IInv, Held, IdleSeen, Resume, pool, mutex, local, work
<1>5. /\ mIndex' = mIndex /\ OnList' = OnList
      /\ Begun' = Begun /\ Gone' = Gone /\ Running' = Running
      /\ LoadedOnce' /\ Frees' /\ TotalCounts'
  <2>1. UNCHANGED <<mThreadList, mTotal, mArg, accepted, runs, freed>>
    BY DEF IdleSeen, Resume, pool, mutex, local, work
  <2> QED
    BY <1>2, <2>1, Kept
<1>6. CallsFresh'
  BY <1>2, <1>5, Named DEF IInv, CallsFresh, Dispatching, IdleSeen, Resume,
     pool, mutex, local, work, Thread
<1>7. ListWaits'
  BY <1>2, <1>5, Named DEF IInv, ListWaits, IdleSeen, Resume, pool, mutex,
     local, work
<1>8. Stages'
  BY <1>2, <1>5 DEF IInv, Stages, CallsOver, DtorAt, IdleSeen, Resume, pool,
     mutex, local, work
<1> QED
  BY <1>2, <1>3, <1>4, <1>5, <1>6, <1>7, <1>8 DEF IInv

\* pthread_create fails.
LEMMA CreateFailsKeeps ==
    ASSUME IInv, NEW c \in Caller, CreateFails(c)
    PROVE  IInv'
<1>2. /\ at[C(c)] = "assign" /\ at'[C(c)] = "idle"
      /\ \A d \in Caller : d # c => at'[C(d)] = at[C(d)]
      /\ \A t \in Thread : at'[T(t)] = at[T(t)]
      /\ at'[Dtor] = at[Dtor]
      /\ Places'
  BY CallerGoes DEF IInv, CreateFails, CallerAt
<1>3. Types'
  BY PoolAssumption DEF IInv, Types, CreateFails, pool, mutex, local, work
<1>4. Held'
  BY <1>2, Processes DEF IInv, Held, CreateFails, pool, mutex, local, work
<1>5. /\ mIndex' = mIndex /\ OnList' = OnList
      /\ Begun' = Begun /\ Gone' = Gone /\ Running' = Running
      /\ LoadedOnce' /\ Frees' /\ TotalCounts'
  <2>1. UNCHANGED <<mThreadList, mTotal, mArg, accepted, runs, freed>>
    BY DEF CreateFails, pool, mutex, local, work
  <2> QED
    BY <1>2, <2>1, Kept
<1>6. CallsFresh'
  BY <1>2, <1>5, Named DEF IInv, CallsFresh, Dispatching, CreateFails, pool,
     mutex, local, work, Thread
<1>7. ListWaits'
  BY <1>2, <1>5, Named DEF IInv, ListWaits, CreateFails, pool, mutex, local,
     work
<1>8. Stages'
  BY <1>2, <1>5 DEF IInv, Stages, CallsOver, DtorAt, CreateFails, pool, mutex,
     local, work
<1> QED
  BY <1>2, <1>3, <1>4, <1>5, <1>6, <1>7, <1>8 DEF IInv

\* The destructor is told that all threads are idle.
LEMMA FullSeenKeeps ==
    ASSUME IInv, FullSeen
    PROVE  IInv'
<1>2. /\ at[Dtor] = "wokenFull" /\ at'[Dtor] = "shut"
      /\ \A c \in Caller : at'[C(c)] = at[C(c)]
      /\ \A t \in Thread : at'[T(t)] = at[T(t)]
      /\ Places'
  BY DtorGoes DEF IInv, FullSeen, Resume, DtorAt
<1>3. Types'
  BY Processes DEF IInv, Types, FullSeen, Resume, pool, mutex, local, work
<1>4. Held'
  BY <1>2, Processes DEF IInv, Held, FullSeen, Resume, pool, mutex, local, work
<1>5. /\ mIndex' = mIndex /\ OnList' = OnList
      /\ Begun' = Begun /\ Gone' = Gone /\ Running' = Running
      /\ LoadedOnce' /\ Frees' /\ TotalCounts'
  <2>1. UNCHANGED <<mThreadList, mTotal, mArg, accepted, runs, freed>>
    BY DEF FullSeen, Resume, pool, mutex, local, work
  <2> QED
    BY <1>2, <2>1, Kept
<1>6. CallsFresh'
  BY <1>2, <1>5, Named DEF IInv, CallsFresh, Dispatching, FullSeen, Resume,
     pool, mutex, local, work, Thread
<1>7. ListWaits'
  BY <1>2, <1>5, Named DEF IInv, ListWaits, FullSeen, Resume, pool, mutex,
     local, work
<1>8. Stages'
  BY <1>2, <1>5 DEF IInv, Stages, CallsOver, DtorAt, FullSeen, Resume, pool,
     mutex, local, work
<1> QED
  BY <1>2, <1>3, <1>4, <1>5, <1>6, <1>7, <1>8 DEF IInv

\* It is told that all threads have ended.
LEMMA EmptySeenKeeps ==
    ASSUME IInv, EmptySeen
    PROVE  IInv'
<1>2. /\ at[Dtor] = "wokenEmpty" /\ at'[Dtor] = "free"
      /\ \A c \in Caller : at'[C(c)] = at[C(c)]
      /\ \A t \in Thread : at'[T(t)] = at[T(t)]
      /\ Places'
  BY DtorGoes DEF IInv, EmptySeen, Resume, DtorAt
<1>3. Types'
  BY Processes DEF IInv, Types, EmptySeen, Resume, pool, mutex, local, work
<1>4. Held'
  BY <1>2, Processes DEF IInv, Held, EmptySeen, Resume, pool, mutex, local, work
<1>5. /\ mIndex' = mIndex /\ OnList' = OnList
      /\ Begun' = Begun /\ Gone' = Gone /\ Running' = Running
      /\ LoadedOnce' /\ Frees' /\ TotalCounts'
  <2>1. UNCHANGED <<mThreadList, mTotal, mArg, accepted, runs, freed>>
    BY DEF EmptySeen, Resume, pool, mutex, local, work
  <2> QED
    BY <1>2, <2>1, Kept
<1>6. CallsFresh'
  BY <1>2, <1>5, Named DEF IInv, CallsFresh, Dispatching, EmptySeen, Resume,
     pool, mutex, local, work, Thread
<1>7. ListWaits'
  BY <1>2, <1>5, Named DEF IInv, ListWaits, EmptySeen, Resume, pool, mutex,
     local, work
<1>8. Stages'
  BY <1>2, <1>5 DEF IInv, Stages, CallsOver, DtorAt, EmptySeen, Resume, pool,
     mutex, local, work
<1> QED
  BY <1>2, <1>3, <1>4, <1>5, <1>6, <1>7, <1>8 DEF IInv

\* It sets mIsShutdown.
LEMMA ShutKeeps ==
    ASSUME IInv, Shut
    PROVE  IInv'
<1>2. /\ at[Dtor] = "shut" /\ at'[Dtor] = "signal"
      /\ \A c \in Caller : at'[C(c)] = at[C(c)]
      /\ \A t \in Thread : at'[T(t)] = at[T(t)]
      /\ Places'
  BY DtorGoes DEF IInv, Shut, DtorAt
<1>3. Types'
  BY PoolAssumption DEF IInv, Types, Shut, pool, mutex, local, work
<1>4. Held'
  BY <1>2, Processes DEF IInv, Held, Shut, pool, mutex, local, work
<1>5. /\ mIndex' = mIndex /\ OnList' = OnList
      /\ Begun' = Begun /\ Gone' = Gone /\ Running' = Running
      /\ LoadedOnce' /\ Frees' /\ TotalCounts'
  <2>1. UNCHANGED <<mThreadList, mTotal, mArg, accepted, runs, freed>>
    BY DEF Shut, pool, mutex, local, work
  <2> QED
    BY <1>2, <2>1, Kept
<1>6. CallsFresh'
  BY <1>2, <1>5, Named DEF IInv, CallsFresh, Dispatching, Shut, pool, mutex,
     local, work, Thread
<1>7. ListWaits'
  BY <1>2, <1>5, Named DEF IInv, ListWaits, Shut, pool, mutex, local, work
<1>8. Stages'
  BY <1>2, <1>5 DEF IInv, Stages, CallsOver, DtorAt, Shut, pool, mutex, local,
     work
<1> QED
  BY <1>2, <1>3, <1>4, <1>5, <1>6, <1>7, <1>8 DEF IInv

\* The thread looks at mIsShutdown: when the pool is shut down it was on the list.
LEMMA TestKeeps ==
    ASSUME IInv, NEW t \in Thread, Test(t)
    PROVE  IInv'
<1>1. PICK to \in {"run", "exit"} :
          /\ Go(T(t), "test", to)
          /\ to = "run" => mIsShutdown = 0
          /\ to = "exit" => mIsShutdown = 1
  BY DEF Test, IInv, Types
<1>1a. to = "exit" => t \in OnList
  <2>1. HAVE to = "exit"
  <2>2. at[T(t)] = "test" /\ mIsShutdown = 1
    BY <1>1, <2>1, ThreadGoes DEF IInv, ThreadAt
  <2>3. at[Dtor] = "gone" => Running = {}
    BY DEF IInv, Stages
  <2>4. t \in Running
    BY <2>2 DEF Running, Begun, Gone
  <2>5. Running \subseteq OnList
    BY <2>2, <2>3, <2>4 DEF IInv, Stages, DtorAt
  <2> QED
    BY <2>4, <2>5
<1>2. /\ at[T(t)] = "test" /\ at'[T(t)] = to
      /\ \A u \in Thread : u # t => at'[T(u)] = at[T(u)]
      /\ \A c \in Caller : at'[C(c)] = at[C(c)]
      /\ at'[Dtor] = at[Dtor]
      /\ Places'
  BY <1>1, ThreadGoes DEF IInv, ThreadAt
<1>3. Types'
  BY PoolAssumption DEF IInv, Types, Test, pool, mutex, local, work
<1>4. Held'
  BY <1>1, <1>2, Processes DEF IInv, Held, Test, pool, mutex, local, work
<1>5. /\ mIndex' = mIndex /\ OnList' = OnList
      /\ Begun' = Begun /\ Gone' = Gone /\ Running' = Running
      /\ LoadedOnce' /\ Frees' /\ TotalCounts'
  <2>1. UNCHANGED <<mThreadList, mTotal, mArg, accepted, runs, freed>>
    BY DEF Test, pool, mutex, local, work
  <2> QED
    BY <1>2, <2>1, Kept, <1>1, <1>1a
<1>6. CallsFresh'
  BY <1>1, <1>2, <1>5, Named, PoolAssumption DEF IInv, CallsFresh, Types, Job,
     Dispatching, Test, pool, mutex, local, work, Thread
<1>7. ListWaits'
  BY <1>2, <1>5, Named, <1>1 DEF IInv, ListWaits, Test, pool, mutex, local, work
<1>8. Stages'
  BY <1>2, <1>5 DEF IInv, Stages, CallsOver, DtorAt, Test, pool, mutex, local,
     work
<1> QED
  BY <1>2, <1>3, <1>4, <1>5, <1>6, <1>7, <1>8 DEF IInv

\* dispatch signals the thread it has taken off the list.
LEMMA SignalThreadKeeps ==
    ASSUME IInv, NEW c \in Caller, SignalThread(c)
    PROVE  IInv'
<1> DEFINE w == Woken(at, thread[c])
<1>1. /\ at[C(c)] = "signal" /\ thread[c] \in Thread /\ thread[c] \notin OnList
      /\ at' = [w EXCEPT ![C(c)] = "idle"]
  BY DEF IInv, CallsFresh, SignalThread
<1>2. /\ at[C(c)] = "signal" /\ at'[C(c)] = "idle"
      /\ \A d \in Caller : d # c => at'[C(d)] = at[C(d)]
      /\ at'[Dtor] = at[Dtor]
      /\ \A u \in Thread :
            \/ at'[T(u)] = at[T(u)]
            \/ at[T(u)] = "waiting" /\ at'[T(u)] = "woken" /\ u \notin OnList
      /\ Places'
  <2>1. /\ w \in [Process -> CallerAt \cup ThreadAt \cup DtorAt]
        /\ w[T(thread[c])] = IF at[T(thread[c])] = "waiting" THEN "woken"
                              ELSE at[T(thread[c])]
        /\ \A u \in Thread : u # thread[c] => w[T(u)] = at[T(u)]
        /\ \A d \in Caller : w[C(d)] = at[C(d)]
        /\ w[Dtor] = at[Dtor]
    BY <1>1, WokenAt DEF IInv
  <2> HIDE DEF w
  <2>2. at' \in [Process -> CallerAt \cup ThreadAt \cup DtorAt]
    BY <1>1, <2>1 DEF CallerAt
  <2>3. /\ at'[C(c)] = "idle" /\ at'[Dtor] = at[Dtor]
        /\ \A d \in Caller : d # c => at'[C(d)] = at[C(d)]
        /\ \A u \in Thread : at'[T(u)] = w[T(u)]
    BY <1>1, <2>1, Processes
  <2>4. \A u \in Thread :
            \/ at'[T(u)] = at[T(u)]
            \/ at[T(u)] = "waiting" /\ at'[T(u)] = "woken" /\ u \notin OnList
    <3> SUFFICES ASSUME NEW u \in Thread
                 PROVE  \/ at'[T(u)] = at[T(u)]
                        \/ at[T(u)] = "waiting" /\ at'[T(u)] = "woken"
                           /\ u \notin OnList
      OBVIOUS
    <3>1. CASE u = thread[c]
      BY <1>1, <2>1, <2>3, <3>1
    <3>2. CASE u # thread[c]
      BY <2>1, <2>3, <3>2
    <3> QED
      BY <3>1, <3>2
  <2>5. Places'
    BY <2>2, <2>3, <2>4 DEF IInv, Places, CallerAt, ThreadAt
  <2> QED
    BY <1>1, <2>3, <2>4, <2>5
<1>3. Types'
  BY PoolAssumption DEF IInv, Types, SignalThread, pool, mutex, local, work
<1>4. Held'
  BY <1>2, Processes DEF IInv, Held, SignalThread, pool, mutex, local, work
<1>5. /\ mIndex' = mIndex /\ OnList' = OnList
      /\ Begun' = Begun /\ Gone' = Gone /\ Running' = Running
      /\ LoadedOnce' /\ Frees' /\ TotalCounts'
  <2>1. UNCHANGED <<mThreadList, mTotal, mArg, accepted, runs, freed>>
    BY DEF SignalThread, pool, mutex, local, work
  <2> QED
    BY <1>2, <2>1, Kept
<1>6. CallsFresh'
  BY <1>2, <1>5, Named DEF IInv, CallsFresh, Dispatching, SignalThread, pool,
     mutex, local, work, Thread
<1>7. ListWaits'
  BY <1>2, <1>5, Named DEF IInv, ListWaits, SignalThread, pool, mutex, local,
     work
<1>8. Stages'
  BY <1>2, <1>5 DEF IInv, Stages, CallsOver, DtorAt, SignalThread, pool, mutex,
     local, work
<1> QED
  BY <1>2, <1>3, <1>4, <1>5, <1>6, <1>7, <1>8 DEF IInv

\* The destructor signals a thread on the list.
LEMMA SignalNextKeeps ==
    ASSUME IInv, SignalNext
    PROVE  IInv'
<1> DEFINE t == mThreadList[next]
<1>1. /\ at[Dtor] = "signal" /\ at' = Woken(at, t)
      /\ t \in OnList /\ t \in Thread
  BY Named DEF IInv, Types, SignalNext
<1> HIDE DEF t
<1>2. /\ at[Dtor] = "signal" /\ at'[Dtor] = at[Dtor]
      /\ \A d \in Caller : at'[C(d)] = at[C(d)]
      /\ \A u \in Thread :
            \/ at'[T(u)] = at[T(u)]
            \/ at[T(u)] = "waiting" /\ at'[T(u)] = "woken" /\ u \in OnList
      /\ Places'
  <2>1. /\ at' \in [Process -> CallerAt \cup ThreadAt \cup DtorAt]
        /\ at'[T(t)] = IF at[T(t)] = "waiting" THEN "woken" ELSE at[T(t)]
        /\ \A u \in Thread : u # t => at'[T(u)] = at[T(u)]
        /\ \A d \in Caller : at'[C(d)] = at[C(d)]
        /\ at'[Dtor] = at[Dtor]
    BY <1>1, WokenAt DEF IInv
  <2>2. \A u \in Thread :
            \/ at'[T(u)] = at[T(u)]
            \/ at[T(u)] = "waiting" /\ at'[T(u)] = "woken" /\ u \in OnList
    <3> SUFFICES ASSUME NEW u \in Thread
                 PROVE  \/ at'[T(u)] = at[T(u)]
                        \/ at[T(u)] = "waiting" /\ at'[T(u)] = "woken"
                           /\ u \in OnList
      OBVIOUS
    <3>1. CASE u = t
      BY <1>1, <2>1, <3>1
    <3>2. CASE u # t
      BY <2>1, <3>2
    <3> QED
      BY <3>1, <3>2
  <2>3. Places'
    BY <2>1, <2>2 DEF IInv, Places, ThreadAt
  <2> QED
    BY <1>1, <2>1, <2>2, <2>3
<1>3. Types'
  BY PoolAssumption DEF IInv, Types, SignalNext, pool, mutex, local, work
<1>4. Held'
  BY <1>2, Processes DEF IInv, Held, SignalNext, pool, mutex, local, work
<1>5. /\ mIndex' = mIndex /\ OnList' = OnList
      /\ Begun' = Begun /\ Gone' = Gone /\ Running' = Running
      /\ LoadedOnce' /\ Frees' /\ TotalCounts'
  <2>1. UNCHANGED <<mThreadList, mTotal, mArg, accepted, runs, freed>>
    BY DEF SignalNext, pool, mutex, local, work
  <2> QED
    BY <1>2, <2>1, Kept
<1>6. CallsFresh'
  BY <1>2, <1>5, Named DEF IInv, CallsFresh, Dispatching, SignalNext, pool,
     mutex, local, work, Thread
<1>7. ListWaits'
  BY <1>2, <1>5, Named, <1>1 DEF IInv, Stages, ListWaits, SignalNext, pool,
     mutex, local, work
<1>8. Stages'
  BY <1>2, <1>5 DEF IInv, Stages, CallsOver, DtorAt, SignalNext, pool, mutex,
     local, work
<1> QED
  BY <1>2, <1>3, <1>4, <1>5, <1>6, <1>7, <1>8 DEF IInv

\* initPara changes the size alone.
LEMMA InitParaKeeps ==
    ASSUME IInv, InitPara
    PROVE  IInv'
<1>2. /\ at' = at
      /\ Places'
  BY DEF IInv, Places, InitPara
<1>3. Types'
  BY PoolAssumption DEF IInv, Types, InitPara, pool, mutex, local, work
<1>4. Held'
  BY <1>2, Processes DEF IInv, Held, InitPara, pool, mutex, local, work
<1>5. /\ mIndex' = mIndex /\ OnList' = OnList
      /\ Begun' = Begun /\ Gone' = Gone /\ Running' = Running
      /\ LoadedOnce' /\ Frees' /\ TotalCounts'
  <2>1. UNCHANGED <<mThreadList, mTotal, mArg, accepted, runs, freed>>
    BY DEF InitPara, pool, mutex, local, work
  <2> QED
    BY <1>2, <2>1, Kept
<1>6. CallsFresh'
  BY <1>2, <1>5, Named DEF IInv, CallsFresh, Dispatching, InitPara, pool,
     mutex, local, work, Thread
<1>7. ListWaits'
  BY <1>2, <1>5, Named DEF IInv, ListWaits, InitPara, pool, mutex, local, work
<1>8. Stages'
  BY <1>2, <1>5 DEF IInv, Stages, CallsOver, DtorAt, InitPara, pool, mutex,
     local, work
<1> QED
  BY <1>2, <1>3, <1>4, <1>5, <1>6, <1>7, <1>8 DEF IInv

\* A call of dispatch begins: its job is a new one.
LEMMA DispatchKeeps ==
    ASSUME IInv, NEW c \in Caller, Dispatch(c)
    PROVE  IInv'
<1>1. PICK to \in {"waitIdle", "assign"} :
          /\ Go(C(c), "idle", to)
          /\ to = "assign" => mMainMutex = Nobody /\ mMainMutex' = C(c)
          /\ to = "waitIdle" => mMainMutex = Nobody /\ mMainMutex' = mMainMutex
  BY DEF Dispatch
<1>1a. /\ at[Dtor] = "idle" /\ calls \in Nat /\ calls < NJobs
       /\ calls' = calls + 1 /\ call'[c] = calls + 1
       /\ \A d \in Caller : d # c => call'[d] = call[d]
       /\ thread' = thread /\ accepted' = accepted
  BY PoolAssumption DEF IInv, Stages, CallsOver, Types, Dispatch, work
<1>2. /\ at[C(c)] = "idle" /\ at'[C(c)] = to
      /\ \A d \in Caller : d # c => at'[C(d)] = at[C(d)]
      /\ \A t \in Thread : at'[T(t)] = at[T(t)]
      /\ at'[Dtor] = at[Dtor]
      /\ Places'
  BY <1>1, CallerGoes DEF IInv, CallerAt
<1>3. Types'
  BY PoolAssumption,Processes DEF IInv, Types, Dispatch, pool, mutex, local,
     work
<1>4. Held'
  BY <1>1, <1>2, Processes DEF IInv, Held, Dispatch, pool, mutex, local, work
<1>5. /\ mIndex' = mIndex /\ OnList' = OnList
      /\ Begun' = Begun /\ Gone' = Gone /\ Running' = Running
      /\ LoadedOnce' /\ Frees' /\ TotalCounts'
  <2>1. UNCHANGED <<mThreadList, mTotal, mArg, accepted, runs, freed>>
    BY DEF Dispatch, pool, mutex, local, work
  <2> QED
    BY <1>2, <2>1, Kept
<1>6. CallsFresh'
  <2>1. /\ at[T(calls + 1)] = "idle" /\ calls + 1 \notin accepted
        /\ calls + 1 \in Thread
    BY <1>1a, PoolAssumption DEF IInv, CallsFresh, Thread, Job
  <2>1a. /\ calls \in Int /\ calls' = calls + 1
         /\ calls + 1 \in 1 .. calls' /\ call'[c] = calls + 1
         /\ 1 .. calls \subseteq 1 .. calls'
    BY <1>1a, PoolAssumption DEF IInv, Types
  <2>2. \A d \in Caller : d # c =>
            /\ Dispatching(d)' <=> Dispatching(d)
            /\ Dispatching(d) => call[d] \in 1 .. calls /\ call[d] \in Thread
    BY <1>2, Named DEF IInv, CallsFresh, Dispatching
  <2>3. \A d \in Caller : Dispatching(d)' =>
            /\ call'[d] \in 1 .. calls' /\ at'[T(call'[d])] = "idle"
            /\ call'[d] \notin accepted'
    <3> SUFFICES ASSUME NEW d \in Caller, Dispatching(d)'
                 PROVE  /\ call'[d] \in 1 .. calls' /\ at'[T(call'[d])] = "idle"
                        /\ call'[d] \notin accepted'
      OBVIOUS
    <3>1. CASE d = c
      BY <1>1a, <1>2, <2>1, <2>1a, <3>1
    <3>2. CASE d # c
      BY <1>1a, <1>2, <2>1a, <2>2, <3>2 DEF IInv, CallsFresh
    <3> QED
      BY <3>1, <3>2
  <2>4. \A d, e \in Caller :
            Dispatching(d)' /\ Dispatching(e)' /\ call'[d] = call'[e] => d = e
    BY <1>1a, <2>2 DEF IInv, CallsFresh
  <2>5. \A j \in Job : j > calls' => at'[T(j)] = "idle" /\ j \notin accepted'
    <3>1. \A j \in Job : j > calls' => j > calls
      BY <2>1a DEF Job
    <3> QED
      BY <1>1a, <1>2, <3>1 DEF IInv, CallsFresh, Thread
  <2>6. \A d \in Caller : at'[C(d)] = "signal" =>
            thread'[d] \in Thread /\ thread'[d] \notin OnList'
    BY <1>1a, <1>1, <1>2, <1>5 DEF IInv, CallsFresh
  <2> QED
    BY <2>3, <2>4, <2>5, <2>6 DEF CallsFresh
<1>7. ListWaits'
  BY <1>2, <1>5, Named DEF IInv, ListWaits, Dispatch, pool, mutex, local, work
<1>8. Stages'
  BY <1>2, <1>5, <1>1a, PoolAssumption DEF IInv, Stages, CallsOver, DtorAt,
     Dispatch, pool, mutex, local, work
<1> QED
  BY <1>2, <1>3, <1>4, <1>5, <1>6, <1>7, <1>8 DEF IInv

\* The destructor begins; when it need not wait, all threads are idle.
LEMMA DestroyKeeps ==
    ASSUME IInv, Destroy
    PROVE  IInv'
<1>1. PICK to \in {"waitFull", "shut"} :
          /\ Go(Dtor, "idle", to)
          /\ to = "shut" => mIndex >= mTotal /\ mMainMutex' = Dtor
          /\ to = "waitFull" => mMainMutex' = mMainMutex
          /\ mMainMutex = Nobody /\ CallsOver
  BY DEF Destroy
<1>1a. to = "shut" => Running \subseteq OnList
  <2>1. at[Dtor] = "idle"
    BY <1>1, DtorGoes DEF IInv, DtorAt
  <2> QED
    BY <1>1, <2>1, AllListed DEF IInv, Stages, Types
<1>2. /\ at[Dtor] = "idle" /\ at'[Dtor] = to
      /\ \A c \in Caller : at'[C(c)] = at[C(c)]
      /\ \A t \in Thread : at'[T(t)] = at[T(t)]
      /\ Places'
  BY <1>1, DtorGoes DEF IInv, DtorAt
<1>3. Types'
  BY Processes,<1>1 DEF IInv, Types, Destroy, pool, mutex, local, work
<1>4. Held'
  BY <1>1, <1>2, Processes DEF IInv, Held, Destroy, pool, mutex, local, work
<1>5. /\ mIndex' = mIndex /\ OnList' = OnList
      /\ Begun' = Begun /\ Gone' = Gone /\ Running' = Running
      /\ LoadedOnce' /\ Frees' /\ TotalCounts'
  <2>1. UNCHANGED <<mThreadList, mTotal, mArg, accepted, runs, freed>>
    BY DEF Destroy, pool, mutex, local, work
  <2> QED
    BY <1>2, <2>1, Kept
<1>6. CallsFresh'
  BY <1>1, <1>2, <1>5, Named, PoolAssumption DEF IInv, CallsFresh, Types, Job,
     Dispatching, Destroy, pool, mutex, local, work, Thread
<1>7. ListWaits'
  BY <1>2, <1>5, Named DEF IInv, ListWaits, Destroy, pool, mutex, local, work
<1>8. Stages'
  BY <1>2, <1>5, <1>1a, <1>1 DEF IInv, Stages, CallsOver, DtorAt, Destroy,
     pool, mutex, local, work
<1> QED
  BY <1>2, <1>3, <1>4, <1>5, <1>6, <1>7, <1>8 DEF IInv

\* When all are signalled the destructor waits for them to end, if any is left.
LEMMA AllSignalledKeeps ==
    ASSUME IInv, AllSignalled
    PROVE  IInv'
<1>1. PICK to \in {"waitEmpty", "free"} :
          /\ Go(Dtor, "signal", to)
          /\ to = "waitEmpty" => mMainMutex' = Nobody
          /\ to = "free" => mTotal <= 0 /\ mMainMutex' = mMainMutex
  BY DEF AllSignalled
<1>2. /\ at[Dtor] = "signal" /\ at'[Dtor] = to
      /\ \A c \in Caller : at'[C(c)] = at[C(c)]
      /\ \A t \in Thread : at'[T(t)] = at[T(t)]
      /\ Places'
  BY <1>1, DtorGoes DEF IInv, DtorAt
<1>3. Types'
  BY Processes DEF IInv, Types, AllSignalled, pool, mutex, local, work
<1>4. Held'
  BY <1>1, <1>2, Processes DEF IInv, Held, AllSignalled, pool, mutex, local,
     work
<1>5. /\ mIndex' = mIndex /\ OnList' = OnList
      /\ Begun' = Begun /\ Gone' = Gone /\ Running' = Running
      /\ LoadedOnce' /\ Frees' /\ TotalCounts'
  <2>1. UNCHANGED <<mThreadList, mTotal, mArg, accepted, runs, freed>>
    BY DEF AllSignalled, pool, mutex, local, work
  <2> QED
    BY <1>2, <2>1, Kept
<1>6. CallsFresh'
  BY <1>1, <1>2, <1>5, Named, PoolAssumption DEF IInv, CallsFresh, Types, Job,
     Dispatching, AllSignalled, pool, mutex, local, work, Thread
<1>7. ListWaits'
  BY <1>2, <1>5, Named DEF IInv, ListWaits, AllSignalled, pool, mutex, local,
     work
<1>8. Stages'
  BY <1>2, <1>5, <1>1 DEF IInv, Stages, CallsOver, DtorAt, AllSignalled, pool,
     mutex, local, work
<1> QED
  BY <1>2, <1>3, <1>4, <1>5, <1>6, <1>7, <1>8 DEF IInv

\* A thread runs its job: it was the one thread loaded with it.
LEMMA RunJobKeeps ==
    ASSUME IInv, NEW t \in Thread, RunJob(t)
    PROVE  IInv'
<1>1. /\ at[T(t)] = "run" /\ at'[T(t)] = "ran"
      /\ \A u \in Thread : u # t => at'[T(u)] = at[T(u)]
      /\ \A c \in Caller : at'[C(c)] = at[C(c)]
      /\ at'[Dtor] = at[Dtor]
      /\ Places'
  BY ThreadGoes DEF IInv, RunJob, ThreadAt
<1>2. /\ pool' = pool /\ mutex' = mutex /\ local' = local /\ freed' = freed
      /\ mArg' = mArg /\ calls' = calls /\ accepted' = accepted
      /\ runs' = [runs EXCEPT ![mArg[t]] = @ + 1]
  BY DEF RunJob
<1>3. /\ mThreadList' = mThreadList /\ mTotal' = mTotal
      /\ mIsShutdown' = mIsShutdown /\ call' = call /\ thread' = thread
      /\ mIndex' = mIndex /\ OnList' = OnList
      /\ Begun' = Begun /\ Gone' = Gone /\ Running' = Running
  BY <1>1, <1>2 DEF pool, local, mIndex, OnList, Begun, Gone, Running
<1>4. t \notin OnList
  BY <1>1 DEF IInv, ListWaits
<1>5. Loaded(t) /\ mArg[t] \in accepted /\ mArg[t] \in Job /\ runs[mArg[t]] = 0
  BY <1>1, <1>4 DEF IInv, LoadedOnce, Loaded, Types
<1>6. \A u \in Thread : Loaded(u)' <=> Loaded(u) /\ u # t
  BY <1>1, <1>3 DEF Loaded
<1>7. /\ runs' \in [Job -> 0 .. 1] /\ runs'[mArg[t]] = 1
      /\ \A j \in Job : j # mArg[t] => runs'[j] = runs[j]
  BY <1>2, <1>5 DEF IInv, Types
<1>8. Types'
  BY <1>2, <1>7 DEF IInv, Types, pool, mutex, local
<1>9. LoadedOnce'
  <2>1. \A u \in Thread : Loaded(u)' =>
            mArg'[u] \in accepted' /\ runs'[mArg'[u]] = 0
    BY <1>2, <1>5, <1>6, <1>7 DEF IInv, LoadedOnce, Types
  <2>2. \A u, v \in Thread :
            Loaded(u)' /\ Loaded(v)' /\ mArg'[u] = mArg'[v] => u = v
    BY <1>2, <1>6 DEF IInv, LoadedOnce
  <2>3. \A j \in accepted' :
            runs'[j] = 0 => \E u \in Thread : Loaded(u)' /\ mArg'[u] = j
    <3> SUFFICES ASSUME NEW j \in accepted', runs'[j] = 0
                 PROVE  \E u \in Thread : Loaded(u)' /\ mArg'[u] = j
      OBVIOUS
    <3>1. j \in Job /\ j # mArg[t] /\ runs[j] = 0
      BY <1>2, <1>5, <1>7 DEF IInv, Types
    <3>2. PICK u \in Thread : Loaded(u) /\ mArg[u] = j
      BY <1>2, <3>1 DEF IInv, LoadedOnce
    <3> QED
      BY <1>2, <1>6, <3>1, <3>2
  <2>4. \A j \in Job : runs'[j] = 1 => j \in accepted'
    BY <1>2, <1>5, <1>7 DEF IInv, LoadedOnce
  <2> QED
    BY <2>1, <2>2, <2>3, <2>4 DEF LoadedOnce
<1>10. Held'
  BY <1>1, <1>2 DEF IInv, Held, mutex
<1>11. CallsFresh'
  BY <1>1, <1>2, <1>3, Named DEF IInv, CallsFresh, Dispatching, Thread
<1>12. ListWaits' /\ Frees' /\ TotalCounts'
  BY <1>1, <1>2, <1>3, Named DEF IInv, ListWaits, Frees, TotalCounts
<1>13. Stages'
  BY <1>1, <1>2, <1>3 DEF IInv, Stages, CallsOver
<1> QED
  BY <1>1, <1>8, <1>9, <1>10, <1>11, <1>12, <1>13 DEF IInv

\* A new thread is made for a job: it was nobody's, and so was the thread.
LEMMA CreateKeeps ==
    ASSUME IInv, NEW c \in Caller, Create(c)
    PROVE  IInv'
<1> DEFINE t == call[c]
<1>1. /\ at[C(c)] = "assign" /\ mIndex <= 0
      /\ at' = [at EXCEPT ![C(c)] = "idle", ![T(t)] = "test"]
      /\ mArg' = [mArg EXCEPT ![t] = t] /\ mTotal' = mTotal + 1
      /\ accepted' = accepted \cup {t} /\ mMainMutex' = Nobody
      /\ mThreadList' = mThreadList /\ mIsShutdown' = mIsShutdown
      /\ mMaxThreads' = mMaxThreads /\ mMutex' = mMutex
      /\ call' = call /\ thread' = thread /\ next' = next
      /\ calls' = calls /\ runs' = runs /\ freed' = freed
  BY DEF Create, local
<1>2. /\ t \in Thread /\ t \in Job /\ t \in 1 .. calls
      /\ at[T(t)] = "idle" /\ t \notin accepted
  BY <1>1, Named DEF IInv, CallsFresh, Dispatching, Thread
<1> HIDE DEF t
<1>3. /\ at'[C(c)] = "idle" /\ at'[T(t)] = "test"
      /\ \A d \in Caller : d # c => at'[C(d)] = at[C(d)]
      /\ \A u \in Thread : u # t => at'[T(u)] = at[T(u)]
      /\ at'[Dtor] = at[Dtor]
      /\ at' \in [Process -> CallerAt \cup ThreadAt \cup DtorAt]
  BY <1>1, <1>2, Processes DEF IInv, Places, CallerAt, ThreadAt
<1>4. Places'
  BY <1>3 DEF IInv, Places, CallerAt, ThreadAt
<1>5. at[Dtor] = "idle" /\ mIsShutdown = 0
  BY <1>1 DEF IInv, Stages, CallsOver, Types
<1>6. mIndex' = mIndex /\ mIndex = 0 /\ OnList = {} /\ OnList' = {}
  BY <1>1, ListSet DEF IInv, Types, mIndex, OnList
<1>7. Types'
  <2>1. mArg' \in [Thread -> 0 .. NJobs] /\ accepted' \subseteq Job
    BY <1>1, <1>2 DEF IInv, Types, Job, Thread
  <2>2. mTotal' \in Int
    BY <1>1 DEF IInv, Types
  <2> QED
    BY <1>1, <2>1, <2>2 DEF IInv, Types
<1>8. Held'
  <2>1. mMainMutex = C(c)
    BY <1>1 DEF IInv, Held
  <2>2. \A d \in Caller : d # c => at[C(d)] \notin {"assign", "signal"}
    BY <2>1, Processes DEF IInv, Held
  <2>3. \A u \in Thread : mMutex'[u] =
            IF at'[T(u)] \in {"save", "wait"} THEN T(u) ELSE Nobody
    <3>1. at[T(t)] \notin {"save", "wait"} /\ at'[T(t)] \notin {"save", "wait"}
      BY <1>2, <1>3
    <3> QED
      BY <1>1, <1>2, <1>3, <3>1 DEF IInv, Held
  <2>4. \A d \in Caller :
            mMainMutex' = C(d) <=> at'[C(d)] \in {"assign", "signal"}
    BY <1>1, <1>3, <2>2, Processes
  <2> QED
    BY <1>1, <1>3, <1>5, <2>3, <2>4, Processes DEF IInv, Held
<1>9. \A u \in Thread : Loaded(u)' <=> Loaded(u) \/ u = t
  BY <1>2, <1>3, <1>6 DEF Loaded
<1>10. /\ mArg'[t] = t /\ \A u \in Thread : u # t => mArg'[u] = mArg[u]
       /\ runs[t] = 0 /\ ~Loaded(t)
  BY <1>1, <1>2 DEF IInv, Types, LoadedOnce, Loaded
<1>11. LoadedOnce'
  <2>1. \A u \in Thread : Loaded(u)' =>
            mArg'[u] \in accepted' /\ runs'[mArg'[u]] = 0
    BY <1>1, <1>9, <1>10 DEF IInv, LoadedOnce
  <2>2. \A u, v \in Thread :
            Loaded(u)' /\ Loaded(v)' /\ mArg'[u] = mArg'[v] => u = v
    BY <1>2, <1>9, <1>10 DEF IInv, LoadedOnce
  <2>3. \A j \in accepted' :
            runs'[j] = 0 => \E u \in Thread : Loaded(u)' /\ mArg'[u] = j
    BY <1>1, <1>2, <1>9, <1>10 DEF IInv, LoadedOnce
  <2>4. \A j \in Job : runs'[j] = 1 => j \in accepted'
    BY <1>1 DEF IInv, LoadedOnce
  <2> QED
    BY <2>1, <2>2, <2>3, <2>4 DEF LoadedOnce
<1>12. CallsFresh'
  <2>1. \A d \in Caller : Dispatching(d)' => Dispatching(d) /\ d # c
    BY <1>3 DEF Dispatching
  <2>2. \A d \in Caller : Dispatching(d) /\ d # c => call[d] # t
    BY <1>1 DEF IInv, CallsFresh, Dispatching, t
  <2>3. \A d \in Caller : Dispatching(d)' =>
            /\ call'[d] \in 1 .. calls' /\ at'[T(call'[d])] = "idle"
            /\ call'[d] \notin accepted'
    BY <1>1, <1>3, <2>1, <2>2, Named DEF IInv, CallsFresh
  <2>4. \A d, e \in Caller :
            Dispatching(d)' /\ Dispatching(e)' /\ call'[d] = call'[e] => d = e
    BY <1>1, <2>1 DEF IInv, CallsFresh
  <2>5. \A j \in Job : j > calls' => at'[T(j)] = "idle" /\ j \notin accepted'
    <3>1. calls \in Int /\ t \in Int /\ t <= calls
      BY <1>2, PoolAssumption DEF IInv, Types
    <3>2. \A j \in Job : j > calls => j # t
      BY <3>1 DEF Job
    <3> QED
      BY <1>1, <1>3, <3>2 DEF IInv, CallsFresh, Thread
  <2>6. \A d \in Caller : at'[C(d)] = "signal" =>
            thread'[d] \in Thread /\ thread'[d] \notin OnList'
    BY <1>1, <1>3, <1>6 DEF IInv, CallsFresh
  <2> QED
    BY <2>3, <2>4, <2>5, <2>6 DEF CallsFresh
<1>13. ListWaits'
  BY <1>1, <1>6 DEF IInv, ListWaits
<1>14. Stages'
  BY <1>1, <1>3, <1>5 DEF IInv, Stages, DtorAt
<1>15. Frees'
  <2>1. Gone' = Gone
    BY <1>2, <1>3 DEF Gone
  <2> QED
    BY <1>1, <1>6, <2>1 DEF IInv, Frees
<1>16. TotalCounts'
  <2>1. Running' = Running \cup {t} /\ t \notin Running
    BY <1>2, <1>3 DEF Running, Begun, Gone
  <2>2. IsFiniteSet(Running)
    BY ThreadsFinite, FS_Subset DEF Running, Begun
  <2>3. Cardinality(Running') = Cardinality(Running) + 1
    BY <2>1, <2>2, FS_AddElement
  <2>4. Cardinality(Running) \in Nat
    BY <2>2, FS_CardinalityType
  <2>5. IsFiniteSet(freed) /\ Cardinality(freed) \in Nat
    BY ThreadsFinite, FS_Subset, FS_CardinalityType DEF IInv, Types
  <2> QED
    BY <1>1, <1>5, <2>3, <2>4, <2>5 DEF IInv, TotalCounts
<1> QED
  BY <1>4, <1>7, <1>8, <1>11, <1>12, <1>13, <1>14, <1>15, <1>16 DEF IInv

\* An idle thread gets a job: it leaves the list and is loaded.
LEMMA ReuseKeeps ==
    ASSUME IInv, NEW c \in Caller, Reuse(c)
    PROVE  IInv'
<1> DEFINE t == Last(mThreadList)
<1>1. /\ at[C(c)] = "assign" /\ at'[C(c)] = "signal"
      /\ \A d \in Caller : d # c => at'[C(d)] = at[C(d)]
      /\ \A u \in Thread : at'[T(u)] = at[T(u)]
      /\ at'[Dtor] = at[Dtor]
      /\ Places'
  BY CallerGoes DEF IInv, Reuse, CallerAt
<1>2. /\ mIndex > 0 /\ mThreadList' = Front(mThreadList)
      /\ thread' = [thread EXCEPT ![c] = t]
      /\ mArg' = [mArg EXCEPT ![t] = call[c]]
      /\ accepted' = accepted \cup {call[c]}
      /\ mMaxThreads' = mMaxThreads /\ mTotal' = mTotal
      /\ mIsShutdown' = mIsShutdown /\ mutex' = mutex /\ call' = call
      /\ next' = next /\ calls' = calls /\ runs' = runs /\ freed' = freed
  BY DEF Reuse
<1>3. /\ mIndex \in Nat /\ t = mThreadList[mIndex] /\ t \in OnList /\ t \in Thread
  BY <1>2, Named DEF Last, mIndex
<1> HIDE DEF t
<1>4. /\ mThreadList' \in Seq(Thread) /\ mIndex' = mIndex - 1
      /\ \A i \in 1 .. mIndex' : mThreadList'[i] = mThreadList[i]
  <2>1. mThreadList \in Seq(Thread) /\ Len(mThreadList) \in Nat
        /\ Len(mThreadList) > 0
    BY <1>2 DEF IInv, Types, mIndex
  <2> DEFINE n == Len(mThreadList)
  <2>2. mThreadList' = SubSeq(mThreadList, 1, n - 1)
    BY <1>2 DEF Front
  <2>3. /\ SubSeq(mThreadList, 1, n - 1) \in Seq(Thread)
        /\ Len(SubSeq(mThreadList, 1, n - 1)) = n - 1
        /\ \A i \in 1 .. n - 1 :
              SubSeq(mThreadList, 1, n - 1)[i] = mThreadList[i]
    <3>1. \A i \in 1 .. n - 1 : mThreadList[i] \in Thread
      BY <2>1
    <3>2. n - 1 \in Int /\ 1 \in Int /\ n - 1 >= 0
      BY <2>1
    <3> HIDE DEF n
    <3>3. /\ SubSeq(mThreadList, 1, n - 1) \in Seq(Thread)
          /\ Len(SubSeq(mThreadList, 1, n - 1)) =
                 IF 1 <= n - 1 THEN (n - 1) - 1 + 1 ELSE 0
          /\ \A i \in 1 .. (n - 1) - 1 + 1 :
                SubSeq(mThreadList, 1, n - 1)[i] = mThreadList[1 + i - 1]
      BY <3>1, <3>2, SubSeqProperties
    <3>4. \A i \in 1 .. n - 1 : 1 + i - 1 = i /\ i \in 1 .. (n - 1) - 1 + 1
      BY <3>2
    <3>5. (IF 1 <= n - 1 THEN (n - 1) - 1 + 1 ELSE 0) = n - 1
      BY <3>2
    <3> QED
      BY <3>3, <3>4, <3>5
  <2> QED
    BY <2>2, <2>3 DEF mIndex
<1>5. OnList' = OnList \ {t}
  <2>1. OnList' = {mThreadList[i] : i \in 1 .. mIndex - 1}
    BY <1>4 DEF OnList
  <2>2. \A i \in 1 .. mIndex - 1 : mThreadList[i] # t
    BY <1>3 DEF IInv, ListWaits
  <2>3. 1 .. mIndex = (1 .. mIndex - 1) \cup {mIndex}
    BY <1>2, <1>3
  <2> QED
    BY <1>3, <2>1, <2>2, <2>3 DEF OnList
<1>6. at[Dtor] = "idle" /\ mIsShutdown = 0 /\ at[T(t)] \in {"wait", "waiting"}
  BY <1>1, <1>3 DEF IInv, Stages, CallsOver, Types, ListWaits
<1>7. /\ call[c] \in 1 .. calls /\ call[c] \in Job /\ call[c] \in Thread
      /\ call[c] \notin accepted /\ at[T(call[c])] = "idle"
  BY <1>1, Named DEF IInv, CallsFresh, Dispatching, Thread
<1>8. Types'
  <2>1. /\ mArg' \in [Thread -> 0 .. NJobs] /\ accepted' \subseteq Job
        /\ thread' \in [Caller -> 0 .. NJobs]
    <3>1. mArg \in [Thread -> 0 .. NJobs] /\ thread \in [Caller -> 0 .. NJobs]
          /\ accepted \subseteq Job
      BY DEF IInv, Types
    <3>2. call[c] \in 0 .. NJobs /\ t \in 0 .. NJobs
      BY <1>3, <1>7, PoolAssumption DEF Thread, Job
    <3> QED
      BY <1>2, <1>7, <3>1, <3>2
  <2> QED
    BY <1>2, <1>4, <2>1 DEF IInv, Types, mutex
<1>9. Held'
  BY <1>1, <1>2 DEF IInv, Held, mutex
<1>10. \A u \in Thread : Loaded(u)' <=> Loaded(u) \/ u = t
  BY <1>1, <1>3, <1>5, <1>6 DEF Loaded
<1>11. /\ mArg'[t] = call[c] /\ \A u \in Thread : u # t => mArg'[u] = mArg[u]
       /\ runs[call[c]] = 0 /\ ~Loaded(t)
  BY <1>2, <1>3, <1>7 DEF IInv, Types, LoadedOnce, Loaded
<1>12. LoadedOnce'
  <2>1. \A u \in Thread : Loaded(u)' =>
            mArg'[u] \in accepted' /\ runs'[mArg'[u]] = 0
    BY <1>2, <1>10, <1>11 DEF IInv, LoadedOnce
  <2>2. \A u, v \in Thread :
            Loaded(u)' /\ Loaded(v)' /\ mArg'[u] = mArg'[v] => u = v
    BY <1>7, <1>10, <1>11 DEF IInv, LoadedOnce
  <2>3. \A j \in accepted' :
            runs'[j] = 0 => \E u \in Thread : Loaded(u)' /\ mArg'[u] = j
    BY <1>2, <1>3, <1>10, <1>11 DEF IInv, LoadedOnce
  <2>4. \A j \in Job : runs'[j] = 1 => j \in accepted'
    BY <1>2 DEF IInv, LoadedOnce
  <2> QED
    BY <2>1, <2>2, <2>3, <2>4 DEF LoadedOnce
<1>13. CallsFresh'
  <2>1. \A d \in Caller : Dispatching(d)' => Dispatching(d) /\ d # c
    BY <1>1 DEF Dispatching
  <2>2. \A d \in Caller : Dispatching(d) /\ d # c => call[d] # call[c]
    BY <1>1 DEF IInv, CallsFresh, Dispatching
  <2>3. \A d \in Caller : Dispatching(d)' =>
            /\ call'[d] \in 1 .. calls' /\ at'[T(call'[d])] = "idle"
            /\ call'[d] \notin accepted'
    BY <1>1, <1>2, <2>1, <2>2, Named DEF IInv, CallsFresh
  <2>4. \A d, e \in Caller :
            Dispatching(d)' /\ Dispatching(e)' /\ call'[d] = call'[e] => d = e
    BY <1>2, <2>1 DEF IInv, CallsFresh
  <2>5. \A j \in Job : j > calls' => at'[T(j)] = "idle" /\ j \notin accepted'
    <3>1. calls \in Int /\ call[c] \in Int /\ call[c] <= calls
      BY <1>7, PoolAssumption DEF IInv, Types
    <3>2. \A j \in Job : j > calls => j # call[c]
      BY <3>1 DEF Job
    <3> QED
      BY <1>1, <1>2, <3>2 DEF IInv, CallsFresh, Thread
  <2>6. mMainMutex = C(c)
    BY <1>1 DEF IInv, Held
  <2>7. \A d \in Caller : d # c => at[C(d)] # "signal"
    BY <2>6, Processes DEF IInv, Held
  <2>8. thread'[c] = t
    BY <1>2 DEF IInv, Types
  <2>9. \A d \in Caller : at'[C(d)] = "signal" =>
            thread'[d] \in Thread /\ thread'[d] \notin OnList'
    BY <1>1, <1>3, <1>5, <2>7, <2>8
  <2> QED
    BY <2>3, <2>4, <2>5, <2>9 DEF CallsFresh
<1>14. ListWaits'
  <2>1. \A i, j \in 1 .. mIndex' : mThreadList'[i] = mThreadList'[j] => i = j
    BY <1>3, <1>4 DEF IInv, ListWaits
  <2>2. \A u \in OnList' : at'[T(u)] \in {"wait", "waiting"}
    BY <1>1, <1>5, <1>6, Named DEF IInv, ListWaits
  <2> QED
    BY <2>1, <2>2 DEF ListWaits
<1>15. Stages'
  BY <1>1, <1>2, <1>6 DEF IInv, Stages, DtorAt
<1>16. Begun' = Begun /\ Gone' = Gone /\ Running' = Running
  BY <1>1 DEF Begun, Gone, Running
<1>17. Frees' /\ TotalCounts'
  BY <1>1, <1>2, <1>5, <1>16 DEF IInv, Frees, TotalCounts
<1> QED
  BY <1>1, <1>8, <1>9, <1>12, <1>13, <1>14, <1>15, <1>17 DEF IInv

\* A thread about to save itself is on no list, and the destructor has not
\* found the list complete.
LEMMA NotSaved ==
    ASSUME IInv, NEW t \in Thread, at[T(t)] = "save"
    PROVE  /\ t \notin OnList /\ t \in Running /\ mIsShutdown = 0
           /\ at[Dtor] \in {"idle", "waitFull"}
<1>1. t \notin OnList
  BY DEF IInv, ListWaits
<1>2. t \in Running
  BY DEF Running, Begun, Gone
<1>3. at[Dtor] \in {"idle", "waitFull"}
  BY <1>1, <1>2 DEF IInv, Stages, Places, DtorAt
<1>4. mIsShutdown = 0
  BY <1>3 DEF IInv, Stages, Types
<1> QED
  BY <1>1, <1>2, <1>3, <1>4

\* A signal to mIdleCond wakes one caller at most and moves no one else.
LEMMA SignalIdleAt ==
    ASSUME Places, NEW a \in SignalIdle(at)
    PROVE  /\ a \in [Process -> CallerAt \cup ThreadAt \cup DtorAt]
           /\ \A u \in Thread : a[T(u)] = at[T(u)]
           /\ a[Dtor] = at[Dtor]
           /\ \A c \in Caller :
                \/ a[C(c)] = at[C(c)]
                \/ at[C(c)] = "waitIdle" /\ a[C(c)] = "wokenIdle"
<1> DEFINE waiting == {c \in Caller : at[C(c)] = "waitIdle"}
<1>1. CASE waiting = {}
  BY <1>1 DEF SignalIdle, Places
<1>2. CASE waiting # {}
  <2>1. PICK c \in waiting : a = [at EXCEPT ![C(c)] = "wokenIdle"]
    BY <1>2 DEF SignalIdle
  <2>2. c \in Caller /\ at[C(c)] = "waitIdle"
    OBVIOUS
  <2> HIDE DEF waiting
  <2> QED
    BY <2>1, <2>2, Processes DEF Places, CallerAt
<1> QED
  BY <1>1, <1>2

\* A thread that has run its job comes on the list.
LEMMA SaveThreadKeeps ==
    ASSUME IInv, NEW t \in Thread, SaveThread(t)
    PROVE  IInv'
<1>1. /\ mMainMutex = Nobody /\ at[T(t)] = "save"
      /\ mThreadList' = Append(mThreadList, t)
      /\ mMaxThreads' = mMaxThreads /\ mTotal' = mTotal
      /\ mIsShutdown' = mIsShutdown /\ mMainMutex' = mMainMutex
      /\ mMutex' = mMutex /\ call' = call /\ thread' = thread
      /\ next' = next /\ mArg' = mArg /\ calls' = calls
      /\ accepted' = accepted /\ runs' = runs /\ freed' = freed
  BY DEF SaveThread, mutex, local, work
<1>2. /\ t \notin OnList /\ t \in Running /\ mIsShutdown = 0
      /\ at[Dtor] \in {"idle", "waitFull"}
  BY <1>1, NotSaved
<1>3. /\ at' \in [Process -> CallerAt \cup ThreadAt \cup DtorAt]
      /\ at'[T(t)] = "wait"
      /\ \A u \in Thread : u # t => at'[T(u)] = at[T(u)]
      /\ \A c \in Caller :
            \/ at'[C(c)] = at[C(c)]
            \/ at[C(c)] = "waitIdle" /\ at'[C(c)] = "wokenIdle"
      /\ \/ at'[Dtor] = at[Dtor]
         \/ mIndex + 1 >= mTotal /\ at'[Dtor] = "wokenFull"
            /\ at[Dtor] = "waitFull"
  <2>1. PICK a \in SignalIdle(at) :
            at' = [(IF mIndex + 1 >= mTotal
                    THEN SignalDtor(a, "waitFull", "wokenFull")
                    ELSE a) EXCEPT ![T(t)] = "wait"]
    BY DEF SaveThread
  <2>2. /\ a \in [Process -> CallerAt \cup ThreadAt \cup DtorAt]
        /\ \A u \in Thread : a[T(u)] = at[T(u)]
        /\ a[Dtor] = at[Dtor]
        /\ \A c \in Caller :
             \/ a[C(c)] = at[C(c)]
             \/ at[C(c)] = "waitIdle" /\ a[C(c)] = "wokenIdle"
    BY SignalIdleAt DEF IInv
  <2>3. CASE at' = [a EXCEPT ![T(t)] = "wait"]
    BY <2>2, <2>3, Processes DEF ThreadAt
  <2>4. CASE /\ mIndex + 1 >= mTotal /\ a[Dtor] = "waitFull"
             /\ at' = [[a EXCEPT ![Dtor] = "wokenFull"] EXCEPT ![T(t)] = "wait"]
    BY <2>2, <2>4, Processes DEF ThreadAt, DtorAt
  <2> QED
    BY <2>1, <2>3, <2>4 DEF SignalDtor
<1>4. Places'
  BY <1>2, <1>3 DEF IInv, Places, CallerAt, ThreadAt, DtorAt
<1>5. /\ mThreadList' \in Seq(Thread) /\ mIndex' = mIndex + 1
      /\ \A i \in 1 .. mIndex : mThreadList'[i] = mThreadList[i]
      /\ mThreadList'[mIndex + 1] = t /\ mIndex \in Nat
  BY <1>1 DEF IInv, Types, mIndex
<1>6. OnList' = OnList \cup {t}
  <2>1. OnList' = {mThreadList'[i] : i \in 1 .. mIndex + 1}
    BY <1>5 DEF OnList
  <2>2. 1 .. mIndex + 1 = (1 .. mIndex) \cup {mIndex + 1}
    BY <1>5
  <2> QED
    BY <1>5, <2>1, <2>2 DEF OnList
<1>7. Begun' = Begun /\ Gone' = Gone /\ Running' = Running
  BY <1>1, <1>3 DEF Begun, Gone, Running
<1>8. Types'
  BY <1>1, <1>5 DEF IInv, Types
<1>9. Held'
  BY <1>1, <1>2, <1>3, Processes DEF IInv, Held
<1>10. CallsFresh'
  <2>1. \A c \in Caller : Dispatching(c)' <=> Dispatching(c)
    BY <1>3 DEF Dispatching
  <2>2. \A c \in Caller : at'[C(c)] # "signal"
    BY <1>1, <1>3, Processes DEF IInv, Held
  <2>3. \A u \in Thread : at[T(u)] = "idle" => at'[T(u)] = "idle"
    BY <1>1, <1>3
  <2> QED
    BY <1>1, <2>1, <2>2, <2>3, Named DEF IInv, CallsFresh, Thread
<1>11. ListWaits'
  <2>1. \A i, j \in 1 .. mIndex' : mThreadList'[i] = mThreadList'[j] => i = j
    <3>1. \A i \in 1 .. mIndex : mThreadList'[i] \in OnList
      BY <1>5, Named
    <3>2. \A i \in 1 .. mIndex' : i \in 1 .. mIndex \/ i = mIndex + 1
      BY <1>5
    <3> QED
      BY <1>2, <1>5, <3>1, <3>2 DEF IInv, ListWaits
  <2>2. \A u \in OnList' : at'[T(u)] \in {"wait", "waiting"}
    BY <1>2, <1>3, <1>6, Named DEF IInv, ListWaits
  <2> QED
    BY <2>1, <2>2 DEF ListWaits
<1>12. LoadedOnce'
  <2>1. \A u \in Thread : Loaded(u)' <=> Loaded(u)
    BY <1>1, <1>3, <1>6 DEF Loaded
  <2> QED
    BY <1>1, <2>1 DEF IInv, LoadedOnce
<1>13. Frees' /\ TotalCounts'
  <2>1. t \notin freed
    BY <1>1 DEF IInv, Frees, Gone
  <2>2. Frees'
    BY <1>1, <1>6, <1>7, <2>1 DEF IInv, Frees
  <2>3. mTotal = Cardinality(Running) + Cardinality(freed)
    BY <1>2 DEF IInv, TotalCounts
  <2> QED
    BY <1>1, <1>7, <2>2, <2>3 DEF TotalCounts
<1>14. at'[Dtor] = "wokenFull" => Running' \subseteq OnList'
  <2>1. HAVE at'[Dtor] = "wokenFull"
  <2>2. mIndex + 1 >= mTotal
    BY <1>2, <1>3, <2>1
  <2>3. IsFiniteSet(Running) /\ IsFiniteSet(freed)
    BY ThreadsFinite, FS_Subset DEF IInv, Types, Running, Begun
  <2>4. Cardinality(Running) \in Nat /\ Cardinality(freed) \in Nat
    BY <2>3, FS_CardinalityType
  <2>5. OnList' \subseteq Running
    BY <1>2, <1>6, Named DEF IInv, ListWaits, Running, Begun, Gone
  <2>6. Cardinality(OnList') = mIndex + 1
    BY <1>2, <1>6, ListCard, FS_AddElement DEF IInv, Types, ListWaits
  <2>7. mIndex + 1 >= Cardinality(Running)
    BY <1>2, <1>5, <2>2, <2>4 DEF IInv, TotalCounts
  <2>8. Cardinality(OnList') <= Cardinality(Running)
        /\ (Cardinality(Running) = Cardinality(OnList') => Running = OnList')
    BY <2>3, <2>5, FS_Subset
  <2> QED
    BY <1>5, <1>7, <2>4, <2>6, <2>7, <2>8
<1>15. Stages'
  <2>1. at'[Dtor] # "idle" => CallsOver'
    BY <1>1, <1>3 DEF IInv, Stages, CallsOver
  <2>2. at'[Dtor] \in {"idle", "waitFull", "wokenFull"}
    BY <1>2, <1>3
  <2> QED
    BY <1>1, <1>2, <1>14, <2>1, <2>2 DEF IInv, Stages
<1> QED
  BY <1>4, <1>8, <1>9, <1>10, <1>11, <1>12, <1>13, <1>15 DEF IInv

\* What the numbers become when a thread ends.
LEMMA OneLess ==
    ASSUME IInv, NEW t \in Running, Running' = Running \ {t}
    PROVE  /\ IsFiniteSet(Running) /\ IsFiniteSet(freed)
           /\ Cardinality(Running) \in Nat /\ Cardinality(freed) \in Nat
           /\ Cardinality(Running') = Cardinality(Running) - 1
<1>1. IsFiniteSet(Running) /\ IsFiniteSet(freed)
  BY ThreadsFinite, FS_Subset DEF IInv, Types, Running, Begun
<1>2. Cardinality(Running) \in Nat /\ Cardinality(freed) \in Nat
  BY <1>1, FS_CardinalityType
<1>3. Cardinality(Running') = Cardinality(Running) - 1
  BY <1>1, FS_RemoveElement
<1> QED
  BY <1>1, <1>2, <1>3

\* The list is full: the thread frees its structure and ends.
LEMMA QuitKeeps ==
    ASSUME IInv, NEW t \in Thread, Quit(t)
    PROVE  IInv'
<1>1. /\ at[T(t)] = "save" /\ at'[T(t)] = "gone"
      /\ \A u \in Thread : u # t => at'[T(u)] = at[T(u)]
      /\ \A c \in Caller : at'[C(c)] = at[C(c)]
      /\ at'[Dtor] = at[Dtor]
      /\ Places'
  BY ThreadGoes DEF IInv, Quit, ThreadAt
<1>2. /\ t \notin OnList /\ t \in Running /\ mIsShutdown = 0
      /\ at[Dtor] \in {"idle", "waitFull"}
  BY <1>1, NotSaved
<1>3. /\ mMutex' = [mMutex EXCEPT ![t] = Nobody]
      /\ freed' = freed \cup {t}
      /\ mMaxThreads' = mMaxThreads /\ mThreadList' = mThreadList
      /\ mTotal' = mTotal /\ mIsShutdown' = mIsShutdown
      /\ mMainMutex' = mMainMutex /\ call' = call /\ thread' = thread
      /\ next' = next /\ mArg' = mArg /\ calls' = calls
      /\ accepted' = accepted /\ runs' = runs
  BY DEF Quit, pool, local, work
<1>4. mIndex' = mIndex /\ OnList' = OnList
  BY <1>3 DEF mIndex, OnList
<1>5. Gone' = Gone \cup {t} /\ Running' = Running \ {t}
  BY <1>1 DEF Gone, Running, Begun
<1>6. Types'
  BY <1>3 DEF IInv, Types
<1>7. Held'
  <2>1. mMutex' \in [Thread -> Process \cup {Nobody}]
    BY <1>3 DEF IInv, Held
  <2>2. \A u \in Thread : mMutex'[u] =
            IF at'[T(u)] \in {"save", "wait"} THEN T(u) ELSE Nobody
    BY <1>1, <1>3 DEF IInv, Held
  <2> QED
    BY <1>1, <1>3, <2>1, <2>2 DEF IInv, Held
<1>8. CallsFresh'
  <2>1. \A c \in Caller : Dispatching(c)' <=> Dispatching(c)
    BY <1>1 DEF Dispatching
  <2>2. \A u \in Thread : at[T(u)] = "idle" => at'[T(u)] = "idle"
    BY <1>1
  <2> QED
    BY <1>1, <1>3, <1>4, <2>1, <2>2, Named DEF IInv, CallsFresh, Thread
<1>9. ListWaits'
  BY <1>1, <1>2, <1>3, <1>4, Named DEF IInv, ListWaits
<1>10. LoadedOnce'
  <2>1. \A u \in Thread : Loaded(u)' <=> Loaded(u)
    BY <1>1, <1>4 DEF Loaded
  <2> QED
    BY <1>3, <2>1 DEF IInv, LoadedOnce
<1>11. Stages'
  BY <1>1, <1>2, <1>3 DEF IInv, Stages, CallsOver
<1>12. Frees'
  BY <1>2, <1>3, <1>4, <1>5 DEF IInv, Frees
<1>13. TotalCounts'
  <2>1. t \notin freed
    BY <1>1 DEF IInv, Frees, Gone
  <2>2. Cardinality(freed') = Cardinality(freed) + 1
    BY <1>2, <1>3, <1>5, <2>1, OneLess, FS_AddElement
  <2>3. /\ Cardinality(Running) \in Nat /\ Cardinality(freed) \in Nat
        /\ Cardinality(Running') = Cardinality(Running) - 1
    BY <1>2, <1>5, OneLess
  <2>4. mTotal = Cardinality(Running) + Cardinality(freed)
    BY <1>2 DEF IInv, TotalCounts
  <2>5. mTotal' = Cardinality(Running') + Cardinality(freed')
    BY <1>3, <2>2, <2>3, <2>4
  <2> QED
    BY <2>5 DEF TotalCounts
<1> QED
  BY <1>1, <1>6, <1>7, <1>8, <1>9, <1>10, <1>11, <1>12, <1>13 DEF IInv

\* The pool is shut down: a thread ends, and tells the destructor when it is
\* the last one that is counted.
LEMMA ExitKeeps ==
    ASSUME IInv, NEW t \in Thread, Exit(t)
    PROVE  IInv'
<1>1. /\ mMainMutex = Nobody /\ at[T(t)] = "exit" /\ mTotal' = mTotal - 1
      /\ mMaxThreads' = mMaxThreads /\ mThreadList' = mThreadList
      /\ mIsShutdown' = mIsShutdown /\ mMainMutex' = mMainMutex
      /\ mMutex' = mMutex /\ call' = call /\ thread' = thread
      /\ next' = next /\ mArg' = mArg /\ calls' = calls
      /\ accepted' = accepted /\ runs' = runs /\ freed' = freed
  BY DEF Exit, mutex, local, work
<1>2. /\ at' \in [Process -> CallerAt \cup ThreadAt \cup DtorAt]
      /\ at'[T(t)] = "gone"
      /\ \A u \in Thread : u # t => at'[T(u)] = at[T(u)]
      /\ \A c \in Caller : at'[C(c)] = at[C(c)]
      /\ \/ at'[Dtor] = at[Dtor]
         \/ mTotal - 1 <= 0 /\ at'[Dtor] = "wokenEmpty"
            /\ at[Dtor] = "waitEmpty"
  <2>1. CASE at' = [at EXCEPT ![T(t)] = "gone"]
    BY <2>1, Processes DEF IInv, Places, ThreadAt
  <2>2. CASE /\ mTotal - 1 <= 0 /\ at[Dtor] = "waitEmpty"
             /\ at' = [[at EXCEPT ![Dtor] = "wokenEmpty"] EXCEPT ![T(t)] = "gone"]
    BY <2>2, Processes DEF IInv, Places, ThreadAt, DtorAt
  <2> QED
    BY <2>1, <2>2 DEF Exit, SignalDtor
<1>3. Places'
  BY <1>2 DEF IInv, Places, ThreadAt, DtorAt
<1>4. mIndex' = mIndex /\ OnList' = OnList
  BY <1>1 DEF mIndex, OnList
<1>5. t \in Running /\ Gone' = Gone \cup {t} /\ Running' = Running \ {t}
  BY <1>1, <1>2 DEF Gone, Running, Begun
<1>6. at[Dtor] # "gone" /\ at'[Dtor] # "gone"
  BY <1>2, <1>5 DEF IInv, Stages
<1>7. mTotal \in Int /\ mTotal' \in Int
  BY <1>1 DEF IInv, Types
<1>8. Types'
  BY <1>1, <1>7 DEF IInv, Types
<1>9. Held'
  <2>1. \A u \in Thread : mMutex'[u] =
            IF at'[T(u)] \in {"save", "wait"} THEN T(u) ELSE Nobody
    BY <1>1, <1>2 DEF IInv, Held
  <2> QED
    BY <1>1, <1>2, <2>1, Processes DEF IInv, Held
<1>10. CallsFresh'
  <2>1. \A c \in Caller : Dispatching(c)' <=> Dispatching(c)
    BY <1>2 DEF Dispatching
  <2>2. \A u \in Thread : at[T(u)] = "idle" => at'[T(u)] = "idle"
    BY <1>1, <1>2
  <2> QED
    BY <1>1, <1>2, <1>4, <2>1, <2>2, Named DEF IInv, CallsFresh, Thread
<1>11. ListWaits'
  BY <1>1, <1>2, <1>4, Named DEF IInv, ListWaits
<1>12. LoadedOnce'
  <2>1. \A u \in Thread : Loaded(u)' <=> Loaded(u)
    BY <1>1, <1>2, <1>4 DEF Loaded
  <2> QED
    BY <1>1, <2>1 DEF IInv, LoadedOnce
<1>13. Stages'
  <2>1. at'[Dtor] # "idle" => CallsOver'
    BY <1>1, <1>2 DEF IInv, Stages, CallsOver
  <2>2. mIsShutdown' = 1 <=> at'[Dtor] \in
            {"signal", "waitEmpty", "wokenEmpty", "free", "gone"}
    BY <1>1, <1>2 DEF IInv, Stages
  <2>3. at'[Dtor] \in DtorAt \ {"idle", "waitFull", "gone"} =>
            Running' \subseteq OnList'
    BY <1>2, <1>4, <1>5 DEF IInv, Stages, DtorAt
  <2>4. at'[Dtor] \in {"wokenEmpty", "free"} => mTotal' <= 0
    BY <1>1, <1>2, <1>7 DEF IInv, Stages
  <2> QED
    BY <1>6, <2>1, <2>2, <2>3, <2>4 DEF Stages
<1>14. Frees'
  BY <1>1, <1>4, <1>5 DEF IInv, Frees
<1>15. TotalCounts'
  <2>1. /\ Cardinality(Running) \in Nat /\ Cardinality(freed) \in Nat
        /\ Cardinality(Running') = Cardinality(Running) - 1
    BY <1>5, OneLess
  <2>2. mTotal = Cardinality(Running) + Cardinality(freed)
    BY <1>6 DEF IInv, TotalCounts
  <2>3. mTotal' = Cardinality(Running') + Cardinality(freed')
    BY <1>1, <2>1, <2>2
  <2> QED
    BY <2>3 DEF TotalCounts
<1> QED
  BY <1>3, <1>8, <1>9, <1>10, <1>11, <1>12, <1>13, <1>14, <1>15 DEF IInv

\* What is counted is there: nobody runs when nobody is counted.
LEMMA NobodyLeft ==
    ASSUME IInv, at[Dtor] # "gone", mTotal <= 0
    PROVE  Running = {} /\ freed = {} /\ mTotal = 0
<1>1. IsFiniteSet(Running) /\ IsFiniteSet(freed)
  BY ThreadsFinite, FS_Subset DEF IInv, Types, Running, Begun
<1>2. Cardinality(Running) \in Nat /\ Cardinality(freed) \in Nat
  BY <1>1, FS_CardinalityType
<1>3. mTotal = Cardinality(Running) + Cardinality(freed)
  BY DEF IInv, TotalCounts
<1>4. Cardinality(Running) = 0 /\ Cardinality(freed) = 0 /\ mTotal = 0
  BY <1>2, <1>3
<1> QED
  BY <1>1, <1>4, FS_EmptySet

\* The destructor frees what is left.
LEMMA FreeAllKeeps ==
    ASSUME IInv, FreeAll
    PROVE  IInv'
<1>1. /\ at[Dtor] = "free" /\ at'[Dtor] = "gone"
      /\ \A c \in Caller : at'[C(c)] = at[C(c)]
      /\ \A u \in Thread : at'[T(u)] = at[T(u)]
      /\ Places'
  BY DtorGoes DEF IInv, FreeAll, DtorAt
<1>2. /\ freed' = freed \cup OnList /\ mThreadList' = <<>>
      /\ mMainMutex' = Nobody
      /\ mMaxThreads' = mMaxThreads /\ mTotal' = mTotal
      /\ mIsShutdown' = mIsShutdown
      /\ mMutex' = mMutex /\ call' = call /\ thread' = thread
      /\ next' = next /\ mArg' = mArg /\ calls' = calls
      /\ accepted' = accepted /\ runs' = runs
  BY DEF FreeAll, OnList, local, work
<1>3. Running = {} /\ mTotal = 0
  BY <1>1, NobodyLeft DEF IInv, Stages
<1>4. mIndex' = 0 /\ OnList' = {} /\ Gone' = Gone /\ Running' = Running
  BY <1>1, <1>2 DEF mIndex, OnList, Gone, Running, Begun
<1>5. \A c \in Caller : at[C(c)] = "idle"
  BY <1>1 DEF IInv, Stages, CallsOver
<1>6. OnList \subseteq Gone
  BY <1>3, Named DEF IInv, ListWaits, Running, Begun, Gone
<1>7. Types'
  <2>1. mThreadList' \in Seq(Thread)
    BY <1>2
  <2> QED
    BY <1>2, <2>1, Named DEF IInv, Types
<1>8. Held'
  BY <1>1, <1>2, <1>5, Processes DEF IInv, Held
<1>9. CallsFresh'
  <2>1. \A c \in Caller : ~Dispatching(c)' /\ at'[C(c)] # "signal"
    BY <1>1, <1>5 DEF Dispatching
  <2>2. \A j \in Job : j > calls' => at'[T(j)] = "idle" /\ j \notin accepted'
    BY <1>1, <1>2 DEF IInv, CallsFresh, Thread
  <2> QED
    BY <2>1, <2>2 DEF CallsFresh
<1>10. ListWaits'
  BY <1>4 DEF ListWaits
<1>11. LoadedOnce'
  <2>1. \A u \in Thread : ~Loaded(u) /\ ~Loaded(u)'
    BY <1>1, <1>3 DEF Loaded, Running, Begun, Gone
  <2> QED
    BY <1>2, <2>1 DEF IInv, LoadedOnce
<1>12. Stages'
  BY <1>1, <1>2, <1>3, <1>4, <1>5 DEF IInv, Stages, CallsOver
<1>13. Frees' /\ TotalCounts'
  BY <1>1, <1>2, <1>4, <1>6 DEF IInv, Frees, TotalCounts
<1> QED
  BY <1>1, <1>7, <1>8, <1>9, <1>10, <1>11, <1>12, <1>13 DEF IInv

\* A step that changes nothing.
LEMMA SameKeeps ==
    ASSUME IInv, UNCHANGED vars
    PROVE  IInv'
<1>1. /\ at' = at /\ mMaxThreads' = mMaxThreads
      /\ mThreadList' = mThreadList /\ mTotal' = mTotal
      /\ mIsShutdown' = mIsShutdown /\ mMainMutex' = mMainMutex
      /\ mMutex' = mMutex /\ call' = call /\ thread' = thread
      /\ next' = next /\ mArg' = mArg /\ calls' = calls
      /\ accepted' = accepted /\ runs' = runs /\ freed' = freed
  BY DEF vars, pool, mutex, local, work
<1>2. /\ mIndex' = mIndex /\ OnList' = OnList /\ Begun' = Begun
      /\ Gone' = Gone /\ Running' = Running
  BY <1>1 DEF mIndex, OnList, Begun, Gone, Running
<1>3. /\ \A c \in Caller : Dispatching(c)' <=> Dispatching(c)
      /\ \A u \in Thread : Loaded(u)' <=> Loaded(u)
  BY <1>1, <1>2 DEF Dispatching, Loaded
<1>4. Places' /\ Types' /\ Held'
  BY <1>1 DEF IInv, Places, Types, Held
<1>5. CallsFresh' /\ ListWaits' /\ LoadedOnce'
  BY <1>1, <1>2, <1>3 DEF IInv, CallsFresh, ListWaits, LoadedOnce
<1>6. Stages' /\ Frees' /\ TotalCounts'
  BY <1>1, <1>2 DEF IInv, Stages, CallsOver, Frees, TotalCounts
<1> QED
  BY <1>4, <1>5, <1>6 DEF IInv

-----------------------------------------------------------------------------
LEMMA StepInvariant == IInv /\ [Next]_vars => IInv'
<1> SUFFICES ASSUME IInv, [Next]_vars PROVE IInv'
  OBVIOUS
<1>1. ASSUME InitPara PROVE IInv'
  BY <1>1, InitParaKeeps
<1>2. ASSUME NEW c \in Caller, CallerStep(c) PROVE IInv'
  BY <1>2, DispatchKeeps, IdleSeenKeeps, CreateKeeps, CreateFailsKeeps,
     ReuseKeeps, SignalThreadKeeps DEF CallerStep
<1>3. ASSUME NEW t \in Thread, ThreadStep(t) PROVE IInv'
  BY <1>3, TestKeeps, RunJobKeeps, LockOwnKeeps, SaveThreadKeeps, QuitKeeps,
     WaitOwnKeeps, WaitEndsKeeps, ExitKeeps DEF ThreadStep
<1>4. ASSUME DtorStep PROVE IInv'
  BY <1>4, DestroyKeeps, FullSeenKeeps, ShutKeeps, SignalNextKeeps,
     AllSignalledKeeps, EmptySeenKeeps, FreeAllKeeps DEF DtorStep
<1>5. ASSUME UNCHANGED vars PROVE IInv'
  BY <1>5, SameKeeps
<1> QED
  BY <1>1, <1>2, <1>3, <1>4, <1>5 DEF Next, Ended

LEMMA Invariance == Spec => []IInv
<1>1. Init => IInv
  BY InitInvariant
<1>2. IInv /\ [Next]_vars => IInv'
  BY StepInvariant
<1> QED
  BY <1>1, <1>2, PTL DEF Spec

\* The pool's types, and who holds its mutexes.
LEMMA InvTypes == IInv => TypeOK
<1> SUFFICES ASSUME IInv PROVE TypeOK
  OBVIOUS
<1>1. mTotal \in 0 .. NJobs
  <2>1. IsFiniteSet(Running) /\ IsFiniteSet(freed)
    BY ThreadsFinite, FS_Subset DEF IInv, Types, Running, Begun
  <2>2. Running \cap freed = {}
    BY DEF IInv, Frees, Running
  <2>3. /\ IsFiniteSet(Running \cup freed)
        /\ Cardinality(Running \cup freed) =
               Cardinality(Running) + Cardinality(freed)
    <3>1. Cardinality(Running \cap freed) = 0
      BY <2>2, FS_EmptySet
    <3>2. Cardinality(Running) \in Nat /\ Cardinality(freed) \in Nat
      BY <2>1, FS_CardinalityType
    <3> QED
      <4>1. /\ IsFiniteSet(Running \cup freed)
            /\ Cardinality(Running \cup freed) =
                   Cardinality(Running) + Cardinality(freed)
                   - Cardinality(Running \cap freed)
        BY <2>1, FS_Union
      <4> QED
        BY <3>1, <3>2, <4>1
  <2>4. Running \cup freed \subseteq Thread
    BY DEF IInv, Types, Running, Begun
  <2>5. Cardinality(Running \cup freed) <= NJobs
    BY <2>4, ThreadsFinite, FS_Subset
  <2>6. Cardinality(Running \cup freed) \in Nat
    BY <2>3, FS_CardinalityType
  <2>7. CASE at[Dtor] = "gone"
    BY <2>7, PoolAssumption DEF IInv, Stages
  <2>8. CASE at[Dtor] # "gone"
    BY <2>3, <2>5, <2>6, <2>8, PoolAssumption DEF IInv, TotalCounts
  <2> QED
    BY <2>7, <2>8
<1>2. \A p \in Process : mMainMutex = p <=> HoldsMain(p)
  <2> SUFFICES ASSUME NEW p \in Process
               PROVE  mMainMutex = p <=> HoldsMain(p)
    OBVIOUS
  <2>1. CASE p = Dtor
    BY <2>1 DEF IInv, Places, Held, HoldsMain, DtorAt
  <2>2. ASSUME NEW c \in Caller, p = C(c)
        PROVE  mMainMutex = p <=> HoldsMain(p)
    BY <2>2 DEF IInv, Places, Held, HoldsMain, CallerAt
  <2>3. ASSUME NEW t \in Thread, p = T(t)
        PROVE  mMainMutex = p <=> HoldsMain(p)
    BY <2>3 DEF IInv, Places, Held, HoldsMain, ThreadAt
  <2> QED
    BY <2>1, <2>2, <2>3, Kinds
<1>3. at \in [Process -> {"idle", "waitIdle", "wokenIdle", "assign", "signal",
           "test", "run", "ran", "save", "wait", "waiting", "woken", "exit",
           "gone", "waitFull", "wokenFull", "shut", "waitEmpty", "wokenEmpty",
           "free"}]
  BY DEF IInv, Places, CallerAt, ThreadAt, DtorAt
<1>4. runs \in [Job -> Nat]
  BY SMTT(30) DEF IInv, Types
<1> QED
  BY <1>1, <1>2, <1>3, <1>4 DEF IInv, Types, Held, TypeOK

\* The pool's types; and its mutexes are held by whoever is where the code
\* holds them, so that no two threads change the list at once
\* (gthreadpool.cpp:126-172, 180-207).
THEOREM TypeCorrect == Spec => []TypeOK
BY Invariance, InvTypes, PTL

\* A job is run at most once, and only when dispatch has taken it, and a
\* thread has it until it is run (gthreadpool.cpp:159-170, 181-187).
THEOREM JobsRunOnce == Spec => []RunsOnce
<1>1. IInv => RunsOnce
  <2> SUFFICES ASSUME IInv, NEW j \in Job
               PROVE  /\ runs[j] <= 1
                      /\ runs[j] = 1 => j \in accepted
                      /\ j \in accepted /\ runs[j] = 0 =>
                            \E t \in Running : mArg[t] = j
    BY DEF RunsOnce
  <2>1. runs[j] <= 1
    <3>1. runs \in [Job -> 0 .. 1]
      BY DEF IInv, Types
    <3> QED
      BY <3>1
  <2>2. \A t \in Thread : Loaded(t) => t \in Running
    BY DEF Loaded, Running, Begun, Gone
  <2> QED
    BY <2>1, <2>2 DEF IInv, LoadedOnce
<1> QED
  BY <1>1, Invariance, PTL

\* mTotal counts the threads that run and, for good, those that have freed
\* themselves because the list was full (gthreadpool.cpp:147, 188-195, 201).
THEOREM TotalIsCounted == Spec => []TotalCounts
<1>1. IInv => TotalCounts
  BY DEF IInv
<1> QED
  BY <1>1, Invariance, PTL

\* A thread whose structure has been freed has ended, none is on the list,
\* and when the destructor has ended so have all threads
\* (gthreadpool.cpp:95-111, 190-205).
THEOREM NothingUsedAfterFree == Spec => []NoUseAfterFree
<1>1. IInv => NoUseAfterFree
  <2> SUFFICES ASSUME IInv PROVE NoUseAfterFree
    OBVIOUS
  <2>1. \A t \in freed : at[T(t)] = "gone"
    BY DEF IInv, Frees, Gone
  <2>2. \A i \in 1 .. mIndex : mThreadList[i] \notin freed
    BY Named DEF IInv, Frees
  <2>3. at[Dtor] = "gone" => \A t \in Thread : at[T(t)] \in {"idle", "gone"}
    BY DEF IInv, Stages, Running, Begun, Gone
  <2> QED
    BY <2>1, <2>2, <2>3 DEF NoUseAfterFree
<1> QED
  BY <1>1, Invariance, PTL
============================================================================
