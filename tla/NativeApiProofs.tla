-------------------------- MODULE NativeApiProofs --------------------------
(***************************************************************************)
(* The lives of the sessions, for any number of sessions, descriptors and  *)
(* restarts, when the application calls for its client while no callback   *)
(* runs (Overlap is FALSE): a session is deleted once, nothing points to   *)
(* one that has been, and none is left when the network has been stopped.  *)
(*                                                                         *)
(* The invariant says at each moment who will delete a registered session: *)
(* the table has it, or one of the two threads has taken it out (Owned).   *)
(* That the two threads are never inside getAndRemove together is Turns,   *)
(* that the base stays while a pass is under way is Pass.                  *)
(***************************************************************************)
EXTENDS NativeApi, ReactorStationProofs

HandlerAt == {"read", "answer", "send", "clear", "delete", "close"}

NTypes ==
    /\ api \in {"idle", "look", "clear", "delete", "crash"}
    /\ mSession \in Session \cup {NoSession}
    /\ state \in [Session -> {"none", "live", "freed"}]
    /\ mArg \in [Session -> Nat]
    /\ fdOf \in [Session -> Fd \cup {0}]
    /\ table \in [Fd -> Session \cup {NoSession}]
    /\ sock \in [Fd -> Session \cup {NoSession}]
    /\ queued \subseteq Events(Session)
    /\ active \subseteq Events(Session) \cup {Accept}
    /\ handler \in {NoHandler} \cup (Session \X HandlerAt)
    /\ removed \in [app : Session \cup {NoSession},
                    loop : Session \cup {NoSession}]
    /\ mSession # NoSession => fdOf[mSession] \in Fd

\* A registered session is in the table under its own descriptor.
Registered(s) == fdOf[s] \in Fd /\ table[fdOf[s]] = s

\* One of the threads has taken it out of the table and will delete it.
Dropped(s) == (api = "delete" /\ removed.app = s) \/ At(s, "delete")

\* An event of the session is on the base.
Waits(s) == <<s, "read">> \in queued \cup active
            \/ <<s, "write">> \in queued \cup active

\* What the two threads are at, one at a time.
Turns ==
    /\ handler # NoHandler => api \in {"idle", "crash"}
    /\ api \in {"look", "clear", "delete"} =>
          app = "idle" /\ mSession # NoSession /\ base # 0
    /\ api = "clear" => removed.app = table[fdOf[mSession]]
    /\ api \in {"look", "clear"} => table[fdOf[mSession]] # NoSession
    /\ api = "delete" => removed.app # NoSession
    /\ api \notin {"clear", "delete"} => removed.app = NoSession
    /\ \A s \in Session :
        /\ At(s, "read") \/ At(s, "answer") \/ At(s, "send") => Registered(s)
        /\ At(s, "clear") => Registered(s) /\ removed.loop = s
        /\ At(s, "delete") => removed.loop = s
        /\ At(s, "close") => fdOf[s] \in Fd /\ sock[fdOf[s]] = NoSession

\* A loop's thread is there as long as a pass is under way.
Executing == \E t \in Thread : loop[t] \in {"run", "handler", "locked"}

Pass ==
    /\ active # {} \/ handler # NoHandler => Executing
    /\ Accept \in active => Listening

\* Who has a session: its descriptor, the table, or who has dropped it.
Owned ==
    /\ \A s \in Session : state[s] = "live" =>
          /\ fdOf[s] \in Fd /\ sock[fdOf[s]] = s
          /\ mArg[s] # 0 => mArg[s] = base /\ (Registered(s) \/ Dropped(s))
    /\ \A f \in Fd : table[f] # NoSession =>
          state[table[f]] = "live" /\ fdOf[table[f]] = f /\ mArg[table[f]] # 0
    /\ \A s \in Session : Dropped(s) => state[s] = "live" /\ ~Registered(s)
    /\ \A s \in Session : Waits(s) => state[s] = "live" /\ mArg[s] # 0

Counts ==
    \A s \in Session : frees[s] = IF state[s] = "freed" THEN 1 ELSE 0

CountsType == frees \in [Session -> Nat]

Lives == NTypes /\ Turns /\ Pass /\ Owned /\ Counts /\ CountsType

NInv == IInv /\ Lives

-----------------------------------------------------------------------------
\* What the station's invariant says: while a thread has the base the
\* application's is not between freeing it and making another.
LEMMA StationFacts ==
    ASSUME IInv
    PROVE  /\ base \in Nat /\ starts \in Nat /\ DOMAIN loop = Thread
           /\ Executing => base # 0 /\ app \notin {"destroy", "mutex"}
           /\ base = 0 => app \in {"mutex", "idle"}
<1> USE DEF IInv, TypeOK, Handover, LoopUsesLiveBase, InLoop, HasMutex, Executing
<1>1. base \in Nat /\ starts \in Nat
  BY ReactorAssumption
<1>2. DOMAIN loop = Thread
  OBVIOUS
<1>3. Executing => base # 0 /\ app \notin {"destroy", "mutex"}
  OBVIOUS
<1>4. base = 0 => app \in {"mutex", "idle"}
  OBVIOUS
<1> QED
  BY <1>1, <1>2, <1>3, <1>4

\* The callback that runs is at one place.
LEMMA HandlerPlaces ==
    ASSUME NEW s \in Session, NEW w \in HandlerAt, At(s, w)
    PROVE  /\ handler # NoHandler
           /\ \A t \in Session, v \in HandlerAt : At(t, v) <=> t = s /\ v = w
BY DEF At, NoHandler, HandlerAt

LEMMA NowhereElse ==
    ASSUME handler = NoHandler
    PROVE  \A s \in Session, w \in HandlerAt : ~At(s, w)
BY DEF At, NoHandler, HandlerAt

\* A session in the table is live and registered.
LEMMA RegisteredLive ==
    ASSUME NInv, NEW s \in Session, Registered(s)
    PROVE  state[s] = "live" /\ mArg[s] # 0 /\ sock[fdOf[s]] = s
<1>1. fdOf[s] \in Fd /\ table[fdOf[s]] = s /\ s # NoSession
  BY NativeAssumption DEF Registered
<1>2. state[s] = "live" /\ mArg[s] # 0
  BY <1>1 DEF NInv, Lives, Owned
<1> QED
  BY <1>2 DEF NInv, Lives, Owned

\* A step that deletes and makes no session, and drops none, leaves them with
\* those who have them.
LEMMA OwnedStays ==
    ASSUME NInv, UNCHANGED <<state, mArg, fdOf, table, sock, frees>>,
           base' = base \/ base = 0,
           \A s \in Session : Dropped(s)' <=> Dropped(s),
           \A s \in Session : Waits(s)' => Waits(s) \/ Registered(s)
    PROVE  Owned' /\ Counts' /\ CountsType'
<1>1. \A s \in Session : Registered(s)' <=> Registered(s)
  BY DEF Registered
<1>2. \A s \in Session : mArg[s] \in Nat
  BY DEF NInv, Lives, NTypes
<1>3. \A s \in Session : state[s] = "live" /\ base' # base => mArg[s] = 0
  BY <1>2 DEF NInv, Lives, Owned
<1>4. \A s \in Session : Waits(s)' => state[s] = "live" /\ mArg[s] # 0
  BY RegisteredLive DEF NInv, Lives, Owned
<1>5. Owned'
  BY <1>1, <1>3, <1>4 DEF NInv, Lives, Owned
<1> QED
  BY <1>5 DEF NInv, Lives, Counts, CountsType

\* A step that leaves the station as it is, and makes nothing active, leaves
\* the thread of the pass there.
LEMMA PassStays ==
    ASSUME NInv, UNCHANGED <<vars, mpServer>>, active' \subseteq active,
           handler' # NoHandler => Executing
    PROVE  Pass'
<1>1. (Executing' <=> Executing) /\ (Listening' <=> Listening)
  BY DEF Executing, Listening, vars
<1> QED
  BY <1>1 DEF NInv, Lives, Pass

LEMMA NativeInitInvariant == NativeInit => NInv
<1> SUFFICES ASSUME NativeInit PROVE NInv
  OBVIOUS
<1> USE DEF NativeInit
<1>1. IInv
  BY InitInvariant
<1>2. NTypes
  BY DEF NTypes
<1>3. \A s \in Session, w \in HandlerAt : ~At(s, w)
  BY NowhereElse
<1>4. Turns
  BY <1>3 DEF Turns, HandlerAt, Init
<1>5. Owned
  BY <1>3 DEF Owned, Dropped, Waits, HandlerAt
<1>6. Pass /\ Counts /\ CountsType
  BY DEF Pass, Counts, CountsType
<1> QED
  BY <1>1, <1>2, <1>4, <1>5, <1>6 DEF NInv, Lives

-----------------------------------------------------------------------------
\* A step of the station that touches no session: the base that exists
\* stays, and the threads stay where a call or a pass needs them.
LEMMA StationMoves ==
    ASSUME NInv, UNCHANGED <<api, mpServer, active, handler, client>>,
           base' = base \/ base = 0,
           api \in {"look", "clear", "delete"} => app' = "idle",
           active # {} \/ handler # NoHandler => Executing'
    PROVE  Lives'
<1>1. /\ api' = api /\ handler' = handler /\ mSession' = mSession
      /\ state' = state /\ mArg' = mArg /\ fdOf' = fdOf /\ table' = table
      /\ sock' = sock /\ queued' = queued /\ removed' = removed
      /\ active' = active /\ mpServer' = mpServer
  BY DEF client
<1>2. \A s \in Session, w \in HandlerAt : At(s, w)' <=> At(s, w)
  BY <1>1 DEF At
<1>3. \A s \in Session : /\ Registered(s)' <=> Registered(s)
                         /\ Dropped(s)' <=> Dropped(s)
                         /\ Waits(s)' <=> Waits(s)
  BY <1>1, <1>2 DEF Registered, Dropped, Waits, HandlerAt
<1>4. NTypes'
  BY <1>1 DEF NInv, Lives, NTypes
<1>5. Turns'
  BY <1>1, <1>2, <1>3 DEF NInv, Lives, Turns, HandlerAt
<1>6. Pass'
  <2>1. Accept \in active => base' = base
    BY StationFacts DEF NInv, Lives, Pass
  <2> QED
    BY <1>1, <2>1 DEF NInv, Lives, Pass, Listening
<1>7. Owned' /\ Counts' /\ CountsType'
  BY <1>3, OwnedStays DEF client
<1> QED
  BY <1>4, <1>5, <1>6, <1>7 DEF Lives

\* The network starts and stops, the loops go on, a signal arrives.
LEMMA StationKeeps ==
    ASSUME NInv, api # "crash",
           \/ StartNetWork \/ StopNetWork \/ AppThread \/ Signalled
           \/ \E t \in Thread : LoopThread(t)
    PROVE  Lives'
<1>1. UNCHANGED <<api, mpServer, active, handler, client>>
  BY DEF StartNetWork, StopNetWork, LoopThread, AppThread, Signalled
<1>2. /\ active # {} \/ handler # NoHandler => Executing
      /\ api \in {"look", "clear", "delete"} => app = "idle"
      /\ DOMAIN loop = Thread
      /\ starts \in Nat
  BY StationFacts DEF NInv, Lives, Pass, Turns
<1>3. CASE StartNetWork
  <2>1. api = "idle" /\ base = 0
    BY <1>3 DEF StartNetWork, Called, Startup
  <2>2. ~Executing
    BY <2>1, StationFacts DEF NInv
  <2> QED
    BY <1>1, <1>2, <2>1, <2>2, StationMoves
<1>4. CASE StopNetWork
  <2>1. api = "idle" /\ base' = base /\ (Executing => Executing')
    BY <1>4 DEF StopNetWork, Called, Shutdown, Executing
  <2> QED
    BY <1>1, <1>2, <2>1, StationMoves
<1>5. CASE AppThread
  <2>1. app # "idle" /\ base' = base
    BY <1>5 DEF AppThread, Spawn, LockForDestroy, DestroyMutex
  <2>2. Executing => Executing'
    <3>1. CASE Spawn
      <4> SUFFICES ASSUME NEW t \in Thread,
                          loop[t] \in {"run", "handler", "locked"}
                   PROVE  loop'[t] \in {"run", "handler", "locked"}
        BY DEF Executing
      <4>1. t # starts
        BY <3>1 DEF NInv, IInv, Handover, Spawn
      <4> QED
        BY <1>2, <3>1, <4>1 DEF Spawn
    <3>2. CASE LockForDestroy \/ DestroyMutex
      BY <3>2 DEF LockForDestroy, DestroyMutex, Executing
    <3> QED
      BY <1>5, <3>1, <3>2 DEF AppThread
  <2> QED
    BY <1>1, <1>2, <2>1, <2>2, StationMoves
<1>6. CASE Signalled
  <2>1. base' = base /\ app' = app /\ (Executing => Executing')
    BY <1>6 DEF Signalled, SignalArrives, Executing
  <2> QED
    BY <1>1, <1>2, <2>1, StationMoves
<1>7. ASSUME NEW t \in Thread, LoopThread(t) PROVE Lives'
  <2>1. base' = base /\ app' = app
    BY <1>7 DEF LoopThread, LoopBegins, GetGlobal, LoopDies, AddSignals,
                DelSignals, SigHandler, LoopPass, LoopStops
  <2>2. \/ active = {} /\ handler = NoHandler
        \/ /\ \A u \in Thread : u # t => loop'[u] = loop[u]
           /\ loop[t] \in {"run", "handler", "locked"} =>
                 loop'[t] \in {"run", "handler", "locked"}
    BY <1>2, <1>7 DEF LoopThread, LoopBegins, GetGlobal, LoopDies, AddSignals,
                DelSignals, SigHandler, LoopPass, LoopStops
  <2>3. active # {} \/ handler # NoHandler => Executing'
    BY <1>2, <2>2 DEF Executing
  <2> QED
    BY <1>1, <1>2, <2>1, <2>3, StationMoves
<1> QED
  BY <1>3, <1>4, <1>5, <1>6, <1>7

\* A call that touches no session: the application is at rest before it,
\* and at rest or gone, or inside disConnect, after it.
LEMMA CallKeeps ==
    ASSUME NInv, api = "idle", app = "idle",
           UNCHANGED <<vars, handler, state, mArg, fdOf, table, sock, queued,
                       removed, frees>>,
           active' \subseteq active, Pass',
           \/ api' \in {"idle", "crash"}
              /\ mSession' \in {mSession, NoSession}
           \/ /\ api' = "look" /\ mSession' = mSession /\ base # 0
              /\ mSession # NoSession /\ table[fdOf[mSession]] # NoSession
              /\ handler = NoHandler
    PROVE  Lives'
<1>1. handler' = handler /\ app' = app /\ base' = base
  BY DEF vars
<1>2. NTypes'
  BY <1>1 DEF NInv, Lives, NTypes
<1>3. \A s \in Session, w \in HandlerAt : At(s, w)' <=> At(s, w)
  BY <1>1 DEF At
<1>4. \A s \in Session : /\ Registered(s)' <=> Registered(s)
                         /\ Dropped(s)' <=> Dropped(s)
                         /\ Waits(s)' => Waits(s)
  BY <1>3 DEF Registered, Dropped, Waits, HandlerAt
<1>5. Turns'
  BY <1>1, <1>3, <1>4 DEF NInv, Lives, Turns, HandlerAt
<1>6. Owned' /\ Counts' /\ CountsType'
  BY <1>1, <1>4, OwnedStays
<1> QED
  BY <1>2, <1>5, <1>6 DEF Lives

\* The server is started and stopped; a fetch; disConnect decides what to do.
LEMMA CallsKeep ==
    ASSUME NInv, ~Overlap,
           StartServer \/ StopServer \/ FetchAndSaveFile \/ StopFileRecv
    PROVE  Lives'
<1>1. api = "idle" /\ app = "idle"
  BY DEF StartServer, StopServer, FetchAndSaveFile, StopFileRecv, Called,
         ClientCalled
<1>2. UNCHANGED <<vars, handler, state, mArg, fdOf, table, sock, queued,
                  removed, frees>>
  BY DEF StartServer, StopServer, FetchAndSaveFile, StopFileRecv, client
<1>3. handler # NoHandler => Executing
  BY DEF NInv, Lives, Pass
<1>4. CASE FetchAndSaveFile
  <2>1. mSession' = mSession /\ api' \in {"idle", "crash"} /\ active' = active
    BY <1>1, <1>4 DEF FetchAndSaveFile
  <2>2. Pass'
    BY <1>2, <1>3, <1>4, <2>1, PassStays DEF FetchAndSaveFile
  <2> QED
    BY <1>1, <1>2, <2>1, <2>2, CallKeeps
<1>5. CASE StartServer
  <2>1. mSession' = mSession /\ api' = "idle" /\ active' = active
    BY <1>1, <1>5 DEF StartServer, client
  <2>2. Accept \notin active
    <3>1. [base |-> base, listening |-> TRUE] \in [base : Nat, listening : BOOLEAN]
      BY StationFacts DEF NInv
    <3>2. mpServer # [base |-> base, listening |-> TRUE]
      BY <1>5, <3>1, NativeAssumption DEF StartServer
    <3> QED
      BY <3>2 DEF NInv, Lives, Pass, Listening
  <2>3. Pass'
    BY <1>2, <2>1, <2>2 DEF NInv, Lives, Pass, Executing, vars
  <2> QED
    BY <1>1, <1>2, <2>1, <2>3, CallKeeps
<1>6. CASE StopServer
  <2>1. mSession' = mSession /\ api' \in {"idle", "crash"}
        /\ active' \subseteq active
    BY <1>1, <1>6 DEF StopServer, client
  <2>2. CASE active' = active \ {Accept}
    <3>1. Pass'
      BY <1>2, <2>2 DEF NInv, Lives, Pass, Executing, vars
    <3> QED
      BY <1>1, <1>2, <2>1, <3>1, CallKeeps
  <2>3. CASE UNCHANGED <<mpServer, active>>
    <3>1. Pass'
      BY <1>2, <1>3, <2>3, PassStays
    <3> QED
      BY <1>1, <1>2, <2>1, <3>1, CallKeeps
  <2> QED
    BY <1>6, <2>2, <2>3 DEF StopServer
<1>7. CASE StopFileRecv
  <2>1. handler = NoHandler /\ active' = active /\ mSession # NoSession
    BY <1>7 DEF StopFileRecv, ClientCalled
  <2>2. Pass'
    BY <1>2, <1>7, <2>1, PassStays DEF StopFileRecv
  <2>3. \/ api' \in {"idle", "crash"} /\ mSession' \in {mSession, NoSession}
        \/ /\ api' = "look" /\ mSession' = mSession /\ base # 0
           /\ table[fdOf[mSession]] # NoSession
    BY <1>1, <1>7 DEF StopFileRecv, DisConnect
  <2> QED
    BY <1>1, <1>2, <2>1, <2>2, <2>3, CallKeeps
<1> QED
  BY <1>4, <1>5, <1>6, <1>7

\* A session is made on a descriptor nobody has open: it is registered when
\* there is a network.
LEMMA MadeKeeps ==
    ASSUME NInv, ~Overlap, api # "crash", NEW s \in Session,
           StartFileRecv(s) \/ ServerAccepts(s)
    PROVE  Lives'
<1>1. PICK f \in Fd, file \in {"NULL", "none"}, events \in SUBSET {"read", "write"} :
          Opens(f) /\ NewSession(s, f, file) /\ RegisterEvent(s, f, events)
  BY DEF StartFileRecv, ServerAccepts
<1>2. /\ api = "idle" /\ handler = NoHandler /\ api' = api
      /\ handler' = handler /\ app' = app /\ base' = base
      /\ removed' = removed /\ frees' = frees
      /\ mSession' \in {mSession, s}
      /\ active' \subseteq active /\ UNCHANGED <<vars, mpServer>>
  BY DEF StartFileRecv, ServerAccepts, Called, ClientCalled, LoopRuns, vars
<1>3. /\ state[s] = "none" /\ sock[f] = NoSession
      /\ state' = [state EXCEPT ![s] = "live"]
      /\ fdOf' = [fdOf EXCEPT ![s] = f]
      /\ sock' = [sock EXCEPT ![f] = s]
      /\ mArg' = [mArg EXCEPT ![s] = base]
      /\ table' = IF base = 0 THEN table ELSE [table EXCEPT ![f] = s]
      /\ queued' = IF base = 0 THEN queued ELSE queued \cup ({s} \X events)
  BY <1>1 DEF Opens, NewSession, RegisterEvent
<1>4. NTypes
  BY DEF NInv, Lives
<1>5. /\ state'[s] = "live" /\ fdOf'[s] = f /\ sock'[f] = s /\ mArg'[s] = base
      /\ \A t \in Session : t # s =>
            state'[t] = state[t] /\ fdOf'[t] = fdOf[t] /\ mArg'[t] = mArg[t]
      /\ \A g \in Fd : g # f => sock'[g] = sock[g] /\ table'[g] = table[g]
      /\ table'[f] = IF base = 0 THEN table[f] ELSE s
  BY <1>3, <1>4 DEF NTypes
<1>6. base \in Nat
  BY StationFacts DEF NInv
<1>7. NTypes'
  <2>1. /\ state' \in [Session -> {"none", "live", "freed"}]
        /\ mArg' \in [Session -> Nat] /\ fdOf' \in [Session -> Fd \cup {0}]
    BY <1>3, <1>4, <1>6 DEF NTypes
  <2>2. /\ table' \in [Fd -> Session \cup {NoSession}]
        /\ sock' \in [Fd -> Session \cup {NoSession}]
    BY <1>3, <1>4 DEF NTypes
  <2>3. mSession' # NoSession => fdOf'[mSession'] \in Fd
    BY <1>2, <1>4, <1>5 DEF NTypes
  <2>4. mSession' \in Session \cup {NoSession}
    BY <1>2, <1>4 DEF NTypes
  <2>5. queued' \subseteq Events(Session)
    BY <1>1, <1>3, <1>4 DEF NTypes, Events
  <2>6. active' \subseteq Events(Session) \cup {Accept}
    BY <1>2, <1>4 DEF NTypes
  <2> QED
    BY <1>2, <1>4, <2>1, <2>2, <2>3, <2>4, <2>5, <2>6 DEF NTypes
<1>8. \A t \in Session : state[t] = "live" => fdOf[t] # f
  BY <1>3, NativeAssumption DEF NInv, Lives, Owned
<1>9. table[f] = NoSession
  <2>1. SUFFICES ASSUME table[f] # NoSession PROVE FALSE
    OBVIOUS
  <2>2. table[f] \in Session /\ state[table[f]] = "live" /\ fdOf[table[f]] = f
    BY <1>4, <2>1 DEF NInv, Lives, Owned, NTypes
  <2> QED
    BY <1>8, <2>2
<1>10. \A t \in Session, w \in HandlerAt : ~At(t, w) /\ ~At(t, w)'
  BY <1>2 DEF At, NoHandler, HandlerAt
<1>11. \A t \in Session : ~Dropped(t) /\ ~Dropped(t)'
  BY <1>2, <1>10 DEF Dropped, HandlerAt
<1>12. \A t \in Session : t # s => (Registered(t) => Registered(t)')
  <2> SUFFICES ASSUME NEW t \in Session, t # s, Registered(t)
               PROVE  Registered(t)'
    OBVIOUS
  <2>1. fdOf[t] \in Fd /\ table[fdOf[t]] = t /\ fdOf'[t] = fdOf[t]
    BY <1>5 DEF Registered
  <2>2. fdOf[t] # f
    BY <1>9, <2>1, NativeAssumption
  <2> QED
    BY <1>5, <2>1, <2>2 DEF Registered
<1>13. Turns'
  <2>1. removed.app = NoSession
    BY <1>2 DEF NInv, Lives, Turns
  <2> QED
    BY <1>2, <1>10, <2>1 DEF Turns, HandlerAt
<1>14. Owned'
  <2>1. \A t \in Session : state'[t] = "live" =>
            /\ fdOf'[t] \in Fd /\ sock'[fdOf'[t]] = t
            /\ mArg'[t] # 0 => mArg'[t] = base' /\ (Registered(t) \/ Dropped(t))'
    <3> SUFFICES ASSUME NEW t \in Session, state'[t] = "live"
                 PROVE  /\ fdOf'[t] \in Fd /\ sock'[fdOf'[t]] = t
                        /\ mArg'[t] # 0 =>
                              mArg'[t] = base' /\ (Registered(t) \/ Dropped(t))'
      OBVIOUS
    <3>1. CASE t = s
      BY <1>2, <1>5, <3>1 DEF Registered
    <3>2. CASE t # s
      BY <1>2, <1>5, <1>8, <1>11, <1>12, <3>2 DEF NInv, Lives, Owned
    <3> QED
      BY <3>1, <3>2
  <2>2. \A g \in Fd : table'[g] # NoSession =>
            /\ state'[table'[g]] = "live" /\ fdOf'[table'[g]] = g
            /\ mArg'[table'[g]] # 0
    <3> SUFFICES ASSUME NEW g \in Fd, table'[g] # NoSession
                 PROVE  /\ state'[table'[g]] = "live" /\ fdOf'[table'[g]] = g
                        /\ mArg'[table'[g]] # 0
      OBVIOUS
    <3>1. CASE g = f
      BY <1>5, <1>9, <3>1
    <3>2. CASE g # f
      <4>1. /\ table'[g] = table[g] /\ table[g] \in Session
            /\ state[table[g]] = "live" /\ fdOf[table[g]] = g
            /\ mArg[table[g]] # 0
        BY <1>4, <1>5, <3>2 DEF NInv, Lives, Owned, NTypes
      <4> QED
        BY <1>3, <1>5, <4>1
    <3> QED
      BY <3>1, <3>2
  <2>3. \A t \in Session : Waits(t)' => state'[t] = "live" /\ mArg'[t] # 0
    <3> SUFFICES ASSUME NEW t \in Session, Waits(t)'
                 PROVE  state'[t] = "live" /\ mArg'[t] # 0
      OBVIOUS
    <3>1. CASE Waits(t)
      <4>1. state[t] = "live" /\ mArg[t] # 0 /\ t # s
        BY <1>3, <3>1 DEF NInv, Lives, Owned
      <4> QED
        BY <1>5, <4>1
    <3>2. CASE ~Waits(t)
      <4>1. base # 0 /\ (<<t, "read">> \in {s} \X events
                         \/ <<t, "write">> \in {s} \X events)
        BY <1>2, <1>3, <3>2 DEF Waits
      <4> QED
        BY <1>5, <4>1
    <3> QED
      BY <3>1, <3>2
  <2> QED
    BY <1>11, <2>1, <2>2, <2>3 DEF Owned
<1>15. Counts' /\ CountsType'
  BY <1>2, <1>3, <1>5 DEF NInv, Lives, Counts, CountsType
<1>16. Pass'
  BY <1>2, PassStays
<1> QED
  BY <1>7, <1>13, <1>14, <1>15, <1>16 DEF Lives

\* The application inside getAndRemove looks at the table's entry, and then
\* clears it: the session it has found is its own to delete.
LEMMA AppLooksKeeps ==
    ASSUME NInv, AppLooks
    PROVE  Lives'
<1>1. /\ api = "look" /\ api' = "clear" /\ removed'.app = table[fdOf[mSession]]
      /\ removed'.loop = removed.loop
      /\ removed' \in [app : Session \cup {NoSession},
                       loop : Session \cup {NoSession}]
      /\ UNCHANGED <<vars, mpServer, mSession, state, mArg, fdOf, table, sock,
                     queued, active, handler, frees>>
      /\ app' = app /\ base' = base
  BY DEF AppLooks, Look, vars, NInv, Lives, NTypes, Turns
<1>2. handler = NoHandler
  BY <1>1 DEF NInv, Lives, Turns
<1>3. \A s \in Session, w \in HandlerAt : ~At(s, w) /\ ~At(s, w)'
  BY <1>1, <1>2 DEF At, NoHandler, HandlerAt
<1>4. \A s \in Session : /\ ~Dropped(s) /\ ~Dropped(s)'
                         /\ Waits(s)' <=> Waits(s)
  BY <1>1, <1>3 DEF Dropped, Waits, HandlerAt
<1>5. NTypes'
  BY <1>1 DEF NInv, Lives, NTypes
<1>6. Turns'
  BY <1>1, <1>2, <1>3 DEF NInv, Lives, Turns, HandlerAt
<1>7. Owned' /\ Counts' /\ CountsType'
  BY <1>1, <1>4, OwnedStays
<1>8. Pass'
  BY <1>1, <1>2, PassStays
<1> QED
  BY <1>5, <1>6, <1>7, <1>8 DEF Lives

\* Whoever clears the entry has found a session there: it is dropped.
LEMMA ClearedOwned ==
    ASSUME NInv, NEW s \in Session, Registered(s), Clear(fdOf[s]),
           \A t \in Session : ~Dropped(t) /\ (Dropped(t)' <=> t = s),
           UNCHANGED <<base, state, mArg, fdOf, sock, queued, active>>
    PROVE  Owned' /\ table' \in [Fd -> Session \cup {NoSession}]
<1>1. NTypes
  BY DEF NInv, Lives
<1>2. /\ fdOf[s] \in Fd /\ table[fdOf[s]] = s /\ table'[fdOf[s]] = NoSession
      /\ \A g \in Fd : g # fdOf[s] => table'[g] = table[g]
      /\ table' \in [Fd -> Session \cup {NoSession}]
  BY <1>1 DEF Registered, Clear, NTypes
<1>3. \A t \in Session : Registered(t)' <=> Registered(t) /\ t # s
  <2> SUFFICES ASSUME NEW t \in Session
               PROVE  Registered(t)' <=> Registered(t) /\ t # s
    OBVIOUS
  <2>1. CASE fdOf[t] = fdOf[s]
    BY <1>2, <2>1, NativeAssumption DEF Registered
  <2>2. CASE fdOf[t] # fdOf[s]
    BY <1>2, <2>2 DEF Registered
  <2> QED
    BY <2>1, <2>2
<1>4. state[s] = "live"
  BY RegisteredLive
<1>5. \A t \in Session : Waits(t)' <=> Waits(t)
  BY DEF Waits
<1> QED
  BY <1>2, <1>3, <1>4, <1>5 DEF NInv, Lives, Owned

LEMMA AppClearsKeeps ==
    ASSUME NInv, AppClears
    PROVE  Lives'
<1> DEFINE s == removed.app
<1>1. /\ api = "clear" /\ api' = "delete" /\ Clear(fdOf[mSession])
      /\ UNCHANGED <<vars, mpServer, mSession, state, mArg, fdOf, sock, queued,
                     active, handler, removed, frees>>
      /\ app' = app /\ base' = base
  BY DEF AppClears, vars
<1>2. handler = NoHandler /\ fdOf[mSession] \in Fd
  BY <1>1 DEF NInv, Lives, Turns, NTypes
<1>3. s \in Session /\ fdOf[s] = fdOf[mSession] /\ Registered(s)
  <2>1. s = table[fdOf[mSession]] /\ s # NoSession
    BY <1>1 DEF NInv, Lives, Turns
  <2>2. s \in Session
    BY <1>2, <2>1 DEF NInv, Lives, NTypes
  <2>3. fdOf[s] = fdOf[mSession]
    BY <1>2, <2>1 DEF NInv, Lives, Owned
  <2> QED
    BY <1>2, <2>1, <2>2, <2>3 DEF Registered
<1>4. \A t \in Session, w \in HandlerAt : ~At(t, w) /\ ~At(t, w)'
  BY <1>1, <1>2 DEF At, NoHandler, HandlerAt
<1>5. \A t \in Session : ~Dropped(t) /\ (Dropped(t)' <=> t = s)
  BY <1>1, <1>4 DEF Dropped, HandlerAt
<1> HIDE DEF s
<1>6. Owned' /\ table' \in [Fd -> Session \cup {NoSession}]
  BY <1>1, <1>3, <1>5, ClearedOwned
<1>7. NTypes' /\ Counts' /\ CountsType'
  BY <1>1, <1>6 DEF NInv, Lives, NTypes, Counts, CountsType
<1>8. Turns'
  BY <1>1, <1>2, <1>3, <1>4, NativeAssumption
     DEF NInv, Lives, Turns, HandlerAt, s
<1>9. Pass'
  BY <1>1, <1>2, PassStays
<1> QED
  BY <1>6, <1>7, <1>8, <1>9 DEF Lives

\* Deleting the one session that is dropped closes its descriptor and no
\* other session's, and leaves no event of it.
LEMMA DeletedOwned ==
    ASSUME NInv, NEW s \in Session, Dropped(s), Delete({s}),
           \A t \in Session : (Dropped(t) => t = s) /\ ~Dropped(t)',
           UNCHANGED <<base, mArg, fdOf, table>>
    PROVE  /\ Owned' /\ Counts' /\ CountsType'
           /\ state' \in [Session -> {"none", "live", "freed"}]
           /\ sock' \in [Fd -> Session \cup {NoSession}]
           /\ queued' \subseteq queued /\ active' \subseteq active
           /\ fdOf[s] \in Fd /\ sock'[fdOf[s]] = NoSession
<1>1. NTypes
  BY DEF NInv, Lives
<1>2. state[s] = "live" /\ ~Registered(s) /\ fdOf[s] \in Fd /\ sock[fdOf[s]] = s
  BY DEF NInv, Lives, Owned
<1>3. /\ state'[s] = "freed"
      /\ \A t \in Session : t # s => state'[t] = state[t]
      /\ state' \in [Session -> {"none", "live", "freed"}]
  BY <1>1 DEF Delete, NTypes
<1>4. /\ sock'[fdOf[s]] = NoSession
      /\ \A g \in Fd : g # fdOf[s] => sock'[g] = sock[g]
      /\ sock' \in [Fd -> Session \cup {NoSession}]
  BY <1>1, <1>2 DEF Delete, NTypes
<1>5. /\ queued' \subseteq queued /\ active' \subseteq active
      /\ \A t \in Session : Waits(t)' => t # s /\ Waits(t)
  BY DEF Delete, Events, Waits
<1>6. \A t \in Session : Registered(t)' <=> Registered(t)
  BY DEF Registered
<1>7. \A t \in Session : t # s /\ state[t] = "live" => fdOf[t] # fdOf[s]
  BY <1>2 DEF NInv, Lives, Owned
<1>8. \A f \in Fd : table[f] # NoSession => table[f] \in Session /\ table[f] # s
  BY <1>1, <1>2 DEF NInv, Lives, Owned, NTypes, Registered
<1>9. Owned'
  <2>1. \A t \in Session : state'[t] = "live" =>
            /\ fdOf'[t] \in Fd /\ sock'[fdOf'[t]] = t
            /\ mArg'[t] # 0 => mArg'[t] = base' /\ (Registered(t) \/ Dropped(t))'
    BY <1>3, <1>4, <1>6, <1>7 DEF NInv, Lives, Owned
  <2>2. \A f \in Fd : table'[f] # NoSession =>
            /\ state'[table'[f]] = "live" /\ fdOf'[table'[f]] = f
            /\ mArg'[table'[f]] # 0
    BY <1>3, <1>8 DEF NInv, Lives, Owned
  <2>3. \A t \in Session : Waits(t)' => state'[t] = "live" /\ mArg'[t] # 0
    BY <1>3, <1>5 DEF NInv, Lives, Owned
  <2> QED
    BY <2>1, <2>2, <2>3 DEF Owned
<1>10. Counts' /\ CountsType'
  <2>1. \A t \in Session : frees'[t] = frees[t] + (IF t = s THEN 1 ELSE 0)
    BY DEF Delete
  <2>2. frees' \in [Session -> Nat]
    <3>1. \A t \in Session : frees[t] + (IF t \in {s} THEN 1 ELSE 0) \in Nat
      BY DEF NInv, Lives, CountsType
    <3> QED
      BY <3>1 DEF Delete
  <2>3. Counts'
    BY <1>2, <1>3, <2>1 DEF NInv, Lives, Counts
  <2> QED
    BY <2>2, <2>3 DEF CountsType
<1> QED
  BY <1>2, <1>3, <1>4, <1>5, <1>9, <1>10

LEMMA AppDeletesKeeps ==
    ASSUME NInv, AppDeletes
    PROVE  Lives'
<1> DEFINE s == removed.app
<1>1. /\ api = "delete" /\ api' \in {"idle", "crash"} /\ mSession' = NoSession
      /\ Delete({s} \ {NoSession})
      /\ removed' = [removed EXCEPT !.app = NoSession]
      /\ UNCHANGED <<vars, mpServer, mArg, fdOf, table, handler>>
      /\ app' = app /\ base' = base
  BY DEF AppDeletes, Then, vars
<1>2. s \in Session /\ s # NoSession /\ {s} \ {NoSession} = {s}
  BY <1>1 DEF NInv, Lives, Turns, NTypes
<1>3. handler = NoHandler
  BY <1>1 DEF NInv, Lives, Turns
<1>4. \A t \in Session, w \in HandlerAt : ~At(t, w) /\ ~At(t, w)'
  BY <1>1, <1>3 DEF At, NoHandler, HandlerAt
<1>5. \A t \in Session : (Dropped(t) <=> t = s) /\ ~Dropped(t)'
  BY <1>1, <1>4 DEF Dropped, HandlerAt
<1>6. /\ Owned' /\ Counts' /\ CountsType'
      /\ state' \in [Session -> {"none", "live", "freed"}]
      /\ sock' \in [Fd -> Session \cup {NoSession}]
      /\ queued' \subseteq queued /\ active' \subseteq active
  <2> HIDE DEF s
  <2> QED
    BY <1>1, <1>2, <1>5, DeletedOwned
<1>7. NTypes'
  BY <1>1, <1>3, <1>6 DEF NInv, Lives, NTypes
<1>8. Turns'
  BY <1>1, <1>3, <1>4 DEF NInv, Lives, Turns, HandlerAt, NTypes
<1>9. Pass'
  BY <1>1, <1>3, <1>6, PassStays
<1> QED
  BY <1>6, <1>7, <1>8, <1>9 DEF Lives

-----------------------------------------------------------------------------
\* A step of a pass that drops and deletes no session: the callback that runs
\* after it is a registered session's.
LEMMA HandlerMoves ==
    ASSUME NInv, api = "idle",
           UNCHANGED <<vars, mpServer, mSession, state, mArg, fdOf, table,
                       sock, removed, frees>>,
           api' \in {"idle", "crash"},
           \A s \in Session : ~At(s, "delete"),
           \/ handler' = NoHandler
           \/ \E s \in Session, w \in {"read", "answer", "send"} :
                 handler' = <<s, w>> /\ Registered(s),
           queued' \subseteq Events(Session),
           active' \subseteq Events(Session) \cup {Accept},
           \A s \in Session : Waits(s)' => Waits(s) \/ Registered(s),
           Pass'
    PROVE  Lives'
<1>1. base' = base /\ app' = app
  BY DEF vars
<1>2. NTypes'
  BY DEF NInv, Lives, NTypes, HandlerAt
<1>3. \A s \in Session, w \in HandlerAt :
          At(s, w)' => w \in {"read", "answer", "send"} /\ Registered(s)
  BY DEF At, NoHandler, HandlerAt
<1>4. \A s \in Session : ~Dropped(s) /\ ~Dropped(s)'
  BY <1>3 DEF Dropped, HandlerAt
<1>5. \A s \in Session : Registered(s)' <=> Registered(s)
  BY DEF Registered
<1>6. Turns'
  <2>1. removed'.app = NoSession
    BY DEF NInv, Lives, Turns
  <2> QED
    BY <1>3, <1>5, <2>1 DEF Turns, HandlerAt
<1>7. Owned' /\ Counts' /\ CountsType'
  BY <1>1, <1>4, OwnedStays
<1> QED
  BY <1>2, <1>6, <1>7 DEF Lives

\* The next pass: what waits is executed or goes on waiting.
LEMMA PassBeginsKeeps ==
    ASSUME NInv, PassBegins
    PROVE  Lives'
<1>1. /\ handler = NoHandler /\ handler' = NoHandler /\ api' = api
      /\ UNCHANGED <<vars, mpServer, mSession, state, mArg, fdOf, table,
                     sock, removed, frees>>
      /\ active' \subseteq queued \cup IF Listening THEN {Accept} ELSE {}
      /\ queued' = queued \ active' /\ active = {}
      /\ \E t \in Thread : loop[t] = "run"
  BY DEF PassBegins
<1>2. /\ queued' \subseteq Events(Session)
      /\ active' \subseteq Events(Session) \cup {Accept}
  BY <1>1 DEF NInv, Lives, NTypes
<1>3. \A s \in Session, w \in {"read", "write"} : <<s, w>> # Accept
  BY NativeAssumption DEF Accept
<1>4. \A s \in Session : Waits(s)' => Waits(s)
  BY <1>1, <1>3 DEF Waits
<1>5. Accept \notin queued
  BY NativeAssumption DEF NInv, Lives, NTypes, Events, Accept
<1>6. Pass'
  BY <1>1, <1>5 DEF Pass, Executing, Listening, vars
<1>7. base' = base /\ app' = app
  BY <1>1 DEF vars
<1>8. \A s \in Session : /\ \A w \in HandlerAt : At(s, w)' <=> At(s, w)
                         /\ Registered(s)' <=> Registered(s)
                         /\ Dropped(s)' <=> Dropped(s)
  BY <1>1 DEF At, Registered, Dropped, HandlerAt
<1>9. NTypes'
  BY <1>1, <1>2 DEF NInv, Lives, NTypes
<1>10. Turns'
  BY <1>1, <1>7, <1>8 DEF NInv, Lives, Turns, HandlerAt
<1>11. Owned' /\ Counts' /\ CountsType'
  BY <1>1, <1>4, <1>7, <1>8, OwnedStays
<1> QED
  BY <1>6, <1>9, <1>10, <1>11 DEF Lives

\* The accept event is executed for nothing; a session's event fires: the
\* session is registered, and nobody else is at work.
LEMMA FiresKeeps ==
    ASSUME NInv, ~Overlap, api # "crash",
           AcceptFails \/ \E s \in Session : ReadFires(s) \/ WriteFires(s)
    PROVE  Lives'
<1>1. /\ handler = NoHandler /\ api = "idle" /\ api' = api
      /\ UNCHANGED <<vars, mpServer, mSession, state, mArg, fdOf, table,
                     sock, removed, frees>>
      /\ queued' = queued /\ active' \subseteq active /\ active # {}
  BY DEF AcceptFails, ReadFires, WriteFires, LoopRuns, client
<1>2. \A s \in Session : ~At(s, "delete")
  BY <1>1, NowhereElse DEF HandlerAt
<1>3. \/ handler' = NoHandler
      \/ \E s \in Session, w \in {"read", "answer", "send"} :
            handler' = <<s, w>> /\ Registered(s)
  <2>1. ASSUME NEW s \in Session, Waits(s) PROVE Registered(s)
    <3>1. ~Dropped(s)
      BY <1>1, <1>2 DEF Dropped
    <3> QED
      BY <2>1, <3>1 DEF NInv, Lives, Owned
  <2>2. CASE AcceptFails
    BY <1>1, <2>2 DEF AcceptFails
  <2>3. ASSUME NEW s \in Session, ReadFires(s) \/ WriteFires(s)
        PROVE  Registered(s) /\ handler' \in {<<s, "read">>, <<s, "send">>}
    BY <2>1, <2>3 DEF ReadFires, WriteFires, LoopRuns, Waits
  <2> QED
    BY <2>2, <2>3
<1>4. Executing
  BY <1>1 DEF NInv, Lives, Pass
<1>5. Pass'
  BY <1>1, <1>4, PassStays
<1>6. \A s \in Session : Waits(s)' => Waits(s)
  BY <1>1 DEF Waits
<1> QED
  BY <1>1, <1>2, <1>3, <1>5, <1>6, HandlerMoves DEF NInv, Lives, NTypes

\* The callback sends, or ends: its events are added again, or it closes the
\* descriptor, which is nobody's yet.
LEMMA CallbackKeeps ==
    ASSUME NInv, api # "crash", NEW s \in Session,
           Answers(s) \/ ReadsData(s) \/ SendEnds(s) \/ LoopCloses(s)
    PROVE  Lives'
<1>1. PICK w \in {"read", "answer", "send", "close"} :
          /\ At(s, w)
          /\ LoopCloses(s) <=> w = "close"
  BY DEF Answers, ReadsData, SendEnds, LoopCloses, At
<1>2. /\ handler # NoHandler /\ api = "idle"
      /\ \A t \in Session, v \in HandlerAt : At(t, v) <=> t = s /\ v = w
      /\ w # "close" => Registered(s)
      /\ w = "close" => fdOf[s] \in Fd /\ sock[fdOf[s]] = NoSession
  BY <1>1, HandlerPlaces DEF NInv, Lives, Turns, NTypes, HandlerAt
<1>3. sock' = sock
  BY <1>1, <1>2 DEF NInv, Lives, NTypes, Answers, ReadsData, SendEnds, LoopCloses,
                    client
<1>4. /\ UNCHANGED <<vars, mpServer, mSession, state, mArg, fdOf, table,
                     removed, frees>>
      /\ api' \in {api, "crash"} /\ active' = active
      /\ handler' \in {NoHandler, <<s, "answer">>}
      /\ handler' # NoHandler => w # "close"
  BY <1>1 DEF Answers, ReadsData, SendEnds, LoopCloses, Then, client
<1>5. \/ queued' = queued
      \/ /\ w # "close"
         /\ \E events \in SUBSET {"read", "write"} : AddsEvents(s, events)
  BY <1>1 DEF Answers, ReadsData, SendEnds, LoopCloses, client
<1>6. queued' \subseteq Events(Session) /\ active' \subseteq Events(Session) \cup {Accept}
  BY <1>4, <1>5 DEF NInv, Lives, NTypes, AddsEvents, Events
<1>7. \A t \in Session : Waits(t)' => Waits(t) \/ Registered(t)
  <2>1. CASE queued' = queued
    BY <1>4, <2>1 DEF Waits
  <2>2. ASSUME NEW events \in SUBSET {"read", "write"}, AddsEvents(s, events)
        PROVE  \A t \in Session : Waits(t)' => Waits(t) \/ t = s
    BY <1>4, <2>2 DEF Waits, AddsEvents
  <2> QED
    BY <1>2, <1>5, <2>1, <2>2
<1>8. Pass'
  BY <1>2, <1>4, PassStays DEF NInv, Lives, Pass
<1> QED
  BY <1>2, <1>3, <1>4, <1>6, <1>7, <1>8, HandlerMoves DEF HandlerAt

\* The peer has closed: onRead finds its own session in the table.
LEMMA LoopLooksKeeps ==
    ASSUME NInv, api # "crash", NEW s \in Session, LoopLooks(s)
    PROVE  Lives'
<1>1. /\ At(s, "read") /\ handler' = <<s, "clear">>
      /\ removed' = [removed EXCEPT !["loop"] = table[fdOf[s]]]
      /\ UNCHANGED <<vars, api, mpServer, mSession, state, mArg, fdOf, table,
                     sock, queued, active, frees>>
      /\ app' = app /\ base' = base
  BY DEF LoopLooks, Look, vars
<1>2. /\ handler # NoHandler /\ api = "idle" /\ Registered(s)
      /\ \A t \in Session, w \in HandlerAt : At(t, w) <=> t = s /\ w = "read"
  BY <1>1, HandlerPlaces DEF NInv, Lives, Turns, HandlerAt
<1>3. \A t \in Session, w \in HandlerAt : At(t, w)' <=> t = s /\ w = "clear"
  BY <1>1 DEF At, HandlerAt
<1>4. removed' = [app |-> removed.app, loop |-> s]
  BY <1>1, <1>2 DEF NInv, Lives, NTypes, Registered
<1>5. \A t \in Session : /\ Registered(t)' <=> Registered(t)
                         /\ ~Dropped(t) /\ ~Dropped(t)'
                         /\ Waits(t)' <=> Waits(t)
  BY <1>1, <1>2, <1>3 DEF Registered, Dropped, Waits, HandlerAt
<1>6. NTypes'
  BY <1>1, <1>4 DEF NInv, Lives, NTypes, HandlerAt
<1>7. Turns'
  BY <1>1, <1>2, <1>3, <1>4, <1>5 DEF NInv, Lives, Turns, HandlerAt
<1>8. Owned' /\ Counts' /\ CountsType'
  BY <1>1, <1>5, OwnedStays
<1>9. Pass'
  BY <1>1, <1>2, PassStays DEF NInv, Lives, Pass
<1> QED
  BY <1>6, <1>7, <1>8, <1>9 DEF Lives

LEMMA LoopClearsKeeps ==
    ASSUME NInv, api # "crash", NEW s \in Session, LoopClears(s)
    PROVE  Lives'
<1>1. /\ At(s, "clear") /\ Clear(fdOf[s]) /\ handler' = <<s, "delete">>
      /\ UNCHANGED <<vars, api, mpServer, mSession, state, mArg, fdOf, sock,
                     queued, active, removed, frees>>
      /\ app' = app /\ base' = base
  BY DEF LoopClears, vars
<1>2. /\ handler # NoHandler /\ api = "idle" /\ Registered(s)
      /\ removed.loop = s
      /\ \A t \in Session, w \in HandlerAt : At(t, w) <=> t = s /\ w = "clear"
  BY <1>1, HandlerPlaces DEF NInv, Lives, Turns, HandlerAt
<1>3. \A t \in Session, w \in HandlerAt : At(t, w)' <=> t = s /\ w = "delete"
  BY <1>1 DEF At, HandlerAt
<1>4. \A t \in Session : ~Dropped(t) /\ (Dropped(t)' <=> t = s)
  BY <1>1, <1>2, <1>3 DEF Dropped, HandlerAt
<1>5. Owned' /\ table' \in [Fd -> Session \cup {NoSession}]
  BY <1>1, <1>2, <1>4, ClearedOwned
<1>6. NTypes' /\ Counts' /\ CountsType'
  BY <1>1, <1>5 DEF NInv, Lives, NTypes, Counts, CountsType, HandlerAt
<1>7. Turns'
  BY <1>1, <1>2, <1>3 DEF NInv, Lives, Turns, HandlerAt
<1>8. Pass'
  BY <1>1, <1>2, PassStays DEF NInv, Lives, Pass
<1> QED
  BY <1>5, <1>6, <1>7, <1>8 DEF Lives

LEMMA LoopDeletesKeeps ==
    ASSUME NInv, api # "crash", NEW s \in Session, LoopDeletes(s)
    PROVE  Lives'
<1>1. /\ At(s, "delete") /\ Delete({removed.loop} \cap {s})
      /\ handler' = <<s, "close">> /\ api' \in {api, "crash"}
      /\ removed' = [removed EXCEPT !["loop"] = NoSession]
      /\ UNCHANGED <<vars, mpServer, mSession, mArg, fdOf, table>>
      /\ app' = app /\ base' = base
  BY DEF LoopDeletes, Then, vars
<1>2. /\ handler # NoHandler /\ api = "idle" /\ {removed.loop} \cap {s} = {s}
      /\ \A t \in Session, w \in HandlerAt : At(t, w) <=> t = s /\ w = "delete"
  BY <1>1, HandlerPlaces DEF NInv, Lives, Turns, HandlerAt
<1>3. \A t \in Session, w \in HandlerAt : At(t, w)' <=> t = s /\ w = "close"
  BY <1>1 DEF At, HandlerAt
<1>4. \A t \in Session : (Dropped(t) <=> t = s) /\ ~Dropped(t)'
  BY <1>1, <1>2, <1>3 DEF Dropped, HandlerAt
<1>5. /\ Owned' /\ Counts' /\ CountsType'
      /\ state' \in [Session -> {"none", "live", "freed"}]
      /\ sock' \in [Fd -> Session \cup {NoSession}]
      /\ queued' \subseteq queued /\ active' \subseteq active
      /\ fdOf[s] \in Fd /\ sock'[fdOf[s]] = NoSession
  BY <1>1, <1>2, <1>4, DeletedOwned
<1>6. removed' = [app |-> removed.app, loop |-> NoSession]
  BY <1>1 DEF NInv, Lives, NTypes
<1>7. NTypes'
  BY <1>1, <1>2, <1>5, <1>6 DEF NInv, Lives, NTypes, HandlerAt
<1>8. Turns'
  BY <1>1, <1>2, <1>3, <1>5, <1>6 DEF NInv, Lives, Turns, HandlerAt
<1>9. Pass'
  BY <1>1, <1>2, <1>5, PassStays DEF NInv, Lives, Pass
<1> QED
  BY <1>5, <1>7, <1>8, <1>9 DEF Lives

\* The network is destroyed: the sessions in the table are deleted, which are
\* all that were ever registered and live.
LEMMA DestroyKeeps ==
    ASSUME NInv, api # "crash", DestroySessions
    PROVE  Lives'
<1>1. /\ app = "destroy" /\ app' = "mutex" /\ base' = 0
      /\ state' = [s \in Session |->
                      IF s \in InTable THEN "freed" ELSE state[s]]
      /\ frees' = [s \in Session |->
                      frees[s] + (IF s \in InTable THEN 1 ELSE 0)]
      /\ sock' = [f \in Fd |->
                     IF f \in {fdOf[s] : s \in InTable} THEN NoSession
                     ELSE sock[f]]
      /\ table' = [f \in Fd |-> NoSession] /\ queued' = {} /\ active' = {}
      /\ api' \in {api, "crash"} /\ mSession' = mSession /\ mArg' = mArg
      /\ fdOf' = fdOf /\ handler' = handler /\ removed' = removed
  BY DEF DestroySessions, DestroyGlobal, Then
<1>2. api = "idle" /\ handler = NoHandler
  BY <1>1, StationFacts DEF NInv, Lives, NTypes, Turns, Pass
<1>3. \A t \in Session, w \in HandlerAt : ~At(t, w) /\ ~At(t, w)'
  BY <1>1, <1>2 DEF At, NoHandler, HandlerAt
<1>4. \A t \in Session : ~Dropped(t) /\ ~Dropped(t)' /\ ~Waits(t)'
  BY <1>1, <1>2, <1>3 DEF Dropped, Waits, HandlerAt
<1>5. NTypes
  BY DEF NInv, Lives
<1>6. /\ InTable \subseteq Session
      /\ \A s \in InTable :
            state[s] = "live" /\ fdOf[s] \in Fd /\ sock[fdOf[s]] = s
  BY <1>5 DEF InTable, NInv, Lives, Owned, NTypes
<1>7. \A s \in Session : Registered(s) => s \in InTable
  BY NativeAssumption DEF Registered, InTable
<1>8. \A s \in Session : state'[s] = "live" =>
          state[s] = "live" /\ s \notin InTable /\ mArg[s] = 0
  BY <1>1, <1>4, <1>7 DEF NInv, Lives, Owned
<1>9. Owned'
  <2>1. \A s \in Session : state'[s] = "live" =>
            fdOf'[s] \in Fd /\ sock'[fdOf'[s]] = s /\ mArg'[s] = 0
    <3> SUFFICES ASSUME NEW s \in Session, state'[s] = "live"
                 PROVE  fdOf'[s] \in Fd /\ sock'[fdOf'[s]] = s /\ mArg'[s] = 0
      OBVIOUS
    <3>1. fdOf[s] \in Fd /\ sock[fdOf[s]] = s /\ mArg[s] = 0
      BY <1>8 DEF NInv, Lives, Owned
    <3>2. fdOf[s] \notin {fdOf[t] : t \in InTable}
      BY <1>6, <1>8, <3>1
    <3> QED
      BY <1>1, <3>1, <3>2
  <2> QED
    BY <1>1, <1>4, <2>1 DEF Owned
<1>10. NTypes'
  <2>1. /\ state' \in [Session -> {"none", "live", "freed"}]
        /\ sock' \in [Fd -> Session \cup {NoSession}]
        /\ table' \in [Fd -> Session \cup {NoSession}]
    BY <1>1, <1>5 DEF NTypes
  <2> QED
    BY <1>1, <1>2, <1>5, <2>1 DEF NTypes
<1>11. Counts' /\ CountsType'
  <2>1. \A s \in Session : frees[s] + (IF s \in InTable THEN 1 ELSE 0) \in Nat
    BY DEF NInv, Lives, CountsType
  <2>2. CountsType'
    BY <1>1, <2>1 DEF CountsType
  <2>3. \A s \in Session : frees'[s] = IF state'[s] = "freed" THEN 1 ELSE 0
    <3> SUFFICES ASSUME NEW s \in Session
                 PROVE  frees'[s] = IF state'[s] = "freed" THEN 1 ELSE 0
      OBVIOUS
    <3>1. frees[s] = IF state[s] = "freed" THEN 1 ELSE 0
      BY DEF NInv, Lives, Counts
    <3>2. CASE s \in InTable
      BY <1>1, <1>6, <3>1, <3>2
    <3>3. CASE s \notin InTable
      BY <1>1, <3>1, <3>3
    <3> QED
      BY <3>2, <3>3
  <2> QED
    BY <2>2, <2>3 DEF Counts
<1>12. Turns'
  <2>1. removed.app = NoSession
    BY <1>2 DEF NInv, Lives, Turns
  <2> QED
    BY <1>1, <1>2, <1>3, <2>1 DEF Turns, HandlerAt
<1>13. Pass'
  BY <1>1, <1>2 DEF Pass
<1> QED
  BY <1>9, <1>10, <1>11, <1>12, <1>13 DEF Lives

-----------------------------------------------------------------------------
\* What happens to the sessions is none of the station's matter: each step is
\* one of the station's or leaves it alone.
LEMMA StepOfStation == [NativeNext]_nvars => [Next]_vars
<1> SUFFICES ASSUME NativeNext PROVE [Next]_vars
  BY DEF nvars
<1>1. ~Dead
  BY DEF NativeNext
<1>2. CASE StartNetWork \/ StopNetWork \/ DestroySessions
  BY <1>1, <1>2 DEF StartNetWork, StopNetWork, DestroySessions, Next, AppStep
<1>3. CASE AppThread \/ Signalled
  BY <1>1, <1>3 DEF AppThread, Signalled, Next, AppStep
<1>4. ASSUME NEW t \in Thread, LoopThread(t) PROVE Next
  BY <1>1, <1>4 DEF LoopThread, Next, LoopStep
<1>5. CASE StartServer \/ StopServer \/ StopFileRecv \/ FetchAndSaveFile
  BY <1>5 DEF StartServer, StopServer, StopFileRecv, FetchAndSaveFile
<1>6. CASE DisconnectStep \/ PassBegins \/ AcceptFails
  BY <1>6 DEF DisconnectStep, AppLooks, AppClears, AppDeletes, PassBegins,
              AcceptFails
<1>7. ASSUME NEW s \in Session,
             StartFileRecv(s) \/ Fires(s) \/ HandlerStep(s) \/ SendEnds(s)
      PROVE  UNCHANGED vars
  BY <1>7 DEF StartFileRecv, Fires, ServerAccepts, ReadFires, WriteFires,
              HandlerStep, Answers, ReadsData, SendEnds, LoopLooks, LoopClears,
              LoopDeletes, LoopCloses
<1> QED
  BY <1>2, <1>3, <1>4, <1>5, <1>6, <1>7 DEF NativeNext

LEMMA NativeStep == ASSUME ~Overlap PROVE NInv /\ [NativeNext]_nvars => NInv'
<1> SUFFICES ASSUME NInv, [NativeNext]_nvars PROVE NInv'
  OBVIOUS
<1>1. IInv'
  BY StepOfStation, StepInvariant DEF NInv
<1> SUFFICES Lives'
  BY <1>1 DEF NInv
<1>2. CASE UNCHANGED nvars
  <2>1. /\ UNCHANGED <<api, mpServer, active, handler, client>>
        /\ UNCHANGED vars /\ base' = base /\ app' = app
        /\ (Executing' <=> Executing)
    BY <1>2 DEF nvars, vars, Executing
  <2>2. /\ active # {} \/ handler # NoHandler => Executing
        /\ api \in {"look", "clear", "delete"} => app = "idle"
    BY DEF NInv, Lives, Turns, Pass
  <2> QED
    BY <2>1, <2>2, StationMoves
<1> SUFFICES ASSUME NativeNext PROVE Lives'
  BY <1>2
<1>3. api # "crash"
  BY DEF NativeNext
<1>4. CASE \/ StartNetWork \/ StopNetWork \/ AppThread \/ Signalled
           \/ \E t \in Thread : LoopThread(t)
  BY <1>3, <1>4, StationKeeps
<1>5. CASE StartServer \/ StopServer \/ FetchAndSaveFile \/ StopFileRecv
  BY <1>5, CallsKeep
<1>6. CASE DestroySessions
  BY <1>3, <1>6, DestroyKeeps
<1>7. CASE DisconnectStep
  BY <1>7, AppLooksKeeps, AppClearsKeeps, AppDeletesKeeps DEF DisconnectStep
<1>8. CASE PassBegins
  BY <1>8, PassBeginsKeeps
<1>9. CASE AcceptFails
  BY <1>3, <1>9, FiresKeeps
<1>10. ASSUME NEW s \in Session,
              StartFileRecv(s) \/ Fires(s) \/ HandlerStep(s) \/ SendEnds(s)
       PROVE  Lives'
  <2>1. CASE StartFileRecv(s) \/ ServerAccepts(s)
    BY <1>3, <2>1, MadeKeeps
  <2>2. CASE ReadFires(s) \/ WriteFires(s)
    BY <1>3, <2>2, FiresKeeps
  <2>3. CASE LoopLooks(s) \/ LoopClears(s) \/ LoopDeletes(s)
    BY <1>3, <2>3, LoopLooksKeeps, LoopClearsKeeps, LoopDeletesKeeps
  <2>4. CASE Answers(s) \/ ReadsData(s) \/ SendEnds(s) \/ LoopCloses(s)
    BY <1>3, <2>4, CallbackKeeps
  <2> QED
    BY <1>10, <2>1, <2>2, <2>3, <2>4 DEF Fires, HandlerStep
<1> QED
  BY <1>4, <1>5, <1>6, <1>7, <1>8, <1>9, <1>10 DEF NativeNext

LEMMA NativeInvariance == ASSUME ~Overlap PROVE NativeSpec => []NInv
<1>1. NativeInit => NInv
  BY NativeInitInvariant
<1> QED
  BY <1>1, NativeStep, PTL DEF NativeSpec

\* With its callers and sessions around it the reactor behaves as the station
\* by itself does: what is proved of the one holds in the other.
THEOREM ImplementsStation == NativeSpec => Spec
<1>1. NativeInit => Init
  BY DEF NativeInit
<1> QED
  BY <1>1, StepOfStation, PTL DEF NativeSpec, Spec

\* No session is deleted twice, whichever of disConnect, onRead and the
\* destructor of SessionManager deletes it, as long as the application makes
\* its calls for the client while no callback runs (Session.cpp:581-587,
\* TcpClient.cpp:46-57).
THEOREM FreedOnce == ASSUME ~Overlap PROVE NativeSpec => []SessionFreedOnce
<1>1. NInv => SessionFreedOnce
  BY DEF NInv, Lives, Counts, SessionFreedOnce
<1> QED
  BY <1>1, NativeInvariance, PTL

\* Neither the table nor the base's queues nor the events a pass has still to
\* execute point to a session that has been deleted, an entry of the table is
\* its descriptor's current owner, and a stopped server accepts no more.
THEOREM NoStalePointers == ASSUME ~Overlap PROVE NativeSpec => []PointersLive
<1>1. NInv => PointersLive
  <2> SUFFICES ASSUME NInv PROVE PointersLive
    OBVIOUS
  <2>1. ASSUME NEW e \in queued \cup active, e # Accept
        PROVE  state[e[1]] = "live"
    <3>1. PICK s \in Session, w \in {"read", "write"} : e = <<s, w>>
      BY <2>1 DEF NInv, Lives, NTypes, Events
    <3> QED
      BY <2>1, <3>1 DEF NInv, Lives, Owned, Waits
  <2>2. Accept \in active => Listening
    BY DEF NInv, Lives, Pass
  <2>3. ASSUME NEW f \in Fd, table[f] # NoSession
        PROVE  LET s == table[f]
               IN  /\ fdOf[s] = f /\ mArg[s] = base
                   /\ removed.app # s => state[s] = "live" /\ sock[f] = s
    <3>1. /\ table[f] \in Session /\ state[table[f]] = "live"
          /\ fdOf[table[f]] = f /\ mArg[table[f]] # 0
      BY <2>3 DEF NInv, Lives, Owned, NTypes
    <3> QED
      BY <3>1 DEF NInv, Lives, Owned
  <2> QED
    BY <2>1, <2>2, <2>3 DEF PointersLive
<1> QED
  BY <1>1, NativeInvariance, PTL

\* When the network has been stopped, every session that was registered with
\* it has been deleted.
THEOREM AllSessionsFreed == ASSUME ~Overlap PROVE NativeSpec => []NothingLeft
<1>1. NInv => NothingLeft
  <2> SUFFICES ASSUME NInv, base = 0, NEW s \in Session, state[s] = "live"
               PROVE  mArg[s] = 0
    BY DEF NothingLeft
  <2> QED
    BY DEF NInv, Lives, Owned
<1> QED
  BY <1>1, NativeInvariance, PTL
=============================================================================
