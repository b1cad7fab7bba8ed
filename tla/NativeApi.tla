----------------------------- MODULE NativeApi -----------------------------
(***************************************************************************)
(* The entry points an application calls (NativeApi.cpp), with the client  *)
(* and the server they make (TcpClient, TcpServer, IOUtils), on top of the *)
(* reactor they start and stop (ReactorStation).  A client's session is    *)
(* freed in one of three places: disConnect in the application's thread,   *)
(* onRead in the loop's when the peer has closed, and SessionManager's     *)
(* destructor when the network is stopped; the table of sessions decides   *)
(* which.  The loop works in passes: what is ready becomes active, and     *)
(* every active event is executed, even when the network is being stopped. *)
(*                                                                         *)
(* Memory that has been freed may still hold what it held or anything      *)
(* else: a read of it gives the old value, or the program dies ("crash").  *)
(* It dies or not, too, when it uses the FILE of a TaskFileRecv that has   *)
(* none: ~TaskFileRecv tells the place in it before it looks whether there *)
(* is one, in an argument of log_info, which a build may leave out.        *)
(*                                                                         *)
(* A definition whose name ends in Mutant is the definition after it with  *)
(* a plausible mistake in it.                                              *)
(***************************************************************************)
EXTENDS ReactorStation

CONSTANTS
    Session,        \* the client's and the server's sessions
    NoSession,
    NoServer,
    Fd,             \* the descriptors of the clients' sockets
    Overlap         \* whether the client's calls are made while a callback runs

ASSUME NativeAssumption ==
    /\ Fd \subseteq Nat \ {0} /\ Overlap \in BOOLEAN
    /\ NoSession \notin Session
    /\ NoServer \notin [base : Nat, listening : BOOLEAN]

VARIABLES
    api,        \* where the application is in disConnect, or "crash"
    mpServer,   \* NoServer, or the base its accept event is on and its socket
    mSession,   \* mpClient's session, NoSession when mpClient is NULL
    state,      \* each session's memory: "none", "live" or "freed"
    mArg,       \* the EventGlobal a session has been given, 0 for NULL
    fdOf,       \* mSid; mSockId of the client
    table,      \* mSession of each entry of the current SessionManager
    sock,       \* the session whose connection a descriptor is open for
    mwFile,     \* the file a session's TaskFileRecv saves to: "NULL" or
                \* "open", "none" without a TaskFileRecv (the server's)
    queued,     \* the sessions' events that wait on the base
    active,     \* the events that are still to be executed in this pass
    handler,    \* the session whose callback runs, and where it is
    removed,    \* what the two threads' getAndRemove has found
    frees       \* how often each session has been deleted

client == <<mSession, state, mArg, fdOf, table, sock, mwFile, queued, removed,
            frees>>
nvars  == <<vars, api, mpServer, active, handler, client>>

NoHandler == <<NoSession, "none">>
Accept    == <<NoSession, "accept">>
Events(S) == S \X {"read", "write"}

NativeInit ==
    /\ Init
    /\ api = "idle" /\ mpServer = NoServer /\ mSession = NoSession
    /\ state = [s \in Session |-> "none"]
    /\ mArg = [s \in Session |-> 0] /\ fdOf = [s \in Session |-> 0]
    /\ table = [f \in Fd |-> NoSession] /\ sock = [f \in Fd |-> NoSession]
    /\ mwFile = [s \in Session |-> "none"]
    /\ queued = {} /\ active = {} /\ handler = NoHandler
    /\ removed = [app |-> NoSession, loop |-> NoSession]
    /\ frees = [s \in Session |-> 0]

\* The application makes a call.
Called == app = "idle" /\ api = "idle"

\* Without Overlap it calls for the client only when no callback runs, and
\* none begins before the call is over.
ClientCalled == Called /\ (Overlap \/ handler = NoHandler)

(***************************************************************************)
(* delete session: ~Session deletes the events and closes the descriptor,  *)
(* whoever has it open; Dies says whether its TaskFileRecv has no FILE.    *)
(***************************************************************************)
Dies(S) == \E s \in S : mwFile[s] = "NULL"

\* where the application is after a step that uses the FILE of one of S.
Then(where, S) == api' = where \/ (Dies(S) /\ api' = "crash")

DeleteMutant(S) ==
    /\ state' = [s \in Session |-> IF s \in S THEN "freed" ELSE state[s]]
    /\ frees' = [s \in Session |-> frees[s] + (IF s \in S THEN 1 ELSE 0)]
    /\ sock' = [f \in Fd |-> IF f \in {fdOf[s] : s \in S} THEN NoSession
                             ELSE sock[f]]
    /\ UNCHANGED <<queued, active>>

Delete(S) ==
    /\ state' = [s \in Session |-> IF s \in S THEN "freed" ELSE state[s]]
    /\ frees' = [s \in Session |-> frees[s] + (IF s \in S THEN 1 ELSE 0)]
    /\ queued' = queued \ Events(S) /\ active' = active \ Events(S)
    /\ sock' = [f \in Fd |-> IF f \in {fdOf[s] : s \in S} THEN NoSession
                             ELSE sock[f]]

(***************************************************************************)
(* The network.  StopNetWork deletes the sessions that are in the table    *)
(* and then the base, with the events on it.                               *)
(***************************************************************************)
StartNetWork ==
    /\ Called /\ mIsStartup = 0
    /\ Startup
    /\ UNCHANGED <<api, mpServer, active, handler, client>>

StopNetWork ==
    /\ Called /\ mIsStartup = 1
    /\ Shutdown
    /\ UNCHANGED <<api, mpServer, active, handler, client>>

InTable == {table[f] : f \in Fd} \ {NoSession}

DestroySessionsMutant ==
    /\ DestroyGlobal
    /\ table' = [f \in Fd |-> NoSession]
    /\ queued' = {} /\ active' = {}
    /\ UNCHANGED <<api, mpServer, mSession, mArg, fdOf, mwFile, handler,
                   removed, state, frees, sock>>

DestroySessions ==
    /\ DestroyGlobal /\ Then(api, InTable)
    /\ state' = [s \in Session |-> IF s \in InTable THEN "freed" ELSE state[s]]
    /\ frees' = [s \in Session |->
                    frees[s] + (IF s \in InTable THEN 1 ELSE 0)]
    /\ sock' = [f \in Fd |-> IF f \in {fdOf[s] : s \in InTable} THEN NoSession
                             ELSE sock[f]]
    /\ table' = [f \in Fd |-> NoSession]
    /\ queued' = {} /\ active' = {}
    /\ UNCHANGED <<mpServer, mSession, mArg, fdOf, mwFile, handler, removed>>

\* The station's other steps; the loop looks at mIsStartup after a pass.
LoopThread(t) ==
    /\ \/ LoopBegins(t) \/ GetGlobal(t) \/ LoopDies(t) \/ AddSignals(t)
       \/ DelSignals(t) \/ SigHandler(t)
       \/ handler = NoHandler /\ LoopPass(t)
       \/ handler = NoHandler /\ active = {} /\ LoopStops(t)
    /\ UNCHANGED <<api, mpServer, active, handler, client>>

AppThread ==
    /\ Spawn \/ LockForDestroy \/ DestroyMutex
    /\ UNCHANGED <<api, mpServer, active, handler, client>>

Signalled ==
    /\ SignalArrives
    /\ UNCHANGED <<api, mpServer, active, handler, client>>

(***************************************************************************)
(* The server.  With no network nothing is registered, and mpServer is set *)
(* all the same.  When tcpListen fails (a socket that is bound stays open) *)
(* the accept event waits for descriptor 0.                                *)
(***************************************************************************)
StartServer ==
    /\ Called /\ mpServer = NoServer
    /\ \E listening \in BOOLEAN :
        mpServer' = [base |-> base, listening |-> base # 0 /\ listening]
    /\ UNCHANGED <<vars, api, active, handler, client>>

Listening == mpServer = [base |-> base, listening |-> TRUE]

\* event_del of an event that has never been set, or whose base is freed.
StaleAccept == mpServer.base = 0 \/ mpServer.base # base

StopServer ==
    /\ Called /\ mpServer # NoServer
    /\ \/ /\ api' = "idle" /\ mpServer' = NoServer
          /\ active' = active \ {Accept}
       \/ StaleAccept /\ api' = "crash" /\ UNCHANGED <<mpServer, active>>
    /\ UNCHANGED <<vars, handler, client>>

(***************************************************************************)
(* A new session.  It is given the network's EventGlobal, put in the table *)
(* and its events added, if there is a network: by connect and             *)
(* registerEvent for the client, by onAccept for the server, in the loop's *)
(* thread.                                                                 *)
(***************************************************************************)
\* tcpConnect and accept open the lowest descriptor that is free.
Opens(f) ==
    /\ sock[f] = NoSession
    /\ \A g \in Fd : sock[g] = NoSession => f <= g

NewSession(s, f, file) ==
    /\ state[s] = "none"
    /\ state' = [state EXCEPT ![s] = "live"]
    /\ fdOf' = [fdOf EXCEPT ![s] = f]
    /\ sock' = [sock EXCEPT ![f] = s]
    /\ mwFile' = [mwFile EXCEPT ![s] = file]

RegisterEvent(s, f, events) ==
    /\ mArg' = [mArg EXCEPT ![s] = base]
    /\ table' = IF base = 0 THEN table ELSE [table EXCEPT ![f] = s]
    /\ queued' = IF base = 0 THEN queued ELSE queued \cup ({s} \X events)

StartFileRecv(s) ==
    /\ ClientCalled /\ mSession = NoSession
    /\ \E f \in Fd :
        Opens(f) /\ NewSession(s, f, "NULL") /\ RegisterEvent(s, f, {"read"})
    /\ mSession' = s
    /\ UNCHANGED <<vars, api, mpServer, active, handler, removed, frees>>

\* fetchAndSaveFile follows mpClient's pointer to the session and opens the
\* file, if it can; what it sends is FileTransfer's matter.
FetchAndSaveFile ==
    /\ ClientCalled /\ mSession # NoSession
    /\ \/ /\ state[mSession] = "live" /\ mwFile[mSession] = "NULL"
          /\ mwFile' = [mwFile EXCEPT ![mSession] = "open"] /\ UNCHANGED api
       \/ state[mSession] = "freed" /\ api' = "crash" /\ UNCHANGED mwFile
    /\ UNCHANGED <<vars, mpServer, active, handler, mSession, state, mArg, fdOf,
                   table, sock, queued, removed, frees>>

(***************************************************************************)
(* disConnect: the session tells where the table is, the table whether the *)
(* session is still there.                                                 *)
(***************************************************************************)
StaleGlobal(s) == state[s] = "freed" \/ mArg[s] # base

DisConnect(s) ==
    \/ /\ mArg[s] # 0 /\ base # 0
       /\ IF table[fdOf[s]] # NoSession
          THEN api' = "look" /\ UNCHANGED mSession
          ELSE mSession' = NoSession /\ UNCHANGED api
    \/ /\ mArg[s] = 0 \/ StaleGlobal(s)
       /\ api' = "crash"
       /\ UNCHANGED mSession

StopFileRecv ==
    /\ ClientCalled /\ mSession # NoSession
    /\ DisConnect(mSession)
    /\ UNCHANGED <<vars, mpServer, state, mArg, fdOf, table, sock, mwFile,
                   queued, active, handler, removed, frees>>

\* getAndRemove reads the entry, and then sets it to NULL.
Look(t, f) == removed' = [removed EXCEPT ![t] = table[f]]

ClearMutant(f) == UNCHANGED table

Clear(f) == table' = [table EXCEPT ![f] = NoSession]

AppLooks ==
    /\ api = "look"
    /\ Look("app", fdOf[mSession])
    /\ api' = "clear"
    /\ UNCHANGED <<vars, mpServer, mSession, state, mArg, fdOf, table, sock,
                   mwFile, queued, active, handler, frees>>

AppClears ==
    /\ api = "clear"
    /\ Clear(fdOf[mSession])
    /\ api' = "delete"
    /\ UNCHANGED <<vars, mpServer, mSession, state, mArg, fdOf, sock, mwFile,
                   queued, active, handler, removed, frees>>

AppDeletes ==
    /\ api = "delete"
    /\ LET S == {removed.app} \ {NoSession} IN Delete(S) /\ Then("idle", S)
    /\ removed' = [removed EXCEPT !.app = NoSession]
    /\ mSession' = NoSession
    /\ UNCHANGED <<vars, mpServer, mArg, fdOf, table, mwFile, handler>>

DisconnectStep == AppLooks \/ AppClears \/ AppDeletes

(***************************************************************************)
(* A pass of the loop: of the events that are ready some become active,    *)
(* those of the sessions leave the queues, the accept event stays.         *)
(***************************************************************************)
PassBegins ==
    /\ \E t \in Thread : loop[t] = "run"
    /\ mIsStartup = 1 /\ active = {} /\ handler = NoHandler
    /\ active' \in SUBSET (queued \cup IF Listening THEN {Accept} ELSE {})
    /\ queued' = queued \ active'
    /\ UNCHANGED <<vars, api, mpServer, mSession, state, mArg, fdOf, table,
                   sock, mwFile, handler, removed, frees>>

\* The loop executes an active event, whatever mIsStartup is by now.
LoopRuns(e) ==
    /\ \E t \in Thread : loop[t] = "run"
    /\ handler = NoHandler /\ (Overlap \/ api = "idle")
    /\ e \in active /\ active' = active \ {e}

ServerAccepts(s) ==
    /\ LoopRuns(Accept)
    /\ \E f \in Fd :
        /\ Opens(f) /\ NewSession(s, f, "none")
        /\ RegisterEvent(s, f, {"read", "write"})
    /\ UNCHANGED <<vars, api, mpServer, mSession, handler, removed, frees>>

AcceptFails ==
    /\ LoopRuns(Accept)
    /\ UNCHANGED <<vars, api, mpServer, handler, client>>

(***************************************************************************)
(* onRead in the loop's thread, as far as the session's life goes: the     *)
(* event fires, readBuffer says that the peer has closed or something      *)
(* else, and the session is removed and deleted, or the event added again. *)
(* While readBuffer or writeBuffer sends, sendEx may find the socket full  *)
(* again and again: only the peer ends "answer" and "send".                *)
(***************************************************************************)
ReadFires(s) ==
    /\ LoopRuns(<<s, "read">>)
    /\ handler' = <<s, "read">>
    /\ UNCHANGED <<vars, api, mpServer, client>>

WriteFires(s) ==
    /\ LoopRuns(<<s, "write">>)
    /\ handler' = <<s, "send">>
    /\ UNCHANGED <<vars, api, mpServer, client>>

At(s, where) == handler = <<s, where>>

\* A login's answer or the start of the transfer is sent.
Answers(s) ==
    /\ At(s, "read")
    /\ handler' = <<s, "answer">>
    /\ UNCHANGED <<vars, api, mpServer, active, client>>

\* addEvent does nothing for an event that is added already.
AddsEvents(s, events) ==
    queued' = queued \cup (({s} \X events) \ active)

\* The callback ends: the read event is added again, and the server's write
\* event when the client says start; a frame of a file is written to mwFile.
ReadsData(s) ==
    /\ At(s, "read") \/ At(s, "answer")
    /\ \/ AddsEvents(s, {"read"})
       \/ mwFile[s] = "none" /\ AddsEvents(s, {"read", "write"})
    /\ Then(api, {s})
    /\ handler' = NoHandler
    /\ UNCHANGED <<vars, mpServer, mSession, state, mArg, fdOf, table, sock,
                   mwFile, active, removed, frees>>

SendEnds(s) ==
    /\ At(s, "send")
    /\ AddsEvents(s, {}) \/ AddsEvents(s, {"write"})
    /\ handler' = NoHandler
    /\ UNCHANGED <<vars, api, mpServer, mSession, state, mArg, fdOf, table,
                   sock, mwFile, active, removed, frees>>

LoopLooks(s) ==
    /\ At(s, "read")
    /\ Look("loop", fdOf[s])
    /\ handler' = <<s, "clear">>
    /\ UNCHANGED <<vars, api, mpServer, mSession, state, mArg, fdOf, table,
                   sock, mwFile, queued, active, frees>>

LoopClears(s) ==
    /\ At(s, "clear")
    /\ Clear(fdOf[s])
    /\ handler' = <<s, "delete">>
    /\ UNCHANGED <<vars, api, mpServer, mSession, state, mArg, fdOf, sock,
                   mwFile, queued, active, removed, frees>>

\* The events are deleted, and the session if it was the table's.
LoopDeletes(s) ==
    /\ At(s, "delete")
    /\ LET S == {removed.loop} \cap {s} IN Delete(S) /\ Then(api, S)
    /\ handler' = <<s, "close">>
    /\ removed' = [removed EXCEPT !.loop = NoSession]
    /\ UNCHANGED <<vars, mpServer, mSession, mArg, fdOf, table, mwFile>>

\* onRead closes the descriptor once more, whoever has it open by now.
LoopCloses(s) ==
    /\ At(s, "close")
    /\ sock' = [sock EXCEPT ![fdOf[s]] = NoSession]
    /\ handler' = NoHandler
    /\ UNCHANGED <<vars, api, mpServer, mSession, state, mArg, fdOf, table,
                   mwFile, queued, active, removed, frees>>

Fires(s) == ReadFires(s) \/ WriteFires(s) \/ ServerAccepts(s)

HandlerStep(s) ==
    LoopLooks(s) \/ LoopClears(s) \/ LoopDeletes(s) \/ LoopCloses(s)
    \/ Answers(s) \/ ReadsData(s)

NativeNext ==
    /\ ~Dead /\ api # "crash"
    /\ \/ StartNetWork \/ StopNetWork \/ DestroySessions
       \/ AppThread \/ Signalled
       \/ StartServer \/ StopServer
       \/ StopFileRecv \/ FetchAndSaveFile \/ DisconnectStep
       \/ PassBegins \/ AcceptFails
       \/ \E t \in Thread : LoopThread(t)
       \/ \E s \in Session :
             StartFileRecv(s) \/ Fires(s) \/ HandlerStep(s) \/ SendEnds(s)

NativeSpec == NativeInit /\ [][NativeNext]_nvars

(***************************************************************************)
(* As for the station: a thread that can take its next step does.  The     *)
(* peer of a session need not read: nothing says that a send ends.         *)
(***************************************************************************)
Alive == ~Dead /\ api # "crash"

AppWorks == DestroySessions \/ DisconnectStep \/ AppThread

LoopWorks ==
    \/ \E t \in Thread : LoopThread(t)
    \/ AcceptFails
    \/ \E s \in Session : Fires(s) \/ HandlerStep(s)

NativeFairSpec ==
    NativeSpec /\ WF_nvars(Alive /\ AppWorks) /\ WF_nvars(Alive /\ LoopWorks)

-----------------------------------------------------------------------------
\* Session.cpp:584, "here must set null, else would crash with multi free
\* error:SIGABRT": whichever of disConnect, onRead and ~SessionManager takes
\* a session out of the table deletes it, and no other one does.
SessionFreedOnce == \A s \in Session : frees[s] <= 1

\* The table, the base's queues and the events still to be executed in a pass
\* point to no session that has been freed, and a session in the table is the
\* one its descriptor is open for and belongs to the current EventGlobal,
\* over restarts of the network; an accept event waits to be executed only
\* while its server listens on this base.
PointersLive ==
    /\ \A e \in queued \cup active : e # Accept => state[e[1]] = "live"
    /\ Accept \in active => Listening
    /\ \A f \in Fd : table[f] # NoSession =>
          LET s == table[f]
          IN  /\ fdOf[s] = f /\ mArg[s] = base
              /\ removed.app # s => state[s] = "live" /\ sock[f] = s

\* When the network is stopped every session that was ever registered with
\* it has been freed, whoever dropped it (EventGlobal.cpp:64-86).
NothingLeft ==
    base = 0 => \A s \in Session : state[s] = "live" => mArg[s] = 0

\* StopNetWork ends: the events that are still active are executed, the loop
\* gives the mutex back, and the sessions and the base are freed.  What can
\* keep it from ending: a peer that never reads, whose send holds the loop's
\* thread and with it mExitMutex (TaskFileSend.cpp:183-203), which the
\* premise excludes; the handler of a caught signal, which waits for its own
\* thread; and the end of the process, by a thread that was overtaken, a
\* session without a FILE or freed memory.
SendsEnd == []<>(\A s \in Session : ~At(s, "send") /\ ~At(s, "answer"))

=============================================================================
