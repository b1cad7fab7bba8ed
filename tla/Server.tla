------------------------------- MODULE Server -------------------------------
(***************************************************************************)
(* The file server on top of the event loop: TcpServer's accept event, the *)
(* Session objects it makes, their read and write events, and the          *)
(* SessionManager's table of sessions by descriptor.  The loop's own steps *)
(* are those of EventLoop; the callbacks are the program's.                *)
(*                                                                         *)
(* A Session object is used once: a freed one that is reached again is a   *)
(* use after free.  Each object belongs to one descriptor, and accept      *)
(* takes a fresh object of the descriptor the kernel gives it.             *)
(*                                                                         *)
(* A connection's input is a sequence of tokens, each what one recv finds: *)
(*   "part"   bytes that do not complete a message                         *)
(*   "login"  the rest of a "get path" message naming a file that exists   *)
(*   "start"  the rest of the "start" control message                      *)
(*   "empty"  the rest of the header of a message of length 0              *)
(* A message that names no file is an "empty" one to a session without a   *)
(* task, and a "part" to one with a task, which ignores it.  FileTransfer  *)
(* models what is inside the messages.                                     *)
(***************************************************************************)
EXTENDS EventBase

CONSTANTS
    SignalFd, loopexit, MaxCaught, Readiness,   \* of EventLoop
    Session,        \* the Session objects
    NoSession,
    SockOf,         \* [Session -> Fd]: mSid.sid
    ReadEv,         \* [Session -> Event]: mReadEvent
    WriteEv,        \* [Session -> Event]: mWriteEvent
    acceptEv,       \* TcpServer's mEvAccept
    ListenFd,       \* TcpServer's mListenFD
    SeqWrap,         \* 2^16, what SessionEntry's uint16_t mSeq counts modulo
    MaxConnects,    \* bound: connections peers open
    MaxTokens,      \* bound: tokens the peers send
    MaxChunks       \* bound: writes a file takes

\* The events of the sessions, of the server and of signal.c are objects of
\* their own, each set on one descriptor for good.
ServerAssumption ==
    /\ IsFiniteSet(Session) /\ NoSession \notin Session
    /\ SeqWrap \in Nat \ {0}
    /\ MaxConnects \in Nat /\ MaxTokens \in Nat /\ MaxChunks \in Nat
    /\ SignalFd \in Fd /\ ListenFd \in Fd /\ SignalFd # ListenFd
    /\ SockOf \in [Session -> Fd \ {SignalFd, ListenFd}]
    /\ What[ev_signal] = {"READ"} /\ FdOf[ev_signal] = SignalFd
    /\ acceptEv \in Event
    /\ What[acceptEv] = {"READ", "PERSIST"} /\ FdOf[acceptEv] = ListenFd
    /\ ReadEv \in [Session -> Event] /\ WriteEv \in [Session -> Event]
    /\ \A s \in Session :
         /\ What[ReadEv[s]] = {"READ"} /\ FdOf[ReadEv[s]] = SockOf[s]
         /\ What[WriteEv[s]] = {"WRITE"} /\ FdOf[WriteEv[s]] = SockOf[s]
    /\ \A s, t \in Session :
         s # t => ReadEv[s] # ReadEv[t] /\ WriteEv[s] # WriteEv[t]

ASSUME ServerConstants == ServerAssumption

VARIABLES
    base, pc, batch, toscan, cur, gotterm, sigadded,
    installed, caught, sigflag, ready, owed,    \* the loop's, see EventLoop
    server,         \* the TcpServer: "new", "up", "down" (shut down)
    obj,            \* [Session -> "new", "live" or "freed"]
    reading,        \* the sessions with mReading set
    writing,        \* the sessions with mWriting set
    task,           \* the sessions with a TaskFileSend
    left,           \* [Session -> writes the task has still to make]
    ended,          \* the sessions that have sent MODULE_MSG_DATAEND
    seq,            \* [Session -> mSid.seq]
    entry,          \* [Fd -> the table's mSession]
    mSeq,           \* [Fd -> the table's mSeq]
    mCount,         \* SessionManager's mCount
    nth,            \* history: [Session -> how many its descriptor had before]
    backlog,        \* connections the kernel holds for accept
    connects,       \* connections opened so far
    peer,           \* [Fd -> "none", "open", "fin", "reset" or "dead"]
    inq,            \* [Fd -> tokens to receive]
    sent,           \* tokens the peers have sent
    room            \* the descriptors whose send buffer has room

L == INSTANCE EventLoop

objVars   == <<server, obj, reading, writing, task, left, ended, seq>>
tableVars == <<entry, mSeq, mCount, nth>>
netVars   == <<backlog, connects, peer, inq, sent, room>>
sigVars   == <<installed, caught, sigflag, owed>>
loopRest  == <<batch, toscan, gotterm, sigadded, sigVars>>
vars      == <<base, pc, cur, loopRest, ready, objVars, tableVars, netVars>>

Token == {"part", "login", "start", "empty"}
Live  == {s \in Session : obj[s] = "live"}

Init ==
    /\ base \in {[b EXCEPT !.open = {SignalFd, ListenFd}] : b \in EmptyBase}
    /\ pc = "top" /\ batch = << >> /\ toscan = {} /\ cur = NoEvent
    /\ gotterm = FALSE /\ sigadded = FALSE
    /\ installed = {} /\ caught = << >> /\ sigflag = FALSE /\ owed = {}
    /\ ready = [f \in Fd |-> {}]
    /\ server = "new"
    /\ obj = [s \in Session |-> "new"]
    /\ reading = {} /\ writing = {} /\ task = {} /\ ended = {}
    /\ left = [s \in Session |-> 0]
    /\ seq = [s \in Session |-> 0]
    /\ entry = [f \in Fd |-> NoSession]
    /\ mSeq = [f \in Fd |-> 0]
    /\ mCount = 0
    /\ nth = [s \in Session |-> 0]
    /\ backlog = 0 /\ connects = 0
    /\ peer = [f \in Fd |-> "none"]
    /\ inq = [f \in Fd |-> << >>]
    /\ sent = 0
    /\ room = {}

\* What the kernel reports of each descriptor follows from the state of the
\* connections.
ReadyNow ==
    ready' = [f \in Fd |->
      IF f = ListenFd THEN IF server' = "up" /\ backlog' > 0 THEN {"IN"} ELSE {}
      ELSE IF peer'[f] \in {"reset", "dead"} THEN {"HUP"}
      ELSE (IF inq'[f] # << >> \/ peer'[f] = "fin" THEN {"IN"} ELSE {})
           \union (IF f \in room' THEN {"OUT"} ELSE {})]

(***************************************************************************)
(* The main thread: TcpServer::registerEvent and shutdown, which run while *)
(* the loop's thread is anywhere.                                          *)
(***************************************************************************)
MainStep ==
    UNCHANGED <<pc, cur, loopRest, obj, reading, writing, task, left, ended, seq,
                tableVars, connects, peer, inq, sent, room>>

RegisterEvent ==
    /\ server = "new"
    /\ server' = "up"
    /\ base' = EventAdd(EventSet(base, acceptEv), acceptEv)
    /\ UNCHANGED backlog
    /\ MainStep

Shutdown ==
    /\ server = "up"
    /\ server' = "down"
    /\ base' = CloseFd(EventDel(base, acceptEv), ListenFd)
    /\ backlog' = 0
    /\ MainStep

(***************************************************************************)
(* SessionManager::put and getAndRemove.  A session's sequence number is   *)
(* the one its entry has when it is put; removing advances it, and it      *)
(* wraps.  Both count without looking at what the entry holds.             *)
(***************************************************************************)
Put(s) ==
    LET f == SockOf[s]
    IN  /\ entry' = [entry EXCEPT ![f] = s]
        /\ seq' = [seq EXCEPT ![s] = mSeq[f]]
        /\ mCount' = mCount + 1
        /\ nth' = [nth EXCEPT ![s] =
                     Cardinality({t \in Session : SockOf[t] = f /\ obj[t] # "new"})]
        /\ UNCHANGED mSeq

GetAndRemoveUncounted(f) ==
    /\ entry' = [entry EXCEPT ![f] = NoSession]
    /\ mSeq' = [mSeq EXCEPT ![f] = (@ + 1) % SeqWrap]
    /\ UNCHANGED <<mCount, nth>>

GetAndRemoveUnnumbered(f) ==
    /\ entry' = [entry EXCEPT ![f] = NoSession]
    /\ mCount' = mCount - 1
    /\ UNCHANGED <<mSeq, nth>>

GetAndRemove(f) ==
    /\ entry' = [entry EXCEPT ![f] = NoSession]
    /\ mSeq' = [mSeq EXCEPT ![f] = (@ + 1) % SeqWrap]
    /\ mCount' = mCount - 1
    /\ UNCHANGED nth

(***************************************************************************)
(* Session::addEvent: an event is set and added when its flag says that it *)
(* is not waiting.                                                         *)
(***************************************************************************)
AddRead(b, s, rd) ==
    IF s \in rd THEN b ELSE EventAdd(EventSet(b, ReadEv[s]), ReadEv[s])

AddWriteMutant(b, s, wr) == EventAdd(EventSet(b, WriteEv[s]), WriteEv[s])

AddWrite(b, s, wr) ==
    IF s \in wr THEN b ELSE EventAdd(EventSet(b, WriteEv[s]), WriteEv[s])

\* Every callback gives control back to event_process_active.
Callback(e) ==
    /\ pc = "call" /\ cur = e
    /\ pc' = "process" /\ cur' = NoEvent
    /\ UNCHANGED <<loopRest, server, connects, sent>>

(***************************************************************************)
(* TcpServer::onAccept.  The kernel gives the lowest free descriptor; the  *)
(* number of connections is compared with the maximum only to set a status *)
(* nobody reads, which is left out.                                        *)
(***************************************************************************)
FreeFds == Fd \ base.open

AcceptFails ==
    /\ Callback(acceptEv)
    /\ server = "down" \/ backlog = 0 \/ FreeFds = {}
    /\ UNCHANGED <<base, obj, reading, writing, task, left, ended, seq,
                   tableVars, backlog, peer, inq, room>>

Accepts(s) ==
    LET f == SockOf[s]
        b == [base EXCEPT !.open = @ \union {f}]
    IN  /\ Callback(acceptEv)
        /\ server = "up" /\ backlog > 0
        /\ f \in FreeFds /\ \A g \in FreeFds : f <= g
        /\ obj[s] = "new"
        /\ backlog' = backlog - 1
        /\ peer' = [peer EXCEPT ![f] = "open"]
        /\ inq' = [inq EXCEPT ![f] = << >>]
        /\ room' = room \union {f}
        /\ obj' = [obj EXCEPT ![s] = "live"]
        /\ Put(s)
        /\ base' = AddWrite(AddRead(b, s, reading), s, writing)
        /\ reading' = reading \union {s}
        /\ writing' = writing \union {s}
        /\ UNCHANGED <<task, left, ended>>

(***************************************************************************)
(* Session::onRead.  The callback first clears mReading; any outcome but 0 *)
(* of readBuffer adds the event again.  A message that makes the task send *)
(* an answer waits for room in the send buffer: sendEx repeats send until  *)
(* it is taken or the connection is broken, and the loop's thread with it. *)
(***************************************************************************)
CanSend(f) == f \in room \/ peer[f] \in {"reset", "dead"}

\* What a send may leave of the room.
Sends(f) == \E S \in SUBSET {f} : room' = room \ S

\* Without setReading( 0 ), and without the setReading( 1 ) of addEvent.
ReadOnUncleared(s, b, wr) ==
    /\ base' = AddRead(b, s, reading)
    /\ reading' = reading \union {s}
    /\ writing' = wr

ReadOnUnset(s, b, wr) ==
    /\ base' = AddRead(b, s, reading \ {s})
    /\ reading' = reading \ {s}
    /\ writing' = wr

ReadOn(s, b, wr) ==
    /\ base' = AddRead(b, s, reading \ {s})
    /\ reading' = reading \union {s}
    /\ writing' = wr

Take(f) == inq' = [inq EXCEPT ![f] = Tail(@)]

NextToken(s, tok) == inq[SockOf[s]] # << >> /\ Head(inq[SockOf[s]]) = tok

\* recv returned -1: there is nothing to read, or the connection was reset,
\* which recv says once.
ReadFails(s) ==
    LET f == SockOf[s]
    IN  /\ Callback(ReadEv[s])
        /\ inq[f] = << >> /\ peer[f] \in {"open", "reset"}
        /\ ReadOn(s, base, writing)
        /\ peer' = [peer EXCEPT ![f] = IF @ = "reset" THEN "dead" ELSE @]
        /\ UNCHANGED <<obj, task, left, ended, seq, tableVars, backlog, inq, room>>

\* A part of a message, or one a session with a task ignores.
ReadMore(s) ==
    /\ Callback(ReadEv[s])
    /\ \/ NextToken(s, "part")
       \/ s \in task /\ NextToken(s, "login")
    /\ Take(SockOf[s])
    /\ ReadOn(s, base, writing)
    /\ UNCHANGED <<obj, task, left, ended, seq, tableVars, backlog, peer, room>>

\* Session::recvPackData: the task is made and sends MODULE_MSG_LOGINRET.
ReadLogin(s) ==
    /\ Callback(ReadEv[s])
    /\ NextToken(s, "login") /\ s \notin task
    /\ CanSend(SockOf[s]) /\ Sends(SockOf[s])
    /\ Take(SockOf[s])
    /\ task' = task \union {s}
    /\ \E n \in 0 .. MaxChunks : left' = [left EXCEPT ![s] = n]
    /\ ReadOn(s, base, writing)
    /\ UNCHANGED <<obj, ended, seq, tableVars, backlog, peer>>

\* TaskFileSend::recvPackData: "start" adds the write event.
ReadStart(s) ==
    /\ Callback(ReadEv[s])
    /\ NextToken(s, "start") /\ s \in task
    /\ Take(SockOf[s])
    /\ ReadOn(s, AddWrite(base, s, writing), writing \union {s})
    /\ UNCHANGED <<obj, task, left, ended, seq, tableVars, backlog, peer, room>>

(***************************************************************************)
(* readBuffer returned 0: the connection has ended, or the first message   *)
(* names no file, or any message is empty: the recv of its body asks for 0 *)
(* bytes and returns 0, with a task (TaskFileSend.cpp:300) and without     *)
(* one, while the peer is there.  getAndRemove empties the table's entry and advances its *)
(* sequence number; the events are deleted, the session and its task too,  *)
(* which closes the descriptor.  The second close, in onRead, finds it     *)
(* closed: no other thread of the server opens descriptors.                *)
(*                                                                         *)
(* onRead also calls event_del on mTimeEvent, which nothing has set: its   *)
(* memory is taken to be zero, for which event_del does nothing.           *)
(***************************************************************************)
DestroyMutant(b, s) == CloseFd(EventDel(b, ReadEv[s]), SockOf[s])

Destroy(b, s) ==
    LET read  == EventDel(b, ReadEv[s])
        write == EventDel(read, WriteEv[s])
        again == EventDel(write, ReadEv[s])
    IN  CloseFd(IF s \in writing THEN EventDel(again, WriteEv[s]) ELSE again,
                SockOf[s])

ForgetMutant(s) ==
    /\ obj' = [obj EXCEPT ![s] = "freed"]
    /\ reading' = reading \ {s}
    /\ writing' = writing \ {s}
    /\ UNCHANGED task

Forget(s) ==
    /\ obj' = [obj EXCEPT ![s] = "freed"]
    /\ reading' = reading \ {s}
    /\ writing' = writing \ {s}
    /\ task' = task \ {s}

ReadEnds(s) ==
    LET f == SockOf[s]
    IN  /\ Callback(ReadEv[s])
        /\ \/ inq[f] = << >> /\ peer[f] \in {"fin", "dead"}
           \/ NextToken(s, "empty")
           \/ s \notin task /\ NextToken(s, "start")
        /\ GetAndRemove(f)
        /\ base' = Destroy(base, s)
        /\ Forget(s)
        /\ peer' = [peer EXCEPT ![f] = "none"]
        /\ inq' = [inq EXCEPT ![f] = << >>]
        /\ room' = room \ {f}
        /\ UNCHANGED <<left, ended, seq, backlog>>

(***************************************************************************)
(* Session::onWrite and TaskFileSend::writeBuffer.  Its result is greater  *)
(* than 0 when bytes were sent, less when the connection is broken, 0 when *)
(* the session has no task, and OWN_SOCK_EXIT after MODULE_MSG_DATAEND.    *)
(***************************************************************************)
WriteResult(s) ==
    IF s \notin task THEN {"zero"}
    ELSE IF left[s] = 0 THEN {"exit"}
    ELSE (IF peer[SockOf[s]] \in {"open", "fin"} THEN {"positive"} ELSE {})
         \union (IF peer[SockOf[s]] # "open" THEN {"negative"} ELSE {})

AddedAgainMutant(result) == result = "negative"

AddedAgain(result) == result \in {"positive", "negative"}

WriteWith(s, result) ==
    /\ Callback(WriteEv[s])
    /\ result \in WriteResult(s)
    /\ s \in task => CanSend(SockOf[s])
    /\ IF s \in task THEN Sends(SockOf[s]) ELSE UNCHANGED room
    /\ left' = IF result = "positive" THEN [left EXCEPT ![s] = @ - 1] ELSE left
    /\ ended' = IF result = "exit" THEN ended \union {s} ELSE ended
    /\ IF AddedAgain(result)
       THEN /\ base' = AddWrite(base, s, writing \ {s})
            /\ UNCHANGED writing
       ELSE /\ writing' = writing \ {s}
            /\ UNCHANGED base
    /\ UNCHANGED <<obj, reading, task, seq, tableVars, backlog, peer, inq>>

OnWrite(s) ==
    \E result \in {"zero", "exit", "positive", "negative"} : WriteWith(s, result)

(***************************************************************************)
(* The peers.                                                              *)
(***************************************************************************)
PeerStep == UNCHANGED <<base, pc, cur, loopRest, objVars, tableVars>>

PeerConnects ==
    /\ server = "up" /\ connects < MaxConnects
    /\ backlog' = backlog + 1
    /\ connects' = connects + 1
    /\ UNCHANGED <<peer, inq, sent, room>>
    /\ PeerStep

PeerSends(f, tok) ==
    /\ peer[f] = "open" /\ sent < MaxTokens
    /\ inq' = [inq EXCEPT ![f] = Append(@, tok)]
    /\ sent' = sent + 1
    /\ UNCHANGED <<backlog, connects, peer, room>>
    /\ PeerStep

PeerReads(f) ==
    /\ peer[f] \in {"open", "fin"} /\ f \notin room
    /\ room' = room \union {f}
    /\ UNCHANGED <<backlog, connects, peer, inq, sent>>
    /\ PeerStep

\* The peer closes its side, or the connection is reset and what was not
\* received is lost.
PeerCloses(f) ==
    /\ peer[f] = "open"
    /\ peer' = [peer EXCEPT ![f] = "fin"]
    /\ UNCHANGED <<backlog, connects, inq, sent, room>>
    /\ PeerStep

PeerResets(f) ==
    /\ peer[f] \in {"open", "fin"}
    /\ peer' = [peer EXCEPT ![f] = "reset"]
    /\ inq' = [inq EXCEPT ![f] = << >>]
    /\ UNCHANGED <<backlog, connects, sent, room>>
    /\ PeerStep

-----------------------------------------------------------------------------
LoopStep ==
    /\ \/ L!LoopTop \/ L!Wait
       \/ \E f \in Fd : L!ReportFd(f)
       \/ L!ReportDone \/ L!TimeoutsDone \/ L!Process \/ L!ProcessDone
       \/ L!EvsignalCb
    /\ UNCHANGED <<objVars, tableVars, netVars>>

Callbacks ==
    \/ AcceptFails
    \/ \E s \in Session : \/ Accepts(s)
                          \/ ReadFails(s) \/ ReadMore(s) \/ ReadLogin(s)
                          \/ ReadStart(s) \/ ReadEnds(s) \/ OnWrite(s)

Peers ==
    \/ PeerConnects
    \/ \E f \in Fd : \/ \E tok \in Token : PeerSends(f, tok)
                     \/ PeerReads(f) \/ PeerCloses(f) \/ PeerResets(f)

LoopThread == LoopStep \/ (Callbacks /\ ReadyNow)

Next == LoopThread \/ ((RegisterEvent \/ Shutdown \/ Peers) /\ ReadyNow)

Spec == Init /\ [][Next]_vars

\* The loop's thread runs, and a peer that stays connected reads what it is
\* sent: sendEx has no timeout of its own.
FairSpec == /\ Spec
            /\ WF_vars(LoopThread)
            /\ \A f \in Fd : WF_vars(PeerReads(f) /\ ReadyNow)

-----------------------------------------------------------------------------
(***************************************************************************)
(* Properties.                                                             *)
(***************************************************************************)
\* Types of the session objects, the session table and the connections.
TypeOK ==
    /\ base \in BaseState
    /\ server \in {"new", "up", "down"}
    /\ obj \in [Session -> {"new", "live", "freed"}]
    /\ reading \subseteq Live /\ writing \subseteq Live /\ task \subseteq Live
    /\ left \in [Session -> 0 .. MaxChunks]
    /\ ended \subseteq Session
    /\ entry \in [Fd -> Session \union {NoSession}]
    /\ \A f \in Fd : mSeq[f] \in 0 .. SeqWrap - 1
    /\ peer \in [Fd -> {"none", "open", "fin", "reset", "dead"}]
    /\ \A f \in Fd : \A i \in 1 .. Len(inq[f]) : inq[f][i] \in Token
    /\ room \subseteq Fd
    /\ sent \in 0 .. MaxTokens /\ connects \in 0 .. MaxConnects

Queued(e) == base.flags[e] # {}
InTable(e) == \E f \in Fd : e \in {base.evread[f], base.evwrite[f]}

\* After Session::onRead has freed a session, or TcpServer::shutdown the
\* accept event, no queue of the loop, no entry of epoll's table and no call
\* in progress leads to its memory: not when its other event became active
\* in the same batch, nor when the descriptor is in use again.
NoUseAfterFree ==
    /\ \A s \in Session : obj[s] # "live" =>
         \A e \in {ReadEv[s], WriteEv[s]} : ~Queued(e) /\ ~InTable(e) /\ cur # e
    /\ server = "down" => ~Queued(acceptEv) /\ ~InTable(acceptEv)

\* mReading and mWriting, by which addEvent decides whether event_set may
\* touch the event, are set exactly while the event is on a queue of the loop
\* or its callback has not begun (Session.cpp:254-294, 340-403).
FlagsTrue ==
    \A s \in Live :
      /\ s \in reading <=> Queued(ReadEv[s]) \/ cur = ReadEv[s]
      /\ s \in writing <=> Queued(WriteEv[s]) \/ cur = WriteEv[s]

\* SessionManager's table holds exactly the live sessions, its count is their
\* number, and each has an open descriptor of its own (Session.cpp:540-596).
TableTrue ==
    /\ \A f \in Fd : entry[f] \in Live <=> entry[f] # NoSession
    /\ \A s \in Live : entry[SockOf[s]] = s /\ SockOf[s] \in base.open
    /\ mCount = Cardinality(Live)

\* A descriptor used again has advanced its sequence number (Session.cpp:551,
\* 589): a pair of the two names one session among any SeqWrap that have the
\* descriptor in succession.  It is used again after that, as mSeq wraps.
SidUnique ==
    \A s, t \in Session :
      /\ s # t /\ obj[s] # "new" /\ obj[t] # "new"
      /\ <<SockOf[s], seq[s]>> = <<SockOf[t], seq[t]>>
      => nth[s] + SeqWrap <= nth[t] \/ nth[t] + SeqWrap <= nth[s]

\* The loop's counters and epoll table stay coherent under the server's own
\* use of event_set, event_add, event_del and close.
BaseTrue == CountsCoherent(base) /\ TableCoherent(base) /\ ActiveCoherent(base)

\* A session whose peer has closed or reset the connection is freed in the
\* end, whatever it was doing: no order of callbacks loses its read event.
GoneFreed ==
    \A s \in Session :
      obj[s] = "live" /\ peer[SockOf[s]] \in {"fin", "reset", "dead"}
        ~> obj[s] = "freed"

\* A session that waits to write finishes its file, if it has one, or is
\* freed: no order of callbacks loses its write event.
FileSent ==
    \A s \in Session :
      s \in task /\ s \in writing ~> s \in ended \/ obj[s] = "freed"
=============================================================================
