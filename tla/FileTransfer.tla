---------------------------- MODULE FileTransfer ----------------------------
(***************************************************************************)
(* One transfer: TaskFileSend in the server's session and TaskFileRecv in  *)
(* the client's, each run by its own event loop, and the two byte streams  *)
(* of the connection between them.                                         *)
(*                                                                         *)
(*   client                         server                                 *)
(*     LOGIN "get path"     -->                                            *)
(*                          <--       LOGINRET with the file's length      *)
(*     CONTROL_PLAY "start" -->                                            *)
(*                          <--       FILES, FILES, ..., DATAEND           *)
(*                                                                         *)
(* A stream carries units: a message is HeadLen header units and then the  *)
(* units of its body, and each recv returns any number of those that have  *)
(* arrived.  A FILES body is one unit for FILE_GET and one for each unit   *)
(* of the file, which the model numbers.  A callback that completes a      *)
(* header goes on with the body; the two recvs are two steps, as they are  *)
(* when the body comes later.  Connections that break while a callback     *)
(* runs are in Server; here the server's process may end.                  *)
(*                                                                         *)
(* A definition whose name ends in Mutant is the definition after it with  *)
(* a plausible mistake in it.                                              *)
(***************************************************************************)
EXTENDS Integers, Sequences

CONSTANTS
    Lengths,    \* lengths a file may have
    W,          \* bits of an unsigned int
    Chunk,      \* FILE_MEMORY_LEN
    HeadLen,    \* sizeof(NET_CMD)
    Cap,        \* bound: units in flight to the client (the socket buffers)
    MayBreak    \* whether the server's process may end

ASSUME TransferAssumption ==
    /\ Lengths \subseteq Nat
    /\ {W, Chunk, HeadLen, Cap} \subseteq Nat \ {0}
    /\ MayBreak \in BOOLEAN

\* The arithmetic of powers the proofs rest on.
ASSUME PowerAssumption == 2 ^ (W - 1) \in Nat \ {0} /\ 2 ^ W = 2 * 2 ^ (W - 1)

VARIABLES
    fileLen,    \* the file's length
    toClient, toServer,     \* the streams
    up,         \* the server's end of the connection is open
    srvBuf,     \* Session's, then TaskFileSend's mRecvBuffer
    task,       \* the session has its TaskFileSend
    armed,      \* mWriting: the write event waits
    toSend,     \* what sendEx has still to send
    dataLen,    \* mSendBuffer.totalLen between two calls of writeBuffer
    mHasReadLen,
    conn,       \* the client's session: "open", or "closed" (deleted)
    fetched,    \* setFetchAndSaveFile has been called
    cliBuf,     \* TaskFileRecv's mRecvBuffer
    file,       \* what the client has written to the file
    mRecvDataLen,
    told        \* what FileRecvCallback was told: [kind of event -> values]

srvVars == <<srvBuf, task, armed, toSend, dataLen, mHasReadLen>>
cliVars == <<conn, fetched, cliBuf, file, mRecvDataLen, told>>
vars    == <<fileLen, toClient, toServer, up, srvVars, cliVars>>

\* stat's st_size kept in the unsigned int mFileLen, and an unsigned int read
\* as an int.
mFileLen == fileLen % 2 ^ W

AsIntMutant(n) == n

AsInt(n) == IF n >= 2 ^ (W - 1) THEN n - 2 ^ W ELSE n

(***************************************************************************)
(* Messages as units.                                                      *)
(***************************************************************************)
Unit(part, cmd, i, val) == [part |-> part, cmd |-> cmd, i |-> i, val |-> val]

HeadUnits(cmd, len) == [i \in 1 .. HeadLen |-> Unit("head", cmd, i, len)]

Message(cmd, vals) ==
    HeadUnits(cmd, Len(vals))
      \o [i \in 1 .. Len(vals) |-> Unit("body", cmd, i, vals[i])]

\* The header and FILE_GET of a frame of n units; its data follows.
FrameHead(n) == HeadUnits("FILES", n + 1) \o <<Unit("body", "FILES", 1, n)>>

FrameData(from, n) == [i \in 1 .. n |-> Unit("body", "FILES", i + 1, from + i)]

(***************************************************************************)
(* Receiving, the same in Session, TaskFileSend and TaskFileRecv: the      *)
(* header until it is complete, then as many units as it announces.        *)
(***************************************************************************)
Reset == [head |-> TRUE, cmd |-> "none", total |-> HeadLen, got |-> << >>]

Missing(buf) == buf.total - Len(buf.got)

\* recv with a buffer of the missing length.
Recv(buf, stream, n) ==
    /\ n \in 1 .. Missing(buf) /\ n <= Len(stream)

WithMutant(buf, stream, n) == [buf EXCEPT !.got = SubSeq(stream, 1, n)]

With(buf, stream, n) == [buf EXCEPT !.got = @ \o SubSeq(stream, 1, n)]

Rest(stream, n) == SubSeq(stream, n + 1, Len(stream))

\* The header is whatever the first HeadLen units of the buffer are.
BodyOf(buf) ==
    [head |-> FALSE, cmd |-> buf.got[1].cmd, total |-> buf.got[1].val, got |-> << >>]

AfterRecv(buf) ==
    IF Missing(buf) > 0 THEN buf ELSE IF buf.head THEN BodyOf(buf) ELSE Reset

Init ==
    /\ fileLen \in Lengths
    /\ toClient = << >> /\ toServer = << >> /\ up = TRUE
    /\ srvBuf = Reset /\ task = FALSE
    /\ armed = TRUE             \* onAccept adds the write event
    /\ toSend = << >> /\ dataLen = 0 /\ mHasReadLen = 0
    /\ conn = "open" /\ fetched = FALSE
    /\ cliBuf = Reset /\ file = << >> /\ mRecvDataLen = 0
    /\ told = [total |-> << >>, end |-> << >>, saveDone |-> FALSE]

(***************************************************************************)
(* The server.  sendEx does not return before everything is sent, and the  *)
(* server does nothing else meanwhile.                                     *)
(***************************************************************************)
SendSome ==
    /\ up /\ toSend # << >>
    /\ \E n \in 1 .. Len(toSend) :
         /\ Len(toClient) + n <= Cap
         /\ toClient' = toClient \o SubSeq(toSend, 1, n)
         /\ toSend' = Rest(toSend, n)
    /\ UNCHANGED <<fileLen, toServer, up, srvBuf, task, armed, dataLen,
                   mHasReadLen, cliVars>>

Callback == up /\ toSend = << >> /\ UNCHANGED <<fileLen, toClient, up, cliVars>>

\* Session::recvPackData makes the task of a "get path", which answers with
\* the length it keeps; TaskFileSend::recvPackData adds the write event when
\* it is told to start.
ArmedAfterMutant(start) == armed

ArmedAfter(start) == armed \/ start

ServerReads(n) ==
    /\ Callback /\ Recv(srvBuf, toServer, n)
    /\ LET buf == With(srvBuf, toServer, n)
           whole == ~buf.head /\ Missing(buf) = 0
           login == whole /\ buf.cmd = "LOGIN" /\ ~task
           start == whole /\ buf.cmd = "CONTROL_PLAY" /\ task
       IN  /\ srvBuf' = AfterRecv(buf)
           /\ toServer' = Rest(toServer, n)
           /\ task' = (task \/ login)
           /\ toSend' = IF login THEN Message("LOGINRET", <<mFileLen>>) ELSE << >>
           /\ armed' = ArmedAfter(start)
    /\ UNCHANGED <<dataLen, mHasReadLen>>

\* onWrite with a session that has no task yet: the event is not added again.
OnWriteIdle ==
    /\ Callback /\ armed /\ ~task
    /\ armed' = FALSE
    /\ UNCHANGED <<toServer, srvBuf, task, toSend, dataLen, mHasReadLen>>

(***************************************************************************)
(* TaskFileSend::writeBuffer: the header of a frame in one call, its data  *)
(* in the next; DATAEND when everything has been read.                     *)
(***************************************************************************)
ReadAllMutant == mHasReadLen + 1 >= mFileLen

ReadAll == mHasReadLen >= mFileLen

OnWriteHead ==
    /\ Callback /\ armed /\ task
    /\ dataLen = 0 /\ ~ReadAll
    /\ LET left == mFileLen - mHasReadLen
           n    == IF left > Chunk THEN Chunk ELSE left
       IN  /\ toSend' = FrameHead(n)
           /\ dataLen' = n
           /\ mHasReadLen' = mHasReadLen + n
    /\ UNCHANGED <<toServer, srvBuf, task, armed>>

OnWriteData ==
    /\ Callback /\ armed /\ task
    /\ dataLen > 0
    /\ toSend' = FrameData(mHasReadLen - dataLen, dataLen)
    /\ dataLen' = 0
    /\ UNCHANGED <<toServer, srvBuf, task, armed, mHasReadLen>>

OnWriteEnd ==
    /\ Callback /\ armed /\ task
    /\ dataLen = 0 /\ ReadAll
    /\ toSend' = Message("DATAEND", << >>)
    /\ armed' = FALSE
    /\ UNCHANGED <<toServer, srvBuf, task, dataLen, mHasReadLen>>

\* The server's process ends; what it had given to send still arrives.
ServerEnds ==
    /\ MayBreak /\ up
    /\ up' = FALSE /\ toSend' = << >>
    /\ UNCHANGED <<fileLen, toClient, toServer, srvBuf, task, armed, dataLen,
                   mHasReadLen, cliVars>>

(***************************************************************************)
(* The client.  Its messages are short and taken at once.                  *)
(***************************************************************************)
Client == conn = "open" /\ UNCHANGED <<fileLen, up, srvVars>>

\* setFetchAndSaveFile; a second call finds mwFile open and does nothing.
Fetch ==
    /\ Client /\ ~fetched
    /\ fetched' = TRUE
    /\ toServer' = toServer \o Message("LOGIN", <<0>>)
    /\ UNCHANGED <<toClient, conn, cliBuf, file, mRecvDataLen, told>>

\* The units of a FILES body that are written to the file.
ContentMutant(body) == [i \in 1 .. Len(body) |-> body[i].val]

Content(body) == [i \in 1 .. body[1].val |-> body[i + 1].val]

\* readBuffer with part of a header or of a body, or with the header of a
\* message that has a body.
ReadsPart(buf) ==
    /\ Missing(buf) > 0 \/ (buf.head /\ buf.got[1].val > 0)
    /\ UNCHANGED <<toServer, file, mRecvDataLen, told>>

\* MODULE_MSG_DATAEND is handled when its header is complete.  mRecvBuffer is
\* not reset: it goes on expecting a body of length 0.
ReadsEnd(buf) ==
    /\ Missing(buf) = 0 /\ buf.head /\ buf.got[1].val = 0
    /\ told' = [told EXCEPT !.end = Append(@, mRecvDataLen)]
    /\ UNCHANGED <<toServer, file, mRecvDataLen>>

ReadsLoginret(buf) ==
    /\ Missing(buf) = 0 /\ ~buf.head /\ buf.cmd = "LOGINRET"
    /\ told' = [told EXCEPT !.total = Append(@, AsInt(buf.got[1].val))]
    /\ toServer' = toServer \o Message("CONTROL_PLAY", <<0>>)
    /\ UNCHANGED <<file, mRecvDataLen>>

ReadsFiles(buf) ==
    /\ Missing(buf) = 0 /\ ~buf.head /\ buf.cmd = "FILES"
    /\ file' = file \o Content(buf.got)
    /\ mRecvDataLen' = AsInt((mRecvDataLen + buf.got[1].val) % 2 ^ W)
    /\ UNCHANGED <<toServer, told>>

ClientReads(n) ==
    /\ Client /\ Recv(cliBuf, toClient, n)
    /\ LET buf == With(cliBuf, toClient, n)
       IN  /\ cliBuf' = AfterRecv(buf)
           /\ \/ ReadsPart(buf) \/ ReadsEnd(buf)
              \/ ReadsLoginret(buf) \/ ReadsFiles(buf)
    /\ toClient' = Rest(toClient, n)
    /\ UNCHANGED <<conn, fetched>>

\* recv returns 0, at the end of the stream or for a body of length 0, and
\* the session is deleted.  When a header is expected the client is told
\* RECV_TELL_SAVE_DONE first.
ClientEnds ==
    /\ Client
    /\ (toClient = << >> /\ ~up) \/ (toClient # << >> /\ Missing(cliBuf) = 0)
    /\ conn' = "closed"
    /\ told' = [told EXCEPT !.saveDone = @ \/ cliBuf.head]
    /\ UNCHANGED <<toClient, toServer, fetched, cliBuf, file, mRecvDataLen>>

-----------------------------------------------------------------------------
ServerStep ==
    \/ SendSome
    \/ \E n \in 1 .. Len(toServer) : ServerReads(n)
    \/ OnWriteIdle \/ OnWriteHead \/ OnWriteData \/ OnWriteEnd

ClientStep == ClientEnds \/ \E n \in 1 .. Len(toClient) : ClientReads(n)

Next == ServerStep \/ ServerEnds \/ Fetch \/ ClientStep

Spec == Init /\ [][Next]_vars

\* Both loops run; whether a file is fetched is the user's choice.
FairSpec == Spec /\ WF_vars(ServerStep) /\ WF_vars(ClientStep)

-----------------------------------------------------------------------------
Units == [part : {"head", "body"},
          cmd : {"LOGIN", "LOGINRET", "CONTROL_PLAY", "FILES", "DATAEND"},
          i : Nat, val : Nat]

\* Types of both tasks and of the streams between them.
TypeOK ==
    /\ \A s \in {toClient, toServer, toSend, srvBuf.got, cliBuf.got} :
         \A i \in 1 .. Len(s) : s[i] \in Units
    /\ Len(toClient) <= Cap
    /\ Missing(srvBuf) >= 0 /\ Missing(cliBuf) >= 0
    /\ dataLen \in 0 .. Chunk
    /\ mHasReadLen \in 0 .. 2 ^ W - 1
    /\ mRecvDataLen \in -(2 ^ (W - 1)) .. 2 ^ (W - 1) - 1
    /\ {up, task, armed, fetched, told.saveDone} \subseteq BOOLEAN

\* However recv cuts the stream, and wherever a callback ends, both sides
\* take the headers for headers and each body for the one announced
\* (TaskFileSend.cpp:268-309, TaskFileRecv.cpp:132-216).
Aligned(buf) ==
    \A i \in 1 .. Len(buf.got) :
      /\ buf.got[i].i = i
      /\ IF buf.head THEN buf.got[i].part = "head" /\ buf.got[i].cmd = buf.got[1].cmd
                     ELSE buf.got[i].part = "body" /\ buf.got[i].cmd = buf.cmd

FramesAligned == Aligned(srvBuf) /\ Aligned(cliBuf)

\* What the client has saved is the beginning of the file, in order, without
\* a gap or a repetition, whether or not data was sent before it asked.
SavedPrefix == Len(file) <= fileLen /\ \A i \in 1 .. Len(file) : file[i] = i

\* RECV_TELL_END comes after RECV_TELL_TOTAL_LENGTH and repeats what that
\* said; both are the length the server keeps (the file's own modulo 2^W),
\* read as an int, so from 2^(W-1) on they are negative.  By then the file
\* has as many units as the server keeps count of; nothing is saved after it.
EndComplete ==
    \A i \in 1 .. Len(told.end) :
      /\ told.total = <<told.end[i]>>
      /\ told.end[i] = AsInt(mFileLen) /\ Len(file) = mFileLen

\* A file whose length an unsigned int can hold, fetched from a server that
\* stays up, is saved to its last unit and the user told, although the server
\* blocks in sendEx whenever the client is slow.  Of a longer one only the
\* first fileLen % 2^W units are sent: Completes says nothing of it.
Completes ==
    fetched /\ fileLen < 2 ^ W
      ~> (told.end # << >> /\ Len(file) = fileLen) \/ ~up
=============================================================================
