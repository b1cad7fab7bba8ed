---------------------------- MODULE MCEventLoop ----------------------------
(***************************************************************************)
(* Instances of EventLoop: a reader and a writer that do not persist on    *)
(* descriptor 1, a listener on descriptor 2, one or two signals, a timer   *)
(* and the timer of event_base_loopexit; ev_signal on descriptor 0.        *)
(***************************************************************************)
EXTENDS EventLoop

CONSTANTS reader, writer, listener, sigint, sigterm, timer

MCWhat ==
    [e \in Event |->
       CASE e \in {reader, ev_signal} -> {"READ"}
         [] e = writer -> {"WRITE"}
         [] e = listener -> {"READ", "PERSIST"}
         [] e \in {sigint, sigterm} -> {"SIGNAL", "PERSIST"}
         [] OTHER -> {}]

MCFdOf ==
    [e \in Event |->
       CASE e = ev_signal -> 0
         [] e \in {reader, writer} -> 1
         [] e = listener -> 2
         [] OTHER -> -1]

\* With NFiles = 3 every descriptor has an entry inside the table.
MCFd == 0 .. 2

\* Connections become readable, writable, both or hang up; listeners become
\* readable.
MCReadiness ==
    [f \in MCFd |-> CASE f = 0 -> {}
                      [] f = 1 -> {{}, {"IN"}, {"OUT"}, {"IN", "OUT"}, {"HUP"}}
                      [] f = 2 -> {{}, {"IN"}}]

\* Less of it, for the liveness properties: a connection is readable, both or
\* neither.
MCFewReadiness ==
    [f \in MCFd |-> CASE f = 0 -> {}
                      [] f = 1 -> {{}, {"IN"}, {"IN", "OUT"}}
                      [] f = 2 -> {{}, {"IN"}}]

\* No descriptor but the signals' own.
SigFd == {0}
SigReadiness == [f \in SigFd |-> {}]
=============================================================================
