------------------------------ MODULE MCServer ------------------------------
(***************************************************************************)
(* Instances of Server: ev_signal on descriptor 0, the listener on 1; the  *)
(* sessions s1 and s2 take descriptor 2 in turn, s3 takes descriptor 3     *)
(* while 2 is in use.                                                      *)
(***************************************************************************)
EXTENDS Server

CONSTANTS s1, s2, s3, r1, r2, r3, w1, w2, w3

MCReadEv  == [s \in Session |-> CASE s = s1 -> r1 [] s = s2 -> r2 [] s = s3 -> r3]
MCWriteEv == [s \in Session |-> CASE s = s1 -> w1 [] s = s2 -> w2 [] s = s3 -> w3]
MCSockOf  == [s \in Session |-> IF s = s3 THEN 3 ELSE 2]

MCEvent == {ev_signal, loopexit, acceptEv}
           \union {MCReadEv[s] : s \in Session} \union {MCWriteEv[s] : s \in Session}

MCWhat ==
    [e \in MCEvent |->
       CASE e \in {ev_signal, r1, r2, r3} -> {"READ"}
         [] e \in {w1, w2, w3} -> {"WRITE"}
         [] e = acceptEv -> {"READ", "PERSIST"}
         [] e = loopexit -> {}]

MCFdOf ==
    [e \in MCEvent |->
       CASE e \in {r1, r2, w1, w2} -> 2 [] e \in {r3, w3} -> 3
         [] e = acceptEv -> 1 [] e = ev_signal -> 0 [] e = loopexit -> -1]

Fds3 == 0 .. 2
Fds4 == 0 .. 3
MCReadiness == [f \in Fd |-> {}]
=============================================================================
