------------------------- MODULE FileTransferProofs -------------------------
(***************************************************************************)
(* What holds of a transfer for files of any length, chunks, headers and   *)
(* words of any size, however recv and send cut the streams: its types,    *)
(* that both sides take headers for headers, that what is saved is a       *)
(* prefix of the file, and that the end is told when all of it is there.   *)
(*                                                                         *)
(* The invariant keeps the server's whole speech: D[k] says of the k-th    *)
(* unit it has ever sent to which message it belongs, and where in it the  *)
(* unit stands (Script).  The client has taken the first P of its Q units  *)
(* and holds, or will receive, the others in order (Stream).  Where P lies *)
(* in its message is what the client expects (Expects), and where Q lies   *)
(* in its own is what the server will say next (Continues).                *)
(***************************************************************************)
EXTENDS FileTransfer, SequenceTheorems, TLAPS

ServerCmd == {"LOGINRET", "FILES", "DATAEND"}
ClientCmd == {"LOGIN", "CONTROL_PLAY"}

\* A unit of the server's: its message's command, body length and what had
\* been sent of the file before it, and its own offset in the message.
Place == [cmd : ServerCmd, len : Nat, base : Nat, o : Nat]

Said(d) ==
    IF d.o < HeadLen THEN Unit("head", d.cmd, d.o + 1, d.len)
    ELSE Unit("body", d.cmd, d.o - HeadLen + 1,
              IF d.o > HeadLen THEN d.base + (d.o - HeadLen)
              ELSE IF d.cmd = "FILES" THEN d.len - 1 ELSE d.base)

Size(d)   == HeadLen + d.len
Ends(d)   == d.o + 1 = Size(d)
Before(d) == IF d.cmd = "LOGINRET" THEN 0 ELSE d.base
After(d)  == IF d.cmd = "FILES" THEN d.base + d.len - 1 ELSE Before(d)

SameMessage(d, e) == d.cmd = e.cmd /\ d.len = e.len /\ d.base = e.base

Possible(d) ==
    /\ d \in Place /\ d.o < Size(d)
    /\ \/ d.cmd = "LOGINRET" /\ d.len = 1 /\ d.base = mFileLen
       \/ d.cmd = "FILES" /\ d.len >= 2 /\ d.base + d.len - 1 <= mFileLen
       \/ d.cmd = "DATAEND" /\ d.len = 0 /\ d.base = mFileLen

At(d, o) == [d EXCEPT !.o = o]

\* e may be said right after d.
Joins(d, e) ==
    IF Ends(d)
    THEN e.o = 0 /\ e.base = After(d)
    ELSE SameMessage(d, e) /\ e.o = d.o + 1

\* The first Q units are messages one after the other, the last of them
\* perhaps not finished.
Script(Q, D) ==
    /\ \A k \in 1 .. Q : Possible(D[k])
    /\ Q > 0 => D[1].o = 0 /\ D[1].cmd = "LOGINRET"
    /\ \A k \in 1 .. Q : D[k].cmd = "LOGINRET" => k <= HeadLen + 1
    /\ \A k, l \in 1 .. Q :
          k <= l /\ D[k].o + (l - k) < Size(D[k]) =>
              SameMessage(D[k], D[l]) /\ D[l].o = D[k].o + (l - k)
    /\ \A k, l \in 1 .. Q :
          l = k + 1 /\ Ends(D[k]) => D[l].o = 0 /\ D[l].base = After(D[k])

\* s is what is said after the first p units.
Says(s, D, p) == \A i \in 1 .. Len(s) : s[i] = Said(D[p + i])

Held == Len(cliBuf.got)

Stream(P, Q, D) ==
    /\ Says(cliBuf.got, D, P)
    /\ Says(toClient, D, P + Held)
    /\ Says(toSend, D, P + Held + Len(toClient))
    /\ P + Held + Len(toClient) + Len(toSend) = Q

\* A client with the buffer buf that has saved m units of the file.
Expects(buf, m, P, D) ==
    IF buf.head
    THEN /\ buf.total = HeadLen
         /\ \/ P = 0 /\ m = 0
            \/ P > 0 /\ Ends(D[P]) /\ After(D[P]) = m /\ D[P].cmd # "DATAEND"
    ELSE /\ P > 0 /\ D[P].o = HeadLen - 1 /\ Before(D[P]) = m
         /\ buf.cmd = D[P].cmd /\ buf.total = D[P].len

Continues(Q, D) ==
    IF task
    THEN /\ Q > 0 /\ mHasReadLen <= mFileLen
         /\ IF dataLen = 0 THEN Ends(D[Q]) /\ After(D[Q]) = mHasReadLen
            ELSE /\ D[Q].cmd = "FILES" /\ D[Q].len = dataLen + 1
                 /\ D[Q].o = HeadLen /\ D[Q].base + dataLen = mHasReadLen
    ELSE Q = 0 /\ dataLen = 0 /\ mHasReadLen = 0

\* What the user has been told when the client has taken P units.
Told(P) ==
    /\ told.total = IF P > HeadLen THEN <<AsInt(mFileLen)>> ELSE << >>
    /\ told.end = IF ~cliBuf.head /\ cliBuf.total = 0 THEN <<mRecvDataLen>>
                  ELSE << >>

Saved ==
    /\ \A i \in 1 .. Len(file) : file[i] = i
    /\ Len(file) <= mFileLen
    /\ mRecvDataLen = AsInt(Len(file))

Synced(P, Q, D) ==
    /\ Script(Q, D) /\ Stream(P, Q, D) /\ Expects(cliBuf, Len(file), P, D)
    /\ up => Continues(Q, D)
    /\ Q > 0 => task
    /\ Told(P)

Talks == \E P, Q \in Nat : \E D \in [Nat -> Place] : Synced(P, Q, D)

\* The client's two messages are always the same.
Asked(k) ==
    IF k <= HeadLen THEN Unit("head", "LOGIN", k, 1)
    ELSE IF k = HeadLen + 1 THEN Unit("body", "LOGIN", 1, 0)
    ELSE IF k <= 2 * HeadLen + 1
         THEN Unit("head", "CONTROL_PLAY", k - (HeadLen + 1), 1)
         ELSE Unit("body", "CONTROL_PLAY", 1, 0)

Asks(s, p) == \A i \in 1 .. Len(s) : s[i] = Asked(p + i)

\* How many units the client has sent.
Questions ==
    IF told.total # << >> THEN 2 * (HeadLen + 1)
    ELSE IF fetched THEN HeadLen + 1 ELSE 0

Listens(p) ==
    /\ Asks(srvBuf.got, p) /\ Asks(toServer, p + Len(srvBuf.got))
    /\ p + Len(srvBuf.got) + Len(toServer) = Questions
    /\ told.total # << >> => fetched
    /\ IF srvBuf.head
       THEN srvBuf.total = HeadLen /\ p \in {0, HeadLen + 1, 2 * (HeadLen + 1)}
       ELSE /\ srvBuf.total = 1
            /\ \/ p = HeadLen /\ srvBuf.cmd = "LOGIN"
               \/ p = 2 * HeadLen + 1 /\ srvBuf.cmd = "CONTROL_PLAY"
    /\ task => p > HeadLen

Heard == \E p \in Nat : Listens(p)

Buffer == [head : BOOLEAN, cmd : ServerCmd \cup ClientCmd \cup {"none"},
           total : Nat, got : Seq(Units)]

Types ==
    /\ fileLen \in Nat
    /\ toClient \in Seq(Units) /\ toServer \in Seq(Units)
    /\ toSend \in Seq(Units) /\ Len(toClient) <= Cap
    /\ srvBuf \in Buffer /\ cliBuf \in Buffer
    /\ Len(srvBuf.got) < srvBuf.total
    /\ Len(cliBuf.got) <= cliBuf.total
    /\ Len(cliBuf.got) = cliBuf.total => ~cliBuf.head /\ cliBuf.total = 0
    /\ up \in BOOLEAN /\ task \in BOOLEAN /\ armed \in BOOLEAN
    /\ conn \in {"open", "closed"} /\ fetched \in BOOLEAN
    /\ dataLen \in 0 .. Chunk /\ mHasReadLen \in 0 .. 2 ^ W - 1
    /\ file \in Seq(Nat)
    /\ told \in [total : Seq(Int), end : Seq(Int), saveDone : BOOLEAN]

IInv == Types /\ Talks /\ Heard /\ Saved

-----------------------------------------------------------------------------
\* mFileLen is a word, and no more than the file's length.
LEMMA FileLenWord ==
    ASSUME fileLen \in Nat
    PROVE  /\ mFileLen \in 0 .. 2 ^ W - 1 /\ mFileLen \in Nat
           /\ mFileLen <= fileLen
<1> DEFINE words == 2 ^ W
<1>1. words \in Nat \ {0}
  BY PowerAssumption
<1>2. mFileLen = fileLen % words
  BY DEF mFileLen
<1> HIDE DEF words
<1>3. fileLen % words \in 0 .. words - 1 /\ fileLen % words <= fileLen
  BY <1>1
<1> QED
  BY <1>1, <1>2, <1>3 DEF words

\* Adding to a number of units that was read as an int.
LEMMA WrappedSum ==
    ASSUME NEW m \in Nat, NEW n \in Nat, m + n < 2 ^ W
    PROVE  AsInt((AsInt(m) + n) % 2 ^ W) = AsInt(m + n)
<1> DEFINE words == 2 ^ W
<1>1. words \in Nat \ {0}
  BY PowerAssumption
<1>2. AsInt(m) = m \/ AsInt(m) = m - words
  BY DEF AsInt
<1> HIDE DEF words
<1>3. m + n \in 0 .. words - 1
  BY <1>1 DEF words
<1>4. (m + n) % words = m + n
  BY <1>1, <1>3
<1>5. ((m + n) - words) % words = m + n
  BY <1>1, <1>3
<1>6. (m - words) + n = (m + n) - words
  BY <1>1
<1>7. (AsInt(m) + n) % words = m + n
  BY <1>2, <1>4, <1>5, <1>6
<1> QED
  BY <1>7 DEF words

\* An int that was a word.
LEMMA IntRange ==
    ASSUME NEW m \in 0 .. 2 ^ W - 1
    PROVE  AsInt(m) \in -(2 ^ (W - 1)) .. 2 ^ (W - 1) - 1 /\ AsInt(m) \in Int
BY PowerAssumption DEF AsInt

\* Streams: what is appended comes behind, what is taken was in front.
LEMMA Joined ==
    ASSUME NEW S, NEW s \in Seq(S), NEW t \in Seq(S)
    PROVE  /\ s \o t \in Seq(S) /\ Len(s \o t) = Len(s) + Len(t)
           /\ \A i \in 1 .. Len(s) : (s \o t)[i] = s[i]
           /\ \A i \in 1 .. Len(t) : (s \o t)[Len(s) + i] = t[i]
OBVIOUS

LEMMA Taken ==
    ASSUME NEW S, NEW s \in Seq(S), NEW n \in 0 .. Len(s)
    PROVE  /\ SubSeq(s, 1, n) \in Seq(S) /\ Len(SubSeq(s, 1, n)) = n
           /\ \A i \in 1 .. n : SubSeq(s, 1, n)[i] = s[i]
           /\ Rest(s, n) \in Seq(S) /\ Len(Rest(s, n)) = Len(s) - n
           /\ \A i \in 1 .. Len(s) - n : Rest(s, n)[i] = s[n + i]
<1>1. Len(s) \in Nat /\ n \in Nat /\ n <= Len(s)
  OBVIOUS
<1>2. /\ \A i \in 1 .. n : s[i] \in S
      /\ \A i \in n + 1 .. Len(s) : s[i] \in S
  BY <1>1
<1>3. /\ SubSeq(s, 1, n) \in Seq(S)
      /\ Len(SubSeq(s, 1, n)) = IF 1 <= n THEN n - 1 + 1 ELSE 0
      /\ \A i \in 1 .. n - 1 + 1 : SubSeq(s, 1, n)[i] = s[1 + i - 1]
  BY <1>1, <1>2, SubSeqProperties
<1>4. /\ SubSeq(s, n + 1, Len(s)) \in Seq(S)
      /\ Len(SubSeq(s, n + 1, Len(s))) =
             IF n + 1 <= Len(s) THEN Len(s) - (n + 1) + 1 ELSE 0
      /\ \A i \in 1 .. Len(s) - (n + 1) + 1 :
            SubSeq(s, n + 1, Len(s))[i] = s[n + 1 + i - 1]
  BY <1>1, <1>2, SubSeqProperties
<1>5. \A i \in 1 .. n : i \in 1 .. n - 1 + 1 /\ 1 + i - 1 = i
  BY <1>1
<1>6. \A i \in 1 .. Len(s) - n :
          i \in 1 .. Len(s) - (n + 1) + 1 /\ n + 1 + i - 1 = n + i
  BY <1>1
<1>7. /\ (IF 1 <= n THEN n - 1 + 1 ELSE 0) = n
      /\ (IF n + 1 <= Len(s) THEN Len(s) - (n + 1) + 1 ELSE 0) = Len(s) - n
  BY <1>1
<1> QED
  BY <1>3, <1>4, <1>5, <1>6, <1>7 DEF Rest

LEMMA SaysJoin ==
    ASSUME NEW S, NEW s \in Seq(S), NEW t \in Seq(S), NEW D, NEW p \in Nat,
           Says(s, D, p), Says(t, D, p + Len(s))
    PROVE  Says(s \o t, D, p)
<1> SUFFICES ASSUME NEW i \in 1 .. Len(s \o t)
             PROVE  (s \o t)[i] = Said(D[p + i])
  BY DEF Says
<1>1. Len(s) \in Nat /\ Len(t) \in Nat /\ Len(s \o t) = Len(s) + Len(t)
  BY Joined
<1>2. CASE i <= Len(s)
  <2>1. i \in 1 .. Len(s)
    BY <1>1, <1>2
  <2> QED
    BY <2>1, Joined DEF Says
<1>3. CASE i > Len(s)
  <2> DEFINE j == i - Len(s)
  <2>1. j \in 1 .. Len(t) /\ Len(s) + j = i /\ p + Len(s) + j = p + i
    BY <1>1, <1>3
  <2>2. (s \o t)[Len(s) + j] = t[j]
    BY <2>1, Joined
  <2>3. t[j] = Said(D[p + Len(s) + j])
    BY <2>1 DEF Says
  <2> HIDE DEF j
  <2> QED
    BY <2>1, <2>2, <2>3
<1> QED
  BY <1>1, <1>2, <1>3

LEMMA SaysTaken ==
    ASSUME NEW S, NEW s \in Seq(S), NEW n \in 0 .. Len(s), NEW D, NEW p \in Nat,
           Says(s, D, p)
    PROVE  Says(SubSeq(s, 1, n), D, p) /\ Says(Rest(s, n), D, p + n)
<1>1. Len(s) \in Nat /\ n \in Nat /\ n <= Len(s)
  OBVIOUS
<1>2. Says(SubSeq(s, 1, n), D, p)
  BY <1>1, Taken DEF Says
<1>3. Says(Rest(s, n), D, p + n)
  <2> SUFFICES ASSUME NEW i \in 1 .. Len(Rest(s, n))
               PROVE  Rest(s, n)[i] = Said(D[p + n + i])
    BY DEF Says
  <2>1. i \in 1 .. Len(s) - n /\ n + i \in 1 .. Len(s)
        /\ p + n + i = p + (n + i)
    BY <1>1, Taken
  <2>2. Rest(s, n)[i] = s[n + i] /\ s[n + i] = Said(D[p + (n + i)])
    BY <2>1, Taken DEF Says
  <2> QED
    BY <2>1, <2>2
<1> QED
  BY <1>2, <1>3

-----------------------------------------------------------------------------
(***************************************************************************)
(* The server's speech.                                                    *)
(***************************************************************************)
LEMMA Words ==
    /\ HeadLen \in Nat \ {0} /\ Chunk \in Nat \ {0} /\ W \in Nat \ {0}
    /\ Cap \in Nat
BY TransferAssumption

LEMMA Places ==
    ASSUME NEW D \in [Nat -> Place], NEW k \in Nat
    PROVE  /\ D[k] \in Place /\ D[k].o \in Nat /\ D[k].len \in Nat
           /\ D[k].base \in Nat /\ D[k].cmd \in ServerCmd
           /\ Size(D[k]) \in Nat /\ HeadLen \in Nat \ {0}
<1>1. D[k] \in Place
  OBVIOUS
<1>2. /\ D[k].o \in Nat /\ D[k].len \in Nat
      /\ D[k].base \in Nat /\ D[k].cmd \in ServerCmd
  BY <1>1 DEF Place
<1> QED
  BY <1>1, <1>2, Words DEF Size

\* The answer to the login comes first.
LEMMA FirstMessage ==
    ASSUME NEW Q \in Nat, NEW D \in [Nat -> Place], Script(Q, D),
           NEW k \in 1 .. Q, k <= HeadLen + 1
    PROVE  /\ D[k].cmd = "LOGINRET" /\ D[k].o = k - 1
           /\ D[k].len = 1 /\ D[k].base = mFileLen
<1>1. D[1].o = 0 /\ D[1].cmd = "LOGINRET" /\ Possible(D[1])
  BY DEF Script
<1>2. D[1].len = 1 /\ D[1].base = mFileLen /\ Size(D[1]) = HeadLen + 1
  BY <1>1 DEF Possible, Size
<1>3. 1 \in 1 .. Q /\ 1 <= k /\ D[1].o + (k - 1) < Size(D[1])
      /\ D[1].o + (k - 1) = k - 1
  BY <1>1, <1>2, Places
<1>4. SameMessage(D[1], D[k]) /\ D[k].o = D[1].o + (k - 1)
  BY <1>3 DEF Script
<1> QED
  BY <1>1, <1>2, <1>3, <1>4 DEF SameMessage

LEMMA FirstEnds ==
    ASSUME NEW Q \in Nat, NEW D \in [Nat -> Place], Script(Q, D),
           NEW k \in 1 .. Q, Ends(D[k])
    PROVE  k > HeadLen
<1>1. CASE k <= HeadLen + 1
  <2>1. D[k].o = k - 1 /\ D[k].len = 1
    BY <1>1, FirstMessage
  <2> QED
    BY <2>1, Places DEF Ends, Size
<1> QED
  BY <1>1, Places

\* The units of a header that the client is about to read.
LEMMA HeadPart ==
    ASSUME NEW Q \in Nat, NEW D \in [Nat -> Place], Script(Q, D),
           NEW P \in Nat, NEW L \in 1 .. HeadLen, P + L <= Q,
           P = 0 \/ Ends(D[P])
    PROVE  /\ \A i \in 1 .. L :
                D[P + i].o = i - 1 /\ SameMessage(D[P + 1], D[P + i])
           /\ P = 0 => D[P + 1].cmd = "LOGINRET"
           /\ P > 0 => /\ D[P + 1].cmd # "LOGINRET"
                       /\ D[P + 1].base = After(D[P])
<1>1. P + 1 \in 1 .. Q /\ HeadLen \in Nat
  BY Words
<1>2. ASSUME P = 0
      PROVE  D[P + 1].o = 0 /\ D[P + 1].cmd = "LOGINRET"
  <2>1. P + 1 = 1 /\ Q > 0
    BY <1>1, <1>2
  <2>2. D[1].o = 0 /\ D[1].cmd = "LOGINRET"
    BY <2>1 DEF Script
  <2> QED
    BY <2>1, <2>2
<1>3. ASSUME P > 0
      PROVE  /\ D[P + 1].o = 0 /\ D[P + 1].base = After(D[P])
             /\ D[P + 1].cmd # "LOGINRET"
  <2>1. P \in 1 .. Q /\ Ends(D[P])
    BY <1>1, <1>3
  <2>2. D[P + 1].o = 0 /\ D[P + 1].base = After(D[P])
    BY <1>1, <2>1 DEF Script
  <2>3. P > HeadLen
    BY <2>1, FirstEnds
  <2>4. ~(P + 1 <= HeadLen + 1)
    BY <1>1, <2>3
  <2> QED
    BY <1>1, <2>2, <2>4 DEF Script
<1>4. D[P + 1].o = 0
  BY <1>1, <1>2, <1>3
<1>5. ASSUME NEW i \in 1 .. L
      PROVE  D[P + i].o = i - 1 /\ SameMessage(D[P + 1], D[P + i])
  <2>1. P + i \in 1 .. Q /\ P + 1 <= P + i /\ (P + i) - (P + 1) = i - 1
    BY <1>1
  <2>2. D[P + 1].o + ((P + i) - (P + 1)) < Size(D[P + 1])
    BY <1>1, <1>4, <2>1, Places DEF Size
  <2>3. /\ SameMessage(D[P + 1], D[P + i])
        /\ D[P + i].o = D[P + 1].o + ((P + i) - (P + 1))
    BY <1>1, <2>1, <2>2 DEF Script
  <2> QED
    BY <1>4, <2>1, <2>3
<1> QED
  BY <1>2, <1>3, <1>5

\* The units of a body that the client is about to read.
LEMMA BodyPart ==
    ASSUME NEW Q \in Nat, NEW D \in [Nat -> Place], Script(Q, D),
           NEW P \in Nat \ {0}, NEW L \in Nat, P + L <= Q,
           D[P].o = HeadLen - 1, L <= D[P].len
    PROVE  \A i \in 1 .. L :
               D[P + i].o = HeadLen - 1 + i /\ SameMessage(D[P], D[P + i])
<1> SUFFICES ASSUME NEW i \in 1 .. L
             PROVE  /\ D[P + i].o = HeadLen - 1 + i
                    /\ SameMessage(D[P], D[P + i])
  OBVIOUS
<1>1. P \in 1 .. Q /\ P + i \in 1 .. Q /\ P <= P + i /\ (P + i) - P = i
      /\ HeadLen \in Nat
  BY Words
<1>2. D[P].o + ((P + i) - P) < Size(D[P])
  BY <1>1, Places DEF Size
<1>3. SameMessage(D[P], D[P + i]) /\ D[P + i].o = D[P].o + ((P + i) - P)
  BY <1>1, <1>2 DEF Script
<1> QED
  BY <1>1, <1>3

\* The server says the next m units of the message of d.
Longer(Q, D, d) ==
    [k \in Nat |-> IF k <= Q THEN D[k] ELSE At(d, d.o + (k - Q) - 1)]

LEMMA Extend ==
    ASSUME NEW Q \in Nat, NEW D \in [Nat -> Place], Script(Q, D),
           NEW d, Possible(d), NEW m \in Nat \ {0}, d.o + m <= Size(d),
           IF Q = 0 THEN d.o = 0 /\ d.cmd = "LOGINRET"
           ELSE Joins(D[Q], d) /\ d.cmd # "LOGINRET"
    PROVE  /\ Longer(Q, D, d) \in [Nat -> Place]
           /\ Script(Q + m, Longer(Q, D, d))
           /\ \A k \in Nat : k <= Q => Longer(Q, D, d)[k] = D[k]
           /\ \A i \in 1 .. m : Longer(Q, D, d)[Q + i] = At(d, d.o + i - 1)
<1> DEFINE E == Longer(Q, D, d)
<1>1. /\ d \in Place /\ d.o \in Nat /\ d.len \in Nat /\ d.base \in Nat
      /\ d.cmd \in ServerCmd /\ d.o < Size(d) /\ HeadLen \in Nat \ {0}
      /\ Size(d) \in Nat /\ Size(d) = HeadLen + d.len
  <2>1. d \in Place /\ d.o < Size(d)
    BY DEF Possible
  <2>2. /\ d.o \in Nat /\ d.len \in Nat /\ d.base \in Nat
        /\ d.cmd \in ServerCmd
    BY <2>1 DEF Place
  <2> QED
    BY <2>1, <2>2, Words DEF Size
<1>2. ASSUME NEW o \in Nat
      PROVE  /\ At(d, o) \in Place /\ At(d, o).o = o /\ At(d, o).cmd = d.cmd
             /\ At(d, o).len = d.len /\ At(d, o).base = d.base
             /\ Size(At(d, o)) = Size(d)
             /\ After(At(d, o)) = After(d)
  BY <1>1 DEF At, Place, Size, After, Before
<1>3. \A k \in Nat : k <= Q => E[k] = D[k]
  BY DEF Longer
<1>4. ASSUME NEW k \in Nat, k > Q
      PROVE  /\ d.o + (k - Q) - 1 \in Nat
             /\ E[k] = At(d, d.o + (k - Q) - 1)
  BY <1>1, <1>4 DEF Longer
<1>5. E \in [Nat -> Place]
  <2>1. ASSUME NEW k \in Nat
        PROVE  (IF k <= Q THEN D[k] ELSE At(d, d.o + (k - Q) - 1)) \in Place
    BY <1>1, <1>2
  <2> QED
    BY <2>1 DEF Longer
<1>6. ASSUME NEW i \in 1 .. m PROVE E[Q + i] = At(d, d.o + i - 1)
  BY <1>1, <1>4
<1> HIDE DEF E
<1>7. ASSUME NEW k \in Nat, k > Q
      PROVE  /\ E[k].o = d.o + (k - Q) - 1 /\ E[k].cmd = d.cmd
             /\ E[k].len = d.len /\ E[k].base = d.base
             /\ Size(E[k]) = Size(d) /\ E[k] \in Place
  BY <1>2, <1>4, <1>7
<1>8. \A k \in 1 .. Q + m : Possible(E[k])
  <2> SUFFICES ASSUME NEW k \in 1 .. Q + m PROVE Possible(E[k])
    OBVIOUS
  <2>1. CASE k <= Q
    BY <1>3, <2>1 DEF Script
  <2>2. CASE k > Q
    <3>1. E[k].o < Size(d)
      BY <1>1, <1>7, <2>2
    <3> QED
      BY <1>7, <2>2, <3>1 DEF Possible
  <2> QED
    BY <2>1, <2>2
<1>9. E[1].o = 0 /\ E[1].cmd = "LOGINRET"
  <2>1. CASE Q = 0
    BY <1>1, <1>7, <2>1
  <2>2. CASE Q > 0
    BY <1>3, <2>2 DEF Script
  <2> QED
    BY <2>1, <2>2
<1>10. ASSUME NEW k \in 1 .. Q + m, E[k].cmd = "LOGINRET"
       PROVE  k <= HeadLen + 1
  <2>1. CASE k <= Q
    BY <1>3, <1>10, <2>1 DEF Script
  <2>2. CASE k > Q
    <3>1. d.cmd = "LOGINRET"
      BY <1>7, <1>10, <2>2
    <3>2. Q = 0 /\ d.o = 0 /\ d.len = 1
      BY <3>1 DEF Possible
    <3> QED
      BY <1>1, <3>2
  <2> QED
    BY <2>1, <2>2
<1>11. ASSUME NEW k \in 1 .. Q + m, NEW l \in 1 .. Q + m, k <= l,
              E[k].o + (l - k) < Size(E[k])
       PROVE  SameMessage(E[k], E[l]) /\ E[l].o = E[k].o + (l - k)
  <2>1. CASE l <= Q
    BY <1>3, <1>11, <2>1 DEF Script
  <2>2. CASE k > Q
    BY <1>1, <1>7, <1>11, <2>2 DEF SameMessage
  <2>3. CASE k <= Q /\ l > Q
    <3>1. k \in 1 .. Q /\ Q \in 1 .. Q /\ E[k] = D[k]
      BY <1>3, <2>3
    <3>2. D[k].o \in Nat /\ Size(D[k]) \in Nat
          /\ D[k].o + (Q - k) < Size(D[k])
      BY <1>11, <2>3, <3>1, Places
    <3>3. SameMessage(D[k], D[Q]) /\ D[Q].o = D[k].o + (Q - k)
      BY <2>3, <3>1, <3>2 DEF Script
    <3>4. Size(D[Q]) = Size(D[k])
      BY <3>3 DEF SameMessage, Size
    <3>5. ~Ends(D[Q])
      BY <1>11, <2>3, <3>1, <3>2, <3>3, <3>4 DEF Ends
    <3>6. SameMessage(D[Q], d) /\ d.o = D[Q].o + 1
      BY <2>3, <3>5 DEF Joins
    <3>7. E[l].o = E[k].o + (l - k)
      BY <1>7, <2>3, <3>1, <3>2, <3>3, <3>6
    <3> QED
      BY <1>7, <2>3, <3>1, <3>3, <3>6, <3>7 DEF SameMessage
  <2> QED
    BY <2>1, <2>2, <2>3
<1>12. ASSUME NEW k \in 1 .. Q + m, NEW l \in 1 .. Q + m, l = k + 1,
              Ends(E[k])
       PROVE  E[l].o = 0 /\ E[l].base = After(E[k])
  <2>1. CASE l <= Q
    BY <1>3, <1>12, <2>1 DEF Script
  <2>2. CASE k = Q
    <3>1. E[k] = D[Q] /\ Joins(D[Q], d) /\ l > Q
      BY <1>3, <1>12, <2>2
    <3>2. d.o = 0 /\ d.base = After(D[Q])
      BY <1>12, <3>1 DEF Joins
    <3> QED
      BY <1>7, <1>12, <2>2, <3>1, <3>2
  <2>3. CASE k > Q
    <3>1. E[k].o + 1 = Size(d) /\ E[k].o = d.o + (k - Q) - 1
      BY <1>7, <1>12, <2>3 DEF Ends
    <3> QED
      BY <1>1, <1>12, <2>3, <3>1
  <2> QED
    BY <1>12, <2>1, <2>2, <2>3
<1>13. Script(Q + m, E)
  BY <1>8, <1>9, <1>10, <1>11, <1>12 DEF Script
<1> QED
  BY <1>3, <1>5, <1>6, <1>13 DEF E

\* A speech that stops is still one.
LEMMA Shorter ==
    ASSUME NEW Q \in Nat, NEW D \in [Nat -> Place], Script(Q, D),
           NEW q \in 0 .. Q
    PROVE  Script(q, D)
<1>1. \A k \in 1 .. q : k \in 1 .. Q
  OBVIOUS
<1>2. q > 0 => Q > 0
  OBVIOUS
<1> QED
  BY <1>1, <1>2 DEF Script

-----------------------------------------------------------------------------
(***************************************************************************)
(* Units, messages, and what recv makes of them.                           *)
(***************************************************************************)
Cmds == {"LOGIN", "LOGINRET", "CONTROL_PLAY", "FILES", "DATAEND"}

LEMMA UnitFields ==
    ASSUME NEW part \in {"head", "body"}, NEW cmd \in Cmds, NEW i \in Nat,
           NEW val \in Nat
    PROVE  /\ Unit(part, cmd, i, val) \in Units
           /\ Unit(part, cmd, i, val).part = part
           /\ Unit(part, cmd, i, val).cmd = cmd
           /\ Unit(part, cmd, i, val).i = i
           /\ Unit(part, cmd, i, val).val = val
BY DEF Unit, Units, Cmds

LEMMA FunctionSeq ==
    ASSUME NEW S, NEW n \in Nat, NEW f \in [1 .. n -> S]
    PROVE  f \in Seq(S) /\ Len(f) = n
OBVIOUS

LEMMA HeadSeq ==
    ASSUME NEW cmd \in Cmds, NEW len \in Nat
    PROVE  /\ HeadUnits(cmd, len) \in Seq(Units)
           /\ Len(HeadUnits(cmd, len)) = HeadLen
           /\ \A i \in 1 .. HeadLen :
                  HeadUnits(cmd, len)[i] = Unit("head", cmd, i, len)
<1>1. \A i \in 1 .. HeadLen : Unit("head", cmd, i, len) \in Units
  BY UnitFields
<1>2. HeadUnits(cmd, len) \in [1 .. HeadLen -> Units]
  BY <1>1 DEF HeadUnits
<1> QED
  BY <1>2, Words, FunctionSeq DEF HeadUnits

LEMMA HeadThen ==
    ASSUME NEW cmd \in Cmds, NEW len \in Nat, NEW body \in Seq(Units)
    PROVE  LET s == HeadUnits(cmd, len) \o body
           IN  /\ s \in Seq(Units) /\ Len(s) = HeadLen + Len(body)
               /\ \A i \in 1 .. HeadLen : s[i] = Unit("head", cmd, i, len)
               /\ \A i \in 1 .. Len(body) : s[HeadLen + i] = body[i]
<1> DEFINE h == HeadUnits(cmd, len)
<1>1. /\ h \in Seq(Units) /\ Len(h) = HeadLen
      /\ \A i \in 1 .. HeadLen : h[i] = Unit("head", cmd, i, len)
  BY HeadSeq
<1>0. h \in Seq(Units)
  BY <1>1
<1> HIDE DEF h
<1>2. /\ h \o body \in Seq(Units) /\ Len(h \o body) = Len(h) + Len(body)
      /\ \A i \in 1 .. Len(h) : (h \o body)[i] = h[i]
      /\ \A i \in 1 .. Len(body) : (h \o body)[Len(h) + i] = body[i]
  BY <1>0, Joined
<1> QED
  BY <1>1, <1>2 DEF h

LEMMA MessageSeq ==
    ASSUME NEW cmd \in Cmds, NEW vals \in Seq(Nat)
    PROVE  /\ Message(cmd, vals) \in Seq(Units)
           /\ Len(Message(cmd, vals)) = HeadLen + Len(vals)
           /\ \A i \in 1 .. HeadLen :
                  Message(cmd, vals)[i] = Unit("head", cmd, i, Len(vals))
           /\ \A i \in 1 .. Len(vals) : Message(cmd, vals)[HeadLen + i]
                                            = Unit("body", cmd, i, vals[i])
<1> DEFINE body == [i \in 1 .. Len(vals) |-> Unit("body", cmd, i, vals[i])]
<1>1. Len(vals) \in Nat
  OBVIOUS
<1>2. \A i \in 1 .. Len(vals) : Unit("body", cmd, i, vals[i]) \in Units
  BY <1>1, UnitFields
<1>3. body \in [1 .. Len(vals) -> Units]
  BY <1>2
<1>4. body \in Seq(Units) /\ Len(body) = Len(vals)
  BY <1>1, <1>3, FunctionSeq
<1>5. \A i \in 1 .. Len(vals) : body[i] = Unit("body", cmd, i, vals[i])
  OBVIOUS
<1>6. Message(cmd, vals) = HeadUnits(cmd, Len(vals)) \o body
  BY DEF Message
<1> HIDE DEF body
<1> QED
  <2> DEFINE s == HeadUnits(cmd, Len(vals)) \o body
  <2>1. /\ s \in Seq(Units) /\ Len(s) = HeadLen + Len(body)
        /\ \A i \in 1 .. HeadLen : s[i] = Unit("head", cmd, i, Len(vals))
        /\ \A i \in 1 .. Len(body) : s[HeadLen + i] = body[i]
    BY <1>1, <1>4, HeadThen, Zenon
  <2> HIDE DEF s
  <2> QED
    BY <1>4, <1>5, <1>6, <2>1 DEF s

LEMMA FrameHeadSeq ==
    ASSUME NEW n \in Nat
    PROVE  /\ FrameHead(n) \in Seq(Units) /\ Len(FrameHead(n)) = HeadLen + 1
           /\ \A i \in 1 .. HeadLen :
                  FrameHead(n)[i] = Unit("head", "FILES", i, n + 1)
           /\ FrameHead(n)[HeadLen + 1] = Unit("body", "FILES", 1, n)
<1> DEFINE body == <<Unit("body", "FILES", 1, n)>>
<1>1. "FILES" \in Cmds /\ n + 1 \in Nat
  BY DEF Cmds
<1>2. Unit("body", "FILES", 1, n) \in Units
  BY <1>1, UnitFields
<1>3. body \in Seq(Units) /\ Len(body) = 1
      /\ body[1] = Unit("body", "FILES", 1, n)
  BY <1>2
<1>4. FrameHead(n) = HeadUnits("FILES", n + 1) \o body
  BY DEF FrameHead
<1> HIDE DEF body
<1> QED
  <2> DEFINE s == HeadUnits("FILES", n + 1) \o body
  <2>1. /\ s \in Seq(Units) /\ Len(s) = HeadLen + Len(body)
        /\ \A i \in 1 .. HeadLen : s[i] = Unit("head", "FILES", i, n + 1)
        /\ \A i \in 1 .. Len(body) : s[HeadLen + i] = body[i]
    BY <1>1, <1>3, HeadThen, Zenon
  <2> HIDE DEF s
  <2> QED
    <3>1. 1 \in 1 .. Len(body)
      BY <1>3
    <3> QED
      BY <1>3, <1>4, <2>1, <3>1 DEF s

LEMMA FrameDataSeq ==
    ASSUME NEW from \in Nat, NEW n \in Nat
    PROVE  /\ FrameData(from, n) \in Seq(Units) /\ Len(FrameData(from, n)) = n
           /\ \A i \in 1 .. n : FrameData(from, n)[i]
                                  = Unit("body", "FILES", i + 1, from + i)
<1>1. "FILES" \in Cmds
  BY DEF Cmds
<1>2. ASSUME NEW i \in 1 .. n
      PROVE  Unit("body", "FILES", i + 1, from + i) \in Units
  BY <1>1, UnitFields
<1>3. FrameData(from, n) \in [1 .. n -> Units]
  BY <1>2 DEF FrameData
<1> QED
  BY <1>3, FunctionSeq DEF FrameData

\* What a unit of the speech says about its place.
LEMMA SaidFields ==
    ASSUME NEW d \in Place
    PROVE  /\ d.o < HeadLen =>
                Said(d) = Unit("head", d.cmd, d.o + 1, d.len)
                /\ Said(d).part = "head" /\ Said(d).cmd = d.cmd
                /\ Said(d).i = d.o + 1 /\ Said(d).val = d.len
           /\ d.o >= HeadLen =>
                /\ Said(d).part = "body" /\ Said(d).cmd = d.cmd
                /\ Said(d).i = d.o - HeadLen + 1
                /\ d.o > HeadLen => Said(d).val = d.base + (d.o - HeadLen)
                /\ d.o = HeadLen /\ d.cmd = "FILES" => Said(d).val = d.len - 1
                /\ d.o = HeadLen /\ d.cmd # "FILES" => Said(d).val = d.base
<1>1. d.o \in Nat /\ HeadLen \in Nat
  BY Words DEF Place
<1> QED
  BY <1>1 DEF Said, Unit

LEMMA BufferFields ==
    ASSUME NEW b \in Buffer
    PROVE  /\ b.head \in BOOLEAN /\ b.total \in Nat /\ b.got \in Seq(Units)
           /\ b.cmd \in Cmds \cup {"none"} /\ Len(b.got) \in Nat
BY DEF Buffer, ServerCmd, ClientCmd, Cmds

LEMMA Receives ==
    ASSUME NEW b \in Buffer, NEW s \in Seq(Units), NEW n, Recv(b, s, n)
    PROVE  LET c == With(b, s, n)
           IN  /\ c \in Buffer /\ c.head = b.head /\ c.cmd = b.cmd
               /\ c.total = b.total /\ c.got = b.got \o SubSeq(s, 1, n)
               /\ Len(c.got) = Len(b.got) + n
               /\ Len(c.got) \in 1 .. c.total
               /\ n \in 1 .. Len(s)
<1>1. /\ b.total \in Nat /\ b.got \in Seq(Units) /\ Len(b.got) \in Nat
  BY BufferFields
<1>2. n \in 1 .. Len(s) /\ n <= b.total - Len(b.got) /\ n \in Nat
  BY <1>1 DEF Recv, Missing
<1>3. SubSeq(s, 1, n) \in Seq(Units) /\ Len(SubSeq(s, 1, n)) = n
  BY <1>2, Taken
<1> DEFINE got == b.got \o SubSeq(s, 1, n)
<1>4. got \in Seq(Units) /\ Len(got) = Len(b.got) + n
  BY <1>1, <1>3, Joined
<1>5. With(b, s, n) = [b EXCEPT !.got = got]
  BY DEF With
<1> HIDE DEF got
<1>6. With(b, s, n) \in Buffer
  BY <1>4, <1>5 DEF Buffer
<1>7. /\ With(b, s, n).head = b.head /\ With(b, s, n).cmd = b.cmd
      /\ With(b, s, n).total = b.total /\ With(b, s, n).got = got
  BY <1>5 DEF Buffer
<1> QED
  BY <1>1, <1>2, <1>4, <1>6, <1>7 DEF got

LEMMA AfterReceived ==
    ASSUME NEW c \in Buffer, Len(c.got) \in 1 .. c.total
    PROVE  /\ Missing(c) \in Nat
           /\ Missing(c) > 0 => AfterRecv(c) = c /\ Len(c.got) < c.total
           /\ Missing(c) = 0 /\ ~c.head =>
                  AfterRecv(c) = Reset /\ Len(c.got) = c.total
           /\ Missing(c) = 0 /\ c.head =>
                  AfterRecv(c) = BodyOf(c) /\ Len(c.got) = c.total
           /\ AfterRecv(c) \in Buffer
           /\ BodyOf(c) \in Buffer
           /\ ~BodyOf(c).head /\ BodyOf(c).cmd = c.got[1].cmd
           /\ BodyOf(c).total = c.got[1].val /\ BodyOf(c).got = << >>
<1>1. c.total \in Nat /\ c.got \in Seq(Units) /\ Len(c.got) \in Nat
      /\ c.head \in BOOLEAN
  BY BufferFields
<1>2. c.got[1] \in Units
  BY <1>1
<1>3. c.got[1].cmd \in Cmds /\ c.got[1].val \in Nat
  BY <1>2 DEF Units, Cmds
<1>4. << >> \in Seq(Units)
  OBVIOUS
<1>5. BodyOf(c) \in Buffer
  BY <1>3, <1>4 DEF BodyOf, Buffer, ServerCmd, ClientCmd, Cmds
<1>6. Reset \in Buffer
  BY <1>4, Words DEF Reset, Buffer
<1>7. /\ ~BodyOf(c).head /\ BodyOf(c).cmd = c.got[1].cmd
      /\ BodyOf(c).total = c.got[1].val /\ BodyOf(c).got = << >>
  BY DEF BodyOf
<1> QED
  BY <1>1, <1>5, <1>6, <1>7 DEF Missing, AfterRecv

-----------------------------------------------------------------------------
(***************************************************************************)
(* What a step leaves alone.                                               *)
(***************************************************************************)
LEMMA ScriptSame ==
    ASSUME fileLen' = fileLen, NEW Q, NEW D
    PROVE  Script(Q, D)' <=> Script(Q, D)
BY DEF Script, Possible, mFileLen

LEMMA SyncedSame ==
    ASSUME NEW P, NEW Q, NEW D, Synced(P, Q, D),
           fileLen' = fileLen, cliBuf' = cliBuf, toClient' = toClient,
           toSend' = toSend, file' = file, mRecvDataLen' = mRecvDataLen,
           told'.total = told.total, told'.end = told.end,
           up' => up, task' = task, dataLen' = dataLen,
           mHasReadLen' = mHasReadLen
    PROVE  Synced(P, Q, D)'
<1>1. Script(Q, D)'
  BY ScriptSame DEF Synced
<1>2. mFileLen' = mFileLen
  BY DEF mFileLen
<1>3. Stream(P, Q, D)' /\ Expects(cliBuf, Len(file), P, D)'
  BY DEF Synced, Stream, Held
<1>4. (up => Continues(Q, D))' /\ (Q > 0 => task)'
  BY <1>2 DEF Synced, Continues
<1>5. Told(P)'
  BY <1>2 DEF Synced, Told
<1> QED
  BY <1>1, <1>3, <1>4, <1>5 DEF Synced

LEMMA TalksSame ==
    ASSUME Talks,
           fileLen' = fileLen, cliBuf' = cliBuf, toClient' = toClient,
           toSend' = toSend, file' = file, mRecvDataLen' = mRecvDataLen,
           told'.total = told.total, told'.end = told.end,
           up' => up, task' = task, dataLen' = dataLen,
           mHasReadLen' = mHasReadLen
    PROVE  Talks'
<1>1. PICK P \in Nat, Q \in Nat, D \in [Nat -> Place] : Synced(P, Q, D)
  BY DEF Talks
<1>2. Synced(P, Q, D)'
  BY <1>1, SyncedSame
<1> QED
  BY <1>2 DEF Talks

LEMMA HeardSame ==
    ASSUME Heard, srvBuf' = srvBuf, toServer' = toServer, fetched' = fetched,
           told'.total = told.total, task' = task
    PROVE  Heard'
<1>1. PICK p \in Nat : Listens(p)
  BY DEF Heard
<1>2. Listens(p)'
  BY <1>1 DEF Listens, Questions
<1> QED
  BY <1>2 DEF Heard

LEMMA SavedSame ==
    ASSUME Saved, fileLen' = fileLen, file' = file,
           mRecvDataLen' = mRecvDataLen
    PROVE  Saved'
BY DEF Saved, mFileLen

LEMMA StutterKeeps ==
    ASSUME IInv, UNCHANGED vars
    PROVE  IInv'
<1> USE DEF vars, srvVars, cliVars
<1>1. Types'
  BY DEF IInv, Types
<1>2. Talks'
  BY TalksSame DEF IInv
<1>3. Heard' /\ Saved'
  BY HeardSame, SavedSame DEF IInv
<1> QED
  BY <1>1, <1>2, <1>3 DEF IInv

-----------------------------------------------------------------------------
(***************************************************************************)
(* The server.                                                             *)
(***************************************************************************)
LEMMA InitKeeps == Init => IInv
<1> SUFFICES ASSUME Init PROVE IInv
  OBVIOUS
<1>1. << >> \in Seq(Units) /\ << >> \in Seq(Nat) /\ << >> \in Seq(Int)
      /\ Len(<< >>) = 0
  OBVIOUS
<1>2. fileLen \in Nat
  BY TransferAssumption DEF Init
<1>3. Reset \in Buffer
  BY <1>1, Words DEF Reset, Buffer
<1>4. 2 ^ W \in Nat \ {0}
  BY PowerAssumption
<1>5. Types
  <2>1. told \in [total : Seq(Int), end : Seq(Int), saveDone : BOOLEAN]
    BY <1>1 DEF Init
  <2>2. mHasReadLen \in 0 .. 2 ^ W - 1 /\ dataLen \in 0 .. Chunk
    BY <1>4, Words DEF Init
  <2>3. /\ Len(toClient) <= Cap /\ Reset.got = << >> /\ Reset.head
        /\ Len(Reset.got) < Reset.total
    BY <1>1, Words DEF Init, Reset
  <2>4. srvBuf = Reset /\ cliBuf = Reset
    BY DEF Init
  <2>5. /\ Len(srvBuf.got) < srvBuf.total /\ Len(cliBuf.got) < cliBuf.total
        /\ srvBuf \in Buffer /\ cliBuf \in Buffer
        /\ cliBuf.total \in Nat /\ Len(cliBuf.got) \in Nat
    BY <1>3, <2>3, <2>4, BufferFields
  <2>6. /\ Len(cliBuf.got) <= cliBuf.total
        /\ Len(cliBuf.got) # cliBuf.total
    BY <2>5
  <2>7. /\ toClient \in Seq(Units) /\ toServer \in Seq(Units)
        /\ toSend \in Seq(Units) /\ file \in Seq(Nat)
    BY <1>1 DEF Init
  <2>8. /\ up \in BOOLEAN /\ task \in BOOLEAN /\ armed \in BOOLEAN
        /\ conn \in {"open", "closed"} /\ fetched \in BOOLEAN
    BY DEF Init
  <2> QED
    BY <1>2, <2>1, <2>2, <2>3, <2>5, <2>6, <2>7, <2>8 DEF Types
<1>6. Saved
  BY <1>2, PowerAssumption, FileLenWord DEF Init, Saved, AsInt
<1>7. Heard
  <2>1. Listens(0)
    BY Words DEF Init, Listens, Asks, Questions, Reset
  <2> QED
    BY <2>1 DEF Heard
<1>8. Talks
  <2> DEFINE d == [cmd |-> "FILES", len |-> 0, base |-> 0, o |-> 0]
             D == [k \in Nat |-> d]
  <2>1. D \in [Nat -> Place]
    BY DEF Place, ServerCmd
  <2>2. Script(0, D)
    BY DEF Script
  <2>3. Stream(0, 0, D)
    BY DEF Stream, Init, Says, Held, Reset
  <2>4. Expects(cliBuf, Len(file), 0, D) /\ Continues(0, D) /\ Told(0)
    BY Words DEF Init, Expects, Continues, Told, Reset
  <2> HIDE DEF D
  <2>5. Synced(0, 0, D)
    BY <2>2, <2>3, <2>4 DEF Synced
  <2> QED
    BY <2>1, <2>5 DEF Talks
<1> QED
  BY <1>5, <1>6, <1>7, <1>8 DEF IInv

LEMMA SendSomeKeeps ==
    ASSUME IInv, SendSome
    PROVE  IInv'
<1> USE DEF srvVars, cliVars
<1>1. PICK n \in 1 .. Len(toSend) :
          /\ Len(toClient) + n <= Cap
          /\ toClient' = toClient \o SubSeq(toSend, 1, n)
          /\ toSend' = Rest(toSend, n)
  BY DEF SendSome
<1>2. toClient \in Seq(Units) /\ toSend \in Seq(Units)
  BY DEF IInv, Types
<1>3. n \in 0 .. Len(toSend) /\ Len(toSend) \in Nat /\ Len(toClient) \in Nat
  BY <1>2
<1>4. /\ SubSeq(toSend, 1, n) \in Seq(Units) /\ Len(SubSeq(toSend, 1, n)) = n
      /\ toSend' \in Seq(Units) /\ Len(toSend') = Len(toSend) - n
  BY <1>1, <1>2, <1>3, Taken
<1>5. toClient' \in Seq(Units) /\ Len(toClient') = Len(toClient) + n
  BY <1>1, <1>2, <1>4, Joined
<1>6. Types'
  BY <1>1, <1>4, <1>5 DEF IInv, Types, SendSome
<1>7. Talks'
  <2>1. PICK P \in Nat, Q \in Nat, D \in [Nat -> Place] : Synced(P, Q, D)
    BY DEF IInv, Talks
  <2>2. Held \in Nat
    BY BufferFields DEF IInv, Types, Held
  <2>3. /\ Says(SubSeq(toSend, 1, n), D, P + Held + Len(toClient))
        /\ Says(toSend', D, P + Held + Len(toClient) + n)
    BY <1>1, <1>2, <1>3, <2>1, <2>2, SaysTaken DEF Synced, Stream
  <2>4. Says(toClient', D, P + Held)
    <3>1. Says(toClient, D, P + Held) /\ P + Held \in Nat
      BY <2>1, <2>2 DEF Synced, Stream
    <3> QED
      BY <1>1, <1>2, <1>4, <2>3, <3>1, SaysJoin
  <2>5. Held' = Held /\ P + Held + Len(toClient) + n = P + Held + Len(toClient')
    <3>1. Held' = Held
      BY DEF Held, SendSome
    <3> QED
      BY <1>3, <1>5, <2>2, <3>1
  <2>6. Stream(P, Q, D)'
    BY <1>3, <1>4, <1>5, <2>1, <2>2, <2>3, <2>4, <2>5
    DEF Synced, Stream, SendSome
  <2>7. Script(Q, D)' /\ mFileLen' = mFileLen
    BY <2>1, ScriptSame DEF Synced, SendSome, mFileLen
  <2>8. Synced(P, Q, D)'
    BY <2>1, <2>6, <2>7
    DEF Synced, Expects, Continues, Told, SendSome
  <2> QED
    BY <2>8 DEF Talks
<1>8. Heard' /\ Saved'
  BY HeardSame, SavedSame DEF IInv, SendSome
<1> QED
  BY <1>6, <1>7, <1>8 DEF IInv

LEMMA ServerEndsKeeps ==
    ASSUME IInv, ServerEnds
    PROVE  IInv'
<1> USE DEF srvVars, cliVars
<1>1. Types'
  <2>1. << >> \in Seq(Units)
    OBVIOUS
  <2> QED
    BY <2>1 DEF IInv, Types, ServerEnds
<1>2. Talks'
  <2>1. PICK P \in Nat, Q \in Nat, D \in [Nat -> Place] : Synced(P, Q, D)
    BY DEF IInv, Talks
  <2>2. Held \in Nat /\ Len(toClient) \in Nat /\ Len(toSend) \in Nat
    BY BufferFields DEF IInv, Types, Held
  <2>3. PICK q \in 0 .. Q : q = P + Held + Len(toClient)
    BY <2>1, <2>2 DEF Synced, Stream
  <2>4. Script(q, D)' /\ mFileLen' = mFileLen
    <3>1. Script(q, D)
      BY <2>1, <2>3, Shorter DEF Synced
    <3> QED
      BY <3>1, ScriptSame DEF ServerEnds, mFileLen
  <2>5. /\ cliBuf' = cliBuf /\ toClient' = toClient /\ toSend' = << >>
        /\ file' = file /\ told' = told /\ mRecvDataLen' = mRecvDataLen
        /\ up' = FALSE /\ task' = task /\ Held' = Held
    BY DEF ServerEnds, Held
  <2>6. Len(toSend') = 0 /\ Says(toSend', D, q)
    BY <2>5 DEF Says
  <2>7. q + 0 = q /\ q \in Nat
    BY <2>3
  <2>8. Stream(P, q, D)'
    BY <2>1, <2>3, <2>5, <2>6, <2>7 DEF Synced, Stream
  <2>9. (q > 0 => task)'
    BY <2>1, <2>3, <2>5 DEF Synced
  <2>10. Expects(cliBuf, Len(file), P, D)' /\ Told(P)'
    BY <2>1, <2>4, <2>5 DEF Synced, Expects, Told
  <2>11. Synced(P, q, D)'
    BY <2>4, <2>5, <2>8, <2>9, <2>10 DEF Synced
  <2> QED
    BY <2>7, <2>11 DEF Talks
<1>3. Heard' /\ Saved'
  BY HeardSame, SavedSame DEF IInv, ServerEnds
<1> QED
  BY <1>1, <1>2, <1>3 DEF IInv

LEMMA OnWriteIdleKeeps ==
    ASSUME IInv, OnWriteIdle
    PROVE  IInv'
<1> USE DEF OnWriteIdle, Callback, cliVars
<1>1. Types'
  BY DEF IInv, Types
<1>2. Talks'
  BY TalksSame DEF IInv
<1>3. Heard' /\ Saved'
  BY HeardSame, SavedSame DEF IInv
<1> QED
  BY <1>1, <1>2, <1>3 DEF IInv

\* Between d and e are the m places that the speech of Q units goes on with,
\* and sendEx is given what they say.
Utters(P, Q, D, d, m, e) ==
    /\ Types /\ up /\ toSend = << >>
    /\ P \in Nat /\ Q \in Nat /\ D \in [Nat -> Place] /\ Synced(P, Q, D)
    /\ Possible(d) /\ m \in Nat \ {0} /\ d.o + m <= Size(d)
    /\ IF Q = 0 THEN d.o = 0 /\ d.cmd = "LOGINRET"
       ELSE Joins(D[Q], d) /\ d.cmd # "LOGINRET"
    /\ fileLen' = fileLen /\ cliBuf' = cliBuf /\ toClient' = toClient
    /\ file' = file /\ mRecvDataLen' = mRecvDataLen /\ told' = told
    /\ toSend' \in Seq(Units) /\ Len(toSend') = m
    /\ \A i \in 1 .. m : toSend'[i] = Said(At(d, d.o + i - 1))
    /\ task' = TRUE /\ mHasReadLen' <= mFileLen
    /\ e = At(d, d.o + m - 1)
    /\ dataLen' = 0 => Ends(e) /\ After(e) = mHasReadLen'
    /\ dataLen' # 0 => /\ e.cmd = "FILES" /\ e.len = dataLen' + 1
                       /\ e.o = HeadLen /\ e.base + dataLen' = mHasReadLen'

\* What is given to sendEx continues the speech.
LEMMA Speak ==
    ASSUME NEW P, NEW Q, NEW D, NEW d, NEW m, NEW e, Utters(P, Q, D, d, m, e)
    PROVE  Talks'
<1> USE DEF Utters
<1>1. PICK E \in [Nat -> Place] :
          /\ Script(Q + m, E)
          /\ \A k \in Nat : k <= Q => E[k] = D[k]
          /\ \A i \in 1 .. m : E[Q + i] = At(d, d.o + i - 1)
  <2>1. Script(Q, D)
    BY DEF Synced
  <2>2. /\ Longer(Q, D, d) \in [Nat -> Place]
        /\ Script(Q + m, Longer(Q, D, d))
        /\ \A k \in Nat : k <= Q => Longer(Q, D, d)[k] = D[k]
        /\ \A i \in 1 .. m : Longer(Q, D, d)[Q + i] = At(d, d.o + i - 1)
    BY <2>1, Extend
  <2> QED
    BY <2>2
<1>2. Held \in Nat /\ Len(toClient) \in Nat
  BY BufferFields DEF Types, Held
<1>3. Held' = Held /\ mFileLen' = mFileLen
  BY DEF Held, mFileLen
<1>4. P + Held + Len(toClient) = Q
  BY <1>2 DEF Synced, Stream
<1>5. Says(cliBuf.got, E, P)
  <2> SUFFICES ASSUME NEW i \in 1 .. Len(cliBuf.got)
               PROVE  cliBuf.got[i] = Said(E[P + i])
    BY DEF Says
  <2>1. cliBuf.got[i] = Said(D[P + i])
    BY DEF Synced, Stream, Says
  <2>2. P + i \in Nat /\ P + i <= Q
    <3>1. i \in 1 .. Held
      BY DEF Held
    <3> QED
      BY <1>2, <1>4, <3>1
  <2> QED
    BY <1>1, <2>1, <2>2
<1>6. Says(toClient, E, P + Held)
  <2> SUFFICES ASSUME NEW i \in 1 .. Len(toClient)
               PROVE  toClient[i] = Said(E[P + Held + i])
    BY DEF Says
  <2>1. toClient[i] = Said(D[P + Held + i])
    BY DEF Synced, Stream, Says
  <2>2. P + Held + i \in Nat /\ P + Held + i <= Q
    BY <1>2, <1>4
  <2> QED
    BY <1>1, <2>1, <2>2
<1>7. Says(toSend', E, Q)
  BY <1>1 DEF Says
<1>8. Stream(P, Q + m, E)'
  BY <1>3, <1>4, <1>5, <1>6, <1>7 DEF Stream
<1>9. Expects(cliBuf, Len(file), P, E)'
  <2>1. P <= Q
    BY <1>2, <1>4
  <2>2. E[P] = D[P]
    BY <1>1, <2>1
  <2> QED
    BY <2>2 DEF Synced, Expects
<1>10. Told(P)'
  BY <1>3 DEF Synced, Told
<1>11. Continues(Q + m, E)'
  <2>1. E[Q + m] = e
    BY <1>1
  <2>2. Q + m > 0
    OBVIOUS
  <2> QED
    BY <1>3, <2>1, <2>2 DEF Continues
<1>12. Script(Q + m, E)'
  BY <1>1, ScriptSame
<1>13. Synced(P, Q + m, E)'
  BY <1>8, <1>9, <1>10, <1>11, <1>12 DEF Synced
<1>14. Q + m \in Nat
  OBVIOUS
<1> QED
  BY <1>13, <1>14 DEF Talks

\* The units of the speech, as the messages have them.
LEMMA SaidHead ==
    ASSUME NEW x \in Place, NEW i \in 1 .. HeadLen, x.o = i - 1
    PROVE  Said(x) = Unit("head", x.cmd, i, x.len)
<1>1. x.o < HeadLen /\ x.o + 1 = i
  BY Words
<1> QED
  BY <1>1 DEF Said

LEMMA SaidFirst ==
    ASSUME NEW x \in Place, x.o = HeadLen
    PROVE  Said(x) = Unit("body", x.cmd, 1,
                          IF x.cmd = "FILES" THEN x.len - 1 ELSE x.base)
<1>1. ~(x.o < HeadLen) /\ ~(x.o > HeadLen) /\ x.o - HeadLen + 1 = 1
  BY Words
<1> QED
  BY <1>1 DEF Said

LEMMA SaidData ==
    ASSUME NEW x \in Place, NEW i \in Nat \ {0}, x.o = HeadLen + i
    PROVE  Said(x) = Unit("body", x.cmd, i + 1, x.base + i)
<1>1. /\ ~(x.o < HeadLen) /\ x.o > HeadLen
      /\ x.o - HeadLen + 1 = i + 1 /\ x.o - HeadLen = i
  BY Words
<1> QED
  BY <1>1 DEF Said

\* A place of the server's.
LEMMA NewPlace ==
    ASSUME NEW cmd \in ServerCmd, NEW len \in Nat, NEW base \in Nat,
           NEW o \in Nat
    PROVE  LET d == [cmd |-> cmd, len |-> len, base |-> base, o |-> o]
           IN  /\ d \in Place /\ d.cmd = cmd /\ d.len = len /\ d.base = base
               /\ d.o = o /\ Size(d) = HeadLen + len
               /\ \A n \in Nat :
                    /\ At(d, n) \in Place /\ At(d, n).cmd = cmd
                    /\ At(d, n).len = len /\ At(d, n).base = base
                    /\ At(d, n).o = n
                    /\ Size(At(d, n)) = HeadLen + len
BY DEF Place, At, Size

\* What the server knows when it may write.
LEMMA Writes ==
    ASSUME IInv, up, task, toSend = << >>
    PROVE  /\ mFileLen \in Nat /\ mFileLen <= 2 ^ W - 1
           /\ mHasReadLen \in Nat /\ mHasReadLen <= mFileLen
           /\ dataLen \in Nat /\ dataLen <= Chunk
           /\ HeadLen \in Nat \ {0} /\ Chunk \in Nat \ {0}
           /\ \E P \in Nat, Q \in Nat \ {0}, D \in [Nat -> Place] :
                 Synced(P, Q, D) /\ Continues(Q, D)
<1>1. PICK P \in Nat, Q \in Nat, D \in [Nat -> Place] : Synced(P, Q, D)
  BY DEF IInv, Talks
<1>2. Continues(Q, D)
  BY <1>1 DEF Synced
<1>3. Q # 0 /\ mHasReadLen <= mFileLen
  BY <1>2 DEF Continues
<1>4. /\ fileLen \in Nat /\ mHasReadLen \in 0 .. 2 ^ W - 1
      /\ dataLen \in 0 .. Chunk
  BY DEF IInv, Types
<1>5. 2 ^ W \in Nat
  BY PowerAssumption
<1>6. mFileLen \in Nat /\ mFileLen <= 2 ^ W - 1
  BY <1>4, <1>5, FileLenWord
<1>7. mHasReadLen \in Nat /\ dataLen \in Nat /\ dataLen <= Chunk
  BY <1>4, Words
<1> QED
  BY <1>1, <1>2, <1>3, <1>6, <1>7, Words

LEMMA OnWriteHeadKeeps ==
    ASSUME IInv, OnWriteHead
    PROVE  IInv'
<1> DEFINE left == mFileLen - mHasReadLen
           n    == IF left > Chunk THEN Chunk ELSE left
<1>1. up /\ task /\ toSend = << >> /\ dataLen = 0 /\ ~ReadAll
  BY DEF OnWriteHead, Callback
<1>2. /\ toSend' = FrameHead(n) /\ dataLen' = n
      /\ mHasReadLen' = mHasReadLen + n
      /\ fileLen' = fileLen /\ toClient' = toClient /\ up' = up
      /\ toServer' = toServer /\ srvBuf' = srvBuf /\ task' = task
      /\ armed' = armed
      /\ conn' = conn /\ fetched' = fetched /\ cliBuf' = cliBuf
      /\ file' = file /\ mRecvDataLen' = mRecvDataLen /\ told' = told
  BY DEF OnWriteHead, Callback, cliVars
<1>3. /\ mFileLen \in Nat /\ mFileLen <= 2 ^ W - 1 /\ mHasReadLen \in Nat
      /\ mHasReadLen <= mFileLen
      /\ HeadLen \in Nat \ {0} /\ Chunk \in Nat \ {0}
  BY <1>1, Writes
<1>4. /\ n \in Nat \ {0} /\ n <= Chunk /\ mHasReadLen + n <= mFileLen
      /\ mHasReadLen + n \in Nat
  BY <1>1, <1>3 DEF ReadAll
<1> HIDE DEF n
<1>5. 2 ^ W \in Nat
  BY PowerAssumption
<1>6. /\ toSend' \in Seq(Units) /\ Len(toSend') = HeadLen + 1
      /\ \A i \in 1 .. HeadLen :
            toSend'[i] = Unit("head", "FILES", i, n + 1)
      /\ toSend'[HeadLen + 1] = Unit("body", "FILES", 1, n)
  BY <1>2, <1>4, FrameHeadSeq
<1>7. Types'
  <2>1. mHasReadLen' \in 0 .. 2 ^ W - 1 /\ dataLen' \in 0 .. Chunk
    BY <1>2, <1>3, <1>4, <1>5
  <2> QED
    BY <1>2, <1>6, <2>1 DEF IInv, Types
<1>8. Talks'
  <2>1. PICK P \in Nat, Q \in Nat \ {0}, D \in [Nat -> Place] :
            Synced(P, Q, D) /\ Continues(Q, D)
    BY <1>1, Writes
  <2> DEFINE d == [cmd |-> "FILES", len |-> n + 1, base |-> mHasReadLen,
                   o |-> 0]
             m == HeadLen + 1
             e == At(d, d.o + m - 1)
  <2>2. /\ d \in Place /\ d.cmd = "FILES" /\ d.len = n + 1
        /\ d.base = mHasReadLen /\ d.o = 0 /\ Size(d) = HeadLen + (n + 1)
        /\ \A i \in Nat : /\ At(d, i) \in Place /\ At(d, i).cmd = "FILES"
                          /\ At(d, i).len = n + 1
                          /\ At(d, i).base = mHasReadLen /\ At(d, i).o = i
    BY <1>3, <1>4, NewPlace DEF ServerCmd
  <2> HIDE DEF d
  <2>3. Possible(d) /\ m \in Nat \ {0} /\ d.o + m <= Size(d)
    BY <1>3, <1>4, <2>2 DEF Possible
  <2>4. Joins(D[Q], d) /\ d.cmd # "LOGINRET"
    BY <1>1, <2>1, <2>2 DEF Joins, Continues
  <2>5. d.o + m - 1 = HeadLen
    BY <1>3, <2>2
  <2>6. /\ e.cmd = "FILES" /\ e.len = n + 1 /\ e.o = HeadLen
        /\ e.base = mHasReadLen
    BY <1>3, <2>2, <2>5
  <2>7. ASSUME NEW i \in 1 .. m
        PROVE  toSend'[i] = Said(At(d, d.o + i - 1))
    <3>1. d.o + i - 1 = i - 1 /\ i - 1 \in Nat
      BY <1>3, <2>2
    <3>2. CASE i <= HeadLen
      <4>1. i - 1 < HeadLen /\ i - 1 + 1 = i /\ i \in 1 .. HeadLen
        BY <1>3, <3>2
      <4>2. Said(At(d, i - 1)) = Unit("head", "FILES", i, n + 1)
        BY <2>2, <3>1, <4>1 DEF Said
      <4> QED
        BY <1>6, <3>1, <4>1, <4>2
    <3>3. CASE i = HeadLen + 1
      <4>1. i - 1 = HeadLen /\ ~(i - 1 < HeadLen) /\ ~(i - 1 > HeadLen)
            /\ i - 1 - HeadLen + 1 = 1 /\ n + 1 - 1 = n
        BY <1>3, <1>4, <3>3
      <4>2. /\ At(d, HeadLen) \in Place /\ At(d, HeadLen).cmd = "FILES"
            /\ At(d, HeadLen).o = HeadLen /\ At(d, HeadLen).len - 1 = n
        BY <1>3, <1>4, <2>2
      <4>4. Said(At(d, HeadLen)) = Unit("body", "FILES", 1, n)
        BY <4>2, SaidFirst
      <4> QED
        BY <1>6, <3>1, <3>3, <4>1, <4>4
    <3> QED
      BY <1>3, <3>2, <3>3
  <2>8. mHasReadLen' <= mFileLen /\ dataLen' # 0 /\ task' = TRUE
    BY <1>1, <1>2, <1>4 DEF IInv, Types
  <2>9. Types
    BY DEF IInv
  <2> HIDE DEF m, e
  <2>10. Len(toSend') = m /\ e = At(d, d.o + m - 1)
    BY <1>6 DEF m, e
  <2>11. Utters(P, Q, D, d, m, e)
    BY <1>1, <1>2, <1>6, <2>1, <2>3, <2>4, <2>6, <2>7, <2>8, <2>9, <2>10
       DEF Utters
  <2> QED
    BY <2>11, Speak
<1>9. Heard' /\ Saved'
  BY <1>2, HeardSame, SavedSame DEF IInv
<1> QED
  BY <1>7, <1>8, <1>9 DEF IInv

LEMMA OnWriteDataKeeps ==
    ASSUME IInv, OnWriteData
    PROVE  IInv'
<1>1. up /\ task /\ toSend = << >> /\ dataLen > 0
  BY DEF OnWriteData, Callback
<1>2. /\ toSend' = FrameData(mHasReadLen - dataLen, dataLen) /\ dataLen' = 0
      /\ mHasReadLen' = mHasReadLen
      /\ fileLen' = fileLen /\ toClient' = toClient /\ up' = up
      /\ toServer' = toServer /\ srvBuf' = srvBuf /\ task' = task
      /\ armed' = armed
      /\ conn' = conn /\ fetched' = fetched /\ cliBuf' = cliBuf
      /\ file' = file /\ mRecvDataLen' = mRecvDataLen /\ told' = told
  BY DEF OnWriteData, Callback, cliVars
<1>3. /\ mFileLen \in Nat /\ mHasReadLen \in Nat /\ mHasReadLen <= mFileLen
      /\ dataLen \in Nat \ {0} /\ HeadLen \in Nat \ {0} /\ Chunk \in Nat
  BY <1>1, Writes
<1>4. PICK P \in Nat, Q \in Nat \ {0}, D \in [Nat -> Place] :
          Synced(P, Q, D) /\ Continues(Q, D)
  BY <1>1, Writes
<1>5. /\ D[Q].cmd = "FILES" /\ D[Q].len = dataLen + 1 /\ D[Q].o = HeadLen
      /\ D[Q].base + dataLen = mHasReadLen /\ D[Q].base \in Nat
  <2>1. D[Q].base \in Nat
    BY Places
  <2>2. dataLen # 0
    BY <1>3
  <2> QED
    BY <1>1, <1>4, <2>1, <2>2 DEF Continues
<1> DEFINE base == mHasReadLen - dataLen
<1>6. base \in Nat /\ D[Q].base = base /\ base + dataLen = mHasReadLen
  BY <1>3, <1>5
<1> HIDE DEF base
<1>7. /\ toSend' \in Seq(Units) /\ Len(toSend') = dataLen
      /\ \A i \in 1 .. dataLen :
            toSend'[i] = Unit("body", "FILES", i + 1, base + i)
  BY <1>2, <1>3, <1>6, FrameDataSeq DEF base
<1>8. Types'
  <2>1. dataLen' \in 0 .. Chunk
    BY <1>2, <1>3
  <2> QED
    BY <1>2, <1>7, <2>1 DEF IInv, Types
<1>9. Talks'
  <2> DEFINE d == [cmd |-> "FILES", len |-> dataLen + 1, base |-> base,
                   o |-> HeadLen + 1]
             e == At(d, d.o + dataLen - 1)
  <2>1. /\ d \in Place /\ d.cmd = "FILES" /\ d.len = dataLen + 1
        /\ d.base = base /\ d.o = HeadLen + 1
        /\ Size(d) = HeadLen + (dataLen + 1)
        /\ \A i \in Nat : /\ At(d, i) \in Place /\ At(d, i).cmd = "FILES"
                          /\ At(d, i).len = dataLen + 1
                          /\ At(d, i).base = base /\ At(d, i).o = i
                          /\ Size(At(d, i)) = HeadLen + (dataLen + 1)
    <3>1. HeadLen + 1 \in Nat /\ dataLen + 1 \in Nat /\ "FILES" \in ServerCmd
      BY <1>3 DEF ServerCmd
    <3> QED
      BY <1>6, <3>1, NewPlace
  <2> HIDE DEF d
  <2>2. Possible(d) /\ d.o + dataLen <= Size(d)
    BY <1>3, <1>6, <2>1 DEF Possible
  <2>3. Joins(D[Q], d) /\ d.cmd # "LOGINRET"
    <3>1. Size(D[Q]) = HeadLen + (dataLen + 1)
      BY <1>5 DEF Size
    <3>2. ~Ends(D[Q])
      BY <1>3, <1>5, <3>1 DEF Ends
    <3>3. SameMessage(D[Q], d) /\ d.o = D[Q].o + 1
      BY <1>5, <1>6, <2>1 DEF SameMessage
    <3> QED
      BY <2>1, <3>2, <3>3 DEF Joins
  <2>4. d.o + dataLen - 1 = HeadLen + dataLen /\ HeadLen + dataLen \in Nat
    BY <1>3, <2>1
  <2>5. /\ e.cmd = "FILES" /\ e.len = dataLen + 1 /\ e.base = base
        /\ e.o = HeadLen + dataLen /\ Size(e) = HeadLen + (dataLen + 1)
    BY <2>1, <2>4
  <2>6. Ends(e) /\ After(e) = mHasReadLen
    BY <1>3, <1>6, <2>5 DEF Ends, After
  <2>7. ASSUME NEW i \in 1 .. dataLen
        PROVE  toSend'[i] = Said(At(d, d.o + i - 1))
    <3>1. d.o + i - 1 = HeadLen + i /\ HeadLen + i \in Nat
          /\ i \in Nat \ {0}
      BY <1>3, <2>1
    <3>2. /\ At(d, HeadLen + i) \in Place /\ At(d, HeadLen + i).cmd = "FILES"
          /\ At(d, HeadLen + i).base = base
          /\ At(d, HeadLen + i).o = HeadLen + i
      BY <2>1, <3>1
    <3>3. Said(At(d, HeadLen + i)) = Unit("body", "FILES", i + 1, base + i)
      BY <3>1, <3>2, SaidData
    <3> QED
      BY <1>7, <3>1, <3>3
  <2>8. mHasReadLen' <= mFileLen /\ dataLen' = 0 /\ task' = TRUE
    BY <1>1, <1>2, <1>3 DEF IInv, Types
  <2>9. Types /\ Q # 0 /\ Q \in Nat
    BY DEF IInv
  <2> HIDE DEF e
  <2>10. e = At(d, d.o + dataLen - 1) /\ After(e) = mHasReadLen'
    BY <1>2, <2>6 DEF e
  <2>11. Utters(P, Q, D, d, dataLen, e)
    BY <1>1, <1>2, <1>3, <1>4, <1>7, <2>2, <2>3, <2>6, <2>7, <2>8, <2>9,
       <2>10 DEF Utters
  <2> QED
    BY <2>11, Speak
<1>10. Heard' /\ Saved'
  BY <1>2, HeardSame, SavedSame DEF IInv
<1> QED
  BY <1>8, <1>9, <1>10 DEF IInv

LEMMA OnWriteEndKeeps ==
    ASSUME IInv, OnWriteEnd
    PROVE  IInv'
<1>1. up /\ task /\ toSend = << >> /\ dataLen = 0 /\ ReadAll
  BY DEF OnWriteEnd, Callback
<1>2. /\ toSend' = Message("DATAEND", << >>) /\ dataLen' = dataLen
      /\ mHasReadLen' = mHasReadLen
      /\ fileLen' = fileLen /\ toClient' = toClient /\ up' = up
      /\ toServer' = toServer /\ srvBuf' = srvBuf /\ task' = task
      /\ armed' = FALSE
      /\ conn' = conn /\ fetched' = fetched /\ cliBuf' = cliBuf
      /\ file' = file /\ mRecvDataLen' = mRecvDataLen /\ told' = told
  BY DEF OnWriteEnd, Callback, cliVars
<1>3. /\ mFileLen \in Nat /\ mHasReadLen = mFileLen
      /\ HeadLen \in Nat \ {0}
  BY <1>1, Writes DEF ReadAll
<1>4. PICK P \in Nat, Q \in Nat \ {0}, D \in [Nat -> Place] :
          Synced(P, Q, D) /\ Continues(Q, D)
  BY <1>1, Writes
<1>5. Ends(D[Q]) /\ After(D[Q]) = mFileLen
  BY <1>1, <1>3, <1>4 DEF Continues
<1>6. /\ toSend' \in Seq(Units) /\ Len(toSend') = HeadLen
      /\ \A i \in 1 .. HeadLen : toSend'[i] = Unit("head", "DATAEND", i, 0)
  <2>1. << >> \in Seq(Nat) /\ Len(<< >>) = 0 /\ "DATAEND" \in Cmds
    BY DEF Cmds
  <2>2. /\ Message("DATAEND", << >>) \in Seq(Units)
        /\ Len(Message("DATAEND", << >>)) = HeadLen + Len(<< >>)
        /\ \A i \in 1 .. HeadLen :
              Message("DATAEND", << >>)[i]
                = Unit("head", "DATAEND", i, Len(<< >>))
    BY <2>1, MessageSeq, Zenon
  <2> QED
    BY <1>2, <1>3, <2>1, <2>2
<1>7. Types'
  BY <1>2, <1>6 DEF IInv, Types
<1>8. Talks'
  <2> DEFINE d == [cmd |-> "DATAEND", len |-> 0, base |-> mFileLen, o |-> 0]
             e == At(d, d.o + HeadLen - 1)
  <2>1. /\ d \in Place /\ d.cmd = "DATAEND" /\ d.len = 0
        /\ d.base = mFileLen /\ d.o = 0 /\ Size(d) = HeadLen + 0
        /\ \A i \in Nat : /\ At(d, i) \in Place /\ At(d, i).cmd = "DATAEND"
                          /\ At(d, i).len = 0
                          /\ At(d, i).base = mFileLen /\ At(d, i).o = i
                          /\ Size(At(d, i)) = HeadLen + 0
    <3>1. "DATAEND" \in ServerCmd /\ 0 \in Nat
      BY DEF ServerCmd
    <3> QED
      BY <1>3, <3>1, NewPlace
  <2> HIDE DEF d
  <2>2. Possible(d) /\ d.o + HeadLen <= Size(d)
    BY <1>3, <2>1 DEF Possible
  <2>3. Joins(D[Q], d) /\ d.cmd # "LOGINRET"
    BY <1>5, <2>1 DEF Joins
  <2>4. d.o + HeadLen - 1 = HeadLen - 1 /\ HeadLen - 1 \in Nat
    BY <1>3, <2>1
  <2>5. /\ e.cmd = "DATAEND" /\ e.len = 0 /\ e.base = mFileLen
        /\ e.o = HeadLen - 1 /\ Size(e) = HeadLen + 0
    BY <2>1, <2>4
  <2>6. Ends(e) /\ After(e) = mHasReadLen
    BY <1>3, <2>5 DEF Ends, After, Before
  <2>7. ASSUME NEW i \in 1 .. HeadLen
        PROVE  toSend'[i] = Said(At(d, d.o + i - 1))
    <3>1. d.o + i - 1 = i - 1 /\ i - 1 \in Nat
      BY <1>3, <2>1
    <3>2. /\ At(d, i - 1) \in Place /\ At(d, i - 1).cmd = "DATAEND"
          /\ At(d, i - 1).len = 0 /\ At(d, i - 1).o = i - 1
      BY <2>1, <3>1
    <3>3. Said(At(d, i - 1)) = Unit("head", "DATAEND", i, 0)
      BY <3>2, SaidHead
    <3> QED
      BY <1>6, <3>1, <3>3
  <2>8. mHasReadLen' <= mFileLen /\ dataLen' = 0 /\ task' = TRUE
    BY <1>1, <1>2, <1>3 DEF IInv, Types
  <2>9. Types /\ Q # 0 /\ Q \in Nat
    BY DEF IInv
  <2> HIDE DEF e
  <2>10. e = At(d, d.o + HeadLen - 1) /\ After(e) = mHasReadLen'
    BY <1>2, <2>6 DEF e
  <2>11. Utters(P, Q, D, d, HeadLen, e)
    BY <1>1, <1>2, <1>3, <1>4, <1>6, <2>2, <2>3, <2>6, <2>7, <2>8, <2>9,
       <2>10 DEF Utters
  <2> QED
    BY <2>11, Speak
<1>9. Heard' /\ Saved'
  BY <1>2, HeardSame, SavedSame DEF IInv
<1> QED
  BY <1>7, <1>8, <1>9 DEF IInv

\* The answer to the login.
LEMMA AnswerKeepsTalks ==
    ASSUME IInv, up, ~task, toSend = << >>,
           toSend' = Message("LOGINRET", <<mFileLen>>), task' = TRUE,
           fileLen' = fileLen, cliBuf' = cliBuf, toClient' = toClient,
           file' = file, mRecvDataLen' = mRecvDataLen, told' = told,
           dataLen' = dataLen, mHasReadLen' = mHasReadLen
    PROVE  Talks' /\ toSend' \in Seq(Units)
<1>1. PICK P \in Nat, Q \in Nat, D \in [Nat -> Place] : Synced(P, Q, D)
  BY DEF IInv, Talks
<1>2. Q = 0 /\ dataLen = 0 /\ mHasReadLen = 0
  BY <1>1 DEF Synced, Continues
<1>3. mFileLen \in Nat /\ HeadLen \in Nat \ {0}
  BY FileLenWord, Words DEF IInv, Types
<1>4. /\ toSend' \in Seq(Units) /\ Len(toSend') = HeadLen + 1
      /\ \A i \in 1 .. HeadLen : toSend'[i] = Unit("head", "LOGINRET", i, 1)
      /\ toSend'[HeadLen + 1] = Unit("body", "LOGINRET", 1, mFileLen)
  <2>1. /\ <<mFileLen>> \in Seq(Nat) /\ Len(<<mFileLen>>) = 1
        /\ "LOGINRET" \in Cmds /\ <<mFileLen>>[1] = mFileLen
        /\ 1 \in 1 .. 1
    BY <1>3 DEF Cmds
  <2> HIDE DEF mFileLen
  <2> QED
    BY <2>1, MessageSeq
<1> DEFINE d == [cmd |-> "LOGINRET", len |-> 1, base |-> mFileLen, o |-> 0]
           m == HeadLen + 1
           e == At(d, d.o + m - 1)
<1>5. /\ d \in Place /\ d.cmd = "LOGINRET" /\ d.len = 1
      /\ d.base = mFileLen /\ d.o = 0 /\ Size(d) = HeadLen + 1
      /\ \A i \in Nat : /\ At(d, i) \in Place /\ At(d, i).cmd = "LOGINRET"
                        /\ At(d, i).len = 1
                        /\ At(d, i).base = mFileLen /\ At(d, i).o = i
                        /\ Size(At(d, i)) = HeadLen + 1
  <2>1. "LOGINRET" \in ServerCmd /\ 0 \in Nat /\ 1 \in Nat
    BY DEF ServerCmd
  <2> QED
    BY <1>3, <2>1, NewPlace
<1> HIDE DEF d
<1>6. Possible(d) /\ m \in Nat \ {0} /\ d.o + m <= Size(d)
  BY <1>3, <1>5 DEF Possible
<1>7. d.o + m - 1 = HeadLen
  BY <1>3, <1>5
<1>8. /\ e.cmd = "LOGINRET" /\ e.len = 1 /\ e.o = HeadLen
      /\ Size(e) = HeadLen + 1
  BY <1>3, <1>5, <1>7
<1>9. Ends(e) /\ After(e) = mHasReadLen
  BY <1>2, <1>3, <1>8 DEF Ends, After, Before
<1>10. ASSUME NEW i \in 1 .. m
       PROVE  toSend'[i] = Said(At(d, d.o + i - 1))
  <2>1. d.o + i - 1 = i - 1 /\ i - 1 \in Nat
    BY <1>3, <1>5
  <2>2. /\ At(d, i - 1) \in Place /\ At(d, i - 1).cmd = "LOGINRET"
        /\ At(d, i - 1).len = 1 /\ At(d, i - 1).base = mFileLen
        /\ At(d, i - 1).o = i - 1
    BY <1>5, <2>1
  <2>3. CASE i <= HeadLen
    <3>1. i \in 1 .. HeadLen
      BY <1>3, <2>3
    <3>2. Said(At(d, i - 1)) = Unit("head", "LOGINRET", i, 1)
      BY <2>2, <3>1, SaidHead
    <3> QED
      BY <1>4, <2>1, <3>1, <3>2
  <2>4. CASE i = HeadLen + 1
    <3>1. i - 1 = HeadLen
      BY <1>3, <2>4
    <3>2. Said(At(d, i - 1)) = Unit("body", "LOGINRET", 1, mFileLen)
      BY <2>2, <3>1, SaidFirst
    <3> QED
      BY <1>4, <2>1, <2>4, <3>2
  <2> QED
    BY <1>3, <2>3, <2>4
<1>11. /\ mHasReadLen' <= mFileLen /\ dataLen' = 0 /\ Types
       /\ After(e) = mHasReadLen'
  BY <1>2, <1>3, <1>9 DEF IInv
<1> HIDE DEF m, e
<1>12. e = At(d, d.o + m - 1) /\ Len(toSend') = m
  BY <1>4 DEF e, m
<1>13. IF Q = 0 THEN d.o = 0 /\ d.cmd = "LOGINRET"
       ELSE Joins(D[Q], d) /\ d.cmd # "LOGINRET"
  BY <1>2, <1>5
<1>14. /\ dataLen' = 0 => Ends(e) /\ After(e) = mHasReadLen'
       /\ dataLen' # 0 => /\ e.cmd = "FILES" /\ e.len = dataLen' + 1
                          /\ e.o = HeadLen
                          /\ e.base + dataLen' = mHasReadLen'
  BY <1>9, <1>11
<1>15. Talks'
  <2>1. Possible(d) /\ m \in Nat \ {0} /\ d.o + m <= Size(d)
    BY <1>6 DEF m
  <2>2. \A i \in 1 .. m : toSend'[i] = Said(At(d, d.o + i - 1))
    BY <1>10 DEF m
  <2>3. Utters(P, Q, D, d, m, e)
    BY <1>1, <1>4, <1>11, <1>12, <1>13, <1>14, <2>1, <2>2 DEF Utters
  <2> QED
    BY <2>3, Speak
<1> QED
  BY <1>4, <1>15

\* The client's messages, as SaysJoin and SaysTaken.
LEMMA AsksJoin ==
    ASSUME NEW S, NEW s \in Seq(S), NEW t \in Seq(S), NEW p \in Nat,
           Asks(s, p), Asks(t, p + Len(s))
    PROVE  Asks(s \o t, p)
<1> SUFFICES ASSUME NEW i \in 1 .. Len(s \o t)
             PROVE  (s \o t)[i] = Asked(p + i)
  BY DEF Asks
<1>1. Len(s) \in Nat /\ Len(t) \in Nat /\ Len(s \o t) = Len(s) + Len(t)
  BY Joined
<1>2. CASE i <= Len(s)
  <2>1. i \in 1 .. Len(s)
    BY <1>1, <1>2
  <2> QED
    BY <2>1, Joined DEF Asks
<1>3. CASE i > Len(s)
  <2> DEFINE j == i - Len(s)
  <2>1. j \in 1 .. Len(t) /\ Len(s) + j = i /\ p + Len(s) + j = p + i
    BY <1>1, <1>3
  <2>2. (s \o t)[Len(s) + j] = t[j]
    BY <2>1, Joined
  <2>3. t[j] = Asked(p + Len(s) + j)
    BY <2>1 DEF Asks
  <2> HIDE DEF j
  <2> QED
    BY <2>1, <2>2, <2>3
<1> QED
  BY <1>1, <1>2, <1>3

LEMMA AsksTaken ==
    ASSUME NEW S, NEW s \in Seq(S), NEW n \in 0 .. Len(s), NEW p \in Nat,
           Asks(s, p)
    PROVE  Asks(SubSeq(s, 1, n), p) /\ Asks(Rest(s, n), p + n)
<1>1. Len(s) \in Nat /\ n \in Nat /\ n <= Len(s)
  OBVIOUS
<1>2. Asks(SubSeq(s, 1, n), p)
  BY <1>1, Taken DEF Asks
<1>3. Asks(Rest(s, n), p + n)
  <2> SUFFICES ASSUME NEW i \in 1 .. Len(Rest(s, n))
               PROVE  Rest(s, n)[i] = Asked(p + n + i)
    BY DEF Asks
  <2>1. i \in 1 .. Len(s) - n /\ n + i \in 1 .. Len(s)
        /\ p + n + i = p + (n + i)
    BY <1>1, Taken
  <2>2. Rest(s, n)[i] = s[n + i] /\ s[n + i] = Asked(p + (n + i))
    BY <2>1, Taken DEF Asks
  <2> QED
    BY <2>1, <2>2
<1> QED
  BY <1>2, <1>3

\* The server has taken p units when it starts to read.
LEMMA ServerHears ==
    ASSUME Types, Heard, NEW n, Recv(srvBuf, toServer, n),
           srvBuf' = AfterRecv(With(srvBuf, toServer, n)),
           toServer' = Rest(toServer, n),
           fetched' = fetched, told' = told,
           task' => \/ task
                    \/ /\ ~srvBuf.head
                       /\ Missing(With(srvBuf, toServer, n)) = 0
    PROVE  /\ Heard' /\ srvBuf' \in Buffer /\ toServer' \in Seq(Units)
           /\ Len(srvBuf'.got) < srvBuf'.total
<1> DEFINE buf == With(srvBuf, toServer, n)
           L   == Len(buf.got)
<1>1. PICK p \in Nat : Listens(p)
  BY DEF Heard
<1>2. /\ srvBuf \in Buffer /\ toServer \in Seq(Units)
      /\ srvBuf.got \in Seq(Units) /\ Len(srvBuf.got) \in Nat
      /\ Len(toServer) \in Nat /\ HeadLen \in Nat \ {0}
      /\ srvBuf.total \in Nat
  BY BufferFields, Words DEF Types
<1>3. /\ buf \in Buffer /\ buf.head = srvBuf.head /\ buf.cmd = srvBuf.cmd
      /\ buf.total = srvBuf.total
      /\ buf.got = srvBuf.got \o SubSeq(toServer, 1, n)
      /\ L = Len(srvBuf.got) + n /\ L \in 1 .. buf.total
      /\ n \in 1 .. Len(toServer)
  BY <1>2, Receives
<1> HIDE DEF buf
<1>4. n \in 0 .. Len(toServer) /\ n \in Nat \ {0} /\ L \in Nat \ {0}
  BY <1>2, <1>3
<1>5. /\ SubSeq(toServer, 1, n) \in Seq(Units)
      /\ toServer' \in Seq(Units) /\ Len(toServer') = Len(toServer) - n
  BY <1>2, <1>4, Taken
<1>6. Asks(buf.got, p) /\ Asks(toServer', p + L)
  <2>1. Asks(srvBuf.got, p) /\ Asks(toServer, p + Len(srvBuf.got))
    BY <1>1 DEF Listens
  <2>2. p + Len(srvBuf.got) \in Nat /\ p + Len(srvBuf.got) + n = p + L
    BY <1>2, <1>3, <1>4
  <2>3. /\ Asks(SubSeq(toServer, 1, n), p + Len(srvBuf.got))
        /\ Asks(toServer', p + L)
    BY <1>2, <1>4, <2>1, <2>2, AsksTaken
  <2> QED
    BY <1>2, <1>3, <1>5, <2>1, <2>3, AsksJoin
<1>7. p + L + Len(toServer') = Questions /\ Questions' = Questions
  <2>1. p + Len(srvBuf.got) + Len(toServer) = Questions
    BY <1>1 DEF Listens
  <2>2. Questions' = Questions
    BY DEF Questions
  <2> QED
    BY <1>2, <1>3, <1>4, <1>5, <2>1, <2>2
<1>8. Questions \in Nat /\ Questions <= 2 * (HeadLen + 1)
  BY <1>2 DEF Questions
<1>9. (told.total # << >> => fetched)'
  BY <1>1 DEF Listens
<1>10. srvBuf' = AfterRecv(buf)
  BY DEF buf
<1>11. CASE Missing(buf) > 0
  <2>1. srvBuf' = buf /\ Len(buf.got) < buf.total
    BY <1>3, <1>10, <1>11, AfterReceived
  <2>2. task' => p > HeadLen
    BY <1>1, <1>11 DEF Listens, buf
  <2>3. /\ Asks(srvBuf'.got, p) /\ Asks(toServer', p + Len(srvBuf'.got))
        /\ p + Len(srvBuf'.got) + Len(toServer') = Questions'
    BY <1>6, <1>7, <2>1
  <2>4. IF srvBuf'.head
        THEN srvBuf'.total = HeadLen
             /\ p \in {0, HeadLen + 1, 2 * (HeadLen + 1)}
        ELSE /\ srvBuf'.total = 1
             /\ \/ p = HeadLen /\ srvBuf'.cmd = "LOGIN"
                \/ p = 2 * HeadLen + 1 /\ srvBuf'.cmd = "CONTROL_PLAY"
    BY <1>1, <1>3, <2>1 DEF Listens
  <2>5. Listens(p)'
    BY <1>9, <2>2, <2>3, <2>4 DEF Listens, Asks
  <2> QED
    BY <1>3, <1>5, <2>1, <2>5 DEF Heard
<1>12. CASE Missing(buf) = 0
  <2>1. p + L \in Nat /\ p + L <= 2 * (HeadLen + 1)
    <3>1. Len(toServer') \in Nat
      BY <1>5
    <3> QED
      BY <1>2, <1>4, <1>7, <1>8, <3>1
  <2>5. PICK q \in Nat : q = p + L
    BY <2>1
  <2>2. ASSUME srvBuf'.got = << >>
        PROVE  /\ Asks(srvBuf'.got, q)
               /\ Asks(toServer', q + Len(srvBuf'.got))
               /\ q + Len(srvBuf'.got) + Len(toServer') = Questions'
    <3>1. Len(srvBuf'.got) = 0 /\ q + 0 = q
      BY <2>1, <2>2
    <3> QED
      BY <1>6, <1>7, <2>5, <3>1 DEF Asks
  <2>3. CASE srvBuf.head
    <3>1. srvBuf' = BodyOf(buf) /\ L = buf.total
      BY <1>3, <1>10, <1>12, <2>3, AfterReceived
    <3>2. /\ srvBuf' \in Buffer /\ ~srvBuf'.head
          /\ srvBuf'.cmd = buf.got[1].cmd /\ srvBuf'.total = buf.got[1].val
          /\ srvBuf'.got = << >>
      BY <1>3, <3>1, AfterReceived
    <3>3. L = HeadLen /\ p \in {0, HeadLen + 1}
      <4>1. L = HeadLen /\ p \in {0, HeadLen + 1, 2 * (HeadLen + 1)}
        BY <1>1, <1>3, <2>3, <3>1 DEF Listens
      <4> QED
        BY <1>2, <2>1, <4>1
    <3>4. buf.got[1] = Asked(p + 1)
      BY <1>4, <1>6 DEF Asks
    <3>5. /\ Asked(p + 1).val = 1
          /\ p = 0 => Asked(p + 1).cmd = "LOGIN"
          /\ p = HeadLen + 1 => Asked(p + 1).cmd = "CONTROL_PLAY"
      <4>1. CASE p = 0
        <5>1. p + 1 <= HeadLen /\ p # HeadLen + 1
          BY <1>2, <4>1
        <5> QED
          BY <4>1, <5>1 DEF Asked, Unit
      <4>2. CASE p = HeadLen + 1
        <5>1. /\ ~(p + 1 <= HeadLen) /\ p + 1 # HeadLen + 1
              /\ p + 1 <= 2 * HeadLen + 1 /\ p # 0
          BY <1>2, <4>2
        <5> QED
          BY <4>2, <5>1 DEF Asked, Unit
      <4> QED
        BY <3>3, <4>1, <4>2
    <3>6. /\ srvBuf'.total = 1
          /\ \/ q = HeadLen /\ srvBuf'.cmd = "LOGIN"
             \/ q = 2 * HeadLen + 1 /\ srvBuf'.cmd = "CONTROL_PLAY"
      BY <1>2, <2>5, <3>2, <3>3, <3>4, <3>5
    <3>7. task' => q > HeadLen
      <4>1. task' => task
        BY <2>3
      <4> QED
        BY <1>1, <1>2, <1>4, <2>5, <4>1 DEF Listens
    <3>8. Listens(q)'
      BY <1>9, <2>2, <3>2, <3>6, <3>7 DEF Listens, Asks
    <3>9. Len(srvBuf'.got) = 0
      BY <3>2
    <3> QED
      BY <1>5, <2>1, <3>2, <3>6, <3>8, <3>9 DEF Heard
  <2>4. CASE ~srvBuf.head
    <3>1. srvBuf' = Reset /\ L = buf.total /\ srvBuf' \in Buffer
      BY <1>3, <1>10, <1>12, <2>4, AfterReceived
    <3>2. srvBuf'.head /\ srvBuf'.total = HeadLen /\ srvBuf'.got = << >>
      BY <3>1 DEF Reset
    <3>3. L = 1 /\ (p = HeadLen \/ p = 2 * HeadLen + 1)
      BY <1>1, <1>3, <2>4, <3>1 DEF Listens
    <3>4. /\ q \in {0, HeadLen + 1, 2 * (HeadLen + 1)}
          /\ q > HeadLen
      BY <1>2, <2>5, <3>3
    <3>6. /\ Asks(srvBuf'.got, q)
          /\ Asks(toServer', q + Len(srvBuf'.got))
          /\ q + Len(srvBuf'.got) + Len(toServer') = Questions'
      BY <2>2, <3>2
    <3>7. Listens(q)'
      BY <1>9, <3>2, <3>4, <3>6 DEF Listens, Asks
    <3>5. Len(srvBuf'.got) = 0
      BY <3>2
    <3> QED
      BY <1>2, <1>5, <2>1, <3>1, <3>2, <3>5, <3>7 DEF Heard
  <2> QED
    BY <2>3, <2>4
<1> QED
  BY <1>3, <1>11, <1>12, AfterReceived, SMTT(30)

LEMMA ServerReadsKeeps ==
    ASSUME IInv, NEW n, ServerReads(n)
    PROVE  IInv'
<1> DEFINE buf   == With(srvBuf, toServer, n)
           whole == ~buf.head /\ Missing(buf) = 0
           login == whole /\ buf.cmd = "LOGIN" /\ ~task
           start == whole /\ buf.cmd = "CONTROL_PLAY" /\ task
<1>1. /\ up /\ toSend = << >> /\ Recv(srvBuf, toServer, n)
      /\ srvBuf' = AfterRecv(buf) /\ toServer' = Rest(toServer, n)
      /\ task' = (task \/ login)
      /\ toSend' = IF login THEN Message("LOGINRET", <<mFileLen>>) ELSE << >>
      /\ armed' = ArmedAfter(start)
      /\ fileLen' = fileLen /\ toClient' = toClient /\ up' = up
      /\ dataLen' = dataLen /\ mHasReadLen' = mHasReadLen
      /\ conn' = conn /\ fetched' = fetched /\ cliBuf' = cliBuf
      /\ file' = file /\ mRecvDataLen' = mRecvDataLen /\ told' = told
  BY DEF ServerReads, Callback, cliVars
<1>2. task \in BOOLEAN /\ armed \in BOOLEAN
  BY DEF IInv, Types
<1>3. buf.head = srvBuf.head
  BY <1>1, Receives DEF IInv, Types
<1>4. task' => task \/ (~srvBuf.head /\ Missing(buf) = 0)
  BY <1>1, <1>3
<1>5. /\ Heard' /\ srvBuf' \in Buffer /\ toServer' \in Seq(Units)
      /\ Len(srvBuf'.got) < srvBuf'.total
  BY <1>1, <1>4, ServerHears DEF IInv
<1>6. Talks' /\ toSend' \in Seq(Units)
  <2>1. CASE login
    <3>1. ~task /\ task' = TRUE /\ toSend' = Message("LOGINRET", <<mFileLen>>)
      BY <1>1, <2>1
    <3> QED
      BY <1>1, <3>1, AnswerKeepsTalks
  <2>2. CASE ~login
    <3>1. task' = task /\ toSend' = toSend /\ toSend \in Seq(Units)
      BY <1>1, <1>2, <2>2 DEF IInv, Types
    <3>2. Talks'
      BY <1>1, <3>1, TalksSame DEF IInv
    <3> QED
      BY <3>1, <3>2
  <2> QED
    BY <2>1, <2>2
<1>7. task' \in BOOLEAN /\ armed' \in BOOLEAN
  BY <1>1, <1>2 DEF ArmedAfter
<1>8. Types'
  BY <1>1, <1>5, <1>6, <1>7 DEF IInv, Types
<1>9. Saved'
  BY <1>1, SavedSame DEF IInv
<1> QED
  BY <1>5, <1>6, <1>8, <1>9 DEF IInv

-----------------------------------------------------------------------------
(***************************************************************************)
(* The client.                                                             *)
(***************************************************************************)
LEMMA ClientMessage ==
    ASSUME NEW cmd \in ClientCmd
    PROVE  /\ Message(cmd, <<0>>) \in Seq(Units)
           /\ Len(Message(cmd, <<0>>)) = HeadLen + 1
           /\ cmd = "LOGIN" => Asks(Message(cmd, <<0>>), 0)
           /\ cmd = "CONTROL_PLAY" => Asks(Message(cmd, <<0>>), HeadLen + 1)
<1> DEFINE s == Message(cmd, <<0>>)
<1>1. /\ s \in Seq(Units) /\ Len(s) = HeadLen + 1
      /\ \A i \in 1 .. HeadLen : s[i] = Unit("head", cmd, i, 1)
      /\ s[HeadLen + 1] = Unit("body", cmd, 1, 0)
  <2>1. /\ <<0>> \in Seq(Nat) /\ Len(<<0>>) = 1 /\ <<0>>[1] = 0
        /\ 1 \in 1 .. 1 /\ cmd \in Cmds
    BY DEF Cmds, ClientCmd
  <2> QED
    BY <2>1, MessageSeq
<1> HIDE DEF s
<1>2. HeadLen \in Nat \ {0}
  BY Words
<1>3. ASSUME cmd = "LOGIN" PROVE Asks(s, 0)
  <2> SUFFICES ASSUME NEW i \in 1 .. HeadLen + 1 PROVE s[i] = Asked(0 + i)
    BY <1>1 DEF Asks
  <2>1. CASE i <= HeadLen
    <3>1. i \in 1 .. HeadLen /\ 0 + i = i
      BY <1>2, <2>1
    <3>2. Asked(i) = Unit("head", "LOGIN", i, 1)
      BY <2>1 DEF Asked
    <3> QED
      BY <1>1, <1>3, <3>1, <3>2
  <2>2. CASE i = HeadLen + 1
    <3>1. ~(i <= HeadLen) /\ 0 + i = i
      BY <1>2, <2>2
    <3>2. Asked(i) = Unit("body", "LOGIN", 1, 0)
      BY <2>2, <3>1 DEF Asked
    <3> QED
      BY <1>1, <1>3, <2>2, <3>1, <3>2
  <2> QED
    BY <1>2, <2>1, <2>2
<1>4. ASSUME cmd = "CONTROL_PLAY" PROVE Asks(s, HeadLen + 1)
  <2> SUFFICES ASSUME NEW i \in 1 .. HeadLen + 1
               PROVE  s[i] = Asked(HeadLen + 1 + i)
    BY <1>1 DEF Asks
  <2>1. /\ ~(HeadLen + 1 + i <= HeadLen) /\ HeadLen + 1 + i # HeadLen + 1
        /\ HeadLen + 1 + i - (HeadLen + 1) = i
    BY <1>2
  <2>2. CASE i <= HeadLen
    <3>1. i \in 1 .. HeadLen /\ HeadLen + 1 + i <= 2 * HeadLen + 1
      BY <1>2, <2>2
    <3>2. Asked(HeadLen + 1 + i) = Unit("head", "CONTROL_PLAY", i, 1)
      <4>1. PICK k \in Nat : k = HeadLen + 1 + i
        BY <1>2
      <4>2. /\ ~(k <= HeadLen) /\ k # HeadLen + 1 /\ k <= 2 * HeadLen + 1
            /\ k - (HeadLen + 1) = i
        BY <1>2, <3>1, <4>1
      <4>3. Asked(k) = Unit("head", "CONTROL_PLAY", i, 1)
        BY <4>2 DEF Asked
      <4> QED
        BY <4>1, <4>3
    <3> QED
      BY <1>1, <1>4, <3>1, <3>2
  <2>3. CASE i = HeadLen + 1
    <3>1. ~(HeadLen + 1 + i <= 2 * HeadLen + 1)
      BY <1>2, <2>3
    <3>2. Asked(HeadLen + 1 + i) = Unit("body", "CONTROL_PLAY", 1, 0)
      BY <2>1, <3>1 DEF Asked
    <3> QED
      BY <1>1, <1>4, <2>3, <3>2
  <2> QED
    BY <1>2, <2>2, <2>3
<1> QED
  BY <1>1, <1>3, <1>4 DEF s

\* The client asks once more.
LEMMA HeardMore ==
    ASSUME Types, NEW p \in Nat, Listens(p), NEW q \in Nat, q = Questions,
           NEW s \in Seq(Units), Asks(s, q), Len(s) = HeadLen + 1,
           toServer' = toServer \o s, srvBuf' = srvBuf, task' = task,
           told'.total # << >> => fetched', Questions' = q + (HeadLen + 1)
    PROVE  Heard' /\ toServer' \in Seq(Units)
<1>1. /\ toServer \in Seq(Units) /\ Len(toServer) \in Nat
      /\ Len(srvBuf.got) \in Nat /\ HeadLen \in Nat
  BY BufferFields, Words DEF Types
<1>2. /\ Asks(toServer, p + Len(srvBuf.got))
      /\ p + Len(srvBuf.got) + Len(toServer) = q
      /\ p + Len(srvBuf.got) \in Nat
  BY <1>1 DEF Listens
<1>3. /\ toServer' \in Seq(Units)
      /\ Len(toServer') = Len(toServer) + (HeadLen + 1)
  <2>1. /\ toServer \o s \in Seq(Units)
        /\ Len(toServer \o s) = Len(toServer) + Len(s)
    BY <1>1, Joined, Zenon
  <2> QED
    BY <2>1
<1>4. Asks(toServer', p + Len(srvBuf.got))
  BY <1>1, <1>2, AsksJoin
<1>5. p + Len(srvBuf.got) + Len(toServer') = Questions'
  <2>1. PICK a \in Nat, b \in Nat, h \in Nat :
            a = Len(srvBuf.got) /\ b = Len(toServer) /\ h = HeadLen
    BY <1>1
  <2>2. p + a + b = q /\ Len(toServer') = b + (h + 1)
    BY <1>2, <1>3, <2>1
  <2>3. p + a + (b + (h + 1)) = q + (h + 1)
    BY <2>2
  <2> QED
    BY <2>1, <2>2, <2>3
<1>6. Asks(srvBuf.got, p)
  BY DEF Listens
<1>7. Listens(p)'
  BY <1>4, <1>5, <1>6 DEF Listens
<1> QED
  BY <1>3, <1>7 DEF Heard

LEMMA FetchKeeps ==
    ASSUME IInv, Fetch
    PROVE  IInv'
<1>1. /\ ~fetched /\ fetched' = TRUE
      /\ toServer' = toServer \o Message("LOGIN", <<0>>)
      /\ fileLen' = fileLen /\ toClient' = toClient /\ up' = up
      /\ srvBuf' = srvBuf /\ task' = task /\ armed' = armed
      /\ toSend' = toSend /\ dataLen' = dataLen
      /\ mHasReadLen' = mHasReadLen
      /\ conn' = conn /\ cliBuf' = cliBuf /\ file' = file
      /\ mRecvDataLen' = mRecvDataLen /\ told' = told
  BY DEF Fetch, Client, srvVars
<1>2. PICK p \in Nat : Listens(p)
  BY DEF IInv, Heard
<1>3. told.total = << >>
  BY <1>1, <1>2 DEF Listens
<1>4. Questions = 0 /\ Questions' = 0 + (HeadLen + 1) /\ Types
  BY <1>1, <1>3, Words DEF Questions, IInv
<1>5. /\ Message("LOGIN", <<0>>) \in Seq(Units)
      /\ Len(Message("LOGIN", <<0>>)) = HeadLen + 1
      /\ Asks(Message("LOGIN", <<0>>), 0)
  BY ClientMessage DEF ClientCmd
<1>6. Heard' /\ toServer' \in Seq(Units)
  BY <1>1, <1>2, <1>4, <1>5, HeardMore
<1>7. Types'
  BY <1>1, <1>6 DEF IInv, Types
<1>8. Talks' /\ Saved'
  BY <1>1, TalksSame, SavedSame DEF IInv
<1> QED
  BY <1>6, <1>7, <1>8 DEF IInv

LEMMA ClientEndsKeeps ==
    ASSUME IInv, ClientEnds
    PROVE  IInv'
<1>1. /\ told' = [told EXCEPT !.saveDone = @ \/ cliBuf.head]
      /\ conn' = "closed" /\ fetched' = fetched
      /\ fileLen' = fileLen /\ toClient' = toClient /\ up' = up
      /\ srvBuf' = srvBuf /\ task' = task /\ armed' = armed
      /\ toSend' = toSend /\ dataLen' = dataLen
      /\ mHasReadLen' = mHasReadLen /\ toServer' = toServer
      /\ cliBuf' = cliBuf /\ file' = file /\ mRecvDataLen' = mRecvDataLen
  BY DEF ClientEnds, Client, srvVars
<1>2. told \in [total : Seq(Int), end : Seq(Int), saveDone : BOOLEAN]
  BY DEF IInv, Types
<1>3. cliBuf.head \in BOOLEAN
  BY BufferFields DEF IInv, Types
<1>4. /\ told' \in [total : Seq(Int), end : Seq(Int), saveDone : BOOLEAN]
      /\ told'.total = told.total /\ told'.end = told.end
  BY <1>1, <1>2, <1>3
<1>5. Types'
  BY <1>1, <1>4 DEF IInv, Types
<1>6. Talks' /\ Heard' /\ Saved'
  BY <1>1, <1>4, TalksSame, HeardSame, SavedSame DEF IInv
<1> QED
  BY <1>5, <1>6 DEF IInv

\* What the client has when it has received n units more.
Took(buf, P, Q, D) ==
    /\ buf \in Buffer /\ buf.head = cliBuf.head
    /\ buf.cmd = cliBuf.cmd /\ buf.total = cliBuf.total
    /\ buf.got \in Seq(Units)
    /\ Len(buf.got) \in Nat \ {0} /\ Len(buf.got) <= buf.total
    /\ P + Len(buf.got) <= Q
    /\ Says(buf.got, D, P) /\ Says(toClient', D, P + Len(buf.got))
    /\ P + Len(buf.got) + Len(toClient') + Len(toSend) = Q
    /\ Says(toSend, D, P + Len(buf.got) + Len(toClient'))
    /\ toClient' \in Seq(Units) /\ Len(toClient') <= Cap

LEMMA ClientHears ==
    ASSUME Types, NEW P \in Nat, NEW Q \in Nat, NEW D \in [Nat -> Place],
           Synced(P, Q, D), NEW n, Recv(cliBuf, toClient, n),
           toClient' = Rest(toClient, n),
           NEW buf, buf = With(cliBuf, toClient, n)
    PROVE  Took(buf, P, Q, D)
<1>1. /\ cliBuf \in Buffer /\ toClient \in Seq(Units)
      /\ cliBuf.got \in Seq(Units) /\ Held \in Nat
      /\ Len(toClient) \in Nat /\ cliBuf.total \in Nat
      /\ Len(toSend) \in Nat /\ Len(toClient) <= Cap /\ Cap \in Nat
  BY BufferFields, Words DEF Types, Held
<1>2. /\ buf \in Buffer /\ buf.head = cliBuf.head /\ buf.cmd = cliBuf.cmd
      /\ buf.total = cliBuf.total
      /\ buf.got = cliBuf.got \o SubSeq(toClient, 1, n)
      /\ Len(buf.got) = Held + n /\ Len(buf.got) \in 1 .. buf.total
      /\ n \in 1 .. Len(toClient)
  BY <1>1, Receives DEF Held
<1>3. n \in 0 .. Len(toClient) /\ n \in Nat
  BY <1>1, <1>2
<1>4. /\ SubSeq(toClient, 1, n) \in Seq(Units)
      /\ toClient' \in Seq(Units) /\ Len(toClient') = Len(toClient) - n
  BY <1>1, <1>3, Taken
<1>5. /\ Says(cliBuf.got, D, P) /\ Says(toClient, D, P + Held)
      /\ P + Held + Len(toClient) + Len(toSend) = Q /\ P + Held \in Nat
      /\ Says(toSend, D, P + Held + Len(toClient))
  BY <1>1 DEF Synced, Stream
<1>6. /\ Says(SubSeq(toClient, 1, n), D, P + Held)
      /\ Says(toClient', D, P + Held + n)
  BY <1>1, <1>3, <1>5, SaysTaken
<1>7. Says(buf.got, D, P)
  BY <1>1, <1>2, <1>4, <1>5, <1>6, SaysJoin DEF Held
<1>8. /\ P + Held + n = P + Len(buf.got)
      /\ P + Len(buf.got) + Len(toClient') = P + Held + Len(toClient)
      /\ Len(toClient') \in Nat /\ Len(toClient') <= Cap
  <2>1. n <= Len(toClient) /\ Len(buf.got) = Held + n
        /\ Len(toClient') = Len(toClient) - n
    BY <1>2, <1>4
  <2> QED
    BY <1>1, <1>3, <2>1
<1>10. Len(buf.got) \in Nat \ {0} /\ Len(buf.got) <= buf.total
  BY <1>1, <1>2, <1>3
<1>11. P + Len(buf.got) + Len(toClient') + Len(toSend) = Q
  BY <1>5, <1>8
<1>12. P + Len(buf.got) <= Q
  BY <1>1, <1>8, <1>10, <1>11
<1>9. buf.got \in Seq(Units)
  BY <1>2, BufferFields
<1>13. Says(toSend, D, P + Len(buf.got) + Len(toClient'))
  BY <1>5, <1>8
<1>14. Says(toClient', D, P + Len(buf.got))
  BY <1>6, <1>8
<1> QED
  BY <1>2, <1>4, <1>7, <1>8, <1>9, <1>10, <1>11, <1>12, <1>13, <1>14
  DEF Took

\* The client has taken R units.
LEMMA SyncedMoves ==
    ASSUME NEW P, NEW Q \in Nat, NEW D \in [Nat -> Place], Synced(P, Q, D),
           NEW R \in Nat, fileLen' = fileLen, up' = up, task' = task,
           dataLen' = dataLen, mHasReadLen' = mHasReadLen, toSend' = toSend,
           Says(cliBuf'.got, D, R), Says(toClient', D, R + Len(cliBuf'.got)),
           Says(toSend, D, R + Len(cliBuf'.got) + Len(toClient')),
           R + Len(cliBuf'.got) + Len(toClient') + Len(toSend) = Q,
           Expects(cliBuf', Len(file'), R, D), Told(R)'
    PROVE  Talks'
<1>1. Script(Q, D)' /\ mFileLen' = mFileLen
  BY ScriptSame DEF Synced, mFileLen
<1>2. Stream(R, Q, D)'
  BY DEF Stream, Held
<1>3. (up => Continues(Q, D))' /\ (Q > 0 => task)'
  BY <1>1 DEF Synced, Continues
<1>4. Expects(cliBuf, Len(file), R, D)'
  OBVIOUS
<1>5. Synced(R, Q, D)'
  BY <1>1, <1>2, <1>3, <1>4 DEF Synced
<1> QED
  BY <1>5 DEF Talks

\* The client reads, and buf is what it then has.
Reading(buf, P, Q, D) ==
    /\ Synced(P, Q, D) /\ Took(buf, P, Q, D)
    /\ cliBuf' = AfterRecv(buf)
    /\ fileLen' = fileLen /\ up' = up /\ srvBuf' = srvBuf /\ task' = task
    /\ armed' = armed /\ toSend' = toSend /\ dataLen' = dataLen
    /\ mHasReadLen' = mHasReadLen /\ conn' = conn /\ fetched' = fetched

\* What the buffer has become.
LEMMA ReadingBuffer ==
    ASSUME NEW P, NEW Q, NEW D, NEW buf, Reading(buf, P, Q, D)
    PROVE  /\ Missing(buf) \in Nat /\ cliBuf' \in Buffer
           /\ Len(cliBuf'.got) <= cliBuf'.total
           /\ Len(cliBuf'.got) = cliBuf'.total =>
                  ~cliBuf'.head /\ cliBuf'.total = 0
           /\ Missing(buf) > 0 => cliBuf' = buf
           /\ Missing(buf) = 0 => Len(buf.got) = buf.total
           /\ Missing(buf) = 0 /\ buf.head =>
                 /\ cliBuf' = BodyOf(buf) /\ cliBuf'.got = << >>
                 /\ ~cliBuf'.head /\ cliBuf'.cmd = buf.got[1].cmd
                 /\ cliBuf'.total = buf.got[1].val
           /\ Missing(buf) = 0 /\ ~buf.head =>
                 cliBuf' = Reset /\ cliBuf'.got = << >> /\ cliBuf'.head
                 /\ cliBuf'.total = HeadLen
<1>1. /\ buf \in Buffer /\ buf.total \in Nat /\ Len(buf.got) \in Nat \ {0}
      /\ Len(buf.got) <= buf.total /\ cliBuf' = AfterRecv(buf)
      /\ HeadLen \in Nat \ {0} /\ buf.got \in Seq(Units)
  BY BufferFields, Words DEF Reading, Took
<1>2. Len(buf.got) \in 1 .. buf.total
  BY <1>1
<1>3. /\ Missing(buf) \in Nat
      /\ Missing(buf) > 0 => AfterRecv(buf) = buf /\ Len(buf.got) < buf.total
      /\ Missing(buf) = 0 /\ ~buf.head =>
            AfterRecv(buf) = Reset /\ Len(buf.got) = buf.total
      /\ Missing(buf) = 0 /\ buf.head =>
            AfterRecv(buf) = BodyOf(buf) /\ Len(buf.got) = buf.total
      /\ AfterRecv(buf) \in Buffer
      /\ ~BodyOf(buf).head /\ BodyOf(buf).cmd = buf.got[1].cmd
      /\ BodyOf(buf).total = buf.got[1].val /\ BodyOf(buf).got = << >>
  BY <1>1, <1>2, AfterReceived
<1>4. cliBuf' \in Buffer /\ cliBuf'.total \in Nat /\ Len(cliBuf'.got) \in Nat
  BY <1>1, <1>3, BufferFields
<1>5. CASE Missing(buf) > 0
  <2>1. cliBuf' = buf /\ Len(buf.got) < buf.total /\ Missing(buf) # 0
    BY <1>1, <1>3, <1>5
  <2> QED
    BY <1>1, <1>3, <1>4, <2>1
<1>6. CASE Missing(buf) = 0 /\ buf.head
  <2>1. /\ cliBuf' = BodyOf(buf) /\ cliBuf'.got = << >>
        /\ ~cliBuf'.head /\ cliBuf'.cmd = buf.got[1].cmd
        /\ cliBuf'.total = buf.got[1].val /\ Len(buf.got) = buf.total
    BY <1>1, <1>3, <1>6
  <2>2. Len(cliBuf'.got) = 0 /\ ~(Missing(buf) > 0)
    BY <1>6, <2>1
  <2> QED
    BY <1>3, <1>4, <1>6, <2>1, <2>2
<1>7. CASE Missing(buf) = 0 /\ ~buf.head
  <2>1. /\ cliBuf' = Reset /\ Len(buf.got) = buf.total
    BY <1>1, <1>3, <1>7
  <2>2. cliBuf'.got = << >> /\ cliBuf'.head /\ cliBuf'.total = HeadLen
    BY <2>1 DEF Reset
  <2>3. Len(cliBuf'.got) = 0 /\ ~(Missing(buf) > 0)
    BY <1>7, <2>2
  <2>4. Len(cliBuf'.got) < cliBuf'.total
    BY <1>1, <2>2, <2>3
  <2> QED
    BY <1>1, <1>3, <1>4, <1>7, <2>1, <2>2, <2>3, <2>4
<1> QED
  BY <1>3, <1>5, <1>6, <1>7

\* Types when the client has read.
LEMMA ReadingTypes ==
    ASSUME Types, NEW P, NEW Q, NEW D, NEW buf, Reading(buf, P, Q, D),
           toServer' \in Seq(Units), file' \in Seq(Nat),
           told' \in [total : Seq(Int), end : Seq(Int), saveDone : BOOLEAN]
    PROVE  Types'
<1>1. /\ cliBuf' \in Buffer /\ Len(cliBuf'.got) <= cliBuf'.total
      /\ Len(cliBuf'.got) = cliBuf'.total =>
             ~cliBuf'.head /\ cliBuf'.total = 0
  BY ReadingBuffer
<1> QED
  BY <1>1 DEF Types, Reading, Took

\* Talks when the client has taken R units: all of the buffer.
LEMMA ReadingMoves ==
    ASSUME NEW P \in Nat, NEW Q \in Nat, NEW D \in [Nat -> Place], NEW buf,
           Reading(buf, P, Q, D), cliBuf'.got = << >>,
           NEW R \in Nat, R = P + Len(buf.got),
           Expects(cliBuf', Len(file'), R, D), Told(R)'
    PROVE  Talks'
<1>1. Len(cliBuf'.got) = 0 /\ R + Len(cliBuf'.got) = R
  OBVIOUS
<1>2. Says(cliBuf'.got, D, R)
  BY <1>1 DEF Says
<1> QED
  BY <1>1, <1>2, SyncedMoves DEF Reading, Took

\* Part of a header or of a body.
LEMMA PartKeeps ==
    ASSUME IInv, NEW P \in Nat, NEW Q \in Nat, NEW D \in [Nat -> Place],
           NEW buf, Reading(buf, P, Q, D), Missing(buf) > 0, ReadsPart(buf)
    PROVE  IInv'
<1>1. /\ toServer' = toServer /\ file' = file /\ told' = told
      /\ mRecvDataLen' = mRecvDataLen
  BY DEF ReadsPart
<1>2. cliBuf' = buf
  BY ReadingBuffer
<1>3. Types'
  BY <1>1, ReadingTypes DEF IInv, Types
<1>4. Expects(cliBuf', Len(file'), P, D)
  BY <1>1, <1>2 DEF Reading, Took, Synced, Expects
<1>5. Told(P)'
  BY <1>1, <1>2 DEF Reading, Took, Synced, Told, mFileLen
<1>6. Talks'
  BY <1>2, <1>4, <1>5, SyncedMoves DEF Reading, Took
<1>7. Heard' /\ Saved'
  BY <1>1, HeardSame, SavedSame DEF IInv, Reading
<1> QED
  BY <1>3, <1>6, <1>7 DEF IInv

\* A whole header is that of the next message of the speech.
LEMMA HeaderRead ==
    ASSUME IInv, NEW P \in Nat, NEW Q \in Nat, NEW D \in [Nat -> Place],
           NEW buf, Reading(buf, P, Q, D), Missing(buf) = 0, buf.head,
           NEW R \in Nat, R = P + Len(buf.got)
    PROVE  /\ Expects(cliBuf', Len(file), R, D)
           /\ told.end = << >>
           /\ told.total = IF R > HeadLen THEN <<AsInt(mFileLen)>> ELSE << >>
           /\ cliBuf'.got = << >> /\ ~cliBuf'.head
           /\ cliBuf'.total = buf.got[1].val
<1>1. /\ Len(buf.got) = buf.total
      /\ cliBuf'.got = << >> /\ ~cliBuf'.head
      /\ cliBuf'.cmd = buf.got[1].cmd /\ cliBuf'.total = buf.got[1].val
  BY ReadingBuffer
<1>2. /\ cliBuf.head /\ Script(Q, D) /\ Told(P) /\ P + Len(buf.got) <= Q
      /\ Says(buf.got, D, P) /\ buf.total = cliBuf.total
      /\ Expects(cliBuf, Len(file), P, D)
  BY DEF Reading, Took, Synced
<1>3. /\ Len(buf.got) = HeadLen /\ HeadLen \in Nat \ {0}
      /\ P = 0 \/ P > 0
      /\ P = 0 => Len(file) = 0
      /\ P > 0 => Ends(D[P]) /\ After(D[P]) = Len(file)
  BY <1>1, <1>2, Words DEF Expects
<1>4. /\ \A i \in 1 .. HeadLen :
            D[P + i].o = i - 1 /\ SameMessage(D[P + 1], D[P + i])
      /\ P = 0 => D[P + 1].cmd = "LOGINRET"
      /\ P > 0 => /\ D[P + 1].cmd # "LOGINRET"
                  /\ D[P + 1].base = After(D[P])
  <2>1. HeadLen \in 1 .. HeadLen /\ P + HeadLen <= Q /\ (P = 0 \/ Ends(D[P]))
    BY <1>2, <1>3
  <2> QED
    BY <1>2, <2>1, HeadPart
<1>5. R = P + HeadLen /\ R > 0 /\ HeadLen \in 1 .. HeadLen /\ 1 \in 1 .. HeadLen
  BY <1>3
<1>6. D[R].o = HeadLen - 1 /\ SameMessage(D[P + 1], D[R])
  BY <1>4, <1>5
<1>7. Before(D[R]) = Len(file)
  BY <1>3, <1>4, <1>6 DEF Before, SameMessage
<1>8. buf.got[1].cmd = D[R].cmd /\ buf.got[1].val = D[R].len
  <2>1. buf.got[1] = Said(D[P + 1]) /\ D[P + 1].o = 1 - 1
    BY <1>2, <1>3, <1>4, <1>5 DEF Says
  <2>2. D[P + 1] \in Place /\ D[P + 1].o < HeadLen
    BY <1>3, <2>1
  <2>3. Said(D[P + 1]).cmd = D[P + 1].cmd /\ Said(D[P + 1]).val = D[P + 1].len
    BY <2>2, SaidFields
  <2> QED
    BY <1>6, <2>1, <2>3 DEF SameMessage
<1>9. Expects(cliBuf', Len(file), R, D)
  BY <1>1, <1>5, <1>6, <1>7, <1>8 DEF Expects
<1>10. told.end = << >>
  BY <1>2 DEF Told
<1>11. P > HeadLen <=> R > HeadLen
  <2>1. CASE P = 0
    BY <1>3, <1>5, <2>1
  <2>2. CASE P > 0
    <3>1. P \in 1 .. Q /\ Ends(D[P])
      BY <1>2, <1>3, <2>2
    <3>2. P > HeadLen
      BY <1>2, <3>1, FirstEnds
    <3> QED
      BY <1>3, <1>5, <3>2
  <2> QED
    BY <2>1, <2>2
<1>12. told.total = IF R > HeadLen THEN <<AsInt(mFileLen)>> ELSE << >>
  BY <1>2, <1>11 DEF Told
<1> QED
  BY <1>1, <1>9, <1>10, <1>12

LEMMA HeaderKeeps ==
    ASSUME IInv, NEW P \in Nat, NEW Q \in Nat, NEW D \in [Nat -> Place],
           NEW buf, Reading(buf, P, Q, D), Missing(buf) = 0, buf.head,
           ReadsPart(buf) \/ ReadsEnd(buf)
    PROVE  IInv'
<1>1. PICK R \in Nat : R = P + Len(buf.got)
  BY DEF Reading, Took
<1>2. /\ Expects(cliBuf', Len(file), R, D)
      /\ told.end = << >>
      /\ told.total = IF R > HeadLen THEN <<AsInt(mFileLen)>> ELSE << >>
      /\ cliBuf'.got = << >> /\ ~cliBuf'.head
      /\ cliBuf'.total = buf.got[1].val
  BY <1>1, HeaderRead
<1>3. /\ toServer' = toServer /\ file' = file
      /\ mRecvDataLen' = mRecvDataLen
  BY DEF ReadsPart, ReadsEnd
<1>4. /\ told \in [total : Seq(Int), end : Seq(Int), saveDone : BOOLEAN]
      /\ mRecvDataLen \in Int
  <2>1. Len(file) \in 0 .. 2 ^ W - 1
    <3>1. /\ Len(file) \in Nat /\ Len(file) <= mFileLen
          /\ mFileLen \in 0 .. 2 ^ W - 1
      BY FileLenWord DEF IInv, Types, Saved
    <3>2. 2 ^ W \in Nat
      BY PowerAssumption
    <3> QED
      BY <3>1, <3>2
  <2> QED
    BY <2>1, IntRange DEF IInv, Types, Saved
<1>5. /\ told' \in [total : Seq(Int), end : Seq(Int), saveDone : BOOLEAN]
      /\ told'.total = told.total
      /\ told'.end = IF buf.got[1].val = 0 THEN <<mRecvDataLen>> ELSE << >>
  <2>1. CASE ReadsPart(buf)
    <3>1. told' = told /\ buf.got[1].val # 0
      BY <2>1 DEF ReadsPart
    <3> QED
      BY <1>2, <1>4, <3>1
  <2>2. CASE ReadsEnd(buf)
    <3>1. /\ told' = [told EXCEPT !.end = Append(@, mRecvDataLen)]
          /\ buf.got[1].val = 0
      BY <2>2 DEF ReadsEnd
    <3>2. Append(<< >>, mRecvDataLen) = <<mRecvDataLen>>
          /\ <<mRecvDataLen>> \in Seq(Int)
      BY <1>4
    <3> QED
      BY <1>2, <1>4, <3>1, <3>2
  <2> QED
    BY <2>1, <2>2
<1>6. Types'
  BY <1>3, <1>5, ReadingTypes DEF IInv, Types
<1>7. Told(R)'
  BY <1>2, <1>3, <1>5 DEF Told, Reading, mFileLen
<1>8. Talks'
  BY <1>1, <1>2, <1>3, <1>7, ReadingMoves
<1>9. Heard' /\ Saved'
  BY <1>3, <1>5, HeardSame, SavedSame DEF IInv, Reading
<1> QED
  BY <1>6, <1>8, <1>9 DEF IInv

\* A whole body is the rest of the message whose header was read.
WholeBody(buf, P, Q, D, R) ==
    /\ P \in 1 .. Q /\ R \in 1 .. Q /\ R > P
    /\ Possible(D[P]) /\ D[P].o = HeadLen - 1
    /\ D[P].len = Len(buf.got) /\ Before(D[P]) = Len(file)
    /\ buf.cmd = D[P].cmd
    /\ \A i \in 1 .. Len(buf.got) :
          /\ D[P + i].o = HeadLen - 1 + i /\ SameMessage(D[P], D[P + i])
          /\ buf.got[i] = Said(D[P + i])
    /\ Ends(D[R]) /\ SameMessage(D[P], D[R])
    /\ told.end = << >> /\ Told(P) /\ Script(Q, D)

LEMMA BodyRead ==
    ASSUME NEW P \in Nat, NEW Q \in Nat, NEW D \in [Nat -> Place],
           NEW buf, Reading(buf, P, Q, D), Missing(buf) = 0, ~buf.head,
           NEW R \in Nat, R = P + Len(buf.got)
    PROVE  WholeBody(buf, P, Q, D, R)
<1>1. Len(buf.got) = buf.total
  BY ReadingBuffer
<1>2. /\ ~cliBuf.head /\ Script(Q, D) /\ Told(P) /\ P + Len(buf.got) <= Q
      /\ Says(buf.got, D, P) /\ buf.total = cliBuf.total
      /\ Len(buf.got) \in Nat \ {0} /\ buf.cmd = cliBuf.cmd
      /\ Expects(cliBuf, Len(file), P, D) /\ HeadLen \in Nat \ {0}
  BY Words DEF Reading, Took, Synced
<1>3. /\ P > 0 /\ D[P].o = HeadLen - 1 /\ Before(D[P]) = Len(file)
      /\ buf.cmd = D[P].cmd /\ D[P].len = Len(buf.got)
  BY <1>1, <1>2 DEF Expects
<1>4. P \in 1 .. Q /\ R \in 1 .. Q /\ R > P /\ P \in Nat \ {0}
  BY <1>2, <1>3
<1>5. Possible(D[P])
  BY <1>2, <1>4 DEF Script
<1>6. \A i \in 1 .. Len(buf.got) :
          D[P + i].o = HeadLen - 1 + i /\ SameMessage(D[P], D[P + i])
  <2> DEFINE n == Len(buf.got)
  <2>1. /\ Script(Q, D) /\ P \in Nat \ {0} /\ n \in Nat /\ P + n <= Q
        /\ D[P].o = HeadLen - 1 /\ n <= D[P].len
    BY <1>2, <1>3, <1>4
  <2> HIDE DEF n
  <2>2. \A i \in 1 .. n : D[P + i].o = HeadLen - 1 + i /\ SameMessage(D[P], D[P + i])
    BY <2>1, BodyPart
  <2> QED
    BY <2>2 DEF n
<1>7. \A i \in 1 .. Len(buf.got) : buf.got[i] = Said(D[P + i])
  BY <1>2 DEF Says
<1>8. D[R].o = HeadLen - 1 + Len(buf.got) /\ SameMessage(D[P], D[R])
  <2>1. Len(buf.got) \in 1 .. Len(buf.got)
    BY <1>2
  <2> QED
    BY <1>6, <2>1
<1>9. Ends(D[R])
  <2>1. D[R].len = Len(buf.got)
    BY <1>3, <1>8 DEF SameMessage
  <2> QED
    BY <1>2, <1>8, <2>1 DEF Ends, Size
<1>10. told.end = << >>
  <2>1. cliBuf.total # 0
    BY <1>1, <1>2
  <2> QED
    BY <1>2, <2>1 DEF Told
<1> QED
  BY <1>2, <1>3, <1>4, <1>5, <1>6, <1>7, <1>8, <1>9, <1>10 DEF WholeBody

LEMMA LoginretKeeps ==
    ASSUME IInv, NEW P \in Nat, NEW Q \in Nat, NEW D \in [Nat -> Place],
           NEW buf, Reading(buf, P, Q, D), ReadsLoginret(buf)
    PROVE  IInv'
<1>1. PICK R \in Nat : R = P + Len(buf.got)
  BY DEF Reading, Took
<1>2. /\ Missing(buf) = 0 /\ ~buf.head /\ buf.cmd = "LOGINRET"
      /\ told' = [told EXCEPT !.total = Append(@, AsInt(buf.got[1].val))]
      /\ toServer' = toServer \o Message("CONTROL_PLAY", <<0>>)
      /\ file' = file /\ mRecvDataLen' = mRecvDataLen
  BY DEF ReadsLoginret
<1>3. /\ P \in 1 .. Q /\ R \in 1 .. Q /\ R > P
      /\ Possible(D[P]) /\ D[P].o = HeadLen - 1
      /\ D[P].len = Len(buf.got) /\ Before(D[P]) = Len(file)
      /\ buf.cmd = D[P].cmd
      /\ \A i \in 1 .. Len(buf.got) :
            /\ D[P + i].o = HeadLen - 1 + i /\ SameMessage(D[P], D[P + i])
            /\ buf.got[i] = Said(D[P + i])
      /\ Ends(D[R]) /\ SameMessage(D[P], D[R])
      /\ told.end = << >> /\ Told(P) /\ Script(Q, D)
  <2>1. Missing(buf) = 0 /\ ~buf.head
    BY <1>2
  <2>2. WholeBody(buf, P, Q, D, R)
    BY <1>1, <2>1, BodyRead
  <2> QED
    BY <2>2 DEF WholeBody
<1>4. D[P].cmd = "LOGINRET"
  BY <1>2, <1>3
<1>5. HeadLen \in Nat \ {0} /\ Len(buf.got) = 1 /\ D[P].base = mFileLen
      /\ Before(D[P]) = 0
  BY <1>3, <1>4, Words DEF Possible, Before
<1>6. P = HeadLen /\ R = HeadLen + 1
  <2>1. P <= HeadLen + 1
    BY <1>3, <1>4 DEF Script
  <2>2. D[P].o = P - 1
    BY <1>3, <2>1, FirstMessage
  <2> QED
    BY <1>1, <1>3, <1>5, <2>2
<1>7. buf.got[1].val = mFileLen
  <2>1. 1 \in 1 .. Len(buf.got)
    BY <1>5
  <2>2. /\ D[P + 1].o = HeadLen /\ buf.got[1] = Said(D[P + 1])
        /\ SameMessage(D[P], D[P + 1]) /\ D[P + 1] \in Place
    <3>1. /\ D[P + 1].o = HeadLen - 1 + 1 /\ buf.got[1] = Said(D[P + 1])
          /\ SameMessage(D[P], D[P + 1])
      BY <1>3, <2>1
    <3>2. HeadLen - 1 + 1 = HeadLen
      BY <1>5
    <3>3. D[P + 1] \in Place
      OBVIOUS
    <3> QED
      BY <3>1, <3>2, <3>3
  <2>3. D[P + 1].cmd = "LOGINRET" /\ D[P + 1].base = mFileLen
    BY <1>3, <1>4, <1>5, <2>2 DEF SameMessage
  <2>4. Said(D[P + 1]) = Unit("body", "LOGINRET", 1, mFileLen)
    BY <2>2, <2>3, SaidFirst
  <2> QED
    BY <2>2, <2>4 DEF Unit
<1>8. told.total = << >>
  BY <1>3, <1>5, <1>6 DEF Told
<1>9. told \in [total : Seq(Int), end : Seq(Int), saveDone : BOOLEAN]
  BY DEF IInv, Types
<1>10. /\ told' \in [total : Seq(Int), end : Seq(Int), saveDone : BOOLEAN]
      /\ told'.total = <<AsInt(mFileLen)>> /\ told'.end = << >>
  <2>1. AsInt(mFileLen) \in Int
    BY FileLenWord, IntRange DEF IInv, Types
  <2> HIDE DEF mFileLen
  <2>2. Append(<< >>, AsInt(mFileLen)) = <<AsInt(mFileLen)>>
        /\ <<AsInt(mFileLen)>> \in Seq(Int)
    BY <2>1
  <2> QED
    BY <1>2, <1>3, <1>7, <1>8, <1>9, <2>2
<1>11. Heard' /\ toServer' \in Seq(Units)
  <2>1. PICK p \in Nat : Listens(p)
    BY DEF IInv, Heard
  <2>2. fetched /\ Questions = HeadLen + 1
    <3>1. task /\ Q > 0
      BY <1>3 DEF Reading, Synced
    <3>2. p > HeadLen /\ p + Len(srvBuf.got) + Len(toServer) = Questions
      BY <2>1, <3>1 DEF Listens
    <3>3. /\ Len(srvBuf.got) \in Nat /\ Len(toServer) \in Nat
          /\ fetched \in BOOLEAN
      BY BufferFields DEF IInv, Types
    <3>4. Questions # 0
      BY <1>5, <3>2, <3>3
    <3> QED
      BY <1>8, <3>3, <3>4 DEF Questions
  <2>3. fetched' /\ told'.total # << >>
    BY <1>10, <2>2 DEF Reading
  <2>4. Questions' = (HeadLen + 1) + (HeadLen + 1) /\ HeadLen + 1 \in Nat
    BY <1>5, <2>3 DEF Questions
  <2>5. /\ Message("CONTROL_PLAY", <<0>>) \in Seq(Units)
        /\ Len(Message("CONTROL_PLAY", <<0>>)) = HeadLen + 1
        /\ Asks(Message("CONTROL_PLAY", <<0>>), HeadLen + 1)
    BY ClientMessage DEF ClientCmd
  <2>6. Types /\ srvBuf' = srvBuf /\ task' = task
    BY DEF IInv, Reading
  <2> QED
    BY <1>2, <2>1, <2>2, <2>3, <2>4, <2>5, <2>6, HeardMore
<1>12. Types'
  BY <1>2, <1>10, <1>11, ReadingTypes DEF IInv, Types
<1>13. cliBuf'.got = << >> /\ cliBuf'.head /\ cliBuf'.total = HeadLen
  BY <1>2, ReadingBuffer
<1>14. Expects(cliBuf', Len(file'), R, D)
  <2>1. After(D[R]) = Len(file') /\ D[R].cmd # "DATAEND"
    BY <1>2, <1>3, <1>4, <1>5 DEF SameMessage, After, Before
  <2> QED
    BY <1>3, <1>13, <2>1 DEF Expects
<1>15. Told(R)'
  <2>1. R > HeadLen /\ fileLen' = fileLen
    BY <1>5, <1>6 DEF Reading
  <2> QED
    BY <1>10, <1>13, <2>1 DEF Told, mFileLen
<1>16. Talks'
  BY <1>1, <1>13, <1>14, <1>15, ReadingMoves
<1>17. Saved'
  BY <1>2, SavedSame DEF IInv, Reading
<1> QED
  BY <1>11, <1>12, <1>16, <1>17 DEF IInv

LEMMA FilesKeeps ==
    ASSUME IInv, NEW P \in Nat, NEW Q \in Nat, NEW D \in [Nat -> Place],
           NEW buf, Reading(buf, P, Q, D), ReadsFiles(buf)
    PROVE  IInv'
<1>1. PICK R \in Nat : R = P + Len(buf.got)
  BY DEF Reading, Took
<1>2. /\ Missing(buf) = 0 /\ ~buf.head /\ buf.cmd = "FILES"
      /\ file' = file \o Content(buf.got)
      /\ mRecvDataLen' = AsInt((mRecvDataLen + buf.got[1].val) % 2 ^ W)
      /\ told' = told /\ toServer' = toServer
  BY DEF ReadsFiles
<1>3. /\ P \in 1 .. Q /\ R \in 1 .. Q /\ R > P
      /\ Possible(D[P]) /\ D[P].o = HeadLen - 1
      /\ D[P].len = Len(buf.got) /\ Before(D[P]) = Len(file)
      /\ buf.cmd = D[P].cmd
      /\ \A i \in 1 .. Len(buf.got) :
            /\ D[P + i].o = HeadLen - 1 + i /\ SameMessage(D[P], D[P + i])
            /\ buf.got[i] = Said(D[P + i])
      /\ Ends(D[R]) /\ SameMessage(D[P], D[R])
      /\ told.end = << >> /\ Told(P) /\ Script(Q, D)
  <2>1. Missing(buf) = 0 /\ ~buf.head
    BY <1>2
  <2>2. WholeBody(buf, P, Q, D, R)
    BY <1>1, <2>1, BodyRead
  <2> QED
    BY <2>2 DEF WholeBody
<1>4. D[P].cmd = "FILES"
  BY <1>2, <1>3
<1>5. PICK m \in Nat, c \in Nat \ {0} :
          m = Len(file) /\ D[P].base = m /\ D[P].len = c + 1
          /\ m + c <= mFileLen
  <2>1. /\ D[P].base = Len(file) /\ D[P].len >= 2
        /\ D[P].base + D[P].len - 1 <= mFileLen
    BY <1>3, <1>4 DEF Possible, Before
  <2>2. D[P].len \in Nat /\ D[P].base \in Nat /\ D[P].len - 1 \in Nat \ {0}
    <3>1. D[P].len \in Nat /\ D[P].base \in Nat
      BY Places
    <3> QED
      BY <2>1, <3>1
  <2>3. mFileLen \in Nat
    BY FileLenWord DEF IInv, Types
  <2>4. /\ D[P].len = (D[P].len - 1) + 1
        /\ D[P].base + (D[P].len - 1) <= mFileLen
    BY <2>1, <2>2, <2>3
  <2> QED
    BY <2>1, <2>2, <2>4
<1>6. /\ HeadLen \in Nat \ {0} /\ mFileLen \in Nat /\ mFileLen < 2 ^ W
      /\ Len(buf.got) = c + 1 /\ 2 ^ W \in Nat
  <2>1. 2 ^ W \in Nat
    BY PowerAssumption
  <2>2. mFileLen \in Nat /\ mFileLen \in 0 .. 2 ^ W - 1
    BY FileLenWord DEF IInv, Types
  <2> QED
    BY <1>3, <1>5, <2>1, <2>2, Words
<1>7. buf.got[1].val = c
  <2>1. 1 \in 1 .. Len(buf.got)
    BY <1>6
  <2>2. /\ D[P + 1].o = HeadLen /\ buf.got[1] = Said(D[P + 1])
        /\ SameMessage(D[P], D[P + 1]) /\ D[P + 1] \in Place
    <3>1. /\ D[P + 1].o = HeadLen - 1 + 1 /\ buf.got[1] = Said(D[P + 1])
          /\ SameMessage(D[P], D[P + 1])
      BY <1>3, <2>1
    <3>2. HeadLen - 1 + 1 = HeadLen
      BY <1>6
    <3>3. D[P + 1] \in Place
      OBVIOUS
    <3> QED
      BY <3>1, <3>2, <3>3
  <2>3. D[P + 1].cmd = "FILES" /\ D[P + 1].len = c + 1
    BY <1>3, <1>4, <1>5, <2>2 DEF SameMessage
  <2>4. D[P + 1].len - 1 = c
    BY <2>3
  <2>5. Said(D[P + 1]) = Unit("body", "FILES", 1, c)
    BY <2>2, <2>3, <2>4, SaidFirst
  <2> QED
    BY <2>2, <2>5 DEF Unit
<1>8. ASSUME NEW i \in 1 .. c PROVE buf.got[i + 1].val = m + i
  <2>1. i + 1 \in 1 .. Len(buf.got) /\ i \in Nat \ {0}
        /\ HeadLen - 1 + (i + 1) = HeadLen + i
    BY <1>6
  <2>2. /\ D[P + (i + 1)].o = HeadLen + i
        /\ buf.got[i + 1] = Said(D[P + (i + 1)])
        /\ SameMessage(D[P], D[P + (i + 1)])
    BY <1>3, <2>1
  <2>3. D[P + (i + 1)] \in Place /\ D[P + (i + 1)].cmd = "FILES"
        /\ D[P + (i + 1)].base = m
    BY <1>3, <1>4, <1>5, <2>1, <2>2 DEF SameMessage
  <2>4. Said(D[P + (i + 1)]) = Unit("body", "FILES", i + 1, m + i)
    BY <2>1, <2>2, <2>3, SaidData
  <2> QED
    BY <2>2, <2>4 DEF Unit
<1>9. PICK t \in Seq(Nat) :
          /\ file' = file \o t /\ Len(t) = c
          /\ \A i \in 1 .. c : t[i] = m + i
  <2>1. Content(buf.got) = [i \in 1 .. c |-> buf.got[i + 1].val]
    BY <1>7 DEF Content
  <2>2. [i \in 1 .. c |-> buf.got[i + 1].val] \in [1 .. c -> Nat]
    BY <1>8
  <2>3. /\ Content(buf.got) \in Seq(Nat) /\ Len(Content(buf.got)) = c
    BY <2>1, <2>2, FunctionSeq
  <2>4. \A i \in 1 .. c : Content(buf.got)[i] = m + i
    BY <1>8, <2>1
  <2> QED
    BY <1>2, <2>3, <2>4
<1>10. /\ file' \in Seq(Nat) /\ Len(file') = m + c
      /\ \A i \in 1 .. Len(file') : file'[i] = i
  <2>1. /\ file \in Seq(Nat) /\ t \in Seq(Nat)
        /\ \A i \in 1 .. m : file[i] = i
    BY <1>5, <1>9 DEF IInv, Types, Saved
  <2>2. /\ file \o t \in Seq(Nat) /\ Len(file \o t) = Len(file) + Len(t)
        /\ \A i \in 1 .. Len(file) : (file \o t)[i] = file[i]
        /\ \A i \in 1 .. Len(t) : (file \o t)[Len(file) + i] = t[i]
    BY <2>1, Joined
  <2>3. file' \in Seq(Nat) /\ Len(file') = m + c
    BY <1>5, <1>9, <2>2
  <2>4. ASSUME NEW i \in 1 .. m + c PROVE file'[i] = i
    <3>1. CASE i <= m
      BY <1>5, <1>9, <2>1, <2>2, <3>1
    <3>2. CASE i > m
      <4>1. PICK j \in 1 .. c : i = m + j
        <5>1. i - m \in 1 .. c /\ i = m + (i - m)
          BY <3>2
        <5> QED
          BY <5>1
      <4>2. file'[m + j] = t[j] /\ t[j] = m + j
        BY <1>5, <1>9, <2>2
      <4> QED
        BY <4>1, <4>2
    <3> QED
      BY <3>1, <3>2
  <2> QED
    BY <2>3, <2>4
<1>11. Saved'
  <2>1. mRecvDataLen' = AsInt(m + c)
    <3>1. mRecvDataLen = AsInt(m)
      BY <1>5 DEF IInv, Saved
    <3>2. m + c < 2 ^ W /\ c \in Nat
      BY <1>5, <1>6
    <3> QED
      BY <1>2, <1>7, <3>1, <3>2, WrappedSum
  <2>2. fileLen' = fileLen
    BY DEF Reading
  <2>3. Len(file') <= mFileLen /\ mFileLen' = mFileLen
    BY <1>5, <1>10, <2>2 DEF mFileLen
  <2> QED
    BY <1>10, <2>1, <2>3 DEF Saved
<1>12. Types'
  BY <1>2, <1>10, ReadingTypes DEF IInv, Types
<1>13. cliBuf'.got = << >> /\ cliBuf'.head /\ cliBuf'.total = HeadLen
  BY <1>2, ReadingBuffer
<1>14. Expects(cliBuf', Len(file'), R, D)
  <2>1. D[R].cmd = "FILES" /\ D[R].base = m /\ D[R].len = c + 1
    BY <1>3, <1>4, <1>5 DEF SameMessage
  <2>2. After(D[R]) = Len(file')
    BY <1>10, <2>1 DEF After
  <2> QED
    BY <1>3, <1>13, <2>1, <2>2 DEF Expects
<1>15. Told(R)'
  <2>1. P > HeadLen
    <3>1. CASE P <= HeadLen + 1
      <4>1. D[P].cmd = "LOGINRET"
        BY <1>3, <3>1, FirstMessage
      <4> QED
        BY <1>4, <4>1
    <3> QED
      BY <1>3, <1>6, <3>1
  <2>2. R > HeadLen /\ fileLen' = fileLen
    BY <1>3, <1>6, <2>1 DEF Reading
  <2>3. told'.total = <<AsInt(mFileLen)>> /\ told'.end = << >>
    BY <1>2, <1>3, <2>1 DEF Told
  <2> QED
    BY <1>13, <2>2, <2>3 DEF Told, mFileLen
<1>16. Talks'
  BY <1>1, <1>13, <1>14, <1>15, ReadingMoves
<1>17. Heard'
  BY <1>2, HeardSame DEF IInv, Reading
<1> QED
  BY <1>11, <1>12, <1>16, <1>17 DEF IInv

LEMMA ClientReadsKeeps ==
    ASSUME IInv, NEW n, ClientReads(n)
    PROVE  IInv'
<1>1. PICK buf : buf = With(cliBuf, toClient, n)
  OBVIOUS
<1>2. /\ Recv(cliBuf, toClient, n) /\ toClient' = Rest(toClient, n)
      /\ cliBuf' = AfterRecv(buf)
      /\ \/ ReadsPart(buf) \/ ReadsEnd(buf)
         \/ ReadsLoginret(buf) \/ ReadsFiles(buf)
      /\ fileLen' = fileLen /\ up' = up /\ srvBuf' = srvBuf /\ task' = task
      /\ armed' = armed /\ toSend' = toSend /\ dataLen' = dataLen
      /\ mHasReadLen' = mHasReadLen /\ conn' = conn /\ fetched' = fetched
  BY <1>1 DEF ClientReads, Client, srvVars
<1>3. PICK P \in Nat, Q \in Nat, D \in [Nat -> Place] : Synced(P, Q, D)
  BY DEF IInv, Talks
<1>4. Reading(buf, P, Q, D)
  <2>1. Types
    BY DEF IInv
  <2>2. Recv(cliBuf, toClient, n) /\ toClient' = Rest(toClient, n)
    BY <1>2
  <2>3. Took(buf, P, Q, D)
    BY <1>1, <1>3, <2>1, <2>2, ClientHears
  <2> QED
    BY <1>2, <1>3, <2>3 DEF Reading
<1>5. CASE ReadsLoginret(buf)
  BY <1>4, <1>5, LoginretKeeps
<1>6. CASE ReadsFiles(buf)
  BY <1>4, <1>6, FilesKeeps
<1>7. CASE ReadsPart(buf) \/ ReadsEnd(buf)
  <2>1. Missing(buf) \in Nat
    BY <1>4, ReadingBuffer
  <2>2. CASE Missing(buf) > 0
    <3>1. ReadsPart(buf)
      BY <1>7, <2>2 DEF ReadsEnd
    <3> QED
      BY <1>4, <2>2, <3>1, PartKeeps
  <2>3. CASE Missing(buf) = 0
    <3>1. buf.head
      BY <1>7, <2>3 DEF ReadsPart, ReadsEnd
    <3> QED
      BY <1>4, <1>7, <2>3, <3>1, HeaderKeeps
  <2> QED
    BY <2>1, <2>2, <2>3
<1> QED
  BY <1>2, <1>5, <1>6, <1>7

-----------------------------------------------------------------------------
LEMMA NextKeeps == IInv /\ [Next]_vars => IInv'
<1> SUFFICES ASSUME IInv, [Next]_vars PROVE IInv'
  OBVIOUS
<1>1. CASE SendSome
  BY <1>1, SendSomeKeeps
<1>2. ASSUME NEW n \in 1 .. Len(toServer), ServerReads(n) PROVE IInv'
  BY <1>2, ServerReadsKeeps
<1>3. CASE OnWriteIdle
  BY <1>3, OnWriteIdleKeeps
<1>4. CASE OnWriteHead
  BY <1>4, OnWriteHeadKeeps
<1>5. CASE OnWriteData
  BY <1>5, OnWriteDataKeeps
<1>6. CASE OnWriteEnd
  BY <1>6, OnWriteEndKeeps
<1>7. CASE ServerEnds
  BY <1>7, ServerEndsKeeps
<1>8. CASE Fetch
  BY <1>8, FetchKeeps
<1>9. CASE ClientEnds
  BY <1>9, ClientEndsKeeps
<1>10. ASSUME NEW n \in 1 .. Len(toClient), ClientReads(n) PROVE IInv'
  BY <1>10, ClientReadsKeeps
<1>11. CASE UNCHANGED vars
  BY <1>11, StutterKeeps
<1> QED
  BY <1>1, <1>2, <1>3, <1>4, <1>5, <1>6, <1>7, <1>8, <1>9, <1>10, <1>11
  DEF Next, ServerStep, ClientStep

LEMMA Inductive == Spec => []IInv
<1>1. Init => IInv
  BY InitKeeps
<1>2. IInv /\ [Next]_vars => IInv'
  BY NextKeeps
<1> QED
  BY <1>1, <1>2, PTL DEF Spec

\* Types of both tasks and of the streams between them, for any sizes
\* (TypeOK): no buffer ever holds more than it was to receive.
THEOREM TypeCorrect == Spec => []TypeOK
<1>1. IInv => TypeOK
  <2> SUFFICES ASSUME IInv PROVE TypeOK
    OBVIOUS
  <2>1. \A s \in {toClient, toServer, toSend, srvBuf.got, cliBuf.got} :
          \A i \in 1 .. Len(s) : s[i] \in Units
    <3>1. srvBuf.got \in Seq(Units) /\ cliBuf.got \in Seq(Units)
      BY BufferFields DEF IInv, Types
    <3>2. \A s \in Seq(Units) : \A i \in 1 .. Len(s) : s[i] \in Units
      OBVIOUS
    <3> QED
      BY <3>1, <3>2 DEF IInv, Types
  <2>2. Missing(srvBuf) >= 0 /\ Missing(cliBuf) >= 0
    <3>1. /\ srvBuf.total \in Nat /\ Len(srvBuf.got) \in Nat
          /\ cliBuf.total \in Nat /\ Len(cliBuf.got) \in Nat
      BY BufferFields DEF IInv, Types
    <3> QED
      BY <3>1 DEF IInv, Types, Missing
  <2>3. mRecvDataLen \in -(2 ^ (W - 1)) .. 2 ^ (W - 1) - 1
    <3>1. /\ Len(file) \in Nat /\ Len(file) <= mFileLen
          /\ mFileLen \in 0 .. 2 ^ W - 1
      BY FileLenWord DEF IInv, Types, Saved
    <3>2. 2 ^ W \in Nat
      BY PowerAssumption
    <3>3. Len(file) \in 0 .. 2 ^ W - 1
      BY <3>1, <3>2
    <3> QED
      BY <3>3, IntRange DEF IInv, Saved
  <2> QED
    BY <2>1, <2>2, <2>3 DEF IInv, Types, TypeOK
<1> QED
  BY <1>1, Inductive, PTL

\* However the streams are cut, both sides take headers for headers and each
\* body for the one its header announced (FramesAligned), for headers, chunks
\* and files of any length.
THEOREM StaysAligned == Spec => []FramesAligned
<1>1. IInv => Aligned(cliBuf)
  <2> SUFFICES ASSUME IInv, NEW i \in 1 .. Len(cliBuf.got)
               PROVE  /\ cliBuf.got[i].i = i
                      /\ IF cliBuf.head
                         THEN /\ cliBuf.got[i].part = "head"
                              /\ cliBuf.got[i].cmd = cliBuf.got[1].cmd
                         ELSE /\ cliBuf.got[i].part = "body"
                              /\ cliBuf.got[i].cmd = cliBuf.cmd
    BY DEF Aligned
  <2>1. PICK P \in Nat, Q \in Nat, D \in [Nat -> Place] : Synced(P, Q, D)
    BY DEF IInv, Talks
  <2>2. /\ Held \in Nat /\ Len(toClient) \in Nat /\ Len(toSend) \in Nat
        /\ cliBuf.total \in Nat /\ HeadLen \in Nat \ {0}
        /\ Held <= cliBuf.total
    BY BufferFields, Words DEF IInv, Types, Held
  <2>3. /\ Says(cliBuf.got, D, P) /\ Script(Q, D)
        /\ Expects(cliBuf, Len(file), P, D)
        /\ P + Held + Len(toClient) + Len(toSend) = Q
    BY <2>1 DEF Synced, Stream
  <2>4. /\ i \in 1 .. Held /\ 1 \in 1 .. Held /\ Held > 0 /\ P + Held <= Q
        /\ i \in Nat \ {0}
    BY <2>2, <2>3 DEF Held
  <2>5. cliBuf.got[i] = Said(D[P + i]) /\ cliBuf.got[1] = Said(D[P + 1])
    BY <2>3, <2>4 DEF Says, Held
  <2>6. CASE cliBuf.head
    <3>1. cliBuf.total = HeadLen /\ (P = 0 \/ Ends(D[P]))
      BY <2>3, <2>6 DEF Expects
    <3>2. Held \in 1 .. HeadLen
      BY <2>2, <2>4, <3>1
    <3>3. \A j \in 1 .. Held :
              D[P + j].o = j - 1 /\ SameMessage(D[P + 1], D[P + j])
      BY <2>3, <2>4, <3>1, <3>2, HeadPart
    <3>4. /\ D[P + i].o = i - 1 /\ D[P + 1].o = 1 - 1
          /\ D[P + i].cmd = D[P + 1].cmd
      BY <2>4, <3>3 DEF SameMessage
    <3>5. /\ D[P + i] \in Place /\ i \in 1 .. HeadLen
          /\ D[P + 1] \in Place /\ 1 \in 1 .. HeadLen
      BY <2>2, <2>4, <3>2
    <3>6. /\ Said(D[P + i]) = Unit("head", D[P + i].cmd, i, D[P + i].len)
          /\ Said(D[P + 1]) = Unit("head", D[P + 1].cmd, 1, D[P + 1].len)
      BY <3>4, <3>5, SaidHead
    <3> QED
      BY <2>5, <2>6, <3>4, <3>6 DEF Unit
  <2>7. CASE ~cliBuf.head
    <3>1. /\ P > 0 /\ D[P].o = HeadLen - 1 /\ cliBuf.cmd = D[P].cmd
          /\ cliBuf.total = D[P].len
      BY <2>3, <2>7 DEF Expects
    <3>2. P \in Nat \ {0} /\ Held <= D[P].len
      BY <2>2, <3>1
    <3>3. \A j \in 1 .. Held :
              D[P + j].o = HeadLen - 1 + j /\ SameMessage(D[P], D[P + j])
      BY <2>2, <2>3, <2>4, <3>1, <3>2, BodyPart
    <3>4. D[P + i].o = HeadLen - 1 + i /\ D[P + i].cmd = D[P].cmd
      BY <2>4, <3>3 DEF SameMessage
    <3>5. /\ D[P + i] \in Place /\ D[P + i].o >= HeadLen
          /\ D[P + i].o - HeadLen + 1 = i
      BY <2>2, <2>4, <3>4
    <3>6. /\ Said(D[P + i]).part = "body" /\ Said(D[P + i]).i = i
          /\ Said(D[P + i]).cmd = D[P + i].cmd
      BY <3>5, SaidFields
    <3> QED
      BY <2>5, <2>7, <3>1, <3>4, <3>6
  <2> QED
    BY <2>6, <2>7
<1>2. IInv => Aligned(srvBuf)
  <2> SUFFICES ASSUME IInv, NEW i \in 1 .. Len(srvBuf.got)
               PROVE  /\ srvBuf.got[i].i = i
                      /\ IF srvBuf.head
                         THEN /\ srvBuf.got[i].part = "head"
                              /\ srvBuf.got[i].cmd = srvBuf.got[1].cmd
                         ELSE /\ srvBuf.got[i].part = "body"
                              /\ srvBuf.got[i].cmd = srvBuf.cmd
    BY DEF Aligned
  <2>1. PICK p \in Nat : Listens(p)
    BY DEF IInv, Heard
  <2>2. /\ Len(srvBuf.got) \in Nat /\ Len(toServer) \in Nat
        /\ srvBuf.total \in Nat /\ Len(srvBuf.got) < srvBuf.total
        /\ HeadLen \in Nat \ {0}
    BY BufferFields, Words DEF IInv, Types
  <2>3. /\ p + Len(srvBuf.got) + Len(toServer) = Questions
        /\ Questions <= 2 * (HeadLen + 1) /\ Questions \in Nat
    BY <2>1, <2>2 DEF Listens, Questions
  <2>4. CASE ~srvBuf.head
    <3>1. srvBuf.total = 1
      BY <2>1, <2>4 DEF Listens
    <3> QED
      BY <2>2, <3>1
  <2>5. CASE srvBuf.head
    <3>1. /\ srvBuf.total = HeadLen
          /\ p \in {0, HeadLen + 1, 2 * (HeadLen + 1)}
      BY <2>1, <2>5 DEF Listens
    <3>2. /\ i \in 1 .. HeadLen /\ 1 \in 1 .. HeadLen
          /\ 1 \in 1 .. Len(srvBuf.got)
      BY <2>2, <3>1
    <3>3. p # 2 * (HeadLen + 1)
      BY <2>2, <2>3, <3>2
    <3>4. /\ srvBuf.got[i] = Asked(p + i)
          /\ srvBuf.got[1] = Asked(p + 1)
      BY <2>1, <3>2 DEF Listens, Asks
    <3>5. \E cmd \in ClientCmd :
            \A j \in 1 .. HeadLen : Asked(p + j) = Unit("head", cmd, j, 1)
      <4>1. CASE p = 0
        <5>1. ASSUME NEW j \in 1 .. HeadLen
              PROVE  Asked(p + j) = Unit("head", "LOGIN", j, 1)
          <6>1. p + j = j /\ j <= HeadLen
            BY <2>2, <4>1
          <6>2. Asked(j) = Unit("head", "LOGIN", j, 1)
            BY <6>1 DEF Asked
          <6> QED
            BY <6>1, <6>2
        <5> QED
          BY <5>1 DEF ClientCmd
      <4>2. CASE p = HeadLen + 1
        <5>1. ASSUME NEW j \in 1 .. HeadLen
              PROVE  Asked(p + j) = Unit("head", "CONTROL_PLAY", j, 1)
          <6>1. PICK k \in Nat : k = p + j
            BY <2>2
          <6>2. /\ ~(k <= HeadLen) /\ k # HeadLen + 1
                /\ k <= 2 * HeadLen + 1 /\ k - (HeadLen + 1) = j
            BY <2>2, <4>2, <6>1
          <6>3. Asked(k) = Unit("head", "CONTROL_PLAY", j, 1)
            BY <6>2 DEF Asked
          <6> QED
            BY <6>1, <6>3
        <5> QED
          BY <5>1 DEF ClientCmd
      <4> QED
        BY <3>1, <3>3, <4>1, <4>2
    <3>6. PICK cmd \in ClientCmd :
              \A j \in 1 .. HeadLen : Asked(p + j) = Unit("head", cmd, j, 1)
      BY <3>5
    <3>7. /\ srvBuf.got[i] = Unit("head", cmd, i, 1)
          /\ srvBuf.got[1] = Unit("head", cmd, 1, 1)
      BY <3>2, <3>4, <3>6
    <3> QED
      BY <2>5, <3>7 DEF Unit
  <2> QED
    BY <2>4, <2>5
<1> QED
  BY <1>1, <1>2, Inductive, PTL DEF FramesAligned

\* The saved file is a prefix of the one that was asked for (SavedPrefix),
\* whatever its length, even where mFileLen does not hold it.
THEOREM SavedIsPrefix == Spec => []SavedPrefix
<1>1. IInv => SavedPrefix
  <2> SUFFICES ASSUME IInv PROVE SavedPrefix
    OBVIOUS
  <2>1. /\ Len(file) \in Nat /\ Len(file) <= mFileLen
        /\ \A i \in 1 .. Len(file) : file[i] = i
    BY DEF IInv, Types, Saved
  <2>2. mFileLen \in Nat /\ mFileLen <= fileLen /\ fileLen \in Nat
    BY FileLenWord DEF IInv, Types
  <2>3. Len(file) <= fileLen
    BY <2>1, <2>2
  <2> QED
    BY <2>1, <2>3 DEF SavedPrefix
<1> QED
  BY <1>1, Inductive, PTL

\* RECV_TELL_END is told after RECV_TELL_TOTAL_LENGTH, with the same number,
\* and when the file has as many units as the server's mFileLen says.
THEOREM EndIsComplete == Spec => []EndComplete
<1>1. IInv => EndComplete
  <2> SUFFICES ASSUME IInv, NEW i \in 1 .. Len(told.end)
               PROVE  /\ told.total = <<told.end[i]>>
                      /\ told.end[i] = AsInt(mFileLen)
                      /\ Len(file) = mFileLen
    BY DEF EndComplete
  <2>1. PICK P \in Nat, Q \in Nat, D \in [Nat -> Place] : Synced(P, Q, D)
    BY DEF IInv, Talks
  <2>2. /\ Told(P) /\ Script(Q, D) /\ Expects(cliBuf, Len(file), P, D)
        /\ P + Held + Len(toClient) + Len(toSend) = Q
    BY <2>1 DEF Synced, Stream
  <2>3. ~cliBuf.head /\ cliBuf.total = 0 /\ told.end = <<mRecvDataLen>>
    BY <2>2 DEF Told
  <2>4. /\ P > 0 /\ Before(D[P]) = Len(file) /\ D[P].len = 0
    BY <2>2, <2>3 DEF Expects
  <2>5. P \in 1 .. Q
    <3>1. Held \in Nat /\ Len(toClient) \in Nat /\ Len(toSend) \in Nat
      BY BufferFields DEF IInv, Types, Held
    <3> QED
      BY <2>2, <2>4, <3>1
  <2>6. D[P].cmd = "DATAEND" /\ D[P].base = mFileLen
    BY <2>2, <2>4, <2>5 DEF Script, Possible
  <2>7. Len(file) = mFileLen
    BY <2>4, <2>6 DEF Before
  <2>8. P > HeadLen
    <3>1. CASE P <= HeadLen + 1
      <4>1. D[P].cmd = "LOGINRET"
        BY <2>2, <2>5, <3>1, FirstMessage
      <4> QED
        BY <2>6, <4>1
    <3> QED
      BY <2>5, <3>1, Words
  <2>9. told.total = <<AsInt(mFileLen)>>
    BY <2>2, <2>8 DEF Told
  <2>10. mRecvDataLen = AsInt(mFileLen) /\ i = 1
    BY <2>3, <2>7 DEF IInv, Saved
  <2>11. told.end[i] = AsInt(mFileLen)
    BY <2>3, <2>10
  <2> QED
    BY <2>7, <2>9, <2>11
<1> QED
  BY <1>1, Inductive, PTL
============================================================================
