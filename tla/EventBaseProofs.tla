-------------------------- MODULE EventBaseProofs --------------------------
(***************************************************************************)
(* What the operations of EventBase preserve, for any events and           *)
(* descriptors: the lemmas EventLoopProofs and ServerProofs rest on.  The  *)
(* first half is about Sound bases (types, counters, active queue), the    *)
(* second about Coherent ones (the table too), where each lemma says       *)
(* exactly which flags the operation changes.                              *)
(***************************************************************************)
EXTENDS EventBase, FiniteSetTheorems, TLAPS

NoRepeats(s) == \A i, j \in 1 .. Len(s) : s[i] = s[j] => i = j

\* Removing an element of a sequence that holds it once takes out that
\* element and nothing else.
LEMMA RemoveFirstOnce ==
    ASSUME NEW S, NEW s \in Seq(S), NEW e \in Range(s), NoRepeats(s)
    PROVE  /\ RemoveFirst(s, e) \in Seq(S)
           /\ Range(RemoveFirst(s, e)) = Range(s) \ {e}
           /\ NoRepeats(RemoveFirst(s, e))
<1>1. PICK k \in 1 .. Len(s) : s[k] = e
  BY DEF Range
<1>2. {i \in 1 .. Len(s) : s[i] = e} = {k}
  BY <1>1 DEF NoRepeats
<1>3. Min({k}) = k
  BY <1>1 DEF Min
<1>4. SelectInSeq(s, LAMBDA v : v = e) = k
  BY <1>2, <1>3 DEF SelectInSeq
<1>5. RemoveFirst(s, e) = SubSeq(s, 1, k - 1) \o SubSeq(s, k + 1, Len(s))
  BY <1>1, <1>4 DEF RemoveFirst, RemoveAt
<1> DEFINE r == SubSeq(s, 1, k - 1) \o SubSeq(s, k + 1, Len(s))
<1>6. /\ r \in Seq(S) /\ Len(r) = Len(s) - 1
      /\ \A i \in 1 .. Len(r) : r[i] = IF i < k THEN s[i] ELSE s[i + 1]
  <2> DEFINE u == SubSeq(s, 1, k - 1)
             v == SubSeq(s, k + 1, Len(s))
  <2>1. /\ u \in Seq(S) /\ Len(u) = k - 1
        /\ \A i \in 1 .. k - 1 : u[i] = s[i]
    BY <1>1
  <2>2. /\ v \in Seq(S) /\ Len(v) = Len(s) - k
        /\ \A i \in 1 .. Len(s) - k : v[i] = s[i + k]
    BY <1>1
  <2> HIDE DEF u, v
  <2>3. u \o v \in Seq(S) /\ Len(u \o v) = Len(s) - 1
    BY <1>1, <2>1, <2>2
  <2>4. ASSUME NEW i \in 1 .. Len(s) - 1
        PROVE  (u \o v)[i] = IF i < k THEN s[i] ELSE s[i + 1]
    <3>1. CASE i < k
      BY <3>1, <1>1, <2>1, <2>2
    <3>2. CASE ~(i < k)
      <4>1. i - (k - 1) \in 1 .. Len(s) - k /\ i - (k - 1) + k = i + 1
        BY <3>2, <1>1
      <4>2. (u \o v)[i] = v[i - (k - 1)]
        BY <3>2, <1>1, <2>1, <2>2
      <4> QED
        BY <4>1, <4>2, <3>2, <2>2
    <3> QED
      BY <3>1, <3>2
  <2> QED
    BY <2>3, <2>4 DEF u, v
<1> HIDE DEF r
<1>7. Range(r) = Range(s) \ {e}
  <2>1. ASSUME NEW x \in Range(r) PROVE x \in Range(s) \ {e}
    <3>1. PICK i \in 1 .. Len(r) : r[i] = x
      BY <1>6 DEF Range
    <3>2. CASE i < k
      <4>1. i \in 1 .. Len(s) /\ i # k /\ s[i] = x
        BY <3>1, <3>2, <1>6
      <4> QED
        BY <4>1, <1>1 DEF Range, NoRepeats
    <3>3. CASE ~(i < k)
      <4>1. i + 1 \in 1 .. Len(s) /\ i + 1 # k /\ s[i + 1] = x
        BY <3>1, <3>3, <1>6
      <4> QED
        BY <4>1, <1>1 DEF Range, NoRepeats
    <3> QED
      BY <3>2, <3>3
  <2>2. ASSUME NEW x \in Range(s) \ {e} PROVE x \in Range(r)
    <3>1. PICK i \in 1 .. Len(s) : s[i] = x /\ i # k
      BY <1>1 DEF Range
    <3>2. CASE i < k
      BY <3>1, <3>2, <1>1, <1>6 DEF Range
    <3>3. CASE i > k
      <4>1. i - 1 \in 1 .. Len(r) /\ r[i - 1] = x
        BY <3>1, <3>3, <1>1, <1>6
      <4> QED
        BY <4>1, <1>6 DEF Range
    <3> QED
      BY <3>1, <3>2, <3>3, <1>1
  <2> QED
    BY <2>1, <2>2
<1>8. NoRepeats(r)
  BY <1>1, <1>6 DEF NoRepeats
<1> QED
  BY <1>5, <1>6, <1>7, <1>8 DEF r

-----------------------------------------------------------------------------
(***************************************************************************)
(* Sound states: well typed, with both counters and the active queue       *)
(* agreeing with the flags, and no slot of the table outside the array.    *)
(***************************************************************************)
NoGarbage(b) == \A f \in Fd : b.evread[f] # Garbage /\ b.evwrite[f] # Garbage

HaveCalls(b) == \A e \in Event : "ACTIVE" \in b.flags[e] => b.ncalls[e] > 0

Sound(b) ==
    /\ b \in BaseState
    /\ NoGarbage(b)
    /\ ActiveCoherent(b)
    /\ HaveCalls(b)
    /\ CountsCoherent(b)

\* Two states that differ in the queues only.
SameButQueues(b, c) ==
    /\ c.res = b.res /\ c.ncalls = b.ncalls /\ c.pn = b.pn /\ c.left = b.left
    /\ c.evread = b.evread /\ c.evwrite = b.evwrite
    /\ c.kern = b.kern /\ c.open = b.open

Counted == Event \ {ev_signal}
ActiveSet(b) == {e \in Counted : "ACTIVE" \in b.flags[e]}

\* What event_count and event_count_active count is finite.
LEMMA FiniteMemberships ==
    ASSUME NEW b
    PROVE  IsFiniteSet(Memberships(b)) /\ IsFiniteSet(ActiveSet(b))
<1>1. IsFiniteSet(Counted)
  BY BaseConstants, FS_Subset DEF EventAssumption, Counted
<1>2. IsFiniteSet(Queues)
  <2>1. IsFiniteSet({}) BY FS_EmptySet
  <2>2. IsFiniteSet({"TIMEOUT"}) BY FS_Singleton
  <2>3. IsFiniteSet({"TIMEOUT"} \union {"INSERTED"}) BY <2>2, FS_AddElement
  <2>4. IsFiniteSet(({"TIMEOUT"} \union {"INSERTED"}) \union {"SIGNAL"})
    BY <2>3, FS_AddElement
  <2>5. IsFiniteSet((({"TIMEOUT"} \union {"INSERTED"}) \union {"SIGNAL"})
                    \union {"ACTIVE"})
    BY <2>4, FS_AddElement
  <2> QED
    BY <2>5 DEF Queues
<1>3. IsFiniteSet(Counted \X Queues)
  BY <1>1, <1>2, FS_Product
<1>4. Memberships(b) \in SUBSET (Counted \X Queues)
  BY DEF Memberships, Counted
<1>5. ActiveSet(b) \in SUBSET Counted
  BY DEF ActiveSet
<1> QED
  BY <1>1, <1>3, <1>4, <1>5, FS_Subset

WithQueues(b, F, C, A, Q) ==
    [b EXCEPT !.flags = F, !.count = C, !.active = A, !.activeq = Q]

\* event_queue_insert: the event gets on a queue it is not on.
LEMMA QueueInsertEffect ==
    ASSUME NEW b \in BaseState, NEW e \in Event, NEW q \in Queues,
           q \notin b.flags[e]
    PROVE  LET c == QueueInsert(b, e, q)
           IN  /\ c \in BaseState
               /\ SameButQueues(b, c)
               /\ c.flags = [b.flags EXCEPT ![e] = @ \union {q}]
               /\ c.count = b.count + Docount(e)
               /\ c.active = IF q = "ACTIVE" THEN b.active + Docount(e)
                                           ELSE b.active
               /\ c.activeq = IF q = "ACTIVE" THEN Append(b.activeq, e)
                                            ELSE b.activeq
<1> DEFINE F == [b.flags EXCEPT ![e] = @ \union {q}]
           C == b.count + Docount(e)
           A == IF q = "ACTIVE" THEN b.active + Docount(e) ELSE b.active
           Q == IF q = "ACTIVE" THEN Append(b.activeq, e) ELSE b.activeq
<1>1. /\ F \in [Event -> SUBSET Queues] /\ C \in Int /\ A \in Int
      /\ Q \in Seq(Event)
  BY DEF BaseState, Docount
<1>2. QueueInsert(b, e, q) = WithQueues(b, F, C, A, Q)
  BY DEF QueueInsert, WithQueues
<1> HIDE DEF F, C, A, Q
<1>3. LET c == WithQueues(b, F, C, A, Q)
      IN  /\ c \in BaseState /\ SameButQueues(b, c)
          /\ c.flags = F /\ c.count = C /\ c.active = A /\ c.activeq = Q
  BY <1>1 DEF WithQueues, BaseState, SameButQueues
<1>4. LET c == QueueInsert(b, e, q)
      IN  /\ c \in BaseState /\ SameButQueues(b, c)
          /\ c.flags = F /\ c.count = C /\ c.active = A /\ c.activeq = Q
  BY <1>3, <1>2
<1> QED
  BY <1>4 DEF F, C, A, Q

\* What event_queue_remove changes, for an event that is on the queue
\* (event.c:711-749).
LEMMA QueueRemoveEffect ==
    ASSUME NEW b \in BaseState, NEW e \in Event, NEW q \in Queues,
           ActiveCoherent(b), q \in b.flags[e]
    PROVE  LET c == QueueRemove(b, e, q)
           IN  /\ c \in BaseState
               /\ SameButQueues(b, c)
               /\ c.flags = [b.flags EXCEPT ![e] = @ \ {q}]
               /\ c.count = b.count - Docount(e)
               /\ c.active = IF q = "ACTIVE" THEN b.active - Docount(e)
                                           ELSE b.active
               /\ c.activeq = IF q = "ACTIVE" THEN RemoveFirst(b.activeq, e)
                                            ELSE b.activeq
<1>1. q = "ACTIVE" => RemoveFirst(b.activeq, e) \in Seq(Event)
  BY RemoveFirstOnce DEF ActiveCoherent, NoRepeats, BaseState
<1> DEFINE F == [b.flags EXCEPT ![e] = @ \ {q}]
           C == b.count - Docount(e)
           A == IF q = "ACTIVE" THEN b.active - Docount(e) ELSE b.active
           Q == IF q = "ACTIVE" THEN RemoveFirst(b.activeq, e) ELSE b.activeq
<1>2. /\ F \in [Event -> SUBSET Queues] /\ C \in Int /\ A \in Int
      /\ Q \in Seq(Event)
  BY <1>1 DEF BaseState, Docount
<1>3. QueueRemove(b, e, q) = WithQueues(b, F, C, A, Q)
  BY DEF QueueRemove, WithQueues
<1> HIDE DEF F, C, A, Q
<1>4. LET c == WithQueues(b, F, C, A, Q)
      IN  /\ c \in BaseState /\ SameButQueues(b, c)
          /\ c.flags = F /\ c.count = C /\ c.active = A /\ c.activeq = Q
  BY <1>2 DEF WithQueues, BaseState, SameButQueues
<1>5. LET c == QueueRemove(b, e, q)
      IN  /\ c \in BaseState /\ SameButQueues(b, c)
          /\ c.flags = F /\ c.count = C /\ c.active = A /\ c.activeq = Q
  BY <1>4, <1>3
<1> QED
  BY <1>5 DEF F, C, A, Q

-----------------------------------------------------------------------------
(***************************************************************************)
(* The counters.  Getting on a queue adds one membership, leaving it takes *)
(* one away, and ev_signal's are never counted.                            *)
(***************************************************************************)
LEMMA CountsAfterInsert ==
    ASSUME NEW b \in BaseState, NEW c \in BaseState,
           NEW e \in Event, NEW q \in Queues,
           CountsCoherent(b), q \notin b.flags[e],
           c.flags = [b.flags EXCEPT ![e] = @ \union {q}],
           c.count = b.count + Docount(e),
           c.active = IF q = "ACTIVE" THEN b.active + Docount(e) ELSE b.active
    PROVE  CountsCoherent(c)
<1>1. IsFiniteSet(Memberships(b)) /\ IsFiniteSet(ActiveSet(b))
  BY FiniteMemberships
<1>2. \A d \in Event : c.flags[d] = IF d = e THEN b.flags[d] \union {q}
                                            ELSE b.flags[d]
  BY DEF BaseState
<1>3. CASE e = ev_signal
  <2>1. Memberships(c) = Memberships(b) /\ ActiveSet(c) = ActiveSet(b)
    BY <1>2, <1>3 DEF Memberships, ActiveSet, Counted
  <2>2. c.count = b.count /\ c.active = b.active
    BY <1>3 DEF Docount, BaseState
  <2> QED
    BY <2>1, <2>2 DEF CountsCoherent, ActiveSet, Counted
<1>4. CASE e # ev_signal
  <2>1. Memberships(c) = Memberships(b) \union {<<e, q>>}
    BY <1>2, <1>4 DEF Memberships
  <2>2. <<e, q>> \notin Memberships(b)
    BY DEF Memberships
  <2>3. Cardinality(Memberships(c)) = Cardinality(Memberships(b)) + 1
    BY <1>1, <2>1, <2>2, FS_AddElement
  <2>4. CASE q = "ACTIVE"
    <3>1. ActiveSet(c) = ActiveSet(b) \union {e} /\ e \notin ActiveSet(b)
      BY <1>2, <1>4, <2>4 DEF ActiveSet, Counted
    <3>2. Cardinality(ActiveSet(c)) = Cardinality(ActiveSet(b)) + 1
      BY <1>1, <3>1, FS_AddElement
    <3> QED
      BY <1>4, <2>3, <2>4, <3>2 DEF CountsCoherent, ActiveSet, Counted, Docount
  <2>5. CASE q # "ACTIVE"
    <3>1. ActiveSet(c) = ActiveSet(b)
      BY <1>2, <2>5 DEF ActiveSet, Counted
    <3> QED
      BY <1>4, <2>3, <2>5, <3>1 DEF CountsCoherent, ActiveSet, Counted, Docount
  <2> QED
    BY <2>4, <2>5
<1> QED
  BY <1>3, <1>4

\* Taking an event off a queue takes one membership away, and one active
\* event when the queue is the active one: the counters stay exact.
LEMMA CountsAfterRemove ==
    ASSUME NEW b \in BaseState, NEW c \in BaseState,
           NEW e \in Event, NEW q \in Queues,
           CountsCoherent(b), q \in b.flags[e],
           c.flags = [b.flags EXCEPT ![e] = @ \ {q}],
           c.count = b.count - Docount(e),
           c.active = IF q = "ACTIVE" THEN b.active - Docount(e) ELSE b.active
    PROVE  CountsCoherent(c)
<1>1. IsFiniteSet(Memberships(b)) /\ IsFiniteSet(ActiveSet(b))
  BY FiniteMemberships
<1>2. \A d \in Event : c.flags[d] = IF d = e THEN b.flags[d] \ {q}
                                            ELSE b.flags[d]
  BY DEF BaseState
<1>3. CASE e = ev_signal
  <2>1. Memberships(c) = Memberships(b) /\ ActiveSet(c) = ActiveSet(b)
    BY <1>2, <1>3 DEF Memberships, ActiveSet, Counted
  <2>2. c.count = b.count /\ c.active = b.active
    BY <1>3 DEF Docount, BaseState
  <2> QED
    BY <2>1, <2>2 DEF CountsCoherent, ActiveSet, Counted
<1>4. CASE e # ev_signal
  <2>1. Memberships(c) = Memberships(b) \ {<<e, q>>}
    BY <1>2, <1>4 DEF Memberships
  <2>2. <<e, q>> \in Memberships(b)
    BY <1>4 DEF Memberships
  <2>3. Cardinality(Memberships(c)) = Cardinality(Memberships(b)) - 1
    BY <1>1, <2>1, <2>2, FS_RemoveElement
  <2>4. CASE q = "ACTIVE"
    <3>1. ActiveSet(c) = ActiveSet(b) \ {e} /\ e \in ActiveSet(b)
      BY <1>2, <1>4, <2>4 DEF ActiveSet, Counted
    <3>2. Cardinality(ActiveSet(c)) = Cardinality(ActiveSet(b)) - 1
      BY <1>1, <3>1, FS_RemoveElement
    <3> QED
      BY <1>4, <2>3, <2>4, <3>2 DEF CountsCoherent, ActiveSet, Counted, Docount
  <2>5. CASE q # "ACTIVE"
    <3>1. ActiveSet(c) = ActiveSet(b)
      BY <1>2, <2>5 DEF ActiveSet, Counted
    <3> QED
      BY <1>4, <2>3, <2>5, <3>1 DEF CountsCoherent, ActiveSet, Counted, Docount
  <2> QED
    BY <2>4, <2>5
<1> QED
  BY <1>3, <1>4

-----------------------------------------------------------------------------
(***************************************************************************)
(* Soundness of the queue operations.                                      *)
(***************************************************************************)
LEMMA AppendOnce ==
    ASSUME NEW S, NEW s \in Seq(S), NEW e \in S, e \notin Range(s), NoRepeats(s)
    PROVE  /\ Range(Append(s, e)) = Range(s) \union {e}
           /\ NoRepeats(Append(s, e))
<1>1. /\ Len(Append(s, e)) = Len(s) + 1 /\ Len(s) \in Nat
      /\ \A i \in 1 .. Len(s) + 1 :
           Append(s, e)[i] = IF i <= Len(s) THEN s[i] ELSE e
  OBVIOUS
<1>2. \A i \in 1 .. Len(s) : s[i] # e
  BY DEF Range
<1>3. NoRepeats(Append(s, e))
  BY <1>1, <1>2 DEF NoRepeats
<1>4. DOMAIN Append(s, e) = 1 .. Len(s) + 1 /\ DOMAIN s = 1 .. Len(s)
  BY <1>1
<1>5. ASSUME NEW x PROVE x \in Range(Append(s, e)) <=> x \in Range(s) \union {e}
  <2>1. x \in Range(Append(s, e)) <=> \E i \in 1 .. Len(s) + 1 : Append(s, e)[i] = x
    BY <1>4 DEF Range
  <2>2. x \in Range(s) <=> \E i \in 1 .. Len(s) : s[i] = x
    BY <1>4 DEF Range
  <2> QED
    BY <1>1, <2>1, <2>2
<1> QED
  BY <1>3, <1>5

\* An event that becomes active is at the end of the queue, once.
LEMMA InsertSound ==
    ASSUME NEW b, Sound(b), NEW e \in Event, NEW q \in Queues,
           q \notin b.flags[e], q = "ACTIVE" => b.ncalls[e] > 0
    PROVE  LET c == QueueInsert(b, e, q)
           IN  /\ Sound(c)
               /\ SameButQueues(b, c)
               /\ c.flags = [b.flags EXCEPT ![e] = @ \union {q}]
<1> DEFINE c == QueueInsert(b, e, q)
<1>1. /\ c \in BaseState /\ SameButQueues(b, c)
      /\ c.flags = [b.flags EXCEPT ![e] = @ \union {q}]
      /\ c.count = b.count + Docount(e)
      /\ c.active = IF q = "ACTIVE" THEN b.active + Docount(e) ELSE b.active
      /\ c.activeq = IF q = "ACTIVE" THEN Append(b.activeq, e) ELSE b.activeq
  BY QueueInsertEffect DEF Sound
<1> HIDE DEF c
<1>2. \A d \in Event : c.flags[d] = IF d = e THEN b.flags[d] \union {q}
                                            ELSE b.flags[d]
  BY <1>1 DEF Sound, BaseState
<1>3. CountsCoherent(c)
  BY <1>1, CountsAfterInsert DEF Sound
<1>4. ActiveCoherent(c)
  <2>1. CASE q = "ACTIVE"
    <3>1. b.activeq \in Seq(Event) /\ e \notin Range(b.activeq) /\ NoRepeats(b.activeq)
      BY <2>1 DEF Sound, BaseState, ActiveCoherent, NoRepeats
    <3>2. /\ Range(c.activeq) = Range(b.activeq) \union {e}
          /\ NoRepeats(c.activeq)
      BY <1>1, <2>1, <3>1, AppendOnce
    <3> QED
      BY <1>2, <2>1, <3>2 DEF Sound, ActiveCoherent, NoRepeats
  <2>2. CASE q # "ACTIVE"
    BY <1>1, <1>2, <2>2 DEF Sound, ActiveCoherent
  <2> QED
    BY <2>1, <2>2
<1>5. HaveCalls(c)
  BY <1>1, <1>2 DEF Sound, HaveCalls, SameButQueues
<1>6. NoGarbage(c)
  BY <1>1 DEF Sound, NoGarbage, SameButQueues
<1>7. Sound(c)
  BY <1>1, <1>3, <1>4, <1>5, <1>6 DEF Sound
<1> QED
  BY <1>1, <1>7 DEF c

\* event_queue_remove keeps the base sound (event.c:711-749).
LEMMA RemoveSound ==
    ASSUME NEW b, Sound(b), NEW e \in Event, NEW q \in Queues, q \in b.flags[e]
    PROVE  LET c == QueueRemove(b, e, q)
           IN  /\ Sound(c)
               /\ SameButQueues(b, c)
               /\ c.flags = [b.flags EXCEPT ![e] = @ \ {q}]
<1> DEFINE c == QueueRemove(b, e, q)
<1>1. /\ c \in BaseState /\ SameButQueues(b, c)
      /\ c.flags = [b.flags EXCEPT ![e] = @ \ {q}]
      /\ c.count = b.count - Docount(e)
      /\ c.active = IF q = "ACTIVE" THEN b.active - Docount(e) ELSE b.active
      /\ c.activeq = IF q = "ACTIVE" THEN RemoveFirst(b.activeq, e) ELSE b.activeq
  BY QueueRemoveEffect DEF Sound
<1> HIDE DEF c
<1>2. \A d \in Event : c.flags[d] = IF d = e THEN b.flags[d] \ {q}
                                            ELSE b.flags[d]
  BY <1>1 DEF Sound, BaseState
<1>3. CountsCoherent(c)
  BY <1>1, CountsAfterRemove DEF Sound
<1>4. ActiveCoherent(c)
  <2>1. CASE q = "ACTIVE"
    <3>1. b.activeq \in Seq(Event) /\ e \in Range(b.activeq) /\ NoRepeats(b.activeq)
      BY <2>1 DEF Sound, BaseState, ActiveCoherent, NoRepeats
    <3>2. /\ Range(c.activeq) = Range(b.activeq) \ {e}
          /\ NoRepeats(c.activeq)
      BY <1>1, <2>1, <3>1, RemoveFirstOnce
    <3> QED
      BY <1>2, <2>1, <3>2 DEF Sound, ActiveCoherent, NoRepeats
  <2>2. CASE q # "ACTIVE"
    BY <1>1, <1>2, <2>2 DEF Sound, ActiveCoherent
  <2> QED
    BY <2>1, <2>2
<1>5. HaveCalls(c)
  BY <1>1, <1>2 DEF Sound, HaveCalls, SameButQueues
<1>6. NoGarbage(c)
  BY <1>1 DEF Sound, NoGarbage, SameButQueues
<1>7. Sound(c)
  BY <1>1, <1>3, <1>4, <1>5, <1>6 DEF Sound
<1> QED
  BY <1>1, <1>7 DEF c

-----------------------------------------------------------------------------
(***************************************************************************)
(* The epoll back end changes the table and the kernel's registration, and *)
(* nothing the queues depend on.                                           *)
(***************************************************************************)
SameButTable(b, c) ==
    /\ c.flags = b.flags /\ c.activeq = b.activeq
    /\ c.count = b.count /\ c.active = b.active
    /\ c.res = b.res /\ c.ncalls = b.ncalls /\ c.pn = b.pn /\ c.left = b.left
    /\ c.open = b.open

WithTable(b, K, R, W) == [b EXCEPT !.kern = K, !.evread = R, !.evwrite = W]

\* A new table leaves the rest of the base, and its types, alone.
LEMMA TableUpdate ==
    ASSUME NEW b \in BaseState, NEW K \in [Fd -> SUBSET Directions],
           NEW R \in [Fd -> TableEntry], NEW W \in [Fd -> TableEntry]
    PROVE  LET c == WithTable(b, K, R, W)
           IN  /\ c \in BaseState
               /\ SameButTable(b, c)
               /\ c.kern = K /\ c.evread = R /\ c.evwrite = W
BY DEF WithTable, BaseState, SameButTable

\* What epoll does to its table cannot disturb the queues.
LEMMA SoundTable ==
    ASSUME NEW b, Sound(b), NEW c \in BaseState, SameButTable(b, c), NoGarbage(c)
    PROVE  Sound(c)
<1>1. CountsCoherent(c)
  BY DEF Sound, CountsCoherent, SameButTable, Memberships
<1>2. ActiveCoherent(c)
  BY DEF Sound, ActiveCoherent, SameButTable
<1>3. HaveCalls(c)
  BY DEF Sound, HaveCalls, SameButTable
<1> QED
  BY <1>1, <1>2, <1>3 DEF Sound

\* epoll_add keeps the base sound, whether epoll_ctl succeeds or not
\* (epoll.c:261-307).
LEMMA EpollAddSound ==
    ASSUME NEW b, Sound(b), NEW e \in Event
    PROVE  LET c == EpollAdd(b, e)
           IN  Sound(c) /\ SameButTable(b, c)
<1> DEFINE f == FdOf[e]
           K == [b.kern EXCEPT ![f] = Watched(b, f) \union Wanted(e)]
           R == [b.evread EXCEPT ![f] = IF "READ" \in What[e] THEN e ELSE @]
           W == [b.evwrite EXCEPT ![f] = IF "WRITE" \in What[e] THEN e ELSE @]
<1>1. EpollAdd(b, e) = b \/ EpollAdd(b, e) = WithTable(b, K, R, W)
  BY DEF EpollAdd, WithTable
<1>2. /\ K \in [Fd -> SUBSET Directions]
      /\ R \in [Fd -> TableEntry] /\ W \in [Fd -> TableEntry]
  BY DEF Sound, BaseState, Watched, Wanted, Directions, TableEntry
<1>3. \A g \in Fd : R[g] # Garbage /\ W[g] # Garbage
  BY BaseConstants DEF EventAssumption, Sound, BaseState, NoGarbage
<1> HIDE DEF K, R, W
<1>4. LET c == WithTable(b, K, R, W)
      IN  /\ c \in BaseState /\ SameButTable(b, c)
          /\ c.kern = K /\ c.evread = R /\ c.evwrite = W
  BY <1>2, TableUpdate DEF Sound
<1>5. NoGarbage(WithTable(b, K, R, W))
  BY <1>3, <1>4 DEF NoGarbage
<1>6. Sound(WithTable(b, K, R, W))
  BY <1>4, <1>5, SoundTable
<1>7. SameButTable(b, b)
  BY DEF SameButTable
<1> QED
  BY <1>1, <1>4, <1>6, <1>7

\* epoll_del clears entries; whatever epoll_ctl answers.
LEMMA CtlEffect ==
    ASSUME NEW b \in BaseState, NEW f, NEW op, NEW I \in SUBSET Directions
    PROVE  /\ Ctl(b, f, op, I) \in BaseState
           /\ SameButTable(b, Ctl(b, f, op, I))
           /\ Ctl(b, f, op, I).evread = b.evread
           /\ Ctl(b, f, op, I).evwrite = b.evwrite
<1> DEFINE K == [b.kern EXCEPT ![f] = I]
<1>1. K \in [Fd -> SUBSET Directions]
  BY DEF BaseState
<1>2. Ctl(b, f, op, I) = b \/ Ctl(b, f, op, I) = [b EXCEPT !.kern = K]
  BY DEF Ctl
<1> HIDE DEF K
<1>3. /\ [b EXCEPT !.kern = K] \in BaseState
      /\ SameButTable(b, [b EXCEPT !.kern = K])
      /\ [b EXCEPT !.kern = K].evread = b.evread
      /\ [b EXCEPT !.kern = K].evwrite = b.evwrite
  BY <1>1 DEF BaseState, SameButTable
<1>4. SameButTable(b, b)
  BY DEF SameButTable
<1> QED
  BY <1>2, <1>3, <1>4

\* epoll_del keeps the base sound (epoll.c:309-358).
LEMMA EpollDelSound ==
    ASSUME NEW b, Sound(b), NEW e \in Event
    PROVE  LET c == EpollDel(b, e)
           IN  Sound(c) /\ SameButTable(b, c)
<1> DEFINE f         == FdOf[e]
           keepWrite == Wanted(e) = {"IN"} /\ b.evwrite[f] # NoEvent
           keepRead  == Wanted(e) = {"OUT"} /\ b.evread[f] # NoEvent
           R == [b.evread EXCEPT ![f] = IF keepRead THEN @ ELSE NoEvent]
           W == [b.evwrite EXCEPT ![f] = IF keepWrite THEN @ ELSE NoEvent]
           d == WithTable(b, b.kern, R, W)
<1>1. d = [b EXCEPT !.evread[f] = IF keepRead THEN @ ELSE NoEvent,
                    !.evwrite[f] = IF keepWrite THEN @ ELSE NoEvent]
  BY DEF WithTable, Sound, BaseState
<1>2. /\ b.kern \in [Fd -> SUBSET Directions]
      /\ R \in [Fd -> TableEntry] /\ W \in [Fd -> TableEntry]
  BY DEF Sound, BaseState, TableEntry
<1>3. \A g \in Fd : R[g] # Garbage /\ W[g] # Garbage
  BY BaseConstants DEF EventAssumption, Sound, BaseState, NoGarbage
<1>4. \/ EpollDel(b, e) = b
      \/ EpollDel(b, e) = Ctl(d, f, "MOD", {"OUT"})
      \/ EpollDel(b, e) = Ctl(d, f, "MOD", {"IN"})
      \/ EpollDel(b, e) = Ctl(d, f, "DEL", {})
  BY <1>1 DEF EpollDel
<1> HIDE DEF keepWrite, keepRead, R, W
<1>5. d \in BaseState /\ SameButTable(b, d) /\ d.evread = R /\ d.evwrite = W
  BY <1>2, TableUpdate DEF Sound
<1> HIDE DEF d
<1>6. ASSUME NEW op, NEW I \in SUBSET Directions
      PROVE  Sound(Ctl(d, f, op, I)) /\ SameButTable(b, Ctl(d, f, op, I))
  <2>1. /\ Ctl(d, f, op, I) \in BaseState /\ SameButTable(d, Ctl(d, f, op, I))
        /\ Ctl(d, f, op, I).evread = R /\ Ctl(d, f, op, I).evwrite = W
    BY <1>5, CtlEffect
  <2>2. NoGarbage(Ctl(d, f, op, I))
    BY <1>3, <2>1 DEF NoGarbage
  <2>3. SameButTable(b, Ctl(d, f, op, I))
    BY <1>5, <2>1 DEF SameButTable
  <2> QED
    BY <2>1, <2>2, <2>3, SoundTable
<1>7. SameButTable(b, b)
  BY DEF SameButTable
<1> QED
  BY <1>4, <1>6, <1>7 DEF Directions

-----------------------------------------------------------------------------
(***************************************************************************)
(* Soundness of the client's operations.  Each touches the flags of one    *)
(* event only and makes none active.                                       *)
(***************************************************************************)
Only(e, b, c) ==
    /\ \A d \in Event \ {e} : c.flags[d] = b.flags[d]
    /\ "ACTIVE" \in c.flags[e] => "ACTIVE" \in b.flags[e]

\* Two operations on the same event are one operation on it.
LEMMA OnlyChain ==
    ASSUME NEW e \in Event, NEW a, NEW b, NEW c, Only(e, a, b), Only(e, b, c)
    PROVE  Only(e, a, c)
BY DEF Only

\* Removing an event from a queue it may be on.
LEMMA RemoveIfOnSound ==
    ASSUME NEW b, Sound(b), NEW e \in Event, NEW q \in Queues
    PROVE  LET c == RemoveIfOn(b, e, q)
           IN  /\ Sound(c) /\ SameButQueues(b, c)
               /\ c.flags = [b.flags EXCEPT ![e] = @ \ {q}]
               /\ Only(e, b, c)
<1>1. CASE q \in b.flags[e]
  <2> DEFINE c == QueueRemove(b, e, q)
  <2>1. RemoveIfOn(b, e, q) = c
    BY <1>1 DEF RemoveIfOn
  <2>2. /\ Sound(c) /\ SameButQueues(b, c)
        /\ c.flags = [b.flags EXCEPT ![e] = @ \ {q}]
    BY <1>1, RemoveSound
  <2> HIDE DEF c
  <2>3. Only(e, b, c)
    BY <2>2 DEF Only, Sound, BaseState
  <2> QED
    BY <2>1, <2>2, <2>3
<1>2. CASE q \notin b.flags[e]
  <2>1. RemoveIfOn(b, e, q) = b
    BY <1>2 DEF RemoveIfOn
  <2>2. b.flags = [b.flags EXCEPT ![e] = @ \ {q}]
    BY <1>2 DEF Sound, BaseState
  <2>3. SameButQueues(b, b) /\ Only(e, b, b)
    BY DEF SameButQueues, Only
  <2> QED
    BY <2>1, <2>2, <2>3
<1> QED
  BY <1>1, <1>2

\* The calls left to make of the event being executed are not part of what
\* the queues and counters say.
LEMMA LeftSound ==
    ASSUME NEW b, Sound(b), NEW n \in Nat
    PROVE  LET c == [b EXCEPT !.left = n]
           IN  /\ Sound(c) /\ c.flags = b.flags /\ c.res = b.res
               /\ c.ncalls = b.ncalls /\ c.left = n /\ c.pn = b.pn
<1> DEFINE c == [b EXCEPT !.left = n]
<1>1. /\ c \in BaseState /\ c.flags = b.flags /\ c.activeq = b.activeq
      /\ c.count = b.count /\ c.active = b.active /\ c.ncalls = b.ncalls
      /\ c.evread = b.evread /\ c.evwrite = b.evwrite /\ c.res = b.res
      /\ c.left = n /\ c.pn = b.pn
  BY DEF Sound, BaseState
<1> HIDE DEF c
<1>2. Sound(c)
  BY <1>1 DEF Sound, NoGarbage, ActiveCoherent, HaveCalls, CountsCoherent,
              Memberships
<1> QED
  BY <1>1, <1>2 DEF c

\* Aborting the calls of an event (event.c:543-547, 600-604).
LEMMA AbortSound ==
    ASSUME NEW b, Sound(b), NEW e \in Event
    PROVE  LET c == AbortCalls(b, e)
           IN  Sound(c) /\ c.flags = b.flags
BY LeftSound DEF AbortCalls

\* event_add with a timeout, on a timer that waits, has expired or is new
\* (event.c:528-560).
LEMMA ScheduleSound ==
    ASSUME NEW b, Sound(b), NEW e \in Event
    PROVE  Sound(Schedule(b, e)) /\ Only(e, b, Schedule(b, e))
<1> DEFINE b1 == RemoveIfOn(b, e, "TIMEOUT")
           b2 == QueueRemove(AbortCalls(b1, e), e, "ACTIVE")
<1>1. /\ Sound(b1) /\ b1.flags = [b.flags EXCEPT ![e] = @ \ {"TIMEOUT"}]
      /\ Only(e, b, b1)
  BY RemoveIfOnSound DEF Queues
<1>2. "TIMEOUT" \notin b1.flags[e]
      /\ ("ACTIVE" \in b.flags[e] => "ACTIVE" \in b1.flags[e])
  BY <1>1 DEF Sound, BaseState
<1>3. Schedule(b, e) = QueueInsert(b1, e, "TIMEOUT")
      \/ ("ACTIVE" \in b.flags[e] /\ Schedule(b, e) = QueueInsert(b2, e, "TIMEOUT"))
  BY DEF Schedule
<1> HIDE DEF b1
<1>4. Sound(AbortCalls(b1, e)) /\ AbortCalls(b1, e).flags = b1.flags
  BY <1>1, AbortSound
<1>5. ASSUME "ACTIVE" \in b.flags[e]
      PROVE  /\ Sound(b2)
             /\ b2.flags = [b1.flags EXCEPT ![e] = @ \ {"ACTIVE"}]
  <2> DEFINE a == AbortCalls(b1, e)
  <2>1. "ACTIVE" \in a.flags[e] /\ "ACTIVE" \in Queues
    BY <1>2, <1>4, <1>5 DEF Queues
  <2>2. Sound(a) /\ a.flags = b1.flags
    BY <1>4
  <2> HIDE DEF a
  <2>3. LET c == QueueRemove(a, e, "ACTIVE")
        IN  Sound(c) /\ c.flags = [a.flags EXCEPT ![e] = @ \ {"ACTIVE"}]
    BY <2>1, <2>2, RemoveSound
  <2> QED
    BY <2>2, <2>3 DEF a
<1> HIDE DEF b2
<1>6. ASSUME "ACTIVE" \in b.flags[e]
      PROVE  "TIMEOUT" \notin b2.flags[e] /\ Only(e, b1, b2)
  BY <1>1, <1>2, <1>5, <1>6 DEF Only, Sound, BaseState
<1>7. ASSUME NEW c, Sound(c), Only(e, b, c), "TIMEOUT" \notin c.flags[e]
      PROVE  /\ Sound(QueueInsert(c, e, "TIMEOUT"))
             /\ Only(e, b, QueueInsert(c, e, "TIMEOUT"))
  <2> DEFINE d == QueueInsert(c, e, "TIMEOUT")
  <2>1. Sound(d) /\ d.flags = [c.flags EXCEPT ![e] = @ \union {"TIMEOUT"}]
    BY <1>7, InsertSound DEF Queues
  <2> HIDE DEF d
  <2>2. Only(e, b, d)
    BY <1>7, <2>1 DEF Only, Sound, BaseState
  <2> QED
    BY <2>1, <2>2 DEF d
<1>8. CASE Schedule(b, e) = QueueInsert(b1, e, "TIMEOUT")
  BY <1>1, <1>2, <1>7, <1>8
<1>9. CASE /\ "ACTIVE" \in b.flags[e]
           /\ Schedule(b, e) = QueueInsert(b2, e, "TIMEOUT")
  <2>1. Only(e, b, b2)
    BY <1>1, <1>6, <1>9, OnlyChain
  <2> QED
    BY <1>5, <1>6, <1>7, <1>9, <2>1
<1> QED
  BY <1>3, <1>8, <1>9

\* The I/O and signal part of event_add (event.c:562-573).
LEMMA WatchSound ==
    ASSUME NEW b, Sound(b), NEW e \in Event
    PROVE  Sound(Watch(b, e)) /\ Only(e, b, Watch(b, e))
<1>1. ASSUME NEW q \in {"INSERTED", "SIGNAL"}, q \notin b.flags[e]
      PROVE  Sound(QueueInsert(b, e, q)) /\ Only(e, b, QueueInsert(b, e, q))
  <2> DEFINE d == QueueInsert(b, e, q)
  <2>0. q \in Queues /\ q # "ACTIVE"
    BY DEF Queues
  <2>1. Sound(d) /\ d.flags = [b.flags EXCEPT ![e] = @ \union {q}]
    BY <1>1, <2>0, InsertSound
  <2> HIDE DEF d
  <2>2. Only(e, b, d)
    BY <1>1, <2>1 DEF Only, Sound, BaseState
  <2> QED
    BY <2>1, <2>2 DEF d
<1>2. CASE Wanted(e) # {} /\ b.flags[e] \intersect {"INSERTED", "ACTIVE"} = {}
  <2> DEFINE d == QueueInsert(b, e, "INSERTED")
  <2>1. Watch(b, e) = EpollAdd(d, e)
    BY <1>2 DEF Watch
  <2>2. Sound(d) /\ Only(e, b, d)
    BY <1>1, <1>2
  <2> HIDE DEF d
  <2>3. Sound(EpollAdd(d, e)) /\ SameButTable(d, EpollAdd(d, e))
    BY <2>2, EpollAddSound
  <2> QED
    BY <2>1, <2>2, <2>3 DEF Only, SameButTable
<1>3. CASE ~(Wanted(e) # {} /\ b.flags[e] \intersect {"INSERTED", "ACTIVE"} = {})
  <2>1. Only(e, b, b)
    BY DEF Only
  <2>2. \/ Watch(b, e) = b
        \/ "SIGNAL" \notin b.flags[e] /\ Watch(b, e) = QueueInsert(b, e, "SIGNAL")
    BY <1>3 DEF Watch
  <2> QED
    BY <1>1, <2>1, <2>2
<1> QED
  BY <1>2, <1>3

\* event_add keeps the base sound, whatever queues the event is on
\* (event.c:512-576).
LEMMA EventAddSound ==
    ASSUME NEW b, Sound(b), NEW e \in Event
    PROVE  /\ Sound(EventAdd(b, e)) /\ Only(e, b, EventAdd(b, e))
           /\ Sound(EventAddTimeout(b, e)) /\ Only(e, b, EventAddTimeout(b, e))
<1>1. Sound(EventAdd(b, e)) /\ Only(e, b, EventAdd(b, e))
  BY WatchSound DEF EventAdd
<1>2. Sound(Schedule(b, e)) /\ Only(e, b, Schedule(b, e))
  BY ScheduleSound
<1> QED
  BY <1>1, <1>2, WatchSound, OnlyChain DEF EventAddTimeout

\* event_del leaves an event on no queue the loop would call it from.
LEMMA EventDelSound ==
    ASSUME NEW b, Sound(b), NEW e \in Event
    PROVE  /\ Sound(EventDel(b, e)) /\ Only(e, b, EventDel(b, e))
           /\ "ACTIVE" \notin EventDel(b, e).flags[e]
<1> DEFINE a  == AbortCalls(b, e)
           b1 == RemoveIfOn(a, e, "TIMEOUT")
           b2 == RemoveIfOn(b1, e, "ACTIVE")
           b3 == QueueRemove(b2, e, "INSERTED")
<1>1. EventDel(b, e) = IF "INSERTED" \in b.flags[e] THEN EpollDel(b3, e)
                       ELSE RemoveIfOn(b2, e, "SIGNAL")
  BY DEF EventDel
<1>2. Sound(a) /\ a.flags = b.flags
  BY AbortSound
<1> HIDE DEF a
<1>3. Sound(b1) /\ b1.flags = [a.flags EXCEPT ![e] = @ \ {"TIMEOUT"}]
  BY <1>2, RemoveIfOnSound DEF Queues
<1> HIDE DEF b1
<1>4. Sound(b2) /\ b2.flags = [b1.flags EXCEPT ![e] = @ \ {"ACTIVE"}]
  BY <1>3, RemoveIfOnSound DEF Queues
<1> HIDE DEF b2
<1>5. /\ Only(e, b, b2) /\ "ACTIVE" \notin b2.flags[e]
      /\ "INSERTED" \in b.flags[e] => "INSERTED" \in b2.flags[e]
  BY <1>2, <1>3, <1>4 DEF Only, Sound, BaseState
<1>6. CASE "INSERTED" \in b.flags[e]
  <2>1. Sound(b3) /\ b3.flags = [b2.flags EXCEPT ![e] = @ \ {"INSERTED"}]
    BY <1>4, <1>5, <1>6, RemoveSound DEF Queues
  <2> HIDE DEF b3
  <2>2. Only(e, b2, b3) /\ "ACTIVE" \notin b3.flags[e]
    BY <1>5, <2>1 DEF Only, Sound, BaseState
  <2>3. Sound(EpollDel(b3, e)) /\ SameButTable(b3, EpollDel(b3, e))
    BY <2>1, EpollDelSound
  <2> QED
    BY <1>1, <1>5, <1>6, <2>2, <2>3 DEF Only, SameButTable
<1>7. CASE "INSERTED" \notin b.flags[e]
  <2> DEFINE c == RemoveIfOn(b2, e, "SIGNAL")
  <2>1. Sound(c) /\ c.flags = [b2.flags EXCEPT ![e] = @ \ {"SIGNAL"}] /\ Only(e, b2, c)
    BY <1>4, RemoveIfOnSound DEF Queues
  <2> HIDE DEF c
  <2>2. Only(e, b, c) /\ "ACTIVE" \notin c.flags[e]
    BY <1>5, <2>1, OnlyChain DEF Only
  <2> QED
    BY <1>1, <1>7, <2>1, <2>2 DEF c
<1> QED
  BY <1>6, <1>7

\* event_set on an event that is on no queue (event.c:441-468).
LEMMA EventSetSound ==
    ASSUME NEW b, Sound(b), NEW e \in Event, b.flags[e] = {}
    PROVE  /\ Sound(EventSet(b, e)) /\ EventSet(b, e).flags = b.flags
           /\ EventSet(b, e).left = b.left
<1> DEFINE c == EventSet(b, e)
<1>1. /\ c \in BaseState /\ c.flags = [b.flags EXCEPT ![e] = {}]
      /\ c.activeq = b.activeq /\ c.count = b.count /\ c.active = b.active
      /\ c.ncalls = [b.ncalls EXCEPT ![e] = 0] /\ c.left = b.left
      /\ c.evread = b.evread /\ c.evwrite = b.evwrite
  BY DEF EventSet, Sound, BaseState
<1> HIDE DEF c
<1>2. c.flags = b.flags
  BY <1>1 DEF Sound, BaseState
<1>3. HaveCalls(c)
  BY <1>1, <1>2 DEF Sound, BaseState, HaveCalls
<1>4. Sound(c)
  BY <1>1, <1>2, <1>3
     DEF Sound, NoGarbage, ActiveCoherent, CountsCoherent, Memberships
<1> QED
  BY <1>1, <1>2, <1>4 DEF c

-----------------------------------------------------------------------------
(***************************************************************************)
(* Soundness of the loop's operations.                                     *)
(***************************************************************************)
LEMMA EventActiveSound ==
    ASSUME NEW b, Sound(b), NEW e \in Event,
           NEW why \in Interests \union {"TIMEOUT"}, NEW n \in Nat \ {0}
    PROVE  Sound(EventActive(b, e, why, n))
<1>1. CASE "ACTIVE" \in b.flags[e]
  <2> DEFINE c == [b EXCEPT !.res[e] = @ \union {why}]
  <2>1. /\ c \in BaseState /\ SameButQueues(b, [c EXCEPT !.res = b.res])
        /\ c.flags = b.flags /\ c.activeq = b.activeq /\ c.ncalls = b.ncalls
        /\ c.count = b.count /\ c.active = b.active
        /\ c.evread = b.evread /\ c.evwrite = b.evwrite
    BY DEF Sound, BaseState, SameButQueues
  <2>2. EventActive(b, e, why, n) = c
    BY <1>1 DEF EventActive
  <2> HIDE DEF c
  <2> QED
    BY <2>1, <2>2 DEF Sound, NoGarbage, ActiveCoherent, HaveCalls, CountsCoherent,
                      Memberships
<1>2. CASE "ACTIVE" \notin b.flags[e]
  <2> DEFINE c == [b EXCEPT !.res[e] = {why}, !.ncalls[e] = n, !.pn = @ \ {e}]
  <2>1. /\ c \in BaseState
        /\ c.flags = b.flags /\ c.activeq = b.activeq
        /\ c.ncalls = [b.ncalls EXCEPT ![e] = n]
        /\ c.count = b.count /\ c.active = b.active
        /\ c.evread = b.evread /\ c.evwrite = b.evwrite
    BY DEF Sound, BaseState
  <2>2. EventActive(b, e, why, n) = QueueInsert(c, e, "ACTIVE")
    BY <1>2 DEF EventActive
  <2> HIDE DEF c
  <2>3. HaveCalls(c) /\ c.ncalls[e] > 0
    BY <2>1 DEF Sound, BaseState, HaveCalls
  <2>4. Sound(c)
    BY <2>1, <2>3 DEF Sound, NoGarbage, ActiveCoherent, CountsCoherent, Memberships
  <2>5. "ACTIVE" \notin c.flags[e] /\ "ACTIVE" \in Queues
    BY <1>2, <2>1 DEF Queues
  <2>6. LET d == QueueInsert(c, e, "ACTIVE") IN Sound(d)
    BY <2>3, <2>4, <2>5, InsertSound
  <2> QED
    BY <2>2, <2>6
<1> QED
  BY <1>1, <1>2

\* epoll_dispatch deletes the events that do not persist (epoll.c:245-249).
LEMMA DelOneShotSound ==
    ASSUME NEW b, Sound(b), NEW e \in Event
    PROVE  Sound(DelOneShot(b, e))
BY EventDelSound DEF DelOneShot

\* epoll_dispatch's treatment of one answer: the reader and the writer the
\* table names are events.
LEMMA ReportSound ==
    ASSUME NEW b, Sound(b), NEW f \in Fd, NEW what
    PROVE  Sound(Report(b, f, what))
<1> DEFINE w  == IF "HUP" \in what THEN Directions ELSE what
           rd == IF "IN" \in w THEN b.evread[f] ELSE NoEvent
           wr == IF "OUT" \in w THEN b.evwrite[f] ELSE NoEvent
           b1 == IF rd # NoEvent THEN DelOneShot(b, rd) ELSE b
           b2 == IF wr # NoEvent /\ wr # rd THEN DelOneShot(b1, wr) ELSE b1
           b3 == IF rd # NoEvent THEN EventActive(b2, rd, "READ", 1) ELSE b2
<1>1. Report(b, f, what) = IF wr # NoEvent THEN EventActive(b3, wr, "WRITE", 1)
                           ELSE b3
  BY DEF Report
<1>2. rd \in Event \union {NoEvent} /\ wr \in Event \union {NoEvent}
  BY DEF Sound, BaseState, NoGarbage, TableEntry
<1> HIDE DEF rd, wr
<1>3. Sound(b1)
  BY <1>2, DelOneShotSound
<1> HIDE DEF b1
<1>4. Sound(b2)
  BY <1>2, <1>3, DelOneShotSound
<1> HIDE DEF b2
<1>5. Sound(b3)
  BY <1>2, <1>4, EventActiveSound DEF Interests
<1> HIDE DEF b3
<1> QED
  BY <1>1, <1>2, <1>5, EventActiveSound DEF Interests

\* timeout_process for one expired timer (event.c:687-709).
LEMMA ExpireSound ==
    ASSUME NEW b, Sound(b), NEW e \in Event, "TIMEOUT" \in b.flags[e]
    PROVE  Sound(Expire(b, e))
<1>1. Sound(QueueRemove(b, e, "TIMEOUT"))
  BY RemoveSound DEF Queues
<1>2. Sound(EventDel(QueueRemove(b, e, "TIMEOUT"), e))
  BY <1>1, EventDelSound
<1> QED
  BY <1>2, EventActiveSound DEF Expire

\* The head of the queue is an event that is active and has calls to make.
LEMMA PopActiveSound ==
    ASSUME NEW b, Sound(b), b.activeq # << >>
    PROVE  LET e == Head(b.activeq)
               c == PopActive(b)
           IN  /\ e \in Event
               /\ Sound(c)
               /\ c.left > 0
               /\ c.flags = [b.flags EXCEPT ![e] = @ \ {"ACTIVE"}]
<1> DEFINE e == Head(b.activeq)
           d == QueueRemove(b, e, "ACTIVE")
<1>1. e \in Event /\ "ACTIVE" \in b.flags[e]
  <2>1. b.activeq \in Seq(Event) /\ 1 \in DOMAIN b.activeq /\ e = b.activeq[1]
    BY DEF Sound, BaseState
  <2> QED
    BY <2>1 DEF Sound, ActiveCoherent, Range
<1>2. b.ncalls[e] \in Nat /\ b.ncalls[e] > 0
  BY <1>1 DEF Sound, BaseState, HaveCalls
<1> HIDE DEF e
<1>3. Sound(d) /\ SameButQueues(b, d) /\ d.flags = [b.flags EXCEPT ![e] = @ \ {"ACTIVE"}]
  BY <1>1, RemoveSound DEF Queues
<1>4. PopActive(b) = [d EXCEPT !.left = b.ncalls[e], !.pn = @ \union {e}]
  BY DEF PopActive, e
<1> HIDE DEF d
<1> DEFINE c == [d EXCEPT !.left = b.ncalls[e], !.pn = @ \union {e}]
<1>5. /\ c \in BaseState /\ c.flags = d.flags /\ c.activeq = d.activeq
      /\ c.count = d.count /\ c.active = d.active /\ c.ncalls = d.ncalls
      /\ c.evread = d.evread /\ c.evwrite = d.evwrite
      /\ c.left = b.ncalls[e]
  BY <1>1, <1>2, <1>3 DEF Sound, BaseState
<1> HIDE DEF c
<1>6. Sound(c)
  BY <1>3, <1>5 DEF Sound, NoGarbage, ActiveCoherent, HaveCalls, CountsCoherent,
                    Memberships
<1> QED
  BY <1>1, <1>2, <1>3, <1>4, <1>5, <1>6 DEF c, e

\* Counting a call of the event being executed, which is not active
\* (event.c:250-255).
LEMMA CountCallSound ==
    ASSUME NEW b, Sound(b), NEW e \in Event, b.left > 0, "ACTIVE" \notin b.flags[e]
    PROVE  Sound(CountCall(b, e)) /\ CountCall(b, e).flags = b.flags
<1> DEFINE c == CountCall(b, e)
<1>1. b.left - 1 \in Nat
  BY DEF Sound, BaseState
<1>2. /\ c \in BaseState /\ c.flags = b.flags /\ c.activeq = b.activeq
      /\ c.count = b.count /\ c.active = b.active
      /\ c.ncalls = [b.ncalls EXCEPT ![e] = b.left - 1]
      /\ c.evread = b.evread /\ c.evwrite = b.evwrite
  BY <1>1 DEF CountCall, Sound, BaseState
<1> HIDE DEF c
<1>3. HaveCalls(c)
  BY <1>2 DEF Sound, BaseState, HaveCalls
<1>4. Sound(c)
  BY <1>2, <1>3 DEF Sound, NoGarbage, ActiveCoherent, CountsCoherent, Memberships
<1> QED
  BY <1>2, <1>4 DEF c

\* A fresh base is sound, as long as no descriptor reads the memory after
\* the array.
LEMMA EmptyBaseSound ==
    ASSUME NEW b \in EmptyBase, NFiles \notin Fd
    PROVE  Sound(b)
<1>0. PICK past \in {NoEvent, Garbage} : b = FreshBase(past)
  BY DEF EmptyBase
<1>1. /\ b.flags = [e \in Event |-> {}] /\ b.activeq = << >>
      /\ b.count = 0 /\ b.active = 0
      /\ b.evread = [f \in Fd |-> NoEvent]
      /\ b.evwrite = [f \in Fd |-> IF f = NFiles THEN past ELSE NoEvent]
  BY <1>0 DEF FreshBase
<1>2. b \in BaseState
  <2> DEFINE F == [e \in Event |-> {}]
             N == [e \in Event |-> 0]
             R == [f \in Fd |-> NoEvent]
             W == [f \in Fd |-> IF f = NFiles THEN past ELSE NoEvent]
             K == [f \in Fd |-> {}]
             Q == << >>
  <2>1. /\ F \in [Event -> SUBSET Queues]
        /\ F \in [Event -> SUBSET (Interests \union {"TIMEOUT"})]
        /\ N \in [Event -> Nat] /\ R \in [Fd -> TableEntry]
        /\ W \in [Fd -> TableEntry] /\ K \in [Fd -> SUBSET Directions]
        /\ Q \in Seq(Event)
    BY DEF TableEntry
  <2>2. b = [flags |-> F, res |-> F, ncalls |-> N, pn |-> {}, left |-> 0,
             evread |-> R, evwrite |-> W, kern |-> K, open |-> Fd,
             activeq |-> Q, count |-> 0, active |-> 0]
    BY <1>0 DEF FreshBase
  <2> HIDE DEF F, N, R, W, K, Q
  <2> QED
    BY <2>1, <2>2 DEF BaseState
<1>3. NoGarbage(b)
  BY <1>1, BaseConstants DEF NoGarbage, EventAssumption
<1>4. ActiveCoherent(b) /\ HaveCalls(b)
  BY <1>1 DEF ActiveCoherent, HaveCalls, Range
<1>5. CountsCoherent(b)
  <2>1. Memberships(b) = {} /\ {e \in Event \ {ev_signal} : "ACTIVE" \in b.flags[e]} = {}
    BY <1>1 DEF Memberships
  <2> QED
    BY <1>1, <2>1, FS_EmptySet DEF CountsCoherent
<1> QED
  BY <1>2, <1>3, <1>4, <1>5 DEF Sound
-----------------------------------------------------------------------------
(***************************************************************************)
(* Coherent states: sound ones in which every event is on queues of its    *)
(* own kind only, a timer is active because it expired, and the table and  *)
(* the kernel's registrations say what the flags say.  TableOf looks at    *)
(* the table alone: it holds the events of S.                              *)
(***************************************************************************)
Places(e) ==
    {"ACTIVE"} \union (IF Wanted(e) # {} THEN {"INSERTED"}
                       ELSE IF IsSignal(e) THEN {"SIGNAL"}
                       ELSE IF IsTimer(e) THEN {"TIMEOUT"} ELSE {})

Fits(b) == \A e \in Event : b.flags[e] \subseteq Places(e)

TimersExpired(b) ==
    \A e \in Event : IsTimer(e) /\ "ACTIVE" \in b.flags[e] => "TIMEOUT" \in b.res[e]

TableOf(b, S) ==
    /\ \A e \in Event, f \in Fd :
         /\ b.evread[f] = e <=> FdOf[e] = f /\ "READ" \in What[e] /\ e \in S
         /\ b.evwrite[f] = e <=> FdOf[e] = f /\ "WRITE" \in What[e] /\ e \in S
    /\ \A f \in Fd : b.kern[f] = IF f \in b.open THEN Watched(b, f) ELSE {}

Inserted(b) == {e \in Event : "INSERTED" \in b.flags[e]}

Coherent(b) ==
    Sound(b) /\ Fits(b) /\ TimersExpired(b) /\ TableOf(b, Inserted(b))

\* What the operations on queues leave alone.
SameTable(b, c) ==
    /\ c.evread = b.evread /\ c.evwrite = b.evwrite
    /\ c.kern = b.kern /\ c.open = b.open

\* From b to c the flags of e become F, and neither the table nor the
\* recorded results change.
Flagged(b, c, e, F) ==
    c.flags = [b.flags EXCEPT ![e] = F] /\ SameTable(b, c) /\ c.res = b.res

\* The part of Coherent that TableOK checks.
LEMMA CoherentTable == ASSUME NEW b, Coherent(b) PROVE TableCoherent(b)
BY DEF Coherent, Sound, BaseState, TableOf, Inserted, TableCoherent

\* A step on the queues, within an event's own kind, that neither inserts it
\* in the table's queue nor takes it off.
LEMMA QueuesCoherent ==
    ASSUME NEW b, Coherent(b), NEW c, Sound(c), NEW e \in Event, NEW F,
           Flagged(b, c, e, F), F \subseteq Places(e),
           "INSERTED" \in F <=> "INSERTED" \in b.flags[e],
           IsTimer(e) /\ "ACTIVE" \in F => "ACTIVE" \in b.flags[e]
    PROVE  Coherent(c)
<1>1. \A d \in Event : c.flags[d] = IF d = e THEN F ELSE b.flags[d]
  BY DEF Flagged, Coherent, Sound, BaseState
<1>2. Inserted(c) = Inserted(b)
  BY <1>1 DEF Inserted
<1>3. TableOf(c, Inserted(b))
  BY DEF Coherent, TableOf, Flagged, SameTable, Watched
<1>4. Fits(c)
  BY <1>1 DEF Coherent, Fits
<1>5. TimersExpired(c)
  BY <1>1 DEF Coherent, TimersExpired, Flagged
<1> QED
  BY <1>2, <1>3, <1>4, <1>5 DEF Coherent

\* Two such steps on one event are one.
LEMMA FlaggedChain ==
    ASSUME NEW e \in Event, NEW a \in BaseState, NEW b, NEW c, NEW F, NEW G,
           Flagged(a, b, e, F), Flagged(b, c, e, G)
    PROVE  Flagged(a, c, e, G)
BY DEF Flagged, SameTable, BaseState

\* Aborting calls changes no flag and no entry of the table.
LEMMA AbortFlagged ==
    ASSUME NEW b, Sound(b), NEW e \in Event
    PROVE  LET c == AbortCalls(b, e)
           IN  Sound(c) /\ c.flags = b.flags /\ SameTable(b, c) /\ c.res = b.res
<1>1. AbortCalls(b, e) = b \/ AbortCalls(b, e) = [b EXCEPT !.left = 0]
  BY DEF AbortCalls
<1>2. LET c == [b EXCEPT !.left = 0] IN SameTable(b, c) /\ c.res = b.res
  BY DEF Sound, BaseState, SameTable
<1>3. SameTable(b, b)
  BY DEF SameTable
<1> QED
  BY <1>1, <1>2, <1>3, AbortSound

\* Removing an event from a queue it may be on.
LEMMA RemoveIfOnFlagged ==
    ASSUME NEW b, Sound(b), NEW e \in Event, NEW q \in Queues
    PROVE  LET c == RemoveIfOn(b, e, q)
           IN  Sound(c) /\ Flagged(b, c, e, b.flags[e] \ {q})
<1> DEFINE c == RemoveIfOn(b, e, q)
<1>1. Sound(c) /\ SameButQueues(b, c) /\ c.flags = [b.flags EXCEPT ![e] = @ \ {q}]
  BY RemoveIfOnSound
<1> HIDE DEF c
<1>2. Flagged(b, c, e, b.flags[e] \ {q})
  BY <1>1 DEF Flagged, SameTable, SameButQueues
<1> QED
  BY <1>1, <1>2 DEF c
-----------------------------------------------------------------------------
(***************************************************************************)
(* The table under epoll_add and epoll_del.                                *)
(***************************************************************************)
LEMMA WantedDirections ==
    ASSUME NEW e \in Event
    PROVE  /\ Wanted(e) \in SUBSET Directions
           /\ "IN" \in Wanted(e) <=> "READ" \in What[e]
           /\ "OUT" \in Wanted(e) <=> "WRITE" \in What[e]
           /\ Wanted(e) # {} <=> FdOf[e] \in Fd
<1>1. FdOf[e] \in Fd <=> What[e] \intersect {"READ", "WRITE"} # {}
  BY BaseConstants DEF EventAssumption
<1>2. What[e] \intersect {"READ", "WRITE"} # {}
      <=> "READ" \in What[e] \/ "WRITE" \in What[e]
  OBVIOUS
<1> QED
  BY <1>1, <1>2 DEF Wanted, Directions

\* A slot that is not NULL names an event of the set.
LEMMA SlotEvent ==
    ASSUME NEW b \in BaseState, NoGarbage(b), NEW S, TableOf(b, S), NEW f \in Fd
    PROVE  /\ b.evread[f] = NoEvent \/ b.evread[f] \in Event
           /\ b.evwrite[f] = NoEvent \/ b.evwrite[f] \in Event
           /\ b.evread[f] # NoEvent =>
                /\ b.evread[f] \in S /\ FdOf[b.evread[f]] = f
                /\ "READ" \in What[b.evread[f]]
           /\ b.evwrite[f] # NoEvent =>
                /\ b.evwrite[f] \in S /\ FdOf[b.evwrite[f]] = f
                /\ "WRITE" \in What[b.evwrite[f]]
<1>1. /\ b.evread[f] \in Event \union {NoEvent}
      /\ b.evwrite[f] \in Event \union {NoEvent}
  BY DEF BaseState, TableEntry, NoGarbage
<1> QED
  BY <1>1 DEF TableOf

\* No event of S other than e waits for what e waits for.
Alone(e, S) ==
    \A d \in S \ {e} : FdOf[d] = FdOf[e] => Wanted(d) \intersect Wanted(e) = {}

\* epoll_add puts an event in the table next to the one that waits for the
\* other direction (epoll.c:261-307).
LEMMA EpollAddTable ==
    ASSUME NEW b \in BaseState, NoGarbage(b), NEW S \in SUBSET Event, TableOf(b, S),
           NEW e \in Event, FdOf[e] \in b.open, Alone(e, S)
    PROVE  LET c == EpollAdd(b, e)
           IN  TableOf(c, S \union {e}) /\ c.open = b.open
<1> DEFINE f == FdOf[e]
           K == [b.kern EXCEPT ![f] = Watched(b, f) \union Wanted(e)]
           R == [b.evread EXCEPT ![f] = IF "READ" \in What[e] THEN e ELSE @]
           W == [b.evwrite EXCEPT ![f] = IF "WRITE" \in What[e] THEN e ELSE @]
           c == WithTable(b, K, R, W)
<1>0. f \in Fd
  BY DEF BaseState
<1>1. CtlOK(b, f, IF Watched(b, f) = {} THEN "ADD" ELSE "MOD")
  BY <1>0 DEF CtlOK, TableOf
<1>2. EpollAdd(b, e) = c
  BY <1>1 DEF EpollAdd, WithTable
<1>3. /\ K \in [Fd -> SUBSET Directions]
      /\ R \in [Fd -> TableEntry] /\ W \in [Fd -> TableEntry]
  BY DEF BaseState, Watched, Wanted, Directions, TableEntry
<1>4. /\ \A g \in Fd : K[g] = IF g = f THEN Watched(b, f) \union Wanted(e)
                              ELSE b.kern[g]
      /\ \A g \in Fd : R[g] = IF g = f /\ "READ" \in What[e] THEN e ELSE b.evread[g]
      /\ \A g \in Fd : W[g] = IF g = f /\ "WRITE" \in What[e] THEN e ELSE b.evwrite[g]
  BY DEF BaseState
<1> HIDE DEF K, R, W
<1>5. /\ SameButTable(b, c) /\ c.kern = K /\ c.evread = R /\ c.evwrite = W
  BY <1>3, TableUpdate
<1> HIDE DEF c
<1>6. c.open = b.open
  BY <1>5 DEF SameButTable
<1>7. e # NoEvent
  BY BaseConstants DEF EventAssumption
<1> HIDE DEF f
<1>8. ASSUME NEW d \in Event, NEW g \in Fd
      PROVE  /\ c.evread[g] = d <=>
                  FdOf[d] = g /\ "READ" \in What[d] /\ d \in S \union {e}
             /\ c.evwrite[g] = d <=>
                  FdOf[d] = g /\ "WRITE" \in What[d] /\ d \in S \union {e}
  <2>1. /\ b.evread[g] = d <=> FdOf[d] = g /\ "READ" \in What[d] /\ d \in S
        /\ b.evwrite[g] = d <=> FdOf[d] = g /\ "WRITE" \in What[d] /\ d \in S
    BY DEF TableOf
  <2>2. f = FdOf[e]
    BY DEF f
  <2>3. d \in S /\ d # e /\ FdOf[d] = f =>
          /\ ~("READ" \in What[d] /\ "READ" \in What[e])
          /\ ~("WRITE" \in What[d] /\ "WRITE" \in What[e])
    BY <2>2, WantedDirections DEF Alone
  <2>4. c.evread[g] = d <=> FdOf[d] = g /\ "READ" \in What[d] /\ d \in S \union {e}
    BY <1>4, <1>5, <2>1, <2>2, <2>3
  <2>5. c.evwrite[g] = d <=> FdOf[d] = g /\ "WRITE" \in What[d] /\ d \in S \union {e}
    BY <1>4, <1>5, <2>1, <2>2, <2>3
  <2> QED
    BY <2>4, <2>5
<1>9. ASSUME NEW g \in Fd
      PROVE  c.kern[g] = IF g \in c.open THEN Watched(c, g) ELSE {}
  <2>1. CASE g = f
    <3>1. Watched(c, f) = Watched(b, f) \union Wanted(e)
      BY <1>0, <1>4, <1>5, <1>7, WantedDirections DEF Watched, Directions
    <3> QED
      BY <1>4, <1>5, <1>6, <2>1, <3>1 DEF f
  <2>2. CASE g # f
    <3>1. Watched(c, g) = Watched(b, g)
      BY <1>4, <1>5, <2>2 DEF Watched
    <3> QED
      BY <1>4, <1>5, <1>6, <2>2, <3>1 DEF TableOf
  <2> QED
    BY <2>1, <2>2
<1>10. TableOf(c, S \union {e})
  BY <1>8, <1>9 DEF TableOf
<1> QED
  BY <1>2, <1>6, <1>10

\* epoll_ctl on a registered descriptor that is open succeeds.
LEMMA CtlKern ==
    ASSUME NEW b \in BaseState, NEW f \in Fd, NEW op, NEW I \in SUBSET Directions,
           op # "ADD"
    PROVE  Ctl(b, f, op, I).kern =
             IF f \in b.open /\ b.kern[f] # {} THEN [b.kern EXCEPT ![f] = I]
             ELSE b.kern
<1>1. CtlOK(b, f, op) <=> f \in b.open /\ b.kern[f] # {}
  BY DEF CtlOK
<1>2. CASE CtlOK(b, f, op)
  BY <1>1, <1>2 DEF Ctl, BaseState
<1>3. CASE ~CtlOK(b, f, op)
  BY <1>1, <1>3 DEF Ctl
<1> QED
  BY <1>2, <1>3

\* epoll_del takes one event out of the table and leaves the other one of
\* its descriptor watched (epoll.c:309-358).
LEMMA EpollDelTable ==
    ASSUME NEW b \in BaseState, NoGarbage(b), NEW S \in SUBSET Event, TableOf(b, S),
           NEW e \in S, Wanted(e) # {}, NFiles \notin Fd
    PROVE  LET c == EpollDel(b, e)
           IN  TableOf(c, S \ {e}) /\ c.open = b.open
<1> DEFINE f         == FdOf[e]
           keepWrite == Wanted(e) = {"IN"} /\ b.evwrite[f] # NoEvent
           keepRead  == Wanted(e) = {"OUT"} /\ b.evread[f] # NoEvent
           R == [b.evread EXCEPT ![f] = IF keepRead THEN @ ELSE NoEvent]
           W == [b.evwrite EXCEPT ![f] = IF keepWrite THEN @ ELSE NoEvent]
           d == WithTable(b, b.kern, R, W)
           I == IF keepWrite THEN {"OUT"} ELSE IF keepRead THEN {"IN"} ELSE {}
           op == IF keepWrite \/ keepRead THEN "MOD" ELSE "DEL"
           c == Ctl(d, f, op, I)
<1>0. f \in Fd /\ e \in Event
  BY WantedDirections
<1>1. ~(f >= NFiles)
  <2>1. ASSUME NEW g \in Fd PROVE ~(g >= NFiles)
    BY BaseConstants DEF EventAssumption
  <2> QED
    BY <1>0, <2>1
<1>2. d = [b EXCEPT !.evread[f] = IF keepRead THEN @ ELSE NoEvent,
                    !.evwrite[f] = IF keepWrite THEN @ ELSE NoEvent]
  BY DEF WithTable, BaseState
<1>3. EpollDel(b, e) = c
  BY <1>1, <1>2 DEF EpollDel
<1>4. /\ b.kern \in [Fd -> SUBSET Directions]
      /\ R \in [Fd -> TableEntry] /\ W \in [Fd -> TableEntry]
  BY DEF BaseState, TableEntry
<1>5. /\ \A g \in Fd : R[g] = IF g = f /\ ~keepRead THEN NoEvent ELSE b.evread[g]
      /\ \A g \in Fd : W[g] = IF g = f /\ ~keepWrite THEN NoEvent ELSE b.evwrite[g]
  BY <1>4 DEF BaseState
<1> HIDE DEF R, W
<1>6. /\ d \in BaseState /\ SameButTable(b, d)
      /\ d.kern = b.kern /\ d.evread = R /\ d.evwrite = W
  BY <1>4, TableUpdate
<1> HIDE DEF d
<1>7. I \in SUBSET Directions /\ op # "ADD"
  BY DEF Directions
<1> HIDE DEF op
<1>8. /\ c.evread = R /\ c.evwrite = W /\ c.open = b.open
      /\ c.kern = IF f \in b.open /\ b.kern[f] # {} THEN [b.kern EXCEPT ![f] = I]
                  ELSE b.kern
  <2>1. /\ SameButTable(d, c) /\ c.evread = d.evread /\ c.evwrite = d.evwrite
    BY <1>6, <1>7, CtlEffect
  <2>2. c.kern = IF f \in d.open /\ d.kern[f] # {} THEN [d.kern EXCEPT ![f] = I]
                 ELSE d.kern
    BY <1>0, <1>6, <1>7, CtlKern
  <2> QED
    BY <1>6, <2>1, <2>2 DEF SameButTable
<1> HIDE DEF c
\* The directions e waits for have e in their slots.
<1>9. /\ "READ" \in What[e] <=> b.evread[f] = e
      /\ "WRITE" \in What[e] <=> b.evwrite[f] = e
      /\ e # NoEvent
  BY <1>0, BaseConstants DEF TableOf, EventAssumption
<1>10. f \in b.open => b.kern[f] # {}
  <2>1. Watched(b, f) # {}
    BY <1>9, WantedDirections DEF Watched, Wanted
  <2> QED
    BY <1>0, <2>1 DEF TableOf
<1>11. /\ keepRead <=> "READ" \notin What[e] /\ b.evread[f] # NoEvent
       /\ keepWrite <=> "WRITE" \notin What[e] /\ b.evwrite[f] # NoEvent
  BY DEF Wanted
<1>12. /\ I = (IF keepRead THEN {"IN"} ELSE {}) \union (IF keepWrite THEN {"OUT"} ELSE {})
  BY <1>11 DEF Wanted
<1> HIDE DEF keepRead, keepWrite, I
<1>13. ASSUME NEW x \in Event, NEW g \in Fd
       PROVE  /\ c.evread[g] = x <=>
                   FdOf[x] = g /\ "READ" \in What[x] /\ x \in S \ {e}
              /\ c.evwrite[g] = x <=>
                   FdOf[x] = g /\ "WRITE" \in What[x] /\ x \in S \ {e}
  <2>1. /\ b.evread[g] = x <=> FdOf[x] = g /\ "READ" \in What[x] /\ x \in S
        /\ b.evwrite[g] = x <=> FdOf[x] = g /\ "WRITE" \in What[x] /\ x \in S
    BY DEF TableOf
  <2>2. x # NoEvent
    BY BaseConstants DEF EventAssumption
  <2>3. c.evread[g] = IF g = f /\ ~keepRead THEN NoEvent ELSE b.evread[g]
    BY <1>5, <1>8
  <2>4. c.evwrite[g] = IF g = f /\ ~keepWrite THEN NoEvent ELSE b.evwrite[g]
    BY <1>5, <1>8
  <2>5. c.evread[g] = x <=> FdOf[x] = g /\ "READ" \in What[x] /\ x \in S \ {e}
    BY <1>9, <1>11, <2>1, <2>2, <2>3
  <2>6. c.evwrite[g] = x <=> FdOf[x] = g /\ "WRITE" \in What[x] /\ x \in S \ {e}
    BY <1>9, <1>11, <2>1, <2>2, <2>4
  <2> QED
    BY <2>5, <2>6
<1>14. ASSUME NEW g \in Fd
       PROVE  c.kern[g] = IF g \in c.open THEN Watched(c, g) ELSE {}
  <2>1. b.kern[g] = IF g \in b.open THEN Watched(b, g) ELSE {}
    BY DEF TableOf
  <2>2. CASE g = f
    <3>1. Watched(c, f) = I
      BY <1>0, <1>5, <1>8, <1>11, <1>12 DEF Watched
    <3>2. f \in b.open => c.kern[f] = I
      BY <1>0, <1>8, <1>10 DEF BaseState
    <3>3. f \notin b.open => c.kern = b.kern
      BY <1>8
    <3> QED
      BY <1>8, <2>1, <2>2, <3>1, <3>2, <3>3
  <2>3. CASE g # f
    <3>1. Watched(c, g) = Watched(b, g)
      BY <1>5, <1>8, <2>3 DEF Watched
    <3>2. c.kern[g] = b.kern[g]
      BY <1>8, <2>3 DEF BaseState
    <3> QED
      BY <1>8, <2>1, <3>1, <3>2
  <2> QED
    BY <2>2, <2>3
<1>15. TableOf(c, S \ {e})
  BY <1>13, <1>14 DEF TableOf
<1> QED
  BY <1>3, <1>8, <1>15
-----------------------------------------------------------------------------
(***************************************************************************)
(* What the clients' operations do to a coherent base.                     *)
(***************************************************************************)
\* event_add of an I/O event that no other event of the table clashes with
\* (event.c:562-573): one that waits already, or is active, stays as it is.
LEMMA AddIOCoherent ==
    ASSUME NEW b, Coherent(b), NEW e \in Event, Wanted(e) # {},
           FdOf[e] \in b.open, Alone(e, Inserted(b))
    PROVE  LET c == EventAdd(b, e)
           IN  /\ Coherent(c) /\ c.open = b.open /\ c.res = b.res
               /\ c.flags = IF b.flags[e] = {}
                            THEN [b.flags EXCEPT ![e] = {"INSERTED"}] ELSE b.flags
<1>1. b.flags[e] \subseteq {"ACTIVE", "INSERTED"} /\ ~IsSignal(e)
  BY BaseConstants DEF Coherent, Fits, Places, EventAssumption, IsSignal, Wanted
<1>2. CASE b.flags[e] # {}
  <2>1. b.flags[e] \intersect {"INSERTED", "ACTIVE"} # {}
    BY <1>1, <1>2
  <2>2. EventAdd(b, e) = b
    BY <1>1, <2>1 DEF EventAdd, Watch
  <2> QED
    BY <1>2, <2>2
<1>3. CASE b.flags[e] = {}
  <2> DEFINE d == QueueInsert(b, e, "INSERTED")
             c == EpollAdd(d, e)
  <2>1. EventAdd(b, e) = c
    BY <1>3 DEF EventAdd, Watch
  <2>2. /\ Sound(d) /\ SameButQueues(b, d)
        /\ d.flags = [b.flags EXCEPT ![e] = @ \union {"INSERTED"}]
    BY <1>3, InsertSound DEF Coherent, Queues
  <2> HIDE DEF d
  <2>3. /\ d.flags = [b.flags EXCEPT ![e] = {"INSERTED"}]
    BY <1>3, <2>2
  <2>4. /\ d \in BaseState /\ NoGarbage(d) /\ FdOf[e] \in d.open
        /\ TableOf(d, Inserted(b)) /\ d.open = b.open /\ d.res = b.res
    BY <2>2 DEF Coherent, Sound, SameButQueues, TableOf, Watched
  <2>5. Inserted(b) \in SUBSET Event
    BY DEF Inserted
  <2>6. TableOf(c, Inserted(b) \union {e}) /\ c.open = d.open
    BY <2>4, <2>5, EpollAddTable
  <2>7. Sound(c) /\ SameButTable(d, c)
    BY <2>2, EpollAddSound
  <2> HIDE DEF c
  <2>8. c.flags = [b.flags EXCEPT ![e] = {"INSERTED"}] /\ c.res = b.res
    BY <2>3, <2>4, <2>7 DEF SameButTable
  <2>9. \A x \in Event : c.flags[x] = IF x = e THEN {"INSERTED"} ELSE b.flags[x]
    BY <2>8 DEF Coherent, Sound, BaseState
  <2>10. Inserted(c) = Inserted(b) \union {e}
    BY <2>9 DEF Inserted
  <2>11. Fits(c) /\ TimersExpired(c)
    BY <2>8, <2>9 DEF Coherent, Fits, TimersExpired, Places
  <2> QED
    BY <1>3, <2>1, <2>4, <2>6, <2>7, <2>8, <2>10, <2>11 DEF Coherent
<1> QED
  BY <1>2, <1>3

\* event_add of a signal event.
LEMMA AddSignalCoherent ==
    ASSUME NEW b, Coherent(b), NEW e \in Event, IsSignal(e)
    PROVE  LET c == EventAdd(b, e)
           IN  Coherent(c) /\ Flagged(b, c, e, b.flags[e] \union {"SIGNAL"})
<1>1. Wanted(e) = {} /\ Places(e) = {"ACTIVE", "SIGNAL"} /\ ~IsTimer(e)
  BY BaseConstants DEF EventAssumption, IsSignal, IsTimer, Wanted, Places
<1>2. CASE "SIGNAL" \in b.flags[e]
  <2>1. EventAdd(b, e) = b
    BY <1>1, <1>2 DEF EventAdd, Watch
  <2>2. Flagged(b, b, e, b.flags[e] \union {"SIGNAL"})
    BY <1>2 DEF Flagged, SameTable, Coherent, Sound, BaseState
  <2> QED
    BY <2>1, <2>2
<1>3. CASE "SIGNAL" \notin b.flags[e]
  <2> DEFINE c == QueueInsert(b, e, "SIGNAL")
             F == b.flags[e] \union {"SIGNAL"}
  <2>1. EventAdd(b, e) = c
    BY <1>1, <1>3 DEF EventAdd, Watch
  <2>2. /\ Sound(c) /\ SameButQueues(b, c)
        /\ c.flags = [b.flags EXCEPT ![e] = @ \union {"SIGNAL"}]
    BY <1>3, InsertSound DEF Coherent, Queues
  <2> HIDE DEF c
  <2>3. Flagged(b, c, e, F)
    BY <2>2 DEF Flagged, SameTable, SameButQueues
  <2>4. /\ F \subseteq Places(e)
        /\ "INSERTED" \in F <=> "INSERTED" \in b.flags[e]
    BY <1>1 DEF Coherent, Fits
  <2> HIDE DEF F
  <2>5. Coherent(c)
    BY <1>1, <2>2, <2>3, <2>4, QueuesCoherent
  <2> QED
    BY <2>1, <2>3, <2>5 DEF F
<1> QED
  BY <1>2, <1>3

\* event_add with a timeout of a timer that is new, waits, or has expired and
\* was not called yet: it waits, and is not active any more
\* (event.c:528-560).
LEMMA AddTimerCoherent ==
    ASSUME NEW b, Coherent(b), NEW e \in Event, IsTimer(e)
    PROVE  LET c == EventAddTimeout(b, e)
           IN  Coherent(c) /\ Flagged(b, c, e, {"TIMEOUT"})
<1> DEFINE b1 == RemoveIfOn(b, e, "TIMEOUT")
           a  == AbortCalls(b1, e)
           b2 == QueueRemove(a, e, "ACTIVE")
<1>1. Wanted(e) = {} /\ ~IsSignal(e) /\ Places(e) = {"ACTIVE", "TIMEOUT"}
  BY DEF IsTimer, IsSignal, Wanted, Places
<1>2. EventAddTimeout(b, e) = Schedule(b, e)
  BY <1>1 DEF EventAddTimeout, Watch
<1>3. Sound(b1) /\ Flagged(b, b1, e, b.flags[e] \ {"TIMEOUT"})
  BY RemoveIfOnFlagged DEF Coherent, Queues
<1>4. Schedule(b, e) = IF "ACTIVE" \in b.flags[e] /\ "TIMEOUT" \in b.res[e]
                       THEN QueueInsert(b2, e, "TIMEOUT")
                       ELSE QueueInsert(b1, e, "TIMEOUT")
  BY DEF Schedule
<1> HIDE DEF b1
<1>5. /\ b1.flags[e] = b.flags[e] \ {"TIMEOUT"}
      /\ "TIMEOUT" \notin b1.flags[e] /\ b1.flags[e] \subseteq {"ACTIVE"}
      /\ "ACTIVE" \in b1.flags[e] <=> "ACTIVE" \in b.flags[e] /\ "TIMEOUT" \in b.res[e]
  BY <1>1, <1>3 DEF Flagged, Coherent, Sound, BaseState, Fits, TimersExpired
<1>6. ASSUME NEW d, Sound(d), Flagged(b, d, e, {})
      PROVE  LET c == QueueInsert(d, e, "TIMEOUT")
             IN  Sound(c) /\ Flagged(b, c, e, {"TIMEOUT"})
  <2> DEFINE c == QueueInsert(d, e, "TIMEOUT")
  <2>1. d.flags[e] = {}
    BY <1>6 DEF Flagged, Coherent, Sound, BaseState
  <2>2. /\ Sound(c) /\ SameButQueues(d, c)
        /\ c.flags = [d.flags EXCEPT ![e] = @ \union {"TIMEOUT"}]
    BY <1>6, <2>1, InsertSound DEF Queues
  <2> HIDE DEF c
  <2>3. c.flags = [d.flags EXCEPT ![e] = {"TIMEOUT"}]
    BY <2>1, <2>2
  <2>4. Flagged(d, c, e, {"TIMEOUT"})
    BY <2>2, <2>3 DEF Flagged, SameTable, SameButQueues
  <2>5. Flagged(b, c, e, {"TIMEOUT"})
    BY <1>6, <2>4, FlaggedChain DEF Coherent, Sound
  <2> QED
    BY <2>2, <2>5 DEF c
<1>7. Sound(Schedule(b, e)) /\ Flagged(b, Schedule(b, e), e, {"TIMEOUT"})
  <2>1. CASE "ACTIVE" \notin b1.flags[e]
    <3>1. Flagged(b, b1, e, {})
      BY <1>3, <1>5, <2>1 DEF Flagged
    <3>2. Schedule(b, e) = QueueInsert(b1, e, "TIMEOUT")
      BY <1>4, <1>5, <2>1
    <3> QED
      BY <1>3, <1>6, <3>1, <3>2
  <2>2. CASE "ACTIVE" \in b1.flags[e]
    <3>1. Sound(a) /\ a.flags = b1.flags /\ SameTable(b1, a) /\ a.res = b1.res
      BY <1>3, AbortFlagged
    <3> HIDE DEF a
    <3>2. /\ Sound(b2) /\ SameButQueues(a, b2)
          /\ b2.flags = [a.flags EXCEPT ![e] = @ \ {"ACTIVE"}]
      BY <2>2, <3>1, RemoveSound DEF Queues
    <3> HIDE DEF b2
    <3>3. b2.flags = [b1.flags EXCEPT ![e] = {}]
      BY <1>5, <3>1, <3>2
    <3>4. Flagged(b1, b2, e, {})
      BY <3>1, <3>2, <3>3 DEF Flagged, SameTable, SameButQueues
    <3>5. Flagged(b, b2, e, {})
      BY <1>3, <3>4, FlaggedChain DEF Coherent, Sound
    <3> QED
      BY <1>4, <1>5, <1>6, <2>2, <3>2, <3>5
  <2> QED
    BY <2>1, <2>2
<1>8. "INSERTED" \notin b.flags[e]
  BY <1>1 DEF Coherent, Fits
<1>9. Coherent(Schedule(b, e))
  <2> DEFINE c == Schedule(b, e)
             F == {"TIMEOUT"}
  <2>1. F \subseteq Places(e) /\ "INSERTED" \notin F /\ "ACTIVE" \notin F
    BY <1>1
  <2>2. Sound(c) /\ Flagged(b, c, e, F)
    BY <1>7
  <2> HIDE DEF c, F
  <2>3. Coherent(c)
    BY <1>8, <2>1, <2>2, QueuesCoherent
  <2> QED
    BY <2>3 DEF c
<1> QED
  BY <1>2, <1>7, <1>9

\* event_del leaves the event on no queue and nobody else's entry of the
\* table changed (event.c:578-613).
LEMMA DelCoherent ==
    ASSUME NEW b, Coherent(b), NEW e \in Event, NFiles \notin Fd
    PROVE  LET c == EventDel(b, e)
           IN  /\ Coherent(c) /\ c.open = b.open /\ c.res = b.res
               /\ c.flags = [b.flags EXCEPT ![e] = {}]
<1> DEFINE a  == AbortCalls(b, e)
           b1 == RemoveIfOn(a, e, "TIMEOUT")
           b2 == RemoveIfOn(b1, e, "ACTIVE")
           b3 == QueueRemove(b2, e, "INSERTED")
           c  == EventDel(b, e)
           H  == b.flags[e] \ {"TIMEOUT", "ACTIVE"}
<1>0. Sound(b) /\ b \in BaseState
  BY DEF Coherent, Sound
<1>1. c = IF "INSERTED" \in b.flags[e] THEN EpollDel(b3, e)
          ELSE RemoveIfOn(b2, e, "SIGNAL")
  BY DEF EventDel
<1> HIDE DEF c
<1>2. Sound(a) /\ a.flags = b.flags /\ SameTable(b, a) /\ a.res = b.res
  BY <1>0, AbortFlagged
<1> HIDE DEF a
<1>3. Sound(b1) /\ Flagged(a, b1, e, b.flags[e] \ {"TIMEOUT"})
  BY <1>2, RemoveIfOnFlagged DEF Queues
<1> HIDE DEF b1
<1>4. b1.flags[e] = b.flags[e] \ {"TIMEOUT"}
  BY <1>2, <1>3, <1>0 DEF Flagged, BaseState
<1>5. Sound(b2) /\ Flagged(b1, b2, e, b1.flags[e] \ {"ACTIVE"})
  BY <1>3, RemoveIfOnFlagged DEF Queues
<1> HIDE DEF b2
<1>6. H = b1.flags[e] \ {"ACTIVE"}
  BY <1>4
<1> HIDE DEF H
<1>7. Flagged(b, b2, e, H)
  <2>1. Flagged(b, b1, e, b.flags[e] \ {"TIMEOUT"})
    BY <1>2, <1>3 DEF Flagged, SameTable
  <2> QED
    BY <1>0, <1>5, <1>6, <2>1, FlaggedChain
<1>8. b2.flags[e] = H
  BY <1>0, <1>7 DEF Flagged, BaseState
<1>9. CASE "INSERTED" \in b.flags[e]
  <2>1. "INSERTED" \in H /\ H \ {"INSERTED"} = {} /\ Wanted(e) # {}
    BY <1>9 DEF H, Coherent, Fits, Places
  <2>2. /\ Sound(b3) /\ SameButQueues(b2, b3)
        /\ b3.flags = [b2.flags EXCEPT ![e] = @ \ {"INSERTED"}]
    BY <1>5, <1>8, <2>1, RemoveSound DEF Queues
  <2> HIDE DEF b3
  <2>3. b3.flags = [b2.flags EXCEPT ![e] = {}]
    BY <1>8, <2>1, <2>2
  <2>4. Flagged(b2, b3, e, {})
    BY <2>2, <2>3 DEF Flagged, SameTable, SameButQueues
  <2>5. Flagged(b, b3, e, {})
    BY <1>0, <1>7, <2>4, FlaggedChain
  <2>6. /\ b3 \in BaseState /\ NoGarbage(b3) /\ TableOf(b3, Inserted(b))
    BY <2>2, <2>5 DEF Sound, Coherent, TableOf, Flagged, SameTable, Watched
  <2>7. Inserted(b) \in SUBSET Event /\ e \in Inserted(b)
    BY <1>9 DEF Inserted
  <2>8. TableOf(c, Inserted(b) \ {e}) /\ c.open = b3.open
    BY <1>1, <1>9, <2>1, <2>6, <2>7, EpollDelTable
  <2>9. Sound(c) /\ SameButTable(b3, c)
    BY <1>1, <1>9, <2>2, EpollDelSound
  <2>10. c.flags = [b.flags EXCEPT ![e] = {}] /\ c.open = b.open /\ c.res = b.res
    BY <2>5, <2>8, <2>9 DEF SameButTable, Flagged, SameTable
  <2>11. \A x \in Event : c.flags[x] = IF x = e THEN {} ELSE b.flags[x]
    BY <1>0, <2>10 DEF BaseState
  <2>12. Inserted(c) = Inserted(b) \ {e}
    BY <2>11 DEF Inserted
  <2>13. Fits(c) /\ TimersExpired(c)
    BY <2>10, <2>11 DEF Coherent, Fits, TimersExpired
  <2>14. Coherent(c)
    BY <2>8, <2>9, <2>12, <2>13 DEF Coherent
  <2> QED
    BY <2>10, <2>14 DEF c
<1>10. CASE "INSERTED" \notin b.flags[e]
  <2>1. H \ {"SIGNAL"} = {}
    BY <1>10 DEF H, Coherent, Fits, Places
  <2>2. Sound(c) /\ Flagged(b2, c, e, {})
    BY <1>1, <1>5, <1>8, <1>10, <2>1, RemoveIfOnFlagged DEF Queues
  <2>3. Flagged(b, c, e, {})
    BY <1>0, <1>7, <2>2, FlaggedChain
  <2>4. Coherent(c)
    BY <1>10, <2>2, <2>3, QueuesCoherent
  <2> QED
    BY <2>3, <2>4 DEF c, Flagged, SameTable
<1> QED
  BY <1>9, <1>10

\* event_set on an event that is on no queue.
LEMMA SetCoherent ==
    ASSUME NEW b, Coherent(b), NEW e \in Event, b.flags[e] = {}
    PROVE  LET c == EventSet(b, e)
           IN  Coherent(c) /\ Flagged(b, c, e, {}) /\ c.flags = b.flags
<1> DEFINE c == EventSet(b, e)
<1>1. Sound(c) /\ c.flags = b.flags
  BY EventSetSound DEF Coherent
<1>2. SameTable(b, c) /\ c.res = b.res
  BY DEF EventSet, SameTable, Coherent, Sound, BaseState
<1> HIDE DEF c
<1>3. Flagged(b, c, e, {})
  BY <1>1, <1>2 DEF Flagged, Coherent, Sound, BaseState
<1>4. Coherent(c)
  BY <1>1, <1>3, QueuesCoherent
<1> QED
  BY <1>1, <1>3, <1>4 DEF c
-----------------------------------------------------------------------------
(***************************************************************************)
(* What the loop's operations, and close, do to a coherent base.           *)
(***************************************************************************)
\* event_active: the event gets on the active queue, or is there already
\* (event.c:615-634).
LEMMA ActiveStaysCoherent ==
    ASSUME NEW b, Coherent(b), NEW e \in Event,
           NEW why \in Interests \union {"TIMEOUT"}, NEW n \in Nat \ {0},
           IsTimer(e) => why = "TIMEOUT"
    PROVE  LET c == EventActive(b, e, why, n)
           IN  /\ Coherent(c) /\ SameTable(b, c)
               /\ c.flags = [b.flags EXCEPT ![e] = @ \union {"ACTIVE"}]
<1> DEFINE c == EventActive(b, e, why, n)
<1>0. b \in BaseState /\ Sound(b)
  BY DEF Coherent, Sound
<1>1. Sound(c)
  BY <1>0, EventActiveSound
<1>2. /\ SameTable(b, c) /\ c.flags = [b.flags EXCEPT ![e] = @ \union {"ACTIVE"}]
      /\ c.res = [b.res EXCEPT ![e] = IF "ACTIVE" \in b.flags[e] THEN @ \union {why}
                                      ELSE {why}]
  <2>1. CASE "ACTIVE" \in b.flags[e]
    <3>1. c = [b EXCEPT !.res[e] = @ \union {why}]
      BY <2>1 DEF EventActive
    <3> HIDE DEF c
    <3>2. /\ SameTable(b, c) /\ c.flags = b.flags
          /\ c.res = [b.res EXCEPT ![e] = @ \union {why}]
      BY <1>0, <3>1 DEF BaseState, SameTable
    <3>3. b.flags = [b.flags EXCEPT ![e] = @ \union {"ACTIVE"}]
      BY <1>0, <2>1 DEF BaseState
    <3> QED
      BY <2>1, <3>2, <3>3
  <2>2. CASE "ACTIVE" \notin b.flags[e]
    <3> DEFINE d == [b EXCEPT !.res[e] = {why}, !.ncalls[e] = n, !.pn = @ \ {e}]
    <3>1. c = QueueInsert(d, e, "ACTIVE")
      BY <2>2 DEF EventActive
    <3>2. /\ d \in BaseState /\ SameTable(b, d) /\ d.flags = b.flags
          /\ d.res = [b.res EXCEPT ![e] = {why}]
      BY <1>0 DEF BaseState, SameTable
    <3> HIDE DEF d
    <3>3. "ACTIVE" \in Queues /\ "ACTIVE" \notin d.flags[e]
      BY <2>2, <3>2 DEF Queues
    <3>4. /\ SameButQueues(d, c)
          /\ c.flags = [d.flags EXCEPT ![e] = @ \union {"ACTIVE"}]
      BY <3>1, <3>2, <3>3, QueueInsertEffect
    <3> HIDE DEF c
    <3> QED
      BY <2>2, <3>2, <3>4 DEF SameTable, SameButQueues
  <2> QED
    BY <2>1, <2>2
<1> HIDE DEF c
<1>3. \A x \in Event : c.flags[x] = IF x = e THEN b.flags[e] \union {"ACTIVE"}
                                    ELSE b.flags[x]
  BY <1>0, <1>2 DEF BaseState
<1>4. Inserted(c) = Inserted(b)
  BY <1>3 DEF Inserted
<1>5. TableOf(c, Inserted(b))
  BY <1>2 DEF Coherent, TableOf, SameTable, Watched
<1>6. Fits(c)
  BY <1>3 DEF Coherent, Fits, Places
<1>7. TimersExpired(c)
  BY <1>0, <1>2, <1>3 DEF Coherent, TimersExpired, BaseState
<1> QED
  BY <1>1, <1>2, <1>4, <1>5, <1>6, <1>7 DEF Coherent, c

\* From b to c an event that persists becomes active, one that does not is
\* active and nothing else.
MadeActive(b, c, S) ==
    \A d \in Event :
      c.flags[d] = IF d \notin S THEN b.flags[d]
                   ELSE IF "PERSIST" \in What[d] THEN b.flags[d] \union {"ACTIVE"}
                   ELSE {"ACTIVE"}

\* epoll_dispatch's treatment of one answer makes events active that wait in
\* the table, and no timer (epoll.c:229-258).
LEMMA ReportCoherent ==
    ASSUME NEW b, Coherent(b), NEW f \in Fd, NEW what, NFiles \notin Fd
    PROVE  LET c == Report(b, f, what)
           IN  /\ Coherent(c) /\ c.open = b.open
               /\ \E S \in SUBSET Inserted(b) : MadeActive(b, c, S)
<1> DEFINE w  == IF "HUP" \in what THEN Directions ELSE what
           rd == IF "IN" \in w THEN b.evread[f] ELSE NoEvent
           wr == IF "OUT" \in w THEN b.evwrite[f] ELSE NoEvent
           b1 == IF rd # NoEvent THEN DelOneShot(b, rd) ELSE b
           b2 == IF wr # NoEvent /\ wr # rd THEN DelOneShot(b1, wr) ELSE b1
           b3 == IF rd # NoEvent THEN EventActive(b2, rd, "READ", 1) ELSE b2
           c  == IF wr # NoEvent THEN EventActive(b3, wr, "WRITE", 1) ELSE b3
           S  == {rd, wr} \ {NoEvent}
<1>1. Report(b, f, what) = c
  BY DEF Report
<1>2. /\ rd = NoEvent \/ (rd \in Inserted(b) /\ rd \in Event /\ "READ" \in What[rd])
      /\ wr = NoEvent \/ (wr \in Inserted(b) /\ wr \in Event /\ "WRITE" \in What[wr])
  BY SlotEvent DEF Coherent, Sound
<1> HIDE DEF rd, wr
<1>3. S \in SUBSET Inserted(b)
  BY <1>2
<1>4. ASSUME NEW d, Coherent(d), NEW e \in Event
      PROVE  /\ Coherent(DelOneShot(d, e)) /\ DelOneShot(d, e).open = d.open
             /\ \A x \in Event : DelOneShot(d, e).flags[x] =
                  IF x = e /\ "PERSIST" \notin What[e] THEN {} ELSE d.flags[x]
  <2>1. CASE "PERSIST" \in What[e]
    BY <1>4, <2>1 DEF DelOneShot
  <2>2. CASE "PERSIST" \notin What[e]
    <3> DEFINE g == EventDel(d, e)
    <3>1. DelOneShot(d, e) = g
      BY <2>2 DEF DelOneShot
    <3>2. Coherent(g) /\ g.open = d.open /\ g.flags = [d.flags EXCEPT ![e] = {}]
      BY <1>4, DelCoherent
    <3> HIDE DEF g
    <3>3. \A x \in Event : g.flags[x] = IF x = e THEN {} ELSE d.flags[x]
      BY <1>4, <3>2 DEF Coherent, Sound, BaseState
    <3> QED
      BY <2>2, <3>1, <3>2, <3>3
  <2> QED
    BY <2>1, <2>2
<1>5. ASSUME NEW d, Coherent(d), NEW e \in Event, NEW why \in {"READ", "WRITE"},
             ~IsTimer(e)
      PROVE  LET g == EventActive(d, e, why, 1)
             IN  /\ Coherent(g) /\ g.open = d.open
                 /\ \A x \in Event : g.flags[x] =
                      IF x = e THEN d.flags[e] \union {"ACTIVE"} ELSE d.flags[x]
  <2> DEFINE g == EventActive(d, e, why, 1)
  <2>1. /\ Coherent(g) /\ SameTable(d, g)
        /\ g.flags = [d.flags EXCEPT ![e] = @ \union {"ACTIVE"}]
    BY <1>5, ActiveStaysCoherent DEF Interests
  <2> HIDE DEF g
  <2>2. \A x \in Event : g.flags[x] = IF x = e THEN d.flags[e] \union {"ACTIVE"}
                                      ELSE d.flags[x]
    BY <1>5, <2>1 DEF Coherent, Sound, BaseState
  <2> QED
    BY <2>1, <2>2 DEF g, SameTable
<1>6. /\ Coherent(b1) /\ b1.open = b.open
      /\ \A x \in Event : b1.flags[x] =
           IF x = rd /\ "PERSIST" \notin What[x] THEN {} ELSE b.flags[x]
  <2>1. \A x \in Event : x # NoEvent
    BY BaseConstants DEF EventAssumption
  <2>2. CASE rd = NoEvent
    BY <2>1, <2>2
  <2>3. CASE rd # NoEvent
    BY <1>2, <1>4, <2>3
  <2> QED
    BY <2>2, <2>3
<1> HIDE DEF b1
<1>7. /\ Coherent(b2) /\ b2.open = b.open
      /\ \A x \in Event : b2.flags[x] =
           IF x \in {rd, wr} /\ "PERSIST" \notin What[x] THEN {} ELSE b.flags[x]
  <2>1. \A x \in Event : x # NoEvent
    BY BaseConstants DEF EventAssumption
  <2>2. CASE wr = NoEvent \/ wr = rd
    BY <1>6, <2>1, <2>2
  <2>3. CASE wr # NoEvent /\ wr # rd
    <3>1. /\ Coherent(b2) /\ b2.open = b1.open
          /\ \A x \in Event : b2.flags[x] =
               IF x = wr /\ "PERSIST" \notin What[wr] THEN {} ELSE b1.flags[x]
      BY <1>2, <1>4, <1>6, <2>3
    <3> HIDE DEF b2
    <3> QED
      BY <1>6, <3>1
  <2> QED
    BY <2>2, <2>3
<1> HIDE DEF b2
<1>8. /\ rd # NoEvent => ~IsTimer(rd)
      /\ wr # NoEvent => ~IsTimer(wr)
  BY <1>2 DEF IsTimer
<1>9. /\ Coherent(b3) /\ b3.open = b.open
      /\ \A x \in Event : b3.flags[x] =
           IF x = rd THEN b2.flags[x] \union {"ACTIVE"} ELSE b2.flags[x]
  <2>1. \A x \in Event : x # NoEvent
    BY BaseConstants DEF EventAssumption
  <2>2. CASE rd = NoEvent
    BY <1>7, <2>1, <2>2
  <2>3. CASE rd # NoEvent
    <3>1. b3 = EventActive(b2, rd, "READ", 1)
      BY <2>3
    <3>2. rd \in Event /\ ~IsTimer(rd) /\ Coherent(b2)
      BY <1>2, <1>7, <1>8, <2>3
    <3>3. LET g == EventActive(b2, rd, "READ", 1)
          IN  /\ Coherent(g) /\ g.open = b2.open
              /\ \A x \in Event : g.flags[x] =
                   IF x = rd THEN b2.flags[rd] \union {"ACTIVE"} ELSE b2.flags[x]
      BY <1>5, <3>2
    <3> HIDE DEF b3
    <3> QED
      BY <1>7, <3>1, <3>3
  <2> QED
    BY <2>2, <2>3
<1> HIDE DEF b3
<1>10. /\ Coherent(c) /\ c.open = b.open
       /\ \A x \in Event : c.flags[x] =
            IF x \in {rd, wr} THEN b2.flags[x] \union {"ACTIVE"} ELSE b2.flags[x]
  <2>1. \A x \in Event : x # NoEvent
    BY BaseConstants DEF EventAssumption
  <2>2. CASE wr = NoEvent
    BY <1>9, <2>1, <2>2
  <2>3. CASE wr # NoEvent
    <3>1. c = EventActive(b3, wr, "WRITE", 1)
      BY <2>3
    <3> HIDE DEF c
    <3>2. /\ Coherent(c) /\ c.open = b3.open
          /\ \A x \in Event : c.flags[x] =
               IF x = wr THEN b3.flags[wr] \union {"ACTIVE"} ELSE b3.flags[x]
      BY <1>2, <1>5, <1>8, <1>9, <2>3, <3>1
    <3> QED
      BY <1>9, <3>2
  <2> QED
    BY <2>2, <2>3
<1> HIDE DEF c
<1>11. MadeActive(b, c, S)
  <2>1. \A x \in Event : x \in S <=> x \in {rd, wr}
    BY BaseConstants DEF EventAssumption
  <2> HIDE DEF S
  <2> QED
    BY <1>7, <1>10, <2>1 DEF MadeActive
<1> QED
  BY <1>1, <1>3, <1>10, <1>11

\* timeout_process for one expired timer: it is active, and waits no more.
LEMMA ExpireCoherent ==
    ASSUME NEW b, Coherent(b), NEW e \in Event, "TIMEOUT" \in b.flags[e],
           NFiles \notin Fd
    PROVE  LET c == Expire(b, e)
           IN  /\ IsTimer(e) /\ Coherent(c) /\ c.open = b.open
               /\ c.flags = [b.flags EXCEPT ![e] = {"ACTIVE"}]
<1> DEFINE b1 == QueueRemove(b, e, "TIMEOUT")
           b2 == EventDel(b1, e)
           c  == Expire(b, e)
<1>0. b \in BaseState /\ Sound(b)
  BY DEF Coherent, Sound
<1>1. IsTimer(e)
  BY DEF Coherent, Fits, Places
<1>2. /\ Sound(b1) /\ SameButQueues(b, b1)
      /\ b1.flags = [b.flags EXCEPT ![e] = @ \ {"TIMEOUT"}]
  BY <1>0, RemoveSound DEF Queues
<1> HIDE DEF b1
<1>3. Coherent(b1)
  <2> DEFINE F == b.flags[e] \ {"TIMEOUT"}
  <2>1. Flagged(b, b1, e, F)
    BY <1>2 DEF Flagged, SameTable, SameButQueues
  <2>2. /\ F \subseteq Places(e)
        /\ "ACTIVE" \in F => "ACTIVE" \in b.flags[e]
        /\ "INSERTED" \in F <=> "INSERTED" \in b.flags[e]
    BY DEF Coherent, Fits
  <2> HIDE DEF F
  <2> QED
    BY <1>2, <2>1, <2>2, QueuesCoherent
<1>4. Coherent(b2) /\ b2.open = b1.open /\ b2.flags = [b1.flags EXCEPT ![e] = {}]
  BY <1>3, DelCoherent
<1>5. c = EventActive(b2, e, "TIMEOUT", 1)
  BY DEF Expire, b1
<1> HIDE DEF b2, c
<1>6. /\ Coherent(c) /\ SameTable(b2, c)
      /\ c.flags = [b2.flags EXCEPT ![e] = @ \union {"ACTIVE"}]
  <2>1. PICK why \in Interests \union {"TIMEOUT"} : why = "TIMEOUT"
    OBVIOUS
  <2>2. PICK n \in Nat \ {0} : n = 1
    OBVIOUS
  <2>3. LET g == EventActive(b2, e, why, n)
        IN  /\ Coherent(g) /\ SameTable(b2, g)
            /\ g.flags = [b2.flags EXCEPT ![e] = @ \union {"ACTIVE"}]
    BY <1>4, <2>1, ActiveStaysCoherent, SMTT(30)
  <2> QED
    BY <1>5, <2>1, <2>2, <2>3
<1>7. b2.flags[e] = {} /\ b2.flags = [b.flags EXCEPT ![e] = {}]
  BY <1>0, <1>2, <1>4 DEF BaseState
<1>8. c.flags = [b.flags EXCEPT ![e] = {"ACTIVE"}]
  BY <1>0, <1>6, <1>7 DEF BaseState
<1>9. c.open = b.open
  BY <1>2, <1>4, <1>6 DEF SameTable, SameButQueues
<1> QED
  BY <1>1, <1>6, <1>8, <1>9 DEF c

\* The head of the active queue leaves it.
LEMMA PopCoherent ==
    ASSUME NEW b, Coherent(b), b.activeq # << >>
    PROVE  LET e == Head(b.activeq)
               c == PopActive(b)
           IN  /\ e \in Event /\ "ACTIVE" \in b.flags[e]
               /\ Coherent(c) /\ c.left > 0
               /\ Flagged(b, c, e, b.flags[e] \ {"ACTIVE"})
<1> DEFINE e == Head(b.activeq)
           d == QueueRemove(b, e, "ACTIVE")
           c == PopActive(b)
           F == b.flags[e] \ {"ACTIVE"}
<1>0. b \in BaseState /\ Sound(b)
  BY DEF Coherent, Sound
<1>1. e \in Event /\ Sound(c) /\ c.left > 0
  BY <1>0, PopActiveSound
<1>2. "ACTIVE" \in b.flags[e]
  <2>1. b.activeq \in Seq(Event) /\ 1 \in DOMAIN b.activeq /\ e = b.activeq[1]
    BY <1>0 DEF BaseState
  <2> QED
    BY <2>1 DEF Coherent, Sound, ActiveCoherent, Range
<1>3. c = [d EXCEPT !.left = b.ncalls[e], !.pn = @ \union {e}]
  BY DEF PopActive
<1> HIDE DEF e, c
<1>4. /\ d \in BaseState /\ SameButQueues(b, d)
      /\ d.flags = [b.flags EXCEPT ![e] = @ \ {"ACTIVE"}]
  BY <1>0, <1>1, <1>2, RemoveSound DEF Queues, Sound
<1> HIDE DEF d
<1>5. SameTable(d, c) /\ c.flags = d.flags /\ c.res = d.res
  BY <1>3, <1>4 DEF BaseState, SameTable
<1>6. Flagged(b, c, e, F)
  BY <1>4, <1>5 DEF Flagged, SameTable, SameButQueues
<1>7. /\ F \subseteq Places(e)
      /\ "ACTIVE" \in F => "ACTIVE" \in b.flags[e]
      /\ "INSERTED" \in F <=> "INSERTED" \in b.flags[e]
  BY <1>1 DEF Coherent, Fits
<1> HIDE DEF F
<1>8. Coherent(c)
  BY <1>1, <1>6, <1>7, QueuesCoherent
<1> QED
  BY <1>1, <1>2, <1>6, <1>8 DEF e, c, F

\* Counting a call of an event that is not active.
LEMMA CountCallCoherent ==
    ASSUME NEW b, Coherent(b), NEW e \in Event, b.left > 0, "ACTIVE" \notin b.flags[e]
    PROVE  LET c == CountCall(b, e)
           IN  Coherent(c) /\ Flagged(b, c, e, b.flags[e]) /\ c.flags = b.flags
<1> DEFINE c == CountCall(b, e)
           F == b.flags[e]
<1>0. b \in BaseState /\ Sound(b)
  BY DEF Coherent, Sound
<1>1. Sound(c) /\ c.flags = b.flags
  BY <1>0, CountCallSound
<1>2. SameTable(b, c) /\ c.res = b.res
  BY <1>0 DEF CountCall, BaseState, SameTable
<1> HIDE DEF c
<1>3. Flagged(b, c, e, F)
  BY <1>0, <1>1, <1>2 DEF Flagged, BaseState
<1>4. F \subseteq Places(e)
  BY DEF Coherent, Fits
<1>5. "INSERTED" \in F <=> "INSERTED" \in b.flags[e]
  OBVIOUS
<1>6. Coherent(c)
  BY <1>1, <1>3, <1>4, <1>5, QueuesCoherent
<1> QED
  BY <1>1, <1>3, <1>6 DEF c

\* close forgets a registration, whoever is in the table.
LEMMA CloseCoherent ==
    ASSUME NEW b, Coherent(b), NEW f \in Fd
    PROVE  LET c == CloseFd(b, f)
           IN  /\ Coherent(c) /\ c.flags = b.flags /\ c.open = b.open \ {f}
               /\ c.res = b.res
<1> DEFINE c == CloseFd(b, f)
<1>0. b \in BaseState /\ Sound(b)
  BY DEF Coherent, Sound
<1>1. /\ c \in BaseState
      /\ c.flags = b.flags /\ c.activeq = b.activeq /\ c.count = b.count
      /\ c.active = b.active /\ c.ncalls = b.ncalls /\ c.res = b.res
      /\ c.evread = b.evread /\ c.evwrite = b.evwrite
      /\ c.open = b.open \ {f} /\ c.kern = [b.kern EXCEPT ![f] = {}]
  BY <1>0 DEF CloseFd, BaseState
<1> HIDE DEF c
<1>2. Sound(c)
  BY <1>0, <1>1 DEF Sound, NoGarbage, ActiveCoherent, HaveCalls, CountsCoherent,
                    Memberships
<1>3. Inserted(c) = Inserted(b)
  BY <1>1 DEF Inserted
<1>4. TableOf(c, Inserted(b))
  <2>1. \A g \in Fd : c.kern[g] = IF g = f THEN {} ELSE b.kern[g]
    BY <1>0, <1>1 DEF BaseState
  <2>2. \A g \in Fd : Watched(c, g) = Watched(b, g)
    BY <1>1 DEF Watched
  <2>3. \A g \in Fd : b.kern[g] = IF g \in b.open THEN Watched(b, g) ELSE {}
    BY DEF Coherent, TableOf
  <2>4. \A g \in Fd : c.kern[g] = IF g \in c.open THEN Watched(c, g) ELSE {}
    BY <1>1, <2>1, <2>2, <2>3
  <2> QED
    BY <1>1, <2>4 DEF Coherent, TableOf
<1>5. Fits(c) /\ TimersExpired(c)
  BY <1>1 DEF Coherent, Fits, TimersExpired
<1> QED
  BY <1>1, <1>2, <1>3, <1>4, <1>5 DEF Coherent, c

\* A descriptor nobody in the table waits for is open again.
LEMMA OpenCoherent ==
    ASSUME NEW b, Coherent(b), NEW f \in Fd, f \notin b.open,
           \A e \in Inserted(b) : FdOf[e] # f
    PROVE  LET c == [b EXCEPT !.open = @ \union {f}]
           IN  /\ Coherent(c) /\ c.flags = b.flags /\ c.open = b.open \union {f}
               /\ c.res = b.res
<1> DEFINE c == [b EXCEPT !.open = @ \union {f}]
<1>0. b \in BaseState /\ Sound(b) /\ NoGarbage(b)
  BY DEF Coherent, Sound
<1>1. /\ c \in BaseState
      /\ c.flags = b.flags /\ c.activeq = b.activeq /\ c.count = b.count
      /\ c.active = b.active /\ c.ncalls = b.ncalls /\ c.res = b.res
      /\ c.evread = b.evread /\ c.evwrite = b.evwrite
      /\ c.open = b.open \union {f} /\ c.kern = b.kern
  BY <1>0 DEF BaseState
<1> HIDE DEF c
<1>2. Sound(c)
  BY <1>0, <1>1 DEF Sound, NoGarbage, ActiveCoherent, HaveCalls, CountsCoherent,
                    Memberships
<1>3. Inserted(c) = Inserted(b)
  BY <1>1 DEF Inserted
<1>4. b.evread[f] = NoEvent /\ b.evwrite[f] = NoEvent
  BY <1>0, SlotEvent DEF Coherent
<1>5. TableOf(c, Inserted(b))
  <2>1. \A g \in Fd : Watched(c, g) = Watched(b, g)
    BY <1>1 DEF Watched
  <2>2. Watched(b, f) = {}
    BY <1>4 DEF Watched
  <2>3. \A g \in Fd : b.kern[g] = IF g \in b.open THEN Watched(b, g) ELSE {}
    BY DEF Coherent, TableOf
  <2>4. \A g \in Fd : c.kern[g] = IF g \in c.open THEN Watched(c, g) ELSE {}
    BY <1>1, <2>1, <2>2, <2>3
  <2> QED
    BY <1>1, <2>4 DEF Coherent, TableOf
<1>6. Fits(c) /\ TimersExpired(c)
  BY <1>1 DEF Coherent, Fits, TimersExpired
<1> QED
  BY <1>1, <1>2, <1>3, <1>5, <1>6 DEF Coherent, c

\* A fresh base, with any descriptors open.
LEMMA EmptyBaseCoherent ==
    ASSUME NEW b \in EmptyBase, NEW O \in SUBSET Fd, NFiles \notin Fd
    PROVE  LET c == [b EXCEPT !.open = O]
           IN  /\ Coherent(c) /\ c.open = O /\ c.flags = [e \in Event |-> {}]
<1> DEFINE c == [b EXCEPT !.open = O]
<1>0. PICK past \in {NoEvent, Garbage} : b = FreshBase(past)
  BY DEF EmptyBase
<1>1. Sound(b) /\ b \in BaseState
  BY EmptyBaseSound DEF Sound
<1>2. /\ b.flags = [e \in Event |-> {}] /\ b.kern = [f \in Fd |-> {}]
      /\ b.evread = [f \in Fd |-> NoEvent]
      /\ b.evwrite = [f \in Fd |-> IF f = NFiles THEN past ELSE NoEvent]
  BY <1>0 DEF FreshBase
<1>3. /\ c \in BaseState
      /\ c.flags = b.flags /\ c.activeq = b.activeq /\ c.count = b.count
      /\ c.active = b.active /\ c.ncalls = b.ncalls /\ c.res = b.res
      /\ c.evread = b.evread /\ c.evwrite = b.evwrite
      /\ c.open = O /\ c.kern = b.kern
  BY <1>1 DEF BaseState
<1> HIDE DEF c
<1>4. Sound(c)
  BY <1>1, <1>3 DEF Sound, NoGarbage, ActiveCoherent, HaveCalls, CountsCoherent,
                    Memberships
<1>5. Inserted(c) = {}
  BY <1>2, <1>3 DEF Inserted
<1>6. \A f \in Fd : c.evread[f] = NoEvent /\ c.evwrite[f] = NoEvent /\ c.kern[f] = {}
  BY <1>2, <1>3
<1>7. TableOf(c, {})
  BY <1>6, BaseConstants DEF TableOf, Watched, EventAssumption
<1>8. Fits(c) /\ TimersExpired(c)
  BY <1>2, <1>3 DEF Fits, TimersExpired
<1> QED
  BY <1>2, <1>3, <1>4, <1>5, <1>7, <1>8 DEF Coherent, c
=============================================================================
