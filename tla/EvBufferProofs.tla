--------------------------- MODULE EvBufferProofs ---------------------------
(***************************************************************************)
(* What EvBuffer's operations preserve, for any buffers, bytes and bounds: *)
(* the contents stay in the block, hold only bytes that were put in, and   *)
(* the callback has told their length.  At the end, what the searches find *)
(* in such a block.                                                        *)
(***************************************************************************)
EXTENDS EvBuffer, SequenceTheorems, WellFoundedInduction, TLAPS

Byte == Bytes \cup {Junk}

\* The contents hold no byte that was not put in.
Clean(b) == \A i \in 1 .. b.off : b.mem[b.data + i] \in Bytes

\* What every operation finds and leaves.
Good(b) ==
    /\ b \in Buffer
    /\ b.data = b.misalign
    /\ b.misalign + b.off <= Len(b.mem)
    /\ Clean(b)
    /\ b.told # NoCb => b.told = b.off

\* Room for n bytes behind the contents.
Room(b, n) == b.misalign + b.off + n <= Len(b.mem)

\* A function on 1 .. n is a sequence of n elements.
LEMMA FunctionSeq ==
    ASSUME NEW S, NEW n \in Nat, NEW f \in [1 .. n -> S]
    PROVE  f \in Seq(S) /\ Len(f) = n
OBVIOUS

\* A part of a sequence.
LEMMA SubSeqIs ==
    ASSUME NEW S, NEW s \in Seq(S), NEW m \in Nat, NEW n \in Nat, m + n <= Len(s)
    PROVE  /\ SubSeq(s, m + 1, m + n) \in Seq(S)
           /\ Len(SubSeq(s, m + 1, m + n)) = n
           /\ \A i \in 1 .. n : SubSeq(s, m + 1, m + n)[i] = s[m + i]
<1>1. \A i \in m + 1 .. m + n : s[i] \in S
  OBVIOUS
<1> QED
  BY <1>1, SubSeqProperties

\* Store keeps the length of the block and changes the bytes it stores.
LEMMA StoreSeq ==
    ASSUME NEW S, NEW mem \in Seq(S), NEW at \in Nat, NEW d \in Seq(S)
    PROVE  /\ Store(mem, at, d) \in Seq(S)
           /\ Len(Store(mem, at, d)) = Len(mem)
           /\ \A i \in 1 .. Len(mem) :
                  Store(mem, at, d)[i] =
                      IF at < i /\ i <= at + Len(d) THEN d[i - at] ELSE mem[i]
<1>1. Store(mem, at, d) \in [1 .. Len(mem) -> S]
  <2> SUFFICES ASSUME NEW i \in 1 .. Len(mem)
               PROVE  (IF at < i /\ i <= at + Len(d) THEN d[i - at]
                       ELSE mem[i]) \in S
    BY DEF Store
  <2> QED
    OBVIOUS
<1>2. Len(mem) \in Nat
  OBVIOUS
<1> QED
  BY <1>1, <1>2, FunctionSeq DEF Store

\* realloc keeps the bytes of the old block.
LEMMA ReallocSeq ==
    ASSUME NEW b \in Buffer, NEW n \in Nat, n >= Len(b.mem)
    PROVE  /\ Realloc(b, n) \in Buffer
           /\ Realloc(b, n) = [b EXCEPT !.mem = Realloc(b, n).mem]
           /\ Len(Realloc(b, n).mem) = n
           /\ \A i \in 1 .. Len(b.mem) : Realloc(b, n).mem[i] = b.mem[i]
<1> DEFINE m == [i \in 1 .. n |-> IF i <= Len(b.mem) THEN b.mem[i] ELSE Junk]
<1>0. b.mem \in Seq(Byte)
  BY DEF Buffer, Byte
<1>1. m \in [1 .. n -> Byte]
  BY <1>0 DEF Byte
<1>2. m \in Seq(Byte) /\ Len(m) = n
  BY <1>1, FunctionSeq
<1>3. \A i \in 1 .. Len(b.mem) : m[i] = b.mem[i]
  BY <1>0
<1>4. Realloc(b, n) = [b EXCEPT !.mem = m]
  BY DEF Realloc
<1> HIDE DEF m
<1> QED
  BY <1>2, <1>3, <1>4 DEF Buffer, Byte

\* The contents as a sequence.
LEMMA ContentSeq ==
    ASSUME NEW b, Good(b)
    PROVE  /\ Content(b) \in Seq(Bytes)
           /\ Len(Content(b)) = b.off
           /\ \A i \in 1 .. b.off : Content(b)[i] = b.mem[b.data + i]
<1>1. b.mem \in Seq(Byte) /\ b.data \in Nat /\ b.off \in Nat
  BY DEF Good, Buffer, Byte
<1>2. b.data + b.off <= Len(b.mem)
  BY <1>1 DEF Good, Buffer
<1>3. /\ Content(b) \in Seq(Byte)
      /\ Len(Content(b)) = b.off
      /\ \A i \in 1 .. b.off : Content(b)[i] = b.mem[b.data + i]
  <2> DEFINE s == b.mem
             m == b.data
             n == b.off
  <2>1. s \in Seq(Byte) /\ m \in Nat /\ n \in Nat /\ m + n <= Len(s)
    BY <1>1, <1>2
  <2>2. Content(b) = SubSeq(s, m + 1, m + n)
    BY DEF Content
  <2> HIDE DEF s, m, n
  <2>3. /\ Content(b) \in Seq(Byte) /\ Len(Content(b)) = n
        /\ \A i \in 1 .. n : Content(b)[i] = s[m + i]
    BY <2>1, <2>2, SubSeqIs
  <2> QED
    BY <2>3 DEF s, m, n
<1>4. Content(b) \in [1 .. b.off -> Bytes]
  BY <1>1, <1>3, LenProperties DEF Good, Clean
<1> QED
  BY <1>1, <1>3, <1>4, FunctionSeq

\* What Good says of the fields.
LEMMA GoodFields ==
    ASSUME NEW b, Good(b)
    PROVE  /\ b.mem \in Seq(Byte) /\ Len(b.mem) \in Nat
           /\ b.data \in Nat /\ b.misalign \in Nat /\ b.off \in Nat
           /\ b.told \in Nat \cup {NoCb}
           /\ b.data = b.misalign /\ b.misalign + b.off <= Len(b.mem)
BY DEF Good, Buffer, Byte

\* cb keeps the client's account, whatever the lengths are.
LEMMA NotifyGood ==
    ASSUME NEW b \in Buffer, NEW old \in Nat, b.told # NoCb => b.told = old
    PROVE  LET n == Notify(b, old, b.off)
           IN  /\ n \in Buffer /\ n.mem = b.mem /\ n.data = b.data
               /\ n.misalign = b.misalign /\ n.off = b.off
               /\ n.told = NoCb <=> b.told = NoCb
               /\ n.told # NoCb => n.told = b.off
<1>1. CASE b.told = NoCb
  BY <1>1 DEF Notify
<1>2. CASE b.told # NoCb
  <2>1. Notify(b, old, b.off) = [b EXCEPT !.told = b.told + (b.off - old)]
    BY <1>2 DEF Notify
  <2>2. b.told + (b.off - old) = b.off /\ b.off \in Nat /\ b.off # NoCb
    BY <1>2 DEF Buffer, NoCb
  <2> QED
    BY <1>2, <2>1, <2>2 DEF Buffer
<1> QED
  BY <1>1, <1>2

-----------------------------------------------------------------------------
\* evbuffer_align moves the contents to the start of the block.
LEMMA AlignGood ==
    ASSUME NEW b, Good(b)
    PROVE  /\ Good(Align(b))
           /\ Align(b).misalign = 0 /\ Align(b).off = b.off
           /\ Align(b).told = b.told
           /\ Len(Align(b).mem) = Len(b.mem)
           /\ Content(Align(b)) = Content(b)
<1> DEFINE m == Store(b.mem, 0, Content(b))
<1>1. b.mem \in Seq(Byte) /\ Content(b) \in Seq(Bytes)
  BY GoodFields, ContentSeq
<1>2. Content(b) \in Seq(Byte) /\ Len(Content(b)) = b.off
  BY ContentSeq DEF Byte
<1>3. /\ m \in Seq(Byte) /\ Len(m) = Len(b.mem)
      /\ \A i \in 1 .. b.off : m[i] = Content(b)[i]
  <2> DEFINE d == Content(b)
  <2>1. /\ b.mem \in Seq(Byte) /\ d \in Seq(Byte) /\ Len(d) = b.off
        /\ b.off \in Nat /\ b.off <= Len(b.mem) /\ Len(b.mem) \in Nat
    BY <1>1, <1>2, GoodFields
  <2> HIDE DEF d
  <2>2. /\ m \in Seq(Byte) /\ Len(m) = Len(b.mem)
        /\ \A i \in 1 .. Len(b.mem) :
              m[i] = IF 0 < i /\ i <= 0 + Len(d) THEN d[i - 0] ELSE b.mem[i]
    BY <2>1, StoreSeq DEF d
  <2> HIDE DEF m
  <2>3. ASSUME NEW i \in 1 .. b.off PROVE m[i] = d[i]
    <3>1. i \in 1 .. Len(b.mem) /\ 0 < i /\ i <= 0 + Len(d) /\ i - 0 = i
      BY <2>1
    <3> QED
      BY <2>2, <3>1
  <2> QED
    BY <2>2, <2>3 DEF d
<1> HIDE DEF m
<1>4. /\ Align(b) = [b EXCEPT !.mem = m, !.data = 0, !.misalign = 0]
      /\ Align(b) \in Buffer
      /\ Align(b).mem = m /\ Align(b).data = 0 /\ Align(b).misalign = 0
      /\ Align(b).off = b.off /\ Align(b).told = b.told
  BY <1>3 DEF Align, Good, Buffer, Byte, m
<1>5. Clean(Align(b))
  BY <1>1, <1>2, <1>3, <1>4, GoodFields DEF Clean
<1>6. Good(Align(b))
  BY <1>3, <1>4, <1>5, GoodFields DEF Good
<1>7. Content(Align(b)) = Content(b)
  <2>1. /\ Content(Align(b)) \in Seq(Bytes)
        /\ Len(Content(Align(b))) = b.off
        /\ \A i \in 1 .. b.off : Content(Align(b))[i] = m[i]
    <3>1. /\ Content(Align(b)) \in Seq(Bytes)
          /\ Len(Content(Align(b))) = Align(b).off
          /\ \A i \in 1 .. Align(b).off :
                Content(Align(b))[i] = Align(b).mem[Align(b).data + i]
      BY <1>6, ContentSeq
    <3>2. \A i \in 1 .. b.off : 0 + i = i
      BY GoodFields
    <3> QED
      BY <3>1, <3>2, <1>4
  <2> QED
    BY <1>1, <1>2, <1>3, <2>1
<1> QED
  BY <1>3, <1>4, <1>6, <1>7

\* realloc of an aligned buffer to at least the memory it had.
LEMMA ReallocGood ==
    ASSUME NEW b, Good(b), NEW n \in Nat, n >= Len(b.mem)
    PROVE  /\ Good(Realloc(b, n))
           /\ Realloc(b, n).misalign = b.misalign
           /\ Realloc(b, n).off = b.off /\ Realloc(b, n).told = b.told
           /\ Len(Realloc(b, n).mem) = n
           /\ Content(Realloc(b, n)) = Content(b)
<1> DEFINE r == Realloc(b, n)
<1>0. b \in Buffer
  BY DEF Good
<1>1. /\ r \in Buffer /\ Len(r.mem) = n
      /\ \A i \in 1 .. Len(b.mem) : r.mem[i] = b.mem[i]
      /\ r = [b EXCEPT !.mem = r.mem]
  BY <1>0, ReallocSeq
<1> HIDE DEF r
<1>2. /\ r.data = b.data /\ r.misalign = b.misalign /\ r.off = b.off
      /\ r.told = b.told
  BY <1>0, <1>1 DEF Buffer
<1>3. \A i \in 1 .. b.off : r.mem[r.data + i] = b.mem[b.data + i]
  <2> SUFFICES ASSUME NEW i \in 1 .. b.off
               PROVE  r.mem[r.data + i] = b.mem[b.data + i]
    OBVIOUS
  <2>1. b.data + i \in 1 .. Len(b.mem)
    BY GoodFields
  <2> QED
    BY <1>1, <1>2, <2>1
<1>4. Good(r)
  BY <1>1, <1>2, <1>3, GoodFields DEF Good, Clean
<1>5. Content(r) = Content(b)
  <2>1. /\ Content(r) \in Seq(Bytes) /\ Len(Content(r)) = b.off
        /\ \A i \in 1 .. b.off : Content(r)[i] = Content(b)[i]
    BY <1>2, <1>3, <1>4, ContentSeq, GoodFields
  <2>2. Content(b) \in Seq(Bytes) /\ Len(Content(b)) = b.off
    BY ContentSeq
  <2> QED
    BY <2>1, <2>2
<1> QED
  BY <1>1, <1>2, <1>4, <1>5 DEF r

\* What the doubling loop ends with is enough, and no less than before.
LEMMA DoubledEnough ==
    ASSUME NEW length \in Nat, NEW need \in Nat, NEW l \in Doubled(length, need)
    PROVE  l \in Nat /\ l >= length /\ l >= need
<1>1. l \in length .. MaxLen /\ l >= need
  BY DEF Doubled
<1> QED
  BY <1>1, BufferAssumption DEF BufferAssumption

\* evbuffer_expand keeps the contents, when realloc fails after the buffer
\* has been aligned, too; and when it succeeds there is room behind them.
LEMMA ExpandEnough ==
    ASSUME NEW b, Good(b), NEW n \in Nat, NEW e \in Expand(b, n)
    PROVE  /\ Good(e.b) /\ e.b.off = b.off /\ e.b.told = b.told
           /\ Content(e.b) = Content(b)
           /\ e.ret # -1 => Room(e.b, n)
           /\ e.ret \in {0, -1}
<1> DEFINE need    == b.misalign + b.off + n
           aligned == IF b.data # 0 THEN Align(b) ELSE b
           length  == IF TotalLen(b) < MinLen THEN MinLen ELSE TotalLen(b)
<1>0. need \in Nat /\ length \in Nat /\ length >= Len(b.mem)
  BY GoodFields, BufferAssumption DEF BufferAssumption, TotalLen
<1>1. \/ e = Outcome(0, b) /\ TotalLen(b) >= need
      \/ e = Outcome(0, Align(b)) /\ b.misalign >= n
      \/ \E l \in Doubled(length, need) : e = Outcome(0, Realloc(aligned, l))
      \/ e = Outcome(-1, aligned)
  BY DEF Expand
<1>2. /\ Good(aligned) /\ aligned.misalign = 0 /\ aligned.off = b.off
      /\ aligned.told = b.told /\ Len(aligned.mem) = Len(b.mem)
      /\ Content(aligned) = Content(b)
  BY AlignGood, GoodFields
<1>3. CASE e = Outcome(0, b) /\ TotalLen(b) >= need
  BY <1>3, GoodFields DEF Outcome, TotalLen, Room
<1>4. CASE e = Outcome(0, Align(b)) /\ b.misalign >= n
  BY <1>4, AlignGood, GoodFields DEF Outcome, Room
<1>5. CASE \E l \in Doubled(length, need) : e = Outcome(0, Realloc(aligned, l))
  <2>1. PICK l \in Doubled(length, need) : e = Outcome(0, Realloc(aligned, l))
    BY <1>5
  <2> HIDE DEF need, length, aligned
  <2>2. l \in Nat /\ l >= length /\ l >= need
    BY <1>0, DoubledEnough
  <2>3. l >= Len(aligned.mem)
    BY <1>0, <1>2, <2>2, GoodFields
  <2>4. /\ Good(Realloc(aligned, l)) /\ Realloc(aligned, l).misalign = 0
        /\ Realloc(aligned, l).off = b.off
        /\ Realloc(aligned, l).told = b.told
        /\ Len(Realloc(aligned, l).mem) = l
        /\ Content(Realloc(aligned, l)) = Content(b)
    BY <1>2, <2>2, <2>3, ReallocGood
  <2>5. b.off + n <= l
    BY <2>2, GoodFields DEF need
  <2> QED
    BY <2>1, <2>4, <2>5, GoodFields DEF Outcome, Room
<1>6. CASE e = Outcome(-1, aligned)
  BY <1>6, <1>2 DEF Outcome
<1> QED
  BY <1>1, <1>3, <1>4, <1>5, <1>6

-----------------------------------------------------------------------------
\* Two buffers with the same bytes behind data have the same contents.
LEMMA SameContent ==
    ASSUME NEW b, NEW c, Good(b), Good(c), c.off = b.off,
           \A i \in 1 .. b.off : c.mem[c.data + i] = b.mem[b.data + i]
    PROVE  Content(c) = Content(b)
<1>1. /\ Content(b) \in Seq(Bytes) /\ Len(Content(b)) = b.off
      /\ \A i \in 1 .. b.off : Content(b)[i] = b.mem[b.data + i]
  BY ContentSeq
<1>2. /\ Content(c) \in Seq(Bytes) /\ Len(Content(c)) = c.off
      /\ \A i \in 1 .. c.off : Content(c)[i] = c.mem[c.data + i]
  BY ContentSeq
<1> QED
  BY <1>1, <1>2

\* evbuffer_drain takes the first n bytes away, or all.
LEMMA DrainGood ==
    ASSUME NEW b, Good(b), NEW n \in Nat
    PROVE  /\ Good(Drain(b, n))
           /\ Content(Drain(b, n)) = SubSeq(Content(b), n + 1, b.off)
<1> DEFINE d == IF n >= b.off
                THEN [b EXCEPT !.off = 0, !.data = 0, !.misalign = 0]
                ELSE [b EXCEPT !.off = b.off - n, !.data = b.data + n,
                               !.misalign = b.misalign + n]
           e == Drain(b, n)
<1>0. b \in Buffer
  BY DEF Good
<1>1. CASE n >= b.off
  <2>1. /\ d \in Buffer /\ d.mem = b.mem /\ d.told = b.told
        /\ d.off = 0 /\ d.data = 0 /\ d.misalign = 0
    BY <1>0, <1>1 DEF Buffer
  <2>2. /\ e \in Buffer /\ e.mem = b.mem
        /\ e.off = 0 /\ e.data = 0 /\ e.misalign = 0
        /\ e.told # NoCb => e.told = 0
    <3>1. CASE d.off = b.off
      <4>1. e = d
        BY <3>1 DEF Drain
      <4> QED
        BY <2>1, <4>1, <3>1 DEF Good
    <3>2. CASE d.off # b.off
      <4>1. e = Notify(d, b.off, d.off)
        BY <3>2 DEF Drain
      <4> HIDE DEF d, e
      <4>2. d.told # NoCb => d.told = b.off
        BY <2>1 DEF Good
      <4> QED
        BY <4>1, <4>2, <2>1, GoodFields, NotifyGood
    <3> QED
      BY <3>1, <3>2
  <2> HIDE DEF d, e
  <2>3. Good(e)
    BY <2>2, GoodFields DEF Good, Clean
  <2>4. Content(e) \in Seq(Bytes) /\ Len(Content(e)) = 0
    BY <2>2, <2>3, ContentSeq
  <2>5. SubSeq(Content(b), n + 1, b.off) = <<>>
    BY <1>1, GoodFields, SubSeqEmpty
  <2> QED
    BY <2>3, <2>4, <2>5, EmptySeq DEF e
<1>2. CASE ~(n >= b.off)
  <2>0. n < b.off
    BY <1>2, GoodFields
  <2>1. /\ d \in Buffer /\ d.mem = b.mem /\ d.told = b.told
        /\ d.off = b.off - n /\ d.data = b.data + n
        /\ d.misalign = b.misalign + n
    <3>1. d = [b EXCEPT !.off = b.off - n, !.data = b.data + n,
                        !.misalign = b.misalign + n]
      BY <1>2
    <3>2. b.off - n \in Nat /\ b.data + n \in Nat /\ b.misalign + n \in Nat
      BY <2>0, GoodFields
    <3> HIDE DEF d
    <3> QED
      BY <1>0, <3>1, <3>2 DEF Buffer
  <2>2. /\ e \in Buffer /\ e.mem = b.mem
        /\ e.off = b.off - n /\ e.data = b.data + n
        /\ e.misalign = b.misalign + n
        /\ e.told # NoCb => e.told = e.off
    <3>1. CASE d.off = b.off
      <4>1. e = d
        BY <3>1 DEF Drain
      <4> QED
        BY <2>1, <4>1, <3>1 DEF Good
    <3>2. CASE d.off # b.off
      <4>1. e = Notify(d, b.off, d.off)
        BY <3>2 DEF Drain
      <4> HIDE DEF d, e
      <4>2. d.told # NoCb => d.told = b.off
        BY <2>1 DEF Good
      <4> QED
        BY <4>1, <4>2, <2>1, GoodFields, NotifyGood
    <3> QED
      BY <3>1, <3>2
  <2> HIDE DEF d, e
  <2>3. \A i \in 1 .. e.off : /\ n + i \in 1 .. b.off
                              /\ e.mem[e.data + i] = b.mem[b.data + (n + i)]
    BY <2>0, <2>2, GoodFields
  <2>4. Clean(e)
    BY <2>3 DEF Good, Clean
  <2>5. Good(e)
    BY <2>0, <2>2, <2>4, GoodFields DEF Good
  <2>6. /\ Content(e) \in Seq(Bytes) /\ Len(Content(e)) = b.off - n
        /\ \A i \in 1 .. b.off - n : Content(e)[i] = e.mem[e.data + i]
    BY <2>2, <2>5, ContentSeq
  <2>7. /\ Content(b) \in Seq(Bytes) /\ Len(Content(b)) = b.off
        /\ \A i \in 1 .. b.off : Content(b)[i] = b.mem[b.data + i]
    BY ContentSeq
  <2>8. /\ SubSeq(Content(b), n + 1, b.off) \in Seq(Bytes)
        /\ Len(SubSeq(Content(b), n + 1, b.off)) = b.off - n
        /\ \A i \in 1 .. b.off - n :
              SubSeq(Content(b), n + 1, b.off)[i] = Content(b)[n + i]
    BY <2>0, <2>7, GoodFields
  <2>9. \A i \in 1 .. b.off - n :
            Content(e)[i] = SubSeq(Content(b), n + 1, b.off)[i]
    <3> SUFFICES ASSUME NEW i \in 1 .. b.off - n
                 PROVE  Content(e)[i] = SubSeq(Content(b), n + 1, b.off)[i]
      OBVIOUS
    <3>1. n + i \in 1 .. b.off /\ e.mem[e.data + i] = b.mem[b.data + (n + i)]
      BY <2>2, <2>3
    <3>2. Content(b)[n + i] = b.mem[b.data + (n + i)]
      BY <2>7, <3>1
    <3> QED
      BY <2>6, <2>8, <3>1, <3>2
  <2>10. Content(e) = SubSeq(Content(b), n + 1, b.off)
    <3>1. Len(Content(e)) = Len(SubSeq(Content(b), n + 1, b.off))
      BY <2>6, <2>8
    <3> QED
      BY <3>1, <2>6, <2>8, <2>9, SeqEqual
  <2> QED
    BY <2>5, <2>10 DEF e
<1> QED
  BY <1>1, <1>2

-----------------------------------------------------------------------------
\* What is stored behind the contents leaves them as they are.
LEMMA StoreBehind ==
    ASSUME NEW b, Good(b), NEW d \in Seq(Byte)
    PROVE  LET c == [b EXCEPT !.mem = Store(b.mem, b.data + b.off, d)]
           IN  /\ Good(c) /\ Content(c) = Content(b)
               /\ c.data = b.data /\ c.misalign = b.misalign
               /\ c.off = b.off /\ c.told = b.told
               /\ Len(c.mem) = Len(b.mem)
               /\ \A i \in 1 .. Len(d) : b.data + b.off + i <= Len(b.mem) =>
                      c.mem[b.data + b.off + i] = d[i]
<1> DEFINE p == b.data + b.off
           m == Store(b.mem, p, d)
           c == [b EXCEPT !.mem = m]
<1>0. /\ b.mem \in Seq(Byte) /\ p \in Nat /\ b.data \in Nat
      /\ b.off \in Nat /\ p <= Len(b.mem) /\ Len(b.mem) \in Nat
      /\ Len(d) \in Nat
  BY GoodFields
<1> HIDE DEF p
<1>1. /\ m \in Seq(Byte) /\ Len(m) = Len(b.mem)
      /\ \A i \in 1 .. Len(b.mem) :
            m[i] = IF p < i /\ i <= p + Len(d)
                   THEN d[i - p] ELSE b.mem[i]
  BY <1>0, StoreSeq DEF m
<1> HIDE DEF m
<1>2. /\ c \in Buffer /\ c.mem = m /\ c.data = b.data /\ c.off = b.off
      /\ c.misalign = b.misalign /\ c.told = b.told
  BY <1>1 DEF Good, Buffer, Byte
<1> HIDE DEF c
<1>3. \A i \in 1 .. b.off : c.mem[c.data + i] = b.mem[b.data + i]
  <2> SUFFICES ASSUME NEW i \in 1 .. b.off
               PROVE  m[b.data + i] = b.mem[b.data + i]
    BY <1>2
  <2>1. b.data + i \in 1 .. Len(b.mem) /\ ~(p < b.data + i)
    BY <1>0 DEF p
  <2> QED
    BY <1>1, <2>1
<1>4. Good(c)
  BY <1>1, <1>2, <1>3, GoodFields DEF Good, Clean
<1>5. \A i \in 1 .. Len(d) : p + i <= Len(b.mem) =>
          c.mem[p + i] = d[i]
  <2> SUFFICES ASSUME NEW i \in 1 .. Len(d), p + i <= Len(b.mem)
               PROVE  m[p + i] = d[i]
    BY <1>2
  <2> DEFINE k == p + i
  <2>1. k \in 1 .. Len(b.mem) /\ p < k /\ k <= p + Len(d) /\ k - p = i
    BY <1>0
  <2> HIDE DEF k
  <2>2. m[k] = d[i]
    BY <1>1, <2>1
  <2> QED
    BY <2>2 DEF k
<1>6. Content(c) = Content(b)
  BY <1>2, <1>3, <1>4, SameContent
<1> QED
  BY <1>1, <1>2, <1>4, <1>5, <1>6 DEF c, m, p

\* Bytes that are there already become part of the contents.
LEMMA Grown ==
    ASSUME NEW b, Good(b), NEW d \in Seq(Bytes), Room(b, Len(d)),
           \A i \in 1 .. Len(d) : b.mem[b.data + b.off + i] = d[i],
           NEW c \in Buffer, c.mem = b.mem, c.data = b.data,
           c.misalign = b.misalign, c.off = b.off + Len(d),
           c.told # NoCb => c.told = c.off
    PROVE  Good(c) /\ Content(c) = Content(b) \o d
<1>0. Len(d) \in Nat /\ \A i \in 1 .. Len(d) : d[i] \in Bytes
  OBVIOUS
<1>1. ASSUME NEW i \in 1 .. c.off
      PROVE  c.mem[c.data + i] =
                 IF i <= b.off THEN b.mem[b.data + i] ELSE d[i - b.off]
  <2>1. CASE i <= b.off
    BY <2>1
  <2>2. CASE ~(i <= b.off)
    <3>1. i - b.off \in 1 .. Len(d) /\ b.data + b.off + (i - b.off) = b.data + i
      BY <1>0, <2>2, GoodFields
    <3>2. b.mem[b.data + b.off + (i - b.off)] = d[i - b.off]
      BY <3>1
    <3> QED
      BY <2>2, <3>1, <3>2
  <2> QED
    BY <2>1, <2>2
<1>2. Clean(c)
  <2> SUFFICES ASSUME NEW i \in 1 .. c.off PROVE c.mem[c.data + i] \in Bytes
    BY DEF Clean
  <2>1. CASE i <= b.off
    BY <1>1, <2>1, GoodFields DEF Good, Clean
  <2>2. CASE ~(i <= b.off)
    <3>1. i - b.off \in 1 .. Len(d)
      BY <1>0, <2>2, GoodFields
    <3> QED
      BY <1>0, <1>1, <2>2, <3>1
  <2> QED
    BY <2>1, <2>2
<1>3. Good(c)
  BY <1>0, <1>2, GoodFields DEF Good, Room
<1>4. /\ Content(c) \in Seq(Bytes) /\ Len(Content(c)) = c.off
      /\ \A i \in 1 .. c.off : Content(c)[i] = c.mem[c.data + i]
  BY <1>3, ContentSeq
<1>5. /\ Content(b) \in Seq(Bytes) /\ Len(Content(b)) = b.off
      /\ \A i \in 1 .. b.off : Content(b)[i] = b.mem[b.data + i]
  BY ContentSeq
<1>6. /\ Content(b) \o d \in Seq(Bytes)
      /\ Len(Content(b) \o d) = c.off
      /\ \A i \in 1 .. c.off : (Content(b) \o d)[i] =
             IF i <= b.off THEN Content(b)[i] ELSE d[i - b.off]
  BY <1>5, ConcatProperties
<1>7. \A i \in 1 .. c.off : Content(c)[i] = (Content(b) \o d)[i]
  <2> SUFFICES ASSUME NEW i \in 1 .. c.off
               PROVE  Content(c)[i] = (Content(b) \o d)[i]
    OBVIOUS
  <2>1. CASE i <= b.off
    <3>1. i \in 1 .. b.off
      BY <2>1, <1>0, GoodFields
    <3> QED
      BY <1>1, <1>4, <1>5, <1>6, <2>1, <3>1
  <2>2. CASE ~(i <= b.off)
    BY <1>1, <1>4, <1>6, <2>2
  <2> QED
    BY <2>1, <2>2
<1>8. Len(Content(c)) = Len(Content(b) \o d)
  BY <1>4, <1>6
<1> QED
  BY <1>3, <1>4, <1>6, <1>7, <1>8, SeqEqual

\* evbuffer_add's copy, when there is room: the bytes go in at the end.
LEMMA AddedGood ==
    ASSUME NEW b, Good(b), NEW d \in Seq(Bytes), Room(b, Len(d))
    PROVE  Good(Added(b, d)) /\ Content(Added(b, d)) = Content(b) \o d
<1> DEFINE c == [b EXCEPT !.mem = Store(b.mem, b.data + b.off, d)]
           b1 == [b EXCEPT !.mem = Store(b.mem, b.data + b.off, d),
                           !.off = b.off + Len(d)]
           a == Added(b, d)
<1>0. d \in Seq(Byte) /\ Len(d) \in Nat
  BY DEF Byte
<1>1. /\ Good(c) /\ Content(c) = Content(b)
      /\ c.data = b.data /\ c.misalign = b.misalign
      /\ c.off = b.off /\ c.told = b.told /\ Len(c.mem) = Len(b.mem)
      /\ \A i \in 1 .. Len(d) : b.data + b.off + i <= Len(b.mem) =>
             c.mem[b.data + b.off + i] = d[i]
  BY <1>0, StoreBehind
<1>2. b \in Buffer
  BY DEF Good
<1>3. b1 = [c EXCEPT !.off = b.off + Len(d)]
  BY <1>2 DEF Buffer
<1> HIDE DEF c, b1
<1>4. /\ b1 \in Buffer /\ b1.mem = c.mem /\ b1.data = c.data
      /\ b1.misalign = c.misalign /\ b1.told = c.told
      /\ b1.off = b.off + Len(d)
  <2>1. c \in Buffer
    BY <1>1 DEF Good
  <2>2. b.off + Len(d) \in Nat
    BY <1>0, GoodFields
  <2> QED
    BY <1>3, <2>1, <2>2 DEF Buffer
<1>5. a = IF Len(d) # 0 THEN Notify(b1, b.off, b1.off) ELSE b1
  BY DEF Added, b1
<1>6. /\ a \in Buffer /\ a.mem = c.mem /\ a.data = c.data
      /\ a.misalign = c.misalign /\ a.off = c.off + Len(d)
      /\ a.told # NoCb => a.told = a.off
  <2>1. CASE Len(d) # 0
    BY <2>1, <1>1, <1>4, <1>5, NotifyGood, GoodFields DEF Good
  <2>2. CASE Len(d) = 0
    BY <2>2, <1>1, <1>4, <1>5, GoodFields DEF Good
  <2> QED
    BY <2>1, <2>2
<1> HIDE DEF a
<1>7. Room(c, Len(d)) /\ \A i \in 1 .. Len(d) : c.mem[c.data + c.off + i] = d[i]
  BY <1>0, <1>1, GoodFields DEF Room
<1>8. Good(a) /\ Content(a) = Content(c) \o d
  BY <1>1, <1>6, <1>7, Grown
<1> QED
  BY <1>1, <1>8 DEF a

\* The contents of an empty buffer.
LEMMA EmptyContent ==
    ASSUME NEW b, Good(b), b.off = 0
    PROVE  Content(b) = <<>>
<1>1. Content(b) \in Seq(Bytes) /\ Len(Content(b)) = 0
  BY ContentSeq
<1> QED
  BY <1>1, EmptySeq

\* evbuffer_add puts all the bytes in at the end, or none.
LEMMA EvAddGood ==
    ASSUME NEW b, Good(b), NEW d \in Seq(Bytes), NEW o \in EvAdd(b, d)
    PROVE  /\ Good(o.b)
           /\ \/ o.ret = 0 /\ Content(o.b) = Content(b) \o d
              \/ o.ret = -1 /\ Content(o.b) = Content(b)
<1>1. PICK e \in Expand(b, Len(d)) :
          o = IF e.ret = -1 THEN e ELSE Outcome(0, Added(e.b, d))
  BY DEF EvAdd
<1>2. /\ Good(e.b) /\ Content(e.b) = Content(b)
      /\ e.ret # -1 => Room(e.b, Len(d))
  <2>1. Len(d) \in Nat
    OBVIOUS
  <2> QED
    BY <2>1, ExpandEnough
<1>3. CASE e.ret = -1
  BY <1>1, <1>2, <1>3
<1>4. CASE e.ret # -1
  <2>1. o.b = Added(e.b, d) /\ o.ret = 0
    BY <1>1, <1>4 DEF Outcome
  <2>2. Good(Added(e.b, d)) /\ Content(Added(e.b, d)) = Content(e.b) \o d
    BY <1>2, <1>4, AddedGood
  <2> QED
    BY <1>2, <2>1, <2>2
<1> QED
  BY <1>3, <1>4

\* evbuffer_read puts in what read has given.
LEMMA ReadIntoGood ==
    ASSUME NEW b, Good(b), NEW size \in Nat,
           NEW d \in Seq(Bytes), Len(d) <= size, NEW o \in ReadInto(b, size, d)
    PROVE  /\ Good(o.b)
           /\ \/ o.ret # -1 /\ Content(o.b) = Content(b) \o d
              \/ o.ret = -1 /\ Content(o.b) = Content(b)
<1>1. PICK e \in Expand(b, size) :
          o = IF e.ret = -1 THEN e ELSE Outcome(Len(d), Added(e.b, d))
  BY DEF ReadInto
<1>2. /\ Good(e.b) /\ Content(e.b) = Content(b)
      /\ e.ret # -1 => Room(e.b, size)
  BY ExpandEnough
<1>3. CASE e.ret = -1
  BY <1>1, <1>2, <1>3
<1>4. CASE e.ret # -1
  <2>0. Room(e.b, Len(d))
    <3> DEFINE c == e.b
               n == Len(d)
               l == Len(c.mem)
    <3>1. Good(c) /\ Room(c, size) /\ n \in Nat /\ n <= size
      BY <1>2, <1>4
    <3> HIDE DEF c, n
    <3>2. l \in Nat /\ c.misalign \in Nat /\ c.off \in Nat
      BY <3>1, GoodFields
    <3>3. c.misalign + c.off + size <= l
      BY <3>1 DEF Room
    <3> HIDE DEF l
    <3>4. c.misalign + c.off + n <= l
      BY <3>1, <3>2, <3>3
    <3> QED
      BY <3>4 DEF Room, c, n, l
  <2>1. o.b = Added(e.b, d) /\ o.ret = Len(d) /\ Len(d) \in Nat
    BY <1>1, <1>4 DEF Outcome
  <2>2. Good(Added(e.b, d)) /\ Content(Added(e.b, d)) = Content(e.b) \o d
    BY <1>2, <2>0, AddedGood
  <2> QED
    BY <1>2, <2>1, <2>2
<1> QED
  BY <1>3, <1>4

\* What vsnprintf writes is behind the contents, and is the whole text when
\* there is room for it and its NUL.
LEMMA VsnprintfGood ==
    ASSUME NEW b, Good(b), NEW text \in Seq(Bytes)
    PROVE  LET v == VsnprintfInto(b, text)
           IN  /\ Good(v) /\ Content(v) = Content(b)
               /\ v.data = b.data /\ v.misalign = b.misalign
               /\ v.off = b.off /\ v.told = b.told
               /\ Len(v.mem) = Len(b.mem)
               /\ Len(text) < Space(b) =>
                      \A i \in 1 .. Len(text) :
                          v.mem[b.data + b.off + i] = text[i]
<1> DEFINE fit == IF Len(text) < Space(b) THEN Len(text) ELSE Space(b) - 1
           d == Append(SubSeq(text, 1, fit), Junk)
           v == VsnprintfInto(b, text)
<1>0. Space(b) \in Nat /\ Len(text) \in Nat
  BY GoodFields DEF Space, TotalLen
<1>1. CASE Space(b) = 0
  BY <1>0, <1>1 DEF VsnprintfInto
<1>2. CASE Space(b) # 0
  <2>1. fit \in Nat /\ fit <= Len(text)
    BY <1>0, <1>2
  <2>2. /\ SubSeq(text, 1, fit) \in Seq(Bytes) /\ Len(SubSeq(text, 1, fit)) = fit
        /\ \A i \in 1 .. fit : SubSeq(text, 1, fit)[i] = text[i]
    <3> HIDE DEF fit
    <3> QED
      BY <2>1
  <2>3. SubSeq(text, 1, fit) \in Seq(Byte)
    BY <2>2 DEF Byte
  <2>4. /\ d \in Seq(Byte) /\ Len(d) = fit + 1
        /\ \A i \in 1 .. fit : d[i] = text[i]
    <3> HIDE DEF fit
    <3> QED
      BY <2>1, <2>2, <2>3 DEF Byte
  <2>5. v = [b EXCEPT !.mem = Store(b.mem, b.data + b.off, d)]
    BY <1>2 DEF VsnprintfInto
  <2> HIDE DEF d, v
  <2>6. /\ Good(v) /\ Content(v) = Content(b)
        /\ v.data = b.data /\ v.misalign = b.misalign
        /\ v.off = b.off /\ v.told = b.told
        /\ Len(v.mem) = Len(b.mem)
        /\ \A i \in 1 .. Len(d) : b.data + b.off + i <= Len(b.mem) =>
               v.mem[b.data + b.off + i] = d[i]
    BY <2>4, <2>5, StoreBehind
  <2>7. ASSUME Len(text) < Space(b), NEW i \in 1 .. Len(text)
        PROVE  v.mem[b.data + b.off + i] = text[i]
    <3>1. fit = Len(text)
      BY <2>7
    <3>2. i \in 1 .. fit /\ i \in 1 .. Len(d) /\ b.data + b.off + i <= Len(b.mem)
      BY <1>0, <2>4, <2>7, <3>1, GoodFields DEF Space, TotalLen
    <3> HIDE DEF fit
    <3> QED
      BY <2>4, <2>6, <3>2
  <2> QED
    BY <2>6, <2>7 DEF v
<1> QED
  BY <1>1, <1>2

\* The round of evbuffer_add_vprintf in which the text fits.
LEMMA PrintedGood ==
    ASSUME NEW b, Good(b), NEW text \in Seq(Bytes), Len(text) < Space(b)
    PROVE  /\ Good(Printed(b, text))
           /\ Content(Printed(b, text)) = Content(b) \o text
<1> DEFINE v == VsnprintfInto(b, text)
           b1 == [v EXCEPT !.off = v.off + Len(text)]
           a == Printed(b, text)
<1>0. Len(text) \in Nat
  OBVIOUS
<1>1. /\ Good(v) /\ Content(v) = Content(b)
      /\ v.data = b.data /\ v.misalign = b.misalign
      /\ v.off = b.off /\ v.told = b.told
      /\ Len(v.mem) = Len(b.mem)
      /\ \A i \in 1 .. Len(text) : v.mem[b.data + b.off + i] = text[i]
  BY VsnprintfGood
<1>2. a = Notify(b1, b.off, b1.off)
  BY DEF Printed
<1> HIDE DEF v, a
<1>3. /\ b1 \in Buffer /\ b1.mem = v.mem /\ b1.data = v.data
      /\ b1.misalign = v.misalign /\ b1.told = v.told
      /\ b1.off = v.off + Len(text)
  <2>1. v \in Buffer /\ v.off + Len(text) \in Nat
    BY <1>0, <1>1, GoodFields DEF Good
  <2> QED
    BY <2>1 DEF Buffer
<1> HIDE DEF b1
<1>4. /\ a \in Buffer /\ a.mem = v.mem /\ a.data = v.data
      /\ a.misalign = v.misalign /\ a.off = v.off + Len(text)
      /\ a.told # NoCb => a.told = a.off
  BY <1>1, <1>2, <1>3, NotifyGood, GoodFields DEF Good
<1>5. Room(v, Len(text))
  BY <1>0, <1>1, GoodFields DEF Room, Space, TotalLen
<1>6. Good(a) /\ Content(a) = Content(v) \o text
  BY <1>1, <1>4, <1>5, Grown
<1> QED
  BY <1>1, <1>6 DEF a

\* The bytes of a call.
LEMMA ChunkSeq == ASSUME NEW d \in Chunks PROVE d \in Seq(Bytes)
<1>1. PICK n \in 0 .. MaxChunk : d \in [1 .. n -> Bytes]
  BY DEF Chunks
<1> QED
  BY <1>1, FunctionSeq

\* evbuffer_add_vprintf puts in the text when it fits at once, and otherwise
\* what vsnprintf writes the second time, or nothing.
LEMMA EvPrintfGood ==
    ASSUME NEW b, Good(b), NEW text \in Seq(Bytes), NEW o \in EvPrintf(b, text)
    PROVE  /\ Good(o.b)
           /\ Len(text) < Space(b) =>
                o.ret # -1 /\ Content(o.b) = Content(b) \o text
           /\ \/ /\ o.ret # -1
                 /\ \E t \in Seq(Bytes) :
                        o.ret = Len(t) /\ Content(o.b) = Content(b) \o t
              \/ o.ret = -1 /\ Content(o.b) = Content(b)
<1>0. Len(text) \in Nat /\ Len(text) + 1 \in Nat
  OBVIOUS
<1>1. CASE Len(text) < Space(b)
  <2>1. o.b = Printed(b, text) /\ o.ret = Len(text)
    BY <1>1 DEF EvPrintf, Outcome
  <2>2. Good(o.b) /\ Content(o.b) = Content(b) \o text
    BY <1>1, <2>1, PrintedGood
  <2> QED
    BY <1>0, <2>1, <2>2
<1>2. CASE ~(Len(text) < Space(b))
  <2> DEFINE v == VsnprintfInto(b, text)
             grown == Expand(v, Len(text) + 1)
  <2>1. \/ o \in grown /\ o.ret = -1
        \/ \E e \in grown : \E t \in Chunks :
              Len(t) < Space(e.b) /\ o = Outcome(Len(t), Printed(e.b, t))
    BY <1>2 DEF EvPrintf
  <2>2. Good(v) /\ Content(v) = Content(b)
    BY VsnprintfGood
  <2> HIDE DEF v
  <2>3. \A e \in grown : Good(e.b) /\ Content(e.b) = Content(b)
    BY <1>0, <2>2, ExpandEnough
  <2>4. CASE o \in grown /\ o.ret = -1
    BY <1>2, <2>3, <2>4
  <2>5. ASSUME NEW e \in grown, NEW t \in Chunks, Len(t) < Space(e.b),
               o = Outcome(Len(t), Printed(e.b, t))
        PROVE  /\ Good(o.b) /\ o.ret = Len(t) /\ o.ret # -1 /\ t \in Seq(Bytes)
               /\ Content(o.b) = Content(b) \o t
    <3>1. t \in Seq(Bytes) /\ Len(t) \in Nat
      BY ChunkSeq
    <3>2. o.b = Printed(e.b, t) /\ o.ret = Len(t)
      BY <2>5 DEF Outcome
    <3>3. Good(e.b) /\ Content(e.b) = Content(b)
      BY <2>3
    <3>4. /\ Good(Printed(e.b, t))
          /\ Content(Printed(e.b, t)) = Content(e.b) \o t
      BY <2>5, <3>1, <3>3, PrintedGood
    <3> QED
      BY <3>1, <3>2, <3>3, <3>4
  <2> QED
    BY <1>2, <2>1, <2>4, <2>5
<1> QED
  BY <1>1, <1>2

\* SWAP with the call of cb after it: b has what c had, and its client knows.
LEMMA SwapGood ==
    ASSUME NEW b, Good(b), NEW c, Good(c)
    PROVE  LET n == Notify(Swapped(b, c), b.off, c.off)
           IN  Good(n) /\ Content(n) = Content(c)
<1> DEFINE s == Swapped(b, c)
           n == Notify(s, b.off, s.off)
<1>1. /\ s \in Buffer /\ s.mem = c.mem /\ s.data = c.data
      /\ s.misalign = c.misalign /\ s.off = c.off /\ s.told = b.told
  BY DEF Swapped, Good, Buffer
<1> HIDE DEF s
<1>2. s.told # NoCb => s.told = b.off
  BY <1>1 DEF Good
<1>3. /\ n \in Buffer /\ n.mem = c.mem /\ n.data = c.data
      /\ n.misalign = c.misalign /\ n.off = c.off
      /\ n.told # NoCb => n.told = n.off
  BY <1>1, <1>2, NotifyGood, GoodFields
<1> HIDE DEF n
<1>4. Good(n)
  BY <1>3 DEF Good, Clean
<1>5. Content(n) = Content(c)
  BY <1>3, <1>4, SameContent
<1> QED
  BY <1>1, <1>4, <1>5 DEF n, s

\* evbuffer_add_buffer moves the contents of in to the end of out, or leaves
\* both as they are.
LEMMA AddBufferGood ==
    ASSUME NEW out, Good(out), NEW in, Good(in), NEW o \in AddBuffer(out, in)
    PROVE  /\ Good(o.out) /\ Good(o.in)
           /\ \/ /\ o.ret = 0
                 /\ Content(o.out) = Content(out) \o Content(in)
                 /\ Content(o.in) = <<>>
              \/ /\ o.ret = -1
                 /\ Content(o.out) = Content(out)
                 /\ Content(o.in) = Content(in)
<1>0. Content(in) \in Seq(Bytes)
  BY ContentSeq
<1>1. CASE out.off = 0
  <2>1. /\ o.ret = 0
        /\ o.in = Notify(Swapped(in, out), in.off, out.off)
        /\ o.out = Notify(Swapped(out, in), out.off, in.off)
    BY <1>1 DEF AddBuffer
  <2>2. Content(out) = <<>>
    BY <1>1, EmptyContent
  <2>3. Content(out) \o Content(in) = Content(in)
    BY <1>0, <2>2, ConcatEmptySeq
  <2>4. /\ Good(o.in) /\ Content(o.in) = Content(out)
        /\ Good(o.out) /\ Content(o.out) = Content(in)
    BY <2>1, SwapGood
  <2> QED
    BY <2>1, <2>2, <2>3, <2>4
<1>2. CASE out.off # 0
  <2>1. PICK e \in EvAdd(out, Content(in)) :
            o = [ret |-> e.ret, out |-> e.b,
                 in  |-> IF e.ret = 0 THEN Drain(in, in.off) ELSE in]
    BY <1>2 DEF AddBuffer
  <2>2. /\ Good(e.b)
        /\ \/ e.ret = 0 /\ Content(e.b) = Content(out) \o Content(in)
           \/ e.ret = -1 /\ Content(e.b) = Content(out)
    <3>1. PICK x \in Expand(out, Len(Content(in))) :
              e = IF x.ret = -1 THEN x ELSE Outcome(0, Added(x.b, Content(in)))
      BY DEF EvAdd
    <3>2. CASE x.ret = -1
      <4>1. /\ Good(x.b) /\ Content(x.b) = Content(out)
        BY <1>0, ExpandEnough, LenProperties
      <4> QED
        BY <3>1, <3>2, <4>1
    <3>3. CASE x.ret # -1
      <4>1. e.ret = 0
        BY <3>1, <3>3 DEF Outcome
      <4> QED
        BY <1>0, <4>1, EvAddGood
    <3> QED
      BY <3>2, <3>3
  <2>3. /\ Good(Drain(in, in.off))
        /\ Content(Drain(in, in.off)) = <<>>
    <3>1. in.off \in Nat
      BY GoodFields
    <3>2. SubSeq(Content(in), in.off + 1, in.off) = <<>>
      BY <3>1, SubSeqEmpty
    <3> QED
      BY <3>1, <3>2, DrainGood
  <2>4. CASE e.ret = 0
    <3>1. o.ret = 0 /\ o.out = e.b /\ o.in = Drain(in, in.off)
      BY <2>1, <2>4
    <3> QED
      BY <2>2, <2>3, <2>4, <3>1
  <2>5. CASE e.ret = -1
    <3>1. o.ret = -1 /\ o.out = e.b /\ o.in = in
      BY <2>1, <2>5
    <3> QED
      BY <2>2, <2>5, <3>1
  <2> QED
    BY <2>2, <2>4, <2>5
<1> QED
  BY <1>1, <1>2

\* getBuffer's NUL is behind the contents.
LEMMA TerminatedGood ==
    ASSUME NEW b, Good(b)
    PROVE  Good(Terminated(b)) /\ Content(Terminated(b)) = Content(b)
<1>1. <<Junk>> \in Seq(Byte)
  BY DEF Byte
<1> QED
  BY <1>1, StoreBehind DEF Terminated

\* A new buffer is empty.
LEMMA NewGood == Good(NewBuffer) /\ Content(NewBuffer) = <<>>
<1>1. NewBuffer \in Buffer
  BY EmptySeq DEF NewBuffer, Buffer, NoCb
<1>2. Good(NewBuffer)
  BY <1>1 DEF Good, Clean, NewBuffer, NoCb
<1> QED
  BY <1>2, EmptyContent DEF NewBuffer

\* What is handed to a caller is a beginning of the contents.
LEMMA FrontSeq ==
    ASSUME NEW b, Good(b), NEW n \in Nat
    PROVE  /\ Front(b, n) \in Seq(Bytes)
           /\ Front(b, n) = SubSeq(Content(b), 1, IF n >= b.off THEN b.off
                                                  ELSE n)
<1>1. Content(b) \in Seq(Bytes) /\ Len(Content(b)) = b.off
  BY ContentSeq
<1>2. /\ (IF n >= b.off THEN b.off ELSE n) \in Nat
      /\ (IF n >= b.off THEN b.off ELSE n) <= b.off
  BY GoodFields
<1> QED
  BY <1>1, <1>2, GoodFields DEF Front

-----------------------------------------------------------------------------
(***************************************************************************)
(* The inductive invariant, and the two kinds of steps most actions are.   *)
(***************************************************************************)
IInv ==
    /\ TypeOK
    /\ \A b \in Live : Good(buf[b])

\* What Queues!content stands for.
Held == [b \in Buffers |-> IF buf[b] = Freed THEN Freed ELSE Content(buf[b])]

\* A buffer that is live holds a sequence of bytes.
LEMMA HeldLive ==
    ASSUME IInv, NEW b \in Live
    PROVE  /\ b \in Buffers /\ Good(buf[b])
           /\ Held[b] = Content(buf[b]) /\ Held[b] \in Seq(Bytes)
           /\ Held[b] # Freed
<1>1. b \in Buffers /\ Good(buf[b]) /\ buf[b] # Freed
  BY DEF IInv, Live
<1>2. Content(buf[b]) \in Seq(Bytes)
  BY <1>1, ContentSeq
<1> QED
  BY <1>1, <1>2, FreedAssumption DEF Held

CallType == [op : Ops, on : Seq(Buffers), n : Nat, data : Seq(Bytes),
             ret : {0, -1}]

LEMMA OnSeq == ASSUME NEW b \in Buffers, NEW c \in Buffers
               PROVE  <<b>> \in Seq(Buffers) /\ <<b, c>> \in Seq(Buffers)
OBVIOUS

\* One buffer changes.
LEMMA UpdateOne ==
    ASSUME IInv, NEW b \in Buffers, NEW r, Good(r),
           buf' = [buf EXCEPT ![b] = r], call' \in CallType
    PROVE  IInv' /\ Held' = [Held EXCEPT ![b] = Content(r)]
<1>1. buf \in [Buffers -> Buffer \cup {Freed}]
  BY DEF IInv, TypeOK
<1>2. r \in Buffer /\ r # Freed
  BY FreedAssumption DEF Good
<1>3. TypeOK'
  BY <1>1, <1>2 DEF TypeOK, CallType
<1>4. \A c \in Buffers : buf'[c] = IF c = b THEN r ELSE buf[c]
  BY <1>1
<1>5. ASSUME NEW c \in Live' PROVE Good(buf'[c])
  BY <1>4, <1>5 DEF Live, IInv
<1>6. IInv'
  BY <1>3, <1>5 DEF IInv
<1> DEFINE new == [c \in Buffers |-> IF buf'[c] = Freed THEN Freed
                                     ELSE Content(buf'[c])]
<1>7. Held' = new
  BY DEF Held
<1>8. new = [Held EXCEPT ![b] = Content(r)]
  <2>1. \A c \in Buffers : new[c] = IF c = b THEN Content(r) ELSE Held[c]
    BY <1>2, <1>4 DEF Held
  <2>2. [Held EXCEPT ![b] = Content(r)] =
            [c \in Buffers |-> IF c = b THEN Content(r) ELSE Held[c]]
    BY DEF Held
  <2> HIDE DEF Held
  <2> QED
    BY <2>1, <2>2
<1> QED
  BY <1>6, <1>7, <1>8

\* A call that puts bytes in at the end, or fails.
LEMMA PutStep ==
    ASSUME IInv, NEW b \in Live, NEW r, Good(r), buf' = [buf EXCEPT ![b] = r],
           call' \in CallType, call'.op = "put", call'.on = <<b>>,
           \/ call'.ret # -1 /\ Content(r) = Content(buf[b]) \o call'.data
           \/ call'.ret = -1 /\ Content(r) = Content(buf[b])
    PROVE  IInv' /\ Queues!Next
<1>1. b \in Buffers /\ Held[b] = Content(buf[b]) /\ Held[b] # Freed
  BY HeldLive
<1>3. IInv' /\ Held' = [Held EXCEPT ![b] = Content(r)]
  BY <1>1, UpdateOne
<1>4. Held = [x \in Buffers |-> Held[x]]
  BY DEF Held
<1>5. Held' = IF call'.ret = -1 THEN Held
              ELSE [Held EXCEPT ![b] = Held[b] \o call'.data]
  BY <1>1, <1>3, <1>4
<1>6. Queues!Put(b)
  BY <1>5 DEF Queues!Put, Queues!Called, Queues!Failed, Held
<1>7. b \in Queues!Live
  BY <1>1 DEF Queues!Live, Held
<1> QED
  BY <1>3, <1>6, <1>7 DEF Queues!Next

\* A call that changes no contents.
LEMMA LookStep ==
    ASSUME IInv, NEW b \in Live, NEW r, Good(r), buf' = [buf EXCEPT ![b] = r],
           call' = Done("look", <<b>>), Content(r) = Content(buf[b])
    PROVE  IInv' /\ Queues!Next
<1>1. b \in Buffers /\ Held[b] = Content(buf[b]) /\ Held[b] # Freed
  BY HeldLive
<1>2. call' \in CallType /\ call'.op = "look" /\ call'.on = <<b>>
  <2>1. <<b>> \in Seq(Buffers) /\ <<>> \in Seq(Bytes) /\ "look" \in Ops
    BY <1>1, EmptySeq, OnSeq DEF Ops
  <2> QED
    BY <1>1, <2>1 DEF Done, Call, CallType
<1>3. IInv' /\ Held' = [Held EXCEPT ![b] = Content(r)]
  BY <1>1, <1>2, UpdateOne
<1>4. Held = [x \in Buffers |-> Held[x]]
  BY DEF Held
<1>5. Held' = Held
  BY <1>1, <1>3, <1>4
<1>6. Queues!Look(b)
  BY <1>2, <1>5 DEF Queues!Look, Queues!Called, Queues!Failed, Held
<1>7. b \in Queues!Live
  BY <1>1 DEF Queues!Live, Held
<1> QED
  BY <1>3, <1>6, <1>7 DEF Queues!Next

\* A call that drains a buffer.
LEMMA DrainHeld ==
    ASSUME IInv, NEW b \in Live, NEW n \in Nat,
           buf' = [buf EXCEPT ![b] = Drain(buf[b], n)], call' \in CallType
    PROVE  /\ IInv'
           /\ Held' = [Held EXCEPT ![b] = SubSeq(Held[b], n + 1, Len(Held[b]))]
<1>1. b \in Buffers /\ Good(buf[b]) /\ Held[b] = Content(buf[b])
  BY HeldLive
<1>2. /\ Good(Drain(buf[b], n))
      /\ Content(Drain(buf[b], n)) =
            SubSeq(Content(buf[b]), n + 1, buf[b].off)
  BY <1>1, DrainGood
<1>3. Len(Content(buf[b])) = buf[b].off
  BY <1>1, ContentSeq
<1>4. IInv' /\ Held' = [Held EXCEPT ![b] = Content(Drain(buf[b], n))]
  BY <1>1, <1>2, UpdateOne
<1> QED
  BY <1>1, <1>2, <1>3, <1>4

\* A call that hands the front of a buffer to its caller.
LEMMA GetStep ==
    ASSUME IInv, NEW b \in Live, NEW n \in Nat,
           buf' = [buf EXCEPT ![b] = Drain(buf[b], n)],
           call' = Call("get", <<b>>, n, Front(buf[b], n), 0)
    PROVE  IInv' /\ Queues!Next
<1> DEFINE s == Held[b]
           k == IF n < Len(s) THEN n ELSE Len(s)
<1>1. /\ b \in Buffers /\ Good(buf[b]) /\ s = Content(buf[b])
      /\ s \in Seq(Bytes) /\ s # Freed
  BY HeldLive
<1>2. Len(s) = buf[b].off /\ Len(s) \in Nat
  BY <1>1, ContentSeq
<1>3. Front(buf[b], n) \in Seq(Bytes) /\ Front(buf[b], n) = SubSeq(s, 1, k)
  <2>1. /\ Front(buf[b], n) \in Seq(Bytes)
        /\ Front(buf[b], n) = SubSeq(s, 1, IF n >= buf[b].off THEN buf[b].off
                                           ELSE n)
    BY <1>1, FrontSeq
  <2>2. (IF n >= buf[b].off THEN buf[b].off ELSE n) = k
    BY <1>2
  <2> QED
    BY <2>1, <2>2
<1>4. /\ call' \in CallType /\ call'.op = "get" /\ call'.on = <<b>>
      /\ call'.n = n /\ call'.data = SubSeq(s, 1, k)
  <2>1. <<b>> \in Seq(Buffers) /\ <<>> \in Seq(Bytes) /\ "get" \in Ops
    BY <1>1, <1>3, EmptySeq, OnSeq DEF Ops
  <2> QED
    BY <1>1, <1>3, <2>1 DEF Call, CallType
<1>5. IInv' /\ Held' = [Held EXCEPT ![b] = SubSeq(s, n + 1, Len(s))]
  BY <1>4, DrainHeld
<1> HIDE DEF s
<1>6. SubSeq(s, n + 1, Len(s)) = SubSeq(s, k + 1, Len(s))
  <2>1. CASE n < Len(s)
    BY <2>1
  <2>2. CASE ~(n < Len(s))
    <3>1. SubSeq(s, n + 1, Len(s)) = <<>> /\ SubSeq(s, Len(s) + 1, Len(s)) = <<>>
      BY <1>1, <1>2, <2>2, SubSeqEmpty
    <3> QED
      BY <2>2, <3>1
  <2> QED
    BY <2>1, <2>2
<1>7. Queues!Get(b)
  <2>1. Held' = [Held EXCEPT ![b] = SubSeq(Held[b], k + 1, Len(Held[b]))]
    BY <1>5, <1>6 DEF s
  <2>2. /\ call'.data = SubSeq(Held[b], 1, k)
        /\ k = IF call'.n < Len(Held[b]) THEN call'.n ELSE Len(Held[b])
    BY <1>4 DEF s
  <2> HIDE DEF k
  <2> QED
    BY <1>4, <2>1, <2>2
       DEF Queues!Get, Queues!Called, Queues!Failed, Queues!Dropped, Held
<1>8. b \in Queues!Live
  BY <1>1 DEF Queues!Live, Held, s
<1> QED
  BY <1>5, <1>7, <1>8 DEF Queues!Next

-----------------------------------------------------------------------------
LEMMA NewStep ==
    ASSUME IInv, NEW b \in Buffers, New(b)
    PROVE  IInv' /\ Queues!Next
<1>1. call' \in CallType /\ call'.op = "new" /\ call'.on = <<b>>
  <2>1. <<b>> \in Seq(Buffers) /\ <<>> \in Seq(Bytes) /\ "new" \in Ops
    BY EmptySeq, OnSeq DEF Ops
  <2> QED
    BY <2>1 DEF New, Done, Call, CallType
<1>2. IInv' /\ Held' = [Held EXCEPT ![b] = <<>>]
  BY <1>1, NewGood, UpdateOne DEF New
<1>3. Held[b] = Freed
  BY DEF New, Live, Held
<1>4. Queues!New(b)
  BY <1>1, <1>2, <1>3 DEF Queues!New, Queues!Called, Queues!Failed, Queues!Live, Held
<1> QED
  BY <1>2, <1>4 DEF Queues!Next

LEMMA FreeStep ==
    ASSUME IInv, NEW b \in Buffers, Free(b)
    PROVE  IInv' /\ Queues!Next
<1>0. call' \in CallType /\ call'.op = "free" /\ call'.on = <<b>>
  <2>1. <<b>> \in Seq(Buffers) /\ <<>> \in Seq(Bytes) /\ "free" \in Ops
    BY EmptySeq, OnSeq DEF Ops
  <2> QED
    BY <2>1 DEF Free, Done, Call, CallType
<1>1. /\ b \in Live /\ buf' = [buf EXCEPT ![b] = Freed]
      /\ buf \in [Buffers -> Buffer \cup {Freed}]
  BY DEF Free, IInv, TypeOK
<1>2. \A c \in Buffers : buf'[c] = IF c = b THEN Freed ELSE buf[c]
  BY <1>1
<1>3. IInv'
  <2>1. TypeOK'
    BY <1>0, <1>1 DEF TypeOK, CallType
  <2>2. ASSUME NEW c \in Live' PROVE Good(buf'[c])
    BY <1>2, <2>2 DEF Live, IInv
  <2> QED
    BY <2>1, <2>2 DEF IInv
<1> DEFINE new == [c \in Buffers |-> IF buf'[c] = Freed THEN Freed
                                     ELSE Content(buf'[c])]
<1>4. Held' = new
  BY DEF Held
<1>5. new = [Held EXCEPT ![b] = Freed]
  <2>1. \A c \in Buffers : new[c] = IF c = b THEN Freed ELSE Held[c]
    BY <1>2 DEF Held
  <2>2. [Held EXCEPT ![b] = Freed] =
            [c \in Buffers |-> IF c = b THEN Freed ELSE Held[c]]
    BY DEF Held
  <2> HIDE DEF Held
  <2> QED
    BY <2>1, <2>2
<1>6. Held[b] # Freed
  BY <1>1, HeldLive
<1>7. Queues!Free(b) /\ b \in Queues!Live
  BY <1>0, <1>4, <1>5, <1>6 DEF Queues!Free, Queues!Called, Queues!Failed, Queues!Live, Held
<1> QED
  BY <1>3, <1>7 DEF Queues!Next

LEMMA SetCbStep ==
    ASSUME IInv, NEW b \in Buffers, SetCb(b)
    PROVE  IInv' /\ Queues!Next
<1>1. PICK told \in {NoCb, buf[b].off} : buf' = [buf EXCEPT ![b].told = told]
  BY DEF SetCb
<1> DEFINE r == [buf[b] EXCEPT !.told = told]
<1>2. /\ b \in Live /\ Good(buf[b]) /\ buf' = [buf EXCEPT ![b] = r]
      /\ call' = Done("look", <<b>>)
  BY <1>1, HeldLive DEF SetCb
<1>3. told \in Nat \cup {NoCb} /\ buf[b] \in Buffer
  BY <1>2, GoodFields DEF Good
<1>4. /\ r \in Buffer /\ r.mem = buf[b].mem /\ r.data = buf[b].data
      /\ r.misalign = buf[b].misalign /\ r.off = buf[b].off /\ r.told = told
  BY <1>3 DEF Buffer
<1> HIDE DEF r
<1>5. Good(r)
  BY <1>2, <1>4 DEF Good, Clean
<1>6. Content(r) = Content(buf[b])
  BY <1>2, <1>4, <1>5, SameContent
<1> QED
  BY <1>2, <1>5, <1>6, LookStep

LEMMA AddStep ==
    ASSUME IInv, NEW b \in Buffers, Add(b)
    PROVE  IInv' /\ Queues!Next
<1>0. PICK d \in Chunks : \E o \in EvAdd(buf[b], d) :
          /\ buf' = [buf EXCEPT ![b] = o.b]
          /\ call' = Call("put", <<b>>, Len(d), d, o.ret)
  BY DEF Add
<1>1. PICK o \in EvAdd(buf[b], d) :
          /\ buf' = [buf EXCEPT ![b] = o.b]
          /\ call' = Call("put", <<b>>, Len(d), d, o.ret)
  BY <1>0
<1>2. b \in Live /\ Good(buf[b]) /\ d \in Seq(Bytes) /\ Len(d) \in Nat
  BY HeldLive, ChunkSeq DEF Add
<1>3. /\ Good(o.b)
      /\ \/ o.ret = 0 /\ Content(o.b) = Content(buf[b]) \o d
         \/ o.ret = -1 /\ Content(o.b) = Content(buf[b])
  BY <1>1, <1>2, EvAddGood
<1>4. /\ call' \in CallType /\ call'.op = "put" /\ call'.on = <<b>>
      /\ call'.data = d /\ (call'.ret = -1 <=> o.ret = -1)
  <2>1. <<b>> \in Seq(Buffers) /\ "put" \in Ops
    BY OnSeq DEF Ops
  <2> QED
    BY <1>1, <1>2, <2>1 DEF Call, CallType
<1>5. \/ call'.ret # -1 /\ Content(o.b) = Content(buf[b]) \o call'.data
      \/ call'.ret = -1 /\ Content(o.b) = Content(buf[b])
  BY <1>3, <1>4
<1> QED
  BY <1>1, <1>2, <1>3, <1>4, <1>5, PutStep

\* The text did not fit at once.
LEMMA ReprintStep ==
    ASSUME IInv, NEW b \in Live, NEW r, Good(r), buf' = [buf EXCEPT ![b] = r],
           call' \in CallType, call'.op = "reprint", call'.on = <<b>>,
           \/ /\ call'.ret # -1
              /\ \E t \in Seq(Bytes) :
                     call'.n = Len(t) /\ Content(r) = Content(buf[b]) \o t
           \/ call'.ret = -1 /\ Content(r) = Content(buf[b])
    PROVE  IInv' /\ Queues!Next
<1> DEFINE s == Held[b]
           u == Content(r)
<1>1. /\ b \in Buffers /\ s = Content(buf[b]) /\ s # Freed
      /\ s \in Seq(Bytes) /\ u \in Seq(Bytes) /\ u # Freed
  BY HeldLive, ContentSeq, FreedAssumption
<1>3. IInv' /\ Held' = [Held EXCEPT ![b] = u]
  BY <1>1, UpdateOne
<1>4. Held'[b] = u /\ \A c \in Buffers \ {b} : Held'[c] = Held[c]
  BY <1>1, <1>3 DEF Held
<1>5. b \in Queues!Live
  BY <1>1 DEF Queues!Live, Held
<1> HIDE DEF s, u
<1>6. CASE call'.ret # -1
  <2>0. PICK t \in Seq(Bytes) : call'.n = Len(t) /\ u = s \o t
    BY <1>1, <1>6 DEF u
  <2>1. /\ Len(u) = Len(s) + Len(t) /\ Len(s) \in Nat /\ Len(t) \in Nat
        /\ \A i \in 1 .. Len(s) : u[i] = s[i]
    BY <1>1, <2>0
  <2>2. Queues!IsPrefix(s, u)
    <3>3. /\ SubSeq(s, 1, Len(s)) \in Seq(Bytes)
          /\ Len(SubSeq(s, 1, Len(s))) = Len(s)
          /\ \A i \in 1 .. Len(s) : SubSeq(s, 1, Len(s))[i] = s[i]
      BY <1>1, <2>1
    <3>4. /\ SubSeq(u, 1, Len(s)) \in Seq(Bytes)
          /\ Len(SubSeq(u, 1, Len(s))) = Len(s)
          /\ \A i \in 1 .. Len(s) : SubSeq(u, 1, Len(s))[i] = u[i]
      BY <1>1, <2>1
    <3>5. \A i \in 1 .. Len(SubSeq(s, 1, Len(s))) :
              SubSeq(s, 1, Len(s))[i] = SubSeq(u, 1, Len(s))[i]
      BY <2>1, <3>3, <3>4
    <3>6. SubSeq(s, 1, Len(s)) = SubSeq(u, 1, Len(s))
      BY <3>3, <3>4, <3>5, SeqEqual
    <3> QED
      BY <2>1, <3>6 DEF Queues!IsPrefix
  <2>3. Queues!Reprint(b)
    BY <1>1, <1>4, <1>6, <2>0, <2>1, <2>2
       DEF Queues!Reprint, Queues!Called, Queues!Failed, Held, s
  <2> QED
    BY <1>3, <1>5, <2>3 DEF Queues!Next
<1>7. CASE call'.ret = -1
  <2>1. Held'[b] = Held[b]
    BY <1>1, <1>4, <1>7 DEF s, u
  <2>2. Queues!Reprint(b)
    BY <1>4, <1>7, <2>1 DEF Queues!Reprint, Queues!Called, Queues!Failed, Held
  <2> QED
    BY <1>3, <1>5, <2>2 DEF Queues!Next
<1> QED
  BY <1>6, <1>7

LEMMA AddPrintfStep ==
    ASSUME IInv, NEW b \in Buffers, AddPrintf(b)
    PROVE  IInv' /\ Queues!Next
<1>0. PICK d \in Chunks : \E o \in EvPrintf(buf[b], d) :
          /\ buf' = [buf EXCEPT ![b] = o.b]
          /\ call' = IF Len(d) < Space(buf[b])
                     THEN Call("put", <<b>>, Len(d), d, 0)
                     ELSE Call("reprint", <<b>>,
                               IF o.ret = -1 THEN 0 ELSE o.ret, <<>>, o.ret)
  BY DEF AddPrintf
<1>1. PICK o \in EvPrintf(buf[b], d) :
          /\ buf' = [buf EXCEPT ![b] = o.b]
          /\ call' = IF Len(d) < Space(buf[b])
                     THEN Call("put", <<b>>, Len(d), d, 0)
                     ELSE Call("reprint", <<b>>,
                               IF o.ret = -1 THEN 0 ELSE o.ret, <<>>, o.ret)
  BY <1>0
<1>2. b \in Live /\ Good(buf[b]) /\ d \in Seq(Bytes) /\ Len(d) \in Nat
  BY HeldLive, ChunkSeq DEF AddPrintf
<1>3. /\ Good(o.b)
      /\ Len(d) < Space(buf[b]) => Content(o.b) = Content(buf[b]) \o d
      /\ \/ /\ o.ret # -1
            /\ \E t \in Seq(Bytes) :
                   o.ret = Len(t) /\ Content(o.b) = Content(buf[b]) \o t
         \/ o.ret = -1 /\ Content(o.b) = Content(buf[b])
  BY <1>1, <1>2, EvPrintfGood
<1>4. <<b>> \in Seq(Buffers) /\ {"put", "reprint"} \subseteq Ops
      /\ <<>> \in Seq(Bytes)
  BY OnSeq, EmptySeq DEF Ops
<1>5. CASE Len(d) < Space(buf[b])
  <2>1. call' = Call("put", <<b>>, Len(d), d, 0)
    BY <1>1, <1>5
  <2>2. /\ call' \in CallType /\ call'.op = "put" /\ call'.on = <<b>>
        /\ call'.data = d /\ call'.ret # -1
    BY <1>2, <1>4, <2>1 DEF Call, CallType
  <2>3. Content(o.b) = Content(buf[b]) \o call'.data
    BY <1>3, <1>5, <2>2
  <2> QED
    BY <1>1, <1>2, <1>3, <2>2, <2>3, PutStep
<1>6. CASE ~(Len(d) < Space(buf[b])) /\ o.ret # -1
  <2>1. PICK t \in Seq(Bytes) :
            o.ret = Len(t) /\ Content(o.b) = Content(buf[b]) \o t
    BY <1>3, <1>6
  <2>2. call' = Call("reprint", <<b>>, Len(t), <<>>, Len(t))
    BY <1>1, <1>6, <2>1
  <2>3. /\ call' \in CallType /\ call'.op = "reprint" /\ call'.on = <<b>>
        /\ call'.n = Len(t) /\ call'.ret # -1
    BY <1>4, <2>1, <2>2 DEF Call, CallType
  <2> QED
    BY <1>1, <1>2, <1>3, <2>1, <2>3, ReprintStep
<1>7. CASE ~(Len(d) < Space(buf[b])) /\ o.ret = -1
  <2>1. call' = Call("reprint", <<b>>, 0, <<>>, -1)
    BY <1>1, <1>7
  <2>2. /\ call' \in CallType /\ call'.op = "reprint" /\ call'.on = <<b>>
        /\ call'.ret = -1
    BY <1>4, <2>1 DEF Call, CallType
  <2>3. Content(o.b) = Content(buf[b])
    BY <1>3, <1>7
  <2> QED
    BY <1>1, <1>2, <1>3, <2>2, <2>3, ReprintStep
<1> QED
  BY <1>5, <1>6, <1>7

\* How much evbuffer_read asks for is never negative.
LEMMA ReadSizeNat ==
    ASSUME NEW b, Good(b), NEW n \in -1 .. MaxLen, NEW howmuch \in Int
    PROVE  ReadSize(b, n, howmuch) \in Nat
<1>1. TotalLen(b) \in Nat /\ 4 * TotalLen(b) \in Nat
  BY GoodFields DEF TotalLen
<1>2. MaxRead \in Nat /\ MaxLen \in Nat /\ n \in Int
  BY BufferAssumption DEF BufferAssumption
<1> DEFINE offered == IF n \in {-1, 0} THEN MaxRead
                      ELSE IF n > MaxRead /\ n > howmuch
                      THEN Greatest(Least(n, 4 * TotalLen(b)), MaxRead)
                      ELSE n
<1>3. offered \in Nat
  BY <1>1, <1>2 DEF Greatest, Least
<1>4. ReadSize(b, n, howmuch) =
          IF howmuch < 0 \/ howmuch > offered THEN offered ELSE howmuch
  BY DEF ReadSize
<1> HIDE DEF offered
<1> QED
  BY <1>3, <1>4

LEMMA ReadStep ==
    ASSUME IInv, NEW b \in Buffers, Read(b)
    PROVE  IInv' /\ Queues!Next
<1>0. b \in Live /\ Good(buf[b])
  BY HeldLive DEF Read
<1>1. PICK size \in ReadSizes(buf[b]), d \in Chunks :
          /\ Len(d) <= size
          /\ \E o \in ReadInto(buf[b], size, d) :
                /\ buf' = [buf EXCEPT ![b] = o.b]
                /\ call' = Call("put", <<b>>, Len(d), d, o.ret)
  BY DEF Read
<1>2. size \in Nat
  <2>1. PICK n \in -1 .. MaxLen, howmuch \in -1 .. MaxChunk :
            size = ReadSize(buf[b], n, howmuch)
    BY DEF ReadSizes
  <2> QED
    BY <1>0, <2>1, ReadSizeNat
<1>3. PICK o \in ReadInto(buf[b], size, d) :
          /\ buf' = [buf EXCEPT ![b] = o.b]
          /\ call' = Call("put", <<b>>, Len(d), d, o.ret)
  BY <1>1
<1>4. d \in Seq(Bytes) /\ Len(d) \in Nat
  BY ChunkSeq
<1>5. /\ Good(o.b)
      /\ \/ o.ret # -1 /\ Content(o.b) = Content(buf[b]) \o d
         \/ o.ret = -1 /\ Content(o.b) = Content(buf[b])
  BY <1>0, <1>1, <1>2, <1>3, <1>4, ReadIntoGood
<1>6. /\ call' \in CallType /\ call'.op = "put" /\ call'.on = <<b>>
      /\ call'.data = d /\ (call'.ret = -1 <=> o.ret = -1)
  <2>1. <<b>> \in Seq(Buffers) /\ "put" \in Ops
    BY OnSeq DEF Ops
  <2> QED
    BY <1>3, <1>4, <2>1 DEF Call, CallType
<1> QED
  BY <1>0, <1>3, <1>5, <1>6, PutStep

LEMMA GetBufferStep ==
    ASSUME IInv, NEW b \in Buffers, GetBuffer(b)
    PROVE  IInv' /\ Queues!Next
<1>1. /\ b \in Live /\ Good(buf[b]) /\ call' = Done("look", <<b>>)
      /\ buf' = [buf EXCEPT ![b] = Terminated(buf[b])]
  BY HeldLive DEF GetBuffer
<1> QED
  BY <1>1, TerminatedGood, LookStep

LEMMA EraseStep ==
    ASSUME IInv, NEW b \in Buffers, Erase(b)
    PROVE  IInv' /\ Queues!Next
<1>1. b \in Live /\ Good(buf[b]) /\ Held[b] # Freed
  BY HeldLive DEF Erase
<1>2. PICK n \in 0 .. buf[b].off + 1 :
          /\ buf' = [buf EXCEPT ![b] = Drain(@, n)]
          /\ call' = Call("erase", <<b>>, n, <<>>, 0)
  BY DEF Erase
<1>3. n \in Nat /\ <<>> \in Seq(Bytes)
  BY EmptySeq
<1>4. /\ call' \in CallType /\ call'.op = "erase" /\ call'.on = <<b>>
      /\ call'.n = n
  <2>1. <<b>> \in Seq(Buffers) /\ <<>> \in Seq(Bytes) /\ "erase" \in Ops
    BY <1>2, <1>3, EmptySeq, OnSeq DEF Ops
  <2> QED
    BY <1>2, <1>3, <2>1 DEF Call, CallType
<1>5. /\ IInv'
      /\ Held' = [Held EXCEPT ![b] = SubSeq(Held[b], n + 1, Len(Held[b]))]
  BY <1>1, <1>2, <1>3, <1>4, DrainHeld
<1>6. Queues!Erase(b) /\ b \in Queues!Live
  BY <1>1, <1>4, <1>5
     DEF Queues!Erase, Queues!Called, Queues!Failed, Queues!Dropped, Queues!Live, Held
<1> QED
  BY <1>5, <1>6 DEF Queues!Next

LEMMA RemoveStep ==
    ASSUME IInv, NEW b \in Buffers, Remove(b)
    PROVE  IInv' /\ Queues!Next
<1>1. b \in Live
  BY DEF Remove
<1>2. PICK n \in 0 .. MaxChunk :
          /\ buf' = [buf EXCEPT ![b] = Drain(@, n)]
          /\ call' = Call("get", <<b>>, n, Front(buf[b], n), 0)
  BY DEF Remove
<1>3. n \in Nat
  OBVIOUS
<1> QED
  BY <1>1, <1>2, <1>3, GetStep

LEMMA WriteStep ==
    ASSUME IInv, NEW b \in Buffers, Write(b)
    PROVE  IInv' /\ Queues!Next
<1>1. b \in Live
  BY DEF Write
<1>2. PICK n \in 1 .. buf[b].off :
          /\ buf' = [buf EXCEPT ![b] = Drain(@, n)]
          /\ call' = Call("get", <<b>>, n, Front(buf[b], n), 0)
  BY DEF Write
<1>3. n \in Nat
  OBVIOUS
<1> QED
  BY <1>1, <1>2, <1>3, GetStep

\* f with two elements changed.
Both(f, b, r, c, q) ==
    [x \in Buffers |-> IF x = c THEN q ELSE IF x = b THEN r ELSE f[x]]

LEMMA ExceptBoth ==
    ASSUME NEW f, f = [x \in Buffers |-> f[x]],
           NEW b \in Buffers, NEW c \in Buffers, NEW r, NEW q
    PROVE  [f EXCEPT ![b] = r, ![c] = q] = Both(f, b, r, c, q)
<1> DEFINE e == [f EXCEPT ![b] = r]
<1>1. e = [x \in Buffers |-> IF x = b THEN r ELSE f[x]]
  OBVIOUS
<1>2. [e EXCEPT ![c] = q] = [x \in Buffers |-> IF x = c THEN q ELSE e[x]]
  <2> HIDE DEF e
  <2> QED
    BY <1>1
<1>3. [e EXCEPT ![c] = q] = Both(f, b, r, c, q)
  <2> HIDE DEF e
  <2> QED
    BY <1>1, <1>2 DEF Both
<1> QED
  BY <1>3

\* Two buffers change.
LEMMA UpdateTwo ==
    ASSUME IInv, NEW b \in Buffers, NEW c \in Buffers,
           NEW r, Good(r), NEW q, Good(q),
           buf' = Both(buf, b, r, c, q), call' \in CallType
    PROVE  IInv' /\ Held' = Both(Held, b, Content(r), c, Content(q))
<1>1. buf \in [Buffers -> Buffer \cup {Freed}]
  BY DEF IInv, TypeOK
<1>2. r \in Buffer /\ r # Freed /\ q \in Buffer /\ q # Freed
  BY FreedAssumption DEF Good
<1>3. TypeOK'
  BY <1>1, <1>2 DEF TypeOK, CallType, Both
<1>4. \A x \in Buffers :
          buf'[x] = IF x = c THEN q ELSE IF x = b THEN r ELSE buf[x]
  BY DEF Both
<1>5. ASSUME NEW x \in Live' PROVE Good(buf'[x])
  BY <1>4, <1>5 DEF Live, IInv
<1>6. IInv'
  BY <1>3, <1>5 DEF IInv
<1>7. Held' = [x \in Buffers |-> IF buf'[x] = Freed THEN Freed
                                ELSE Content(buf'[x])]
  BY DEF Held
<1>8. \A x \in Buffers :
          (IF buf'[x] = Freed THEN Freed ELSE Content(buf'[x])) =
          IF x = c THEN Content(q) ELSE IF x = b THEN Content(r) ELSE Held[x]
  BY <1>2, <1>4 DEF Held
<1>9. Held' = Both(Held, b, Content(r), c, Content(q))
  BY <1>7, <1>8 DEF Both
<1> QED
  BY <1>6, <1>9

LEMMA MoveStep ==
    ASSUME IInv, NEW out \in Buffers, NEW in \in Buffers, Move(out, in)
    PROVE  IInv' /\ Queues!Next
<1>1. /\ out \in Live /\ in \in Live /\ out # in
      /\ Good(buf[out]) /\ Held[out] = Content(buf[out])
      /\ Good(buf[in]) /\ Held[in] = Content(buf[in])
      /\ Held[out] # Freed /\ Held[in] # Freed
  BY HeldLive DEF Move
<1>2. PICK o \in AddBuffer(buf[out], buf[in]) :
          /\ buf' = [buf EXCEPT ![out] = o.out, ![in] = o.in]
          /\ call' = Call("move", <<out, in>>, 0, <<>>, o.ret)
  BY DEF Move
<1>3. /\ Good(o.out) /\ Good(o.in)
      /\ \/ /\ o.ret # -1
            /\ Content(o.out) = Held[out] \o Held[in]
            /\ Content(o.in) = <<>>
         \/ /\ o.ret = -1
            /\ Content(o.out) = Held[out]
            /\ Content(o.in) = Held[in]
  <2>1. /\ Good(o.out) /\ Good(o.in)
        /\ \/ /\ o.ret = 0
              /\ Content(o.out) = Content(buf[out]) \o Content(buf[in])
              /\ Content(o.in) = <<>>
           \/ /\ o.ret = -1
              /\ Content(o.out) = Content(buf[out])
              /\ Content(o.in) = Content(buf[in])
    BY <1>1, <1>2, AddBufferGood
  <2>2. o.ret = 0 => o.ret # -1
    OBVIOUS
  <2> QED
    BY <1>1, <2>1, <2>2
<1>4. /\ call' \in CallType /\ call'.op = "move" /\ call'.on = <<out, in>>
      /\ call'.ret = -1 <=> o.ret = -1
  <2>1. <<out, in>> \in Seq(Buffers) /\ <<>> \in Seq(Bytes) /\ "move" \in Ops
    BY <1>1, <1>2, <1>3, EmptySeq, OnSeq DEF Ops
  <2> QED
    BY <1>1, <1>2, <1>3, <2>1 DEF Call, CallType
<1>5. IInv' /\ Held' = Both(Held, out, Content(o.out), in, Content(o.in))
  <2>1. buf = [x \in Buffers |-> buf[x]]
    BY DEF IInv, TypeOK
  <2>2. buf' = Both(buf, out, o.out, in, o.in)
    BY <1>2, <2>1, ExceptBoth
  <2> QED
    BY <1>3, <1>4, <2>2, UpdateTwo
<1>6. Held = [x \in Buffers |-> Held[x]]
  BY DEF Held
<1>7. Queues!Move(out, in)
  <2>1. CASE o.ret # -1
    <3> DEFINE t == Held[out] \o Held[in]
    <3>0. Content(o.out) = t /\ Content(o.in) = <<>>
      BY <1>3, <2>1
    <3>1. Held' = Both(Held, out, t, in, <<>>)
      BY <1>5, <3>0
    <3> HIDE DEF t
    <3>2. [Held EXCEPT ![out] = t, ![in] = <<>>] = Both(Held, out, t, in, <<>>)
      BY <1>6, ExceptBoth
    <3>3. Held' = [Held EXCEPT ![out] = Held[out] \o Held[in], ![in] = <<>>]
      BY <3>1, <3>2 DEF t
    <3> QED
      BY <1>4, <2>1, <3>3 DEF Queues!Move, Queues!Called, Queues!Failed, Held
  <2>2. CASE o.ret = -1
    <3>1. Held' = Held
      BY <1>3, <1>5, <1>6, <2>2 DEF Both
    <3> QED
      BY <1>4, <2>2, <3>1 DEF Queues!Move, Queues!Called, Queues!Failed, Held
  <2> QED
    BY <1>3, <2>1, <2>2
<1>8. out \in Queues!Live /\ in \in Queues!Live
  BY <1>1 DEF Queues!Live, Held
<1> QED
  BY <1>1, <1>5, <1>7, <1>8 DEF Queues!Next

LEMMA AppendCacheStep ==
    ASSUME IInv, NEW b \in Buffers, NEW c \in Buffers, AppendCache(b, c)
    PROVE  IInv' /\ Queues!Next
<1>1. /\ b \in Live /\ c \in Live /\ b # c
      /\ Good(buf[b]) /\ Held[b] = Content(buf[b]) /\ Held[b] # Freed
      /\ Good(buf[c]) /\ Held[c] = Content(buf[c]) /\ Held[c] # Freed
      /\ Held[c] \in Seq(Bytes)
  BY HeldLive DEF AppendCache
<1>2. PICK o \in EvAdd(buf[b], Content(buf[c])) :
          /\ buf' = [buf EXCEPT ![b] = o.b, ![c] = Terminated(buf[c])]
          /\ call' = Call("copy", <<b, c>>, 0, <<>>, o.ret)
  BY DEF AppendCache
<1>3. /\ Good(o.b)
      /\ \/ o.ret # -1 /\ Content(o.b) = Held[b] \o Held[c]
         \/ o.ret = -1 /\ Content(o.b) = Held[b]
  <2>1. Content(buf[c]) \in Seq(Bytes)
    BY <1>1
  <2>2. /\ Good(o.b)
        /\ \/ o.ret = 0 /\ Content(o.b) = Content(buf[b]) \o Content(buf[c])
           \/ o.ret = -1 /\ Content(o.b) = Content(buf[b])
    BY <1>1, <1>2, <2>1, EvAddGood
  <2>3. o.ret = 0 => o.ret # -1
    OBVIOUS
  <2> QED
    BY <1>1, <2>2, <2>3
<1>4. Good(Terminated(buf[c])) /\ Content(Terminated(buf[c])) = Held[c]
  BY <1>1, TerminatedGood
<1>5. /\ call' \in CallType /\ call'.op = "copy" /\ call'.on = <<b, c>>
      /\ call'.ret = -1 <=> o.ret = -1
  <2>1. <<b, c>> \in Seq(Buffers) /\ <<>> \in Seq(Bytes) /\ "copy" \in Ops
    BY <1>1, <1>2, <1>3, EmptySeq, OnSeq DEF Ops
  <2> QED
    BY <1>1, <1>2, <1>3, <2>1 DEF Call, CallType
<1>6. IInv' /\ Held' = Both(Held, b, Content(o.b), c, Held[c])
  <2>1. buf = [x \in Buffers |-> buf[x]]
    BY DEF IInv, TypeOK
  <2>2. buf' = Both(buf, b, o.b, c, Terminated(buf[c]))
    BY <1>2, <2>1, ExceptBoth
  <2>3. /\ IInv'
        /\ Held' = Both(Held, b, Content(o.b), c, Content(Terminated(buf[c])))
    BY <1>3, <1>4, <1>5, <2>2, UpdateTwo
  <2> QED
    BY <1>4, <2>3
<1>7. Held = [x \in Buffers |-> Held[x]]
  BY DEF Held
<1>8. Held' = [Held EXCEPT ![b] = Content(o.b)]
  BY <1>1, <1>6, <1>7 DEF Both
<1>9. Queues!Copy(b, c)
  <2>1. CASE o.ret # -1
    <3>1. Content(o.b) = Held[b] \o Held[c]
      BY <1>3, <2>1
    <3>2. Held' = [Held EXCEPT ![b] = Held[b] \o Held[c]]
      BY <1>8, <3>1
    <3> QED
      BY <1>5, <2>1, <3>2 DEF Queues!Copy, Queues!Called, Queues!Failed, Held
  <2>2. CASE o.ret = -1
    <3>1. Held' = Held
      BY <1>3, <1>7, <1>8, <2>2
    <3> QED
      BY <1>5, <2>2, <3>1 DEF Queues!Copy, Queues!Called, Queues!Failed, Held
  <2> QED
    BY <1>3, <2>1, <2>2
<1>10. b \in Queues!Live /\ c \in Queues!Live
  BY <1>1 DEF Queues!Live, Held
<1> QED
  BY <1>1, <1>6, <1>9, <1>10 DEF Queues!Next

LEMMA TakeCacheStep ==
    ASSUME IInv, NEW b \in Buffers, NEW c \in Buffers, TakeCache(b, c)
    PROVE  IInv' /\ Queues!Next
<1>1. /\ b \notin Live /\ c \in Live /\ b # c
      /\ buf' = [buf EXCEPT ![b] = buf[c], ![c] = NewBuffer]
      /\ call' \in CallType /\ call'.op = "take" /\ call'.on = <<b, c>>
  <2>1. <<b, c>> \in Seq(Buffers) /\ <<>> \in Seq(Bytes) /\ "take" \in Ops
    BY EmptySeq, OnSeq DEF Ops
  <2> QED
    BY <2>1 DEF TakeCache, Done, Call, CallType
<1>2. /\ Good(buf[c]) /\ Held[c] = Content(buf[c]) /\ Held[c] # Freed
      /\ Held[b] = Freed
  BY <1>1, HeldLive DEF Live, Held
<1>3. IInv' /\ Held' = [Held EXCEPT ![b] = Held[c], ![c] = <<>>]
  <2>1. buf = [x \in Buffers |-> buf[x]] /\ Held = [x \in Buffers |-> Held[x]]
    BY DEF IInv, TypeOK, Held
  <2>2. buf' = Both(buf, b, buf[c], c, NewBuffer)
    BY <1>1, <2>1, ExceptBoth
  <2>3. /\ IInv'
        /\ Held' = Both(Held, b, Content(buf[c]), c, Content(NewBuffer))
    BY <1>1, <1>2, <2>2, NewGood, UpdateTwo
  <2>4. Held' = Both(Held, b, Held[c], c, <<>>)
    BY <1>2, <2>3, NewGood
  <2> QED
    BY <2>1, <2>3, <2>4, ExceptBoth
<1>4. Queues!TakeOver(b, c)
  BY <1>1, <1>2, <1>3 DEF Queues!TakeOver, Queues!Called, Queues!Failed, Queues!Live, Held
<1> QED
  BY <1>3, <1>4 DEF Queues!Next

-----------------------------------------------------------------------------
\* A set of natural numbers that is not empty has a least element.
LEMMA Smallest ==
    ASSUME NEW S \in SUBSET Nat, S # {}
    PROVE  \E x \in S : \A y \in S : x <= y
<1> DEFINE R == OpToRel(<, Nat)
<1>1. IsWellFoundedOn(R, Nat)
  BY NatLessThanWellFounded
<1>2. \A y, x \in Nat : y < x => <<y, x>> \in R
  BY DEF OpToRel
<1> HIDE DEF R
<1>3. PICK x \in S : \A y \in S : ~(<<y, x>> \in R)
  BY <1>1, WFMin
<1>4. ASSUME NEW y \in S PROVE x <= y
  <2>1. ~(y < x)
    BY <1>2, <1>3
  <2> QED
    BY <2>1
<1> QED
  BY <1>4

\* evbuffer_readline's loop stops at the first end of a line.
LEMMA FirstEndIs ==
    ASSUME NEW b, Good(b), LineEnds(b) # {}
    PROVE  /\ FirstEnd(b) \in 1 .. b.off
           /\ Content(b)[FirstEnd(b)] \in {CR, LF}
           /\ \A j \in 1 .. FirstEnd(b) - 1 : Content(b)[j] \notin {CR, LF}
<1>1. LineEnds(b) \in SUBSET Nat /\ b.off \in Nat
  BY GoodFields DEF LineEnds
<1>2. \E i \in LineEnds(b) : \A j \in LineEnds(b) : i <= j
  BY <1>1, Smallest
<1>3. FirstEnd(b) \in LineEnds(b) /\ \A j \in LineEnds(b) : FirstEnd(b) <= j
  BY <1>2 DEF FirstEnd
<1>4. ASSUME NEW j \in 1 .. FirstEnd(b) - 1, Content(b)[j] \in {CR, LF}
      PROVE  FALSE
  <2>1. FirstEnd(b) \in 1 .. b.off
    BY <1>3 DEF LineEnds
  <2>2. j \in 1 .. b.off /\ ~(FirstEnd(b) <= j)
    BY <1>1, <2>1
  <2>3. j \in LineEnds(b)
    BY <1>4, <2>2 DEF LineEnds
  <2> QED
    BY <1>3, <2>2, <2>3
<1> QED
  BY <1>3, <1>4 DEF LineEnds

LEMMA ReadLineStep ==
    ASSUME IInv, NEW b \in Buffers, ReadLine(b)
    PROVE  IInv' /\ Queues!Next
<1> DEFINE r == buf[b]
           s == Content(r)
           i == FirstEnd(r)
           n == LineLen(r)
<1>1. /\ b \in Live /\ LineEnds(r) # {} /\ Good(r)
      /\ Held[b] = s /\ s \in Seq(Bytes) /\ Held[b] # Freed
      /\ buf' = [buf EXCEPT ![b] = Drain(r, n)]
      /\ call' = Call("line", <<b>>, 0, Front(r, i - 1), 0)
  BY HeldLive DEF ReadLine
<1>2. Len(s) = r.off /\ r.off \in Nat
  BY <1>1, ContentSeq, GoodFields
<1>3. /\ i \in 1 .. r.off /\ s[i] \in {CR, LF}
      /\ \A j \in 1 .. i - 1 : s[j] \notin {CR, LF}
  BY <1>1, FirstEndIs
<1>4. n = i - 1 + Queues!Terminator(s, i) /\ n \in Nat
  <2>1. CR # LF
    BY BufferAssumption DEF BufferAssumption
  <2>2. n = IF i < r.off /\ s[i + 1] \in {CR, LF} \ {s[i]} THEN i + 1 ELSE i
    BY DEF LineLen
  <2>3. Queues!Terminator(s, i) =
            IF i < r.off /\ {s[i], s[i + 1]} = {CR, LF} THEN 2 ELSE 1
    BY <1>2 DEF Queues!Terminator
  <2>4. s[i + 1] \in {CR, LF} \ {s[i]} <=> {s[i], s[i + 1]} = {CR, LF}
    BY <1>3, <2>1
  <2>5. i \in Nat
    BY <1>3
  <2> HIDE DEF n, s, i, r
  <2> QED
    BY <2>2, <2>3, <2>4, <2>5
<1>5. Front(r, i - 1) \in Seq(Bytes) /\ Front(r, i - 1) = SubSeq(s, 1, i - 1)
  <2>1. i - 1 \in Nat /\ ~(i - 1 >= r.off)
    BY <1>2, <1>3
  <2>2. /\ Front(r, i - 1) \in Seq(Bytes)
        /\ Front(r, i - 1) = SubSeq(s, 1, IF i - 1 >= r.off THEN r.off
                                          ELSE i - 1)
    BY <1>1, <2>1, FrontSeq
  <2> QED
    BY <2>1, <2>2
<1>6. /\ call' \in CallType /\ call'.op = "line" /\ call'.on = <<b>>
      /\ call'.ret # -1 /\ call'.data = SubSeq(s, 1, i - 1)
  <2>1. <<b>> \in Seq(Buffers) /\ <<>> \in Seq(Bytes) /\ "line" \in Ops
    BY <1>1, <1>5, EmptySeq, OnSeq DEF Ops
  <2> QED
    BY <1>1, <1>5, <2>1 DEF Call, CallType
<1>7. IInv' /\ Held' = [Held EXCEPT ![b] = SubSeq(s, n + 1, Len(s))]
  BY <1>1, <1>4, <1>6, DrainHeld
<1> HIDE DEF n, s, i, r
<1>8. Queues!GetLine(b)
  <2>1. i \in 1 .. Len(Held[b])
    BY <1>1, <1>2, <1>3
  <2>2. Held' = [Held EXCEPT
            ![b] = SubSeq(Held[b], i - 1 + Queues!Terminator(Held[b], i) + 1,
                          Len(Held[b]))]
    BY <1>1, <1>4, <1>7
  <2>3. /\ Queues!FirstEndAt(Held[b], i)
        /\ call'.data = SubSeq(Held[b], 1, i - 1)
    BY <1>1, <1>3, <1>6 DEF Queues!FirstEndAt
  <2> QED
    BY <1>6, <2>1, <2>2, <2>3
       DEF Queues!GetLine, Queues!Called, Queues!Failed, Queues!Dropped, Held
<1>9. b \in Queues!Live
  BY <1>1 DEF Queues!Live, Held
<1> QED
  BY <1>7, <1>8, <1>9 DEF Queues!Next

LEMMA ReadLineFailsStep ==
    ASSUME IInv, NEW b \in Buffers, ReadLineFails(b)
    PROVE  IInv' /\ Queues!Next
<1> DEFINE i == FirstEnd(buf[b])
<1>1. /\ b \in Live /\ LineEnds(buf[b]) # {} /\ Good(buf[b])
      /\ Held[b] = Content(buf[b]) /\ Held[b] # Freed
      /\ buf' = [buf EXCEPT ![b] = Drain(buf[b], i - 1)]
      /\ call' = Call("line", <<b>>, 0, <<>>, -1)
  BY HeldLive DEF ReadLineFails
<1>2. /\ i \in 1 .. Len(Held[b]) /\ i - 1 \in Nat
      /\ Queues!FirstEndAt(Held[b], i)
  <2>1. Len(Held[b]) = buf[b].off
    BY <1>1, ContentSeq
  <2>2. buf[b].off \in Nat
    BY <1>1, GoodFields
  <2> QED
    BY <1>1, <2>1, <2>2, FirstEndIs DEF Queues!FirstEndAt
<1>3. /\ call' \in CallType /\ call'.op = "line" /\ call'.on = <<b>>
      /\ call'.ret = -1
  <2>1. <<b>> \in Seq(Buffers) /\ <<>> \in Seq(Bytes) /\ "line" \in Ops
    BY <1>1, EmptySeq, OnSeq DEF Ops
  <2> QED
    BY <1>1, <2>1 DEF Call, CallType
<1> HIDE DEF i
<1>4. /\ IInv'
      /\ Held' = [Held EXCEPT ![b] = SubSeq(Held[b], i - 1 + 1, Len(Held[b]))]
  BY <1>1, <1>2, <1>3, DrainHeld
<1>5. Queues!LoseLine(b) /\ b \in Queues!Live
  BY <1>1, <1>2, <1>3, <1>4
     DEF Queues!LoseLine, Queues!Called, Queues!Failed, Queues!Dropped, Queues!Live, Held
<1> QED
  BY <1>4, <1>5 DEF Queues!Next

-----------------------------------------------------------------------------
LEMMA InitIInv == Init => IInv /\ Queues!Init
<1> SUFFICES ASSUME Init PROVE IInv /\ Queues!Init
  OBVIOUS
<1>1. call \in CallType
  <2>1. <<>> \in Seq(Buffers) /\ <<>> \in Seq(Bytes) /\ "none" \in Ops
    BY EmptySeq DEF Ops
  <2> QED
    BY <2>1 DEF Init, Call, CallType
<1>2. IInv
  BY <1>1 DEF Init, IInv, TypeOK, CallType, Live
<1>3. Held = [b \in Buffers |-> Freed]
  BY DEF Init, Held
<1> QED
  BY <1>2, <1>3 DEF Init, Call, Queues!Init, Held

LEMMA NextIInv ==
    ASSUME IInv, [Next]_vars
    PROVE  IInv' /\ [Queues!Next]_(Queues!vars)
<1>1. CASE Next
  <2>1. PICK b \in Buffers :
            \/ New(b) \/ Free(b) \/ SetCb(b)
            \/ Add(b) \/ AddPrintf(b) \/ Erase(b) \/ Remove(b)
            \/ ReadLine(b) \/ ReadLineFails(b) \/ Read(b) \/ Write(b)
            \/ GetBuffer(b)
            \/ \E c \in Buffers :
                    Move(b, c) \/ AppendCache(b, c) \/ TakeCache(b, c)
    BY <1>1 DEF Next
  <2>2. IInv' /\ Queues!Next
    BY <2>1, NewStep, FreeStep, SetCbStep, AddStep, AddPrintfStep, EraseStep,
       RemoveStep, ReadLineStep, ReadLineFailsStep, ReadStep, WriteStep,
       GetBufferStep, MoveStep, AppendCacheStep, TakeCacheStep
  <2> QED
    BY <2>2
<1>2. CASE UNCHANGED vars
  <2>1. IInv'
    BY <1>2 DEF IInv, TypeOK, Live, vars
  <2>2. UNCHANGED <<Held, call>>
    BY <1>2 DEF Held, vars
  <2> QED
    BY <2>1, <2>2 DEF Queues!vars, Held
<1> QED
  BY <1>1, <1>2

\* What IInv says of the blocks and the callbacks.
LEMMA IInvImplies == IInv => TypeOK /\ InBlock /\ CallbackKnows
<1> SUFFICES ASSUME IInv PROVE InBlock /\ CallbackKnows
  BY DEF IInv
<1>1. ASSUME NEW b \in Live
      PROVE  /\ buf[b].data = buf[b].misalign
             /\ buf[b].misalign + buf[b].off <= TotalLen(buf[b])
             /\ buf[b].told # NoCb => buf[b].told = buf[b].off
  BY DEF IInv, Good, TotalLen
<1> QED
  BY <1>1 DEF InBlock, CallbackKnows

\* Types are kept; in particular a caller is only ever handed bytes that were
\* put in, and never what the block happened to hold.
THEOREM TypeCorrect == Spec => []TypeOK
<1>1. IInv /\ [Next]_vars => IInv'
  BY NextIInv
<1> QED
  BY <1>1, InitIInv, IInvImplies, PTL DEF Spec

\* The contents of every buffer lie in its block of memory, where misalign
\* says they do, after any sequence of calls.
THEOREM StaysInBlock == Spec => []InBlock
<1>1. IInv /\ [Next]_vars => IInv'
  BY NextIInv
<1> QED
  BY <1>1, InitIInv, IInvImplies, PTL DEF Spec

\* A client that follows a buffer by its callback alone knows its length.
THEOREM CallbackFollows == Spec => []CallbackKnows
<1>1. IInv /\ [Next]_vars => IInv'
  BY NextIInv
<1> QED
  BY <1>1, InitIInv, IInvImplies, PTL DEF Spec

\* The buffers implement queues of bytes.
THEOREM Refinement == Spec => ImplementsQueues
<1>1. Init => IInv /\ Queues!Init
  BY InitIInv
<1>2. IInv /\ [Next]_vars => IInv' /\ [Queues!Next]_(Queues!vars)
  BY NextIInv
<1> QED
  BY <1>1, <1>2, PTL DEF Spec, ImplementsQueues, Queues!Spec
-----------------------------------------------------------------------------
(***************************************************************************)
(* find and evbuffer_find.  Their loops are recursive functions: one that  *)
(* satisfies the equation is written down, so that CHOOSE yields one, and  *)
(* any that does is right at a place when it is at the later ones.         *)
(***************************************************************************)
\* The places of the contents that hold the key, and the first of them from
\* i on.
Places(b, key) ==
    {p \in 0 .. b.off - Len(key) :
        SubSeq(Content(b), p + 1, p + Len(key)) = key}

PlacesFrom(b, key, i) == {p \in Places(b, key) : p >= i}

Lowest(S) == CHOOSE p \in S : \A q \in S : p <= q

FirstFrom(b, key, i) ==
    IF PlacesFrom(b, key, i) = {} THEN NotFound ELSE Lowest(PlacesFrom(b, key, i))

\* One turn of the loops: what is found from i on, when g says what is found
\* from every later place on.
FindTurn(b, key, g, i) ==
    LET remain == b.off - i
        p == Memchr(b, i, key[1], remain - Len(key) + 1)
    IN  IF remain < Len(key) \/ p = NotFound THEN NotFound
        ELSE IF Matches(b, p, key) THEN p
        ELSE g[p + 1]

EvFindTurn(b, key, g, i) ==
    LET remain == b.off - i
        p == Memchr(b, i, key[1], remain)
    IN  IF p = NotFound \/ remain < Len(key) THEN NotFound
        ELSE IF Matches(b, p, key) THEN p
        ELSE g[p + 1]

\* The loops, by one turn of them.
LEMMA FindLoop ==
    ASSUME NEW b, NEW key
    PROVE  LET f == CHOOSE f : f = [i \in 0 .. b.off |-> FindTurn(b, key, f, i)]
               e == CHOOSE e : e = [i \in 0 .. b.off |-> EvFindTurn(b, key, e, i)]
           IN  Find(b, key) = f[0] /\ EvFind(b, key) = e[0]
BY DEF Find, FindTurn, EvFind, EvFindTurn

\* The first of a set of places.
LEMMA FirstIs ==
    ASSUME NEW b, b.off \in Nat, NEW key \in Seq(Bytes), NEW i \in Nat
    PROVE  /\ PlacesFrom(b, key, i) = {} => FirstFrom(b, key, i) = NotFound
           /\ PlacesFrom(b, key, i) # {} =>
                /\ FirstFrom(b, key, i) \in PlacesFrom(b, key, i)
                /\ \A q \in PlacesFrom(b, key, i) : FirstFrom(b, key, i) <= q
<1>1. PlacesFrom(b, key, i) \in SUBSET Nat
  BY DEF PlacesFrom, Places
<1>2. CASE PlacesFrom(b, key, i) # {}
  <2>1. \E p \in PlacesFrom(b, key, i) : \A q \in PlacesFrom(b, key, i) : p <= q
    BY <1>1, <1>2, Smallest
  <2> QED
    BY <1>2, <2>1 DEF FirstFrom, Lowest
<1> QED
  BY <1>2 DEF FirstFrom

\* p is the first of the n places from i on with the byte c, if there is one.
FirstByte(b, i, c, n, p) ==
    \/ /\ p = NotFound
       /\ \A q \in i .. i + n - 1 : b.mem[b.data + q + 1] # c
    \/ /\ p \in i .. i + n - 1 /\ b.mem[b.data + p + 1] = c
       /\ \A q \in i .. p - 1 : b.mem[b.data + q + 1] # c

\* memchr finds the first byte of the key, or there is none.
LEMMA MemchrIs ==
    ASSUME NEW b, NEW i \in Nat, NEW c, NEW n \in Int
    PROVE  FirstByte(b, i, c, n, Memchr(b, i, c, n))
<1> DEFINE p == Memchr(b, i, c, n)
<1> DEFINE hits == {q \in i .. i + n - 1 : b.mem[b.data + q + 1] = c}
<1>1. CASE hits = {}
  BY <1>1 DEF Memchr, FirstByte
<1>2. CASE hits # {}
  <2>1. hits \in SUBSET Nat
    OBVIOUS
  <2>2. \E r \in hits : \A q \in hits : r <= q
    BY <1>2, <2>1, Smallest
  <2>3. p \in hits /\ \A q \in hits : p <= q
    BY <1>2, <2>2 DEF Memchr
  <2>4. p \in i .. i + n - 1
    BY <2>3
  <2>5. ASSUME NEW q \in i .. p - 1 PROVE b.mem[b.data + q + 1] # c
    BY <2>3, <2>4
  <2> QED
    BY <2>3, <2>4, <2>5 DEF FirstByte
<1> QED
  BY <1>1, <1>2

\* A buffer whose contents lie in its block.
Inside(b) == b \in Buffer /\ b.data + b.off <= Len(b.mem)

\* A part of a part.
LEMMA PartOfPart ==
    ASSUME NEW S, NEW s \in Seq(S), NEW d \in Nat, NEW m \in Nat, d + m <= Len(s),
           NEW p \in Nat, NEW n \in Nat, p + n <= m
    PROVE  /\ SubSeq(SubSeq(s, d + 1, d + m), p + 1, p + n)
                = SubSeq(s, d + p + 1, d + p + n)
           /\ n > 0 => SubSeq(s, d + p + 1, d + p + n)[1] = s[d + p + 1]
<1> DEFINE c == SubSeq(s, d + 1, d + m)
           k == d + p
<1>1. c \in Seq(S) /\ Len(c) = m /\ \A i \in 1 .. m : c[i] = s[d + i]
  BY SubSeqIs
<1>2. k \in Nat /\ k + n <= Len(s) /\ \A i : k + i = d + p + i
  OBVIOUS
<1> HIDE DEF c, k
<1>3. /\ SubSeq(s, k + 1, k + n) \in Seq(S) /\ Len(SubSeq(s, k + 1, k + n)) = n
      /\ \A i \in 1 .. n : SubSeq(s, k + 1, k + n)[i] = s[k + i]
  BY <1>2, SubSeqIs
<1>4. /\ SubSeq(c, p + 1, p + n) \in Seq(S) /\ Len(SubSeq(c, p + 1, p + n)) = n
      /\ \A i \in 1 .. n : SubSeq(c, p + 1, p + n)[i] = c[p + i]
  BY <1>1, SubSeqIs
<1>5. \A i \in 1 .. n : p + i \in 1 .. m /\ d + (p + i) = k + i
  BY DEF k
<1>6. \A i \in 1 .. n : SubSeq(c, p + 1, p + n)[i] = SubSeq(s, k + 1, k + n)[i]
  BY <1>1, <1>3, <1>4, <1>5
<1>7. SubSeq(c, p + 1, p + n) = SubSeq(s, k + 1, k + n)
  BY <1>3, <1>4, <1>6, SeqEqual
<1>8. n > 0 => SubSeq(s, k + 1, k + n)[1] = s[k + 1]
  BY <1>3
<1> QED
  BY <1>7, <1>8 DEF c, k

\* Where the key fits into the contents, memcmp and the contents agree.
LEMMA PlaceIs ==
    ASSUME NEW b, Inside(b), NEW key \in Seq(Bytes), key # <<>>,
           NEW p \in Nat, p + Len(key) <= b.off
    PROVE  /\ Matches(b, p, key) <=> p \in Places(b, key)
           /\ p \in Places(b, key) => b.mem[b.data + p + 1] = key[1]
<1>1. /\ b.mem \in Seq(Byte) /\ b.data \in Nat /\ b.off \in Nat
      /\ Len(key) \in Nat \ {0} /\ b.data + b.off <= Len(b.mem)
  BY DEF Inside, Buffer, Byte
<1> DEFINE y == SubSeq(b.mem, b.data + p + 1, b.data + p + Len(key))
<1>2. /\ SubSeq(Content(b), p + 1, p + Len(key)) = y
      /\ y[1] = b.mem[b.data + p + 1]
  <2> DEFINE s == b.mem
             d == b.data
             m == b.off
             n == Len(key)
  <2>1. /\ s \in Seq(Byte) /\ d \in Nat /\ m \in Nat /\ d + m <= Len(s)
        /\ n \in Nat /\ n > 0 /\ p + n <= m
    BY <1>1
  <2> HIDE DEF s, d, m, n
  <2>2. /\ SubSeq(SubSeq(s, d + 1, d + m), p + 1, p + n)
             = SubSeq(s, d + p + 1, d + p + n)
        /\ n > 0 => SubSeq(s, d + p + 1, d + p + n)[1] = s[d + p + 1]
    BY <2>1, PartOfPart
  <2> QED
    BY <2>1, <2>2 DEF s, d, m, n, Content
<1>3. b.data + p + Len(key) <= Len(b.mem)
  BY <1>1
<1>4. Matches(b, p, key) <=> y = key
  BY <1>3 DEF Matches, TotalLen
<1>5. p \in Places(b, key) <=> SubSeq(Content(b), p + 1, p + Len(key)) = key
  BY <1>1 DEF Places
<1> QED
  BY <1>2, <1>4, <1>5

LEMMA PlacesRange ==
    ASSUME NEW b, Inside(b), NEW key \in Seq(Bytes), key # <<>>, NEW i \in Nat,
           NEW q \in PlacesFrom(b, key, i)
    PROVE  /\ q \in Nat /\ q >= i /\ q + Len(key) <= b.off
           /\ q \in Places(b, key) /\ b.mem[b.data + q + 1] = key[1]
<1>1. b.off \in Nat /\ Len(key) \in Nat
  BY DEF Inside, Buffer
<1>2. q \in Nat /\ q >= i /\ q + Len(key) <= b.off /\ q \in Places(b, key)
  BY <1>1 DEF PlacesFrom, Places
<1> QED
  BY <1>2, PlaceIs

\* When the key does not match at the first place where its first byte is,
\* the search goes on behind it.
LEMMA NextPlaces ==
    ASSUME NEW b, Inside(b), NEW key \in Seq(Bytes), key # <<>>,
           NEW i \in Nat, NEW p \in Nat, p >= i,
           \A q \in i .. p - 1 : b.mem[b.data + q + 1] # key[1],
           p \notin Places(b, key)
    PROVE  /\ PlacesFrom(b, key, p + 1) = PlacesFrom(b, key, i)
           /\ FirstFrom(b, key, p + 1) = FirstFrom(b, key, i)
<1>1. ASSUME NEW q \in PlacesFrom(b, key, i) PROVE q >= p + 1
  <2>1. q \in Nat /\ q >= i /\ q \in Places(b, key) /\ b.mem[b.data + q + 1] = key[1]
    BY PlacesRange
  <2> QED
    BY <2>1
<1>2. Places(b, key) \in SUBSET Int
  BY DEF Places
<1>3. PlacesFrom(b, key, p + 1) = PlacesFrom(b, key, i)
  BY <1>1, <1>2 DEF PlacesFrom
<1> QED
  BY <1>3 DEF FirstFrom

\* When it matches there, that is the first place.
LEMMA FirstPlace ==
    ASSUME NEW b, Inside(b), NEW key \in Seq(Bytes), key # <<>>,
           NEW i \in Nat, NEW p \in Nat, p >= i,
           \A q \in i .. p - 1 : b.mem[b.data + q + 1] # key[1],
           p \in Places(b, key)
    PROVE  p = FirstFrom(b, key, i) /\ PlacesFrom(b, key, i) # {}
<1>1. p \in PlacesFrom(b, key, i)
  BY DEF PlacesFrom
<1>2. ASSUME NEW q \in PlacesFrom(b, key, i) PROVE p <= q
  <2>1. q \in Nat /\ q >= i /\ b.mem[b.data + q + 1] = key[1]
    BY PlacesRange
  <2> QED
    BY <2>1
<1>3. b.off \in Nat
  BY DEF Inside, Buffer
<1>4. /\ FirstFrom(b, key, i) \in PlacesFrom(b, key, i)
      /\ \A q \in PlacesFrom(b, key, i) : FirstFrom(b, key, i) <= q
  BY <1>1, <1>3, FirstIs
<1>5. FirstFrom(b, key, i) \in Nat
  BY <1>4, PlacesRange
<1> QED
  BY <1>1, <1>2, <1>4, <1>5

\* Two functions that agree on a place when they agree on all the later ones
\* agree everywhere.
Inherits(n, D, f, g) ==
    /\ n \in Nat /\ D \in SUBSET (0 .. n)
    /\ \A i \in D : (\A j \in D : j > i => f[j] = g[j]) => f[i] = g[i]

Agree(D, f, g) == \A i \in D : f[i] = g[i]

LEMMA Downward ==
    ASSUME NEW n, NEW D, NEW f, NEW g, Inherits(n, D, f, g)
    PROVE  Agree(D, f, g)
<1>0. n \in Nat /\ D \in SUBSET (0 .. n)
  BY DEF Inherits
<1> DEFINE Wrong == {k \in 0 .. n : n - k \in D /\ f[n - k] # g[n - k]}
<1>1. ASSUME NEW i \in D, f[i] # g[i] PROVE FALSE
  <2>1. n - i \in Wrong
    <3> HIDE DEF Wrong
    <3>2. i \in 0 .. n
      BY <1>0
    <3>1. n - i \in 0 .. n /\ n - (n - i) = i
      BY <1>0, <3>2
    <3> USE DEF Wrong
    <3> QED
      BY <1>1, <3>1
  <2>2. Wrong \in SUBSET Nat
    BY <1>0
  <2>3. PICK k \in Wrong : \A l \in Wrong : k <= l
    BY <2>1, <2>2, Smallest
  <2> DEFINE m == n - k
  <2>4. m \in D /\ f[m] # g[m] /\ k \in 0 .. n
    BY <2>3
  <2>5. PICK j \in D : j > m /\ f[j] # g[j]
    BY <1>0, <2>4 DEF Inherits
  <2>6. n - j \in 0 .. n /\ n - (n - j) = j /\ ~(k <= n - j)
    BY <1>0, <2>4, <2>5
  <2>7. n - j \in Wrong
    BY <2>5, <2>6
  <2> QED
    BY <2>3, <2>6, <2>7
<1> QED
  BY <1>1 DEF Agree

\* BufferCache::find's loop, one turn.
LEMMA FindStep ==
    ASSUME NEW b, Inside(b), NEW key \in Seq(Bytes), key # <<>>,
           NEW i \in 0 .. b.off, NEW g,
           \A j \in 0 .. b.off : j > i => g[j] = FirstFrom(b, key, j)
    PROVE  FindTurn(b, key, g, i) = FirstFrom(b, key, i)
<1> DEFINE n == b.off - i - Len(key) + 1
           p == Memchr(b, i, key[1], n)
<1>1. b.off \in Nat /\ Len(key) \in Nat \ {0} /\ i \in Nat /\ n \in Int
  BY DEF Inside, Buffer
<1>2. ASSUME NEW q \in PlacesFrom(b, key, i)
      PROVE  q \in i .. i + n - 1 /\ b.mem[b.data + q + 1] = key[1]
  <2>1. q \in Nat /\ q >= i /\ q + Len(key) <= b.off /\ b.mem[b.data + q + 1] = key[1]
    BY <1>1, PlacesRange
  <2> QED
    BY <1>1, <2>1
<1>3. \/ /\ p = NotFound
         /\ \A q \in i .. i + n - 1 : b.mem[b.data + q + 1] # key[1]
      \/ /\ p \in i .. i + n - 1 /\ b.mem[b.data + p + 1] = key[1]
         /\ \A q \in i .. p - 1 : b.mem[b.data + q + 1] # key[1]
  <2> HIDE DEF n
  <2>1. FirstByte(b, i, key[1], n, p)
    BY <1>1, MemchrIs
  <2> HIDE DEF p
  <2> QED
    BY <2>1 DEF FirstByte
<1>4. FindTurn(b, key, g, i) =
        IF b.off - i < Len(key) \/ p = NotFound THEN NotFound
        ELSE IF Matches(b, p, key) THEN p ELSE g[p + 1]
  BY DEF FindTurn
<1>5. CASE b.off - i < Len(key) \/ p = NotFound
  <2>1. PlacesFrom(b, key, i) = {}
    <3>1. CASE p = NotFound
      <4>1. ~(p \in i .. i + n - 1)
        BY <1>1, <3>1 DEF NotFound
      <4> HIDE DEF p
      <4> QED
        BY <1>2, <1>3, <4>1
    <3>2. CASE b.off - i < Len(key)
      <4>1. i .. i + n - 1 = {}
        BY <1>1, <3>2
      <4> HIDE DEF n
      <4> QED
        BY <1>2, <4>1
    <3> QED
      BY <1>5, <3>1, <3>2
  <2> QED
    BY <1>4, <1>5, <2>1 DEF FirstFrom
<1>6. CASE ~(b.off - i < Len(key)) /\ p # NotFound
  <2>1. /\ p \in i .. i + n - 1 /\ b.mem[b.data + p + 1] = key[1]
        /\ \A q \in i .. p - 1 : b.mem[b.data + q + 1] # key[1]
    BY <1>3, <1>6
  <2>2. p \in Nat /\ p >= i /\ p + Len(key) <= b.off /\ p + 1 \in 0 .. b.off /\ p + 1 > i
    <3> HIDE DEF p
    <3>1. p \in i .. i + n - 1
      BY <2>1
    <3>2. p \in Int /\ i <= p /\ p <= b.off - Len(key)
      BY <1>1, <3>1
    <3> QED
      BY <1>1, <3>2
  <2>3. Matches(b, p, key) <=> p \in Places(b, key)
    <3> HIDE DEF p
    <3> QED
      BY <2>2, PlaceIs
  <2>4. CASE Matches(b, p, key)
    <3> HIDE DEF p
    <3>1. p \in Places(b, key)
      BY <2>3, <2>4
    <3>2. \A q \in i .. p - 1 : b.mem[b.data + q + 1] # key[1]
      BY <2>1
    <3>3. i \in Nat /\ p \in Nat /\ p >= i
      BY <1>1, <2>2
    <3>4. p = FirstFrom(b, key, i)
      BY <3>1, <3>2, <3>3, FirstPlace, Zenon
    <3> QED
      BY <1>4, <1>6, <2>4, <3>4
  <2>5. CASE ~Matches(b, p, key)
    <3> HIDE DEF p
    <3>1. p \notin Places(b, key)
      BY <2>3, <2>5
    <3>2. \A q \in i .. p - 1 : b.mem[b.data + q + 1] # key[1]
      BY <2>1
    <3>3. i \in Nat /\ p \in Nat /\ p >= i
      BY <1>1, <2>2
    <3>4. FirstFrom(b, key, p + 1) = FirstFrom(b, key, i)
      BY <3>1, <3>2, <3>3, NextPlaces, Zenon
    <3> QED
      BY <1>4, <1>6, <2>2, <2>5, <3>4
  <2> QED
    BY <2>4, <2>5
<1> QED
  BY <1>5, <1>6

\* evbuffer_find's loop, one turn, while a place is still ahead: its memchr
\* stops there at the latest, so memcmp stays within the contents.
LEMMA EvFindStep ==
    ASSUME NEW b, Inside(b), NEW key \in Seq(Bytes), key # <<>>,
           NEW i \in 0 .. b.off, PlacesFrom(b, key, i) # {}, NEW g,
           \A j \in 0 .. b.off : j > i /\ PlacesFrom(b, key, j) # {}
                                  => g[j] = FirstFrom(b, key, j)
    PROVE  EvFindTurn(b, key, g, i) = FirstFrom(b, key, i)
<1> DEFINE n == b.off - i
           p == Memchr(b, i, key[1], n)
<1>1. b.off \in Nat /\ Len(key) \in Nat \ {0} /\ i \in Nat /\ n \in Int
  BY DEF Inside, Buffer
<1>2. PICK q \in PlacesFrom(b, key, i) : TRUE
  OBVIOUS
<1>3. q \in Nat /\ q >= i /\ q + Len(key) <= b.off /\ b.mem[b.data + q + 1] = key[1]
  BY <1>1, PlacesRange
<1>4. \/ /\ p = NotFound
         /\ \A r \in i .. i + n - 1 : b.mem[b.data + r + 1] # key[1]
      \/ /\ p \in i .. i + n - 1 /\ b.mem[b.data + p + 1] = key[1]
         /\ \A r \in i .. p - 1 : b.mem[b.data + r + 1] # key[1]
  <2> HIDE DEF n
  <2>1. FirstByte(b, i, key[1], n, p)
    BY <1>1, MemchrIs
  <2> HIDE DEF p
  <2> QED
    BY <2>1 DEF FirstByte
<1>5. EvFindTurn(b, key, g, i) =
        IF p = NotFound \/ b.off - i < Len(key) THEN NotFound
        ELSE IF Matches(b, p, key) THEN p ELSE g[p + 1]
  BY DEF EvFindTurn
<1>6. q \in i .. i + n - 1 /\ ~(b.off - i < Len(key))
  BY <1>1, <1>3
<1> HIDE DEF p
<1>7. /\ p \in i .. i + n - 1 /\ b.mem[b.data + p + 1] = key[1]
      /\ \A r \in i .. p - 1 : b.mem[b.data + r + 1] # key[1]
  BY <1>3, <1>4, <1>6
<1>8. p \in Nat /\ p >= i /\ p <= q
  <2>1. p \in Nat /\ p >= i
    BY <1>1, <1>7
  <2>2. ~(q \in i .. p - 1)
    BY <1>3, <1>7
  <2> QED
    BY <1>3, <2>1, <2>2
<1>9. p + Len(key) <= b.off /\ p + 1 \in 0 .. b.off /\ p + 1 > i /\ p # NotFound
  BY <1>1, <1>3, <1>8 DEF NotFound
<1>10. Matches(b, p, key) <=> p \in Places(b, key)
  BY <1>8, <1>9, PlaceIs
<1>11. i \in Nat /\ \A r \in i .. p - 1 : b.mem[b.data + r + 1] # key[1]
  BY <1>1, <1>7
<1>12. CASE Matches(b, p, key)
  <2>1. p \in Places(b, key)
    BY <1>10, <1>12
  <2>2. p = FirstFrom(b, key, i)
    BY <1>8, <1>11, <2>1, FirstPlace, Zenon
  <2> QED
    BY <1>5, <1>6, <1>9, <1>12, <2>2
<1>13. CASE ~Matches(b, p, key)
  <2>1. p \notin Places(b, key)
    BY <1>10, <1>13
  <2>2. /\ FirstFrom(b, key, p + 1) = FirstFrom(b, key, i)
        /\ PlacesFrom(b, key, p + 1) = PlacesFrom(b, key, i)
    BY <1>8, <1>11, <2>1, NextPlaces, Zenon
  <2> QED
    BY <1>5, <1>6, <1>9, <1>13, <2>2
<1> QED
  BY <1>12, <1>13

\* What BufferCache::find's loop finds.
LEMMA FindIs ==
    ASSUME NEW b, Inside(b), NEW key \in Seq(Bytes), key # <<>>
    PROVE  Find(b, key) = FirstFrom(b, key, 0)
<1> DEFINE N == 0 .. b.off
           w == [i \in N |-> FirstFrom(b, key, i)]
           f == CHOOSE g : g = [i \in N |-> FindTurn(b, key, g, i)]
<1>1. b.off \in Nat /\ 0 \in N
  BY DEF Inside, Buffer
<1>2. Find(b, key) = f[0]
  BY FindLoop
<1>3. ASSUME NEW i \in N PROVE FindTurn(b, key, w, i) = FirstFrom(b, key, i)
  <2>1. \A j \in 0 .. b.off : j > i => w[j] = FirstFrom(b, key, j)
    OBVIOUS
  <2> HIDE DEF w
  <2> QED
    BY <2>1, FindStep
<1>4. w = [i \in N |-> FindTurn(b, key, w, i)]
  BY <1>3
<1>5. f = [i \in N |-> FindTurn(b, key, f, i)]
  <2> HIDE DEF w, N
  <2>1. \E g : g = [i \in N |-> FindTurn(b, key, g, i)]
    BY <1>4
  <2> QED
    BY <2>1, Zenon
<1> HIDE DEF f
<1>6. Inherits(b.off, N, f, w)
  <2> SUFFICES ASSUME NEW i \in N, \A j \in N : j > i => f[j] = w[j]
               PROVE  f[i] = w[i]
    BY <1>1 DEF Inherits
  <2>1. \A j \in 0 .. b.off : j > i => f[j] = FirstFrom(b, key, j)
    OBVIOUS
  <2>2. FindTurn(b, key, f, i) = FirstFrom(b, key, i)
    BY <2>1, FindStep
  <2> QED
    BY <1>5, <2>2
<1>7. Agree(N, f, w)
  <2> HIDE DEF N, w
  <2> QED
    BY <1>6, Downward
<1> QED
  BY <1>1, <1>2, <1>7 DEF Agree

\* What evbuffer_find's loop finds: the first match that lies in the block,
\* if every step on the way to it still had room for the key.
EvPlaces(b, key, i) ==
    {p \in i .. b.off - 1 : b.mem[b.data + p + 1] = key[1] /\ Matches(b, p, key)}

Reached(b, key, i, m) ==
    /\ i + Len(key) <= b.off
    /\ \A h \in i .. m - 1 :
          b.mem[b.data + h + 1] = key[1] => h + 1 + Len(key) <= b.off

EvFirst(b, key, i) ==
    IF EvPlaces(b, key, i) # {} /\ Reached(b, key, i, Lowest(EvPlaces(b, key, i)))
    THEN Lowest(EvPlaces(b, key, i)) ELSE NotFound

\* EvFirst satisfies the loop's equation, so that it has a solution.
LEMMA EvFindSolved ==
    ASSUME NEW b, Inside(b), NEW key \in Seq(Bytes), key # <<>>,
           NEW i \in 0 .. b.off, NEW g,
           \A j \in 0 .. b.off : g[j] = EvFirst(b, key, j)
    PROVE  EvFindTurn(b, key, g, i) = EvFirst(b, key, i)
<1> DEFINE n == b.off - i
           p == Memchr(b, i, key[1], n)
<1>1. b.off \in Nat /\ Len(key) \in Nat \ {0} /\ i \in Nat /\ n \in Int
  BY DEF Inside, Buffer
<1>2. FirstByte(b, i, key[1], n, p)
  <2> HIDE DEF n
  <2> QED
    BY <1>1, MemchrIs
<1>3. EvFindTurn(b, key, g, i) =
        IF p = NotFound \/ b.off - i < Len(key) THEN NotFound
        ELSE IF Matches(b, p, key) THEN p ELSE g[p + 1]
  BY DEF EvFindTurn
<1> HIDE DEF p
<1>4. CASE p = NotFound
  <2>1. \A q \in i .. b.off - 1 : b.mem[b.data + q + 1] # key[1]
    BY <1>1, <1>2, <1>4 DEF FirstByte, NotFound
  <2>2. EvPlaces(b, key, i) = {}
    BY <2>1 DEF EvPlaces
  <2> QED
    BY <1>3, <1>4, <2>2 DEF EvFirst
<1>5. CASE b.off - i < Len(key)
  <2>1. ~(i + Len(key) <= b.off)
    BY <1>1, <1>5
  <2> QED
    BY <1>3, <1>5, <2>1 DEF EvFirst, Reached
<1>6. CASE p # NotFound /\ ~(b.off - i < Len(key))
  <2>1. /\ p \in i .. b.off - 1 /\ b.mem[b.data + p + 1] = key[1]
        /\ \A q \in i .. p - 1 : b.mem[b.data + q + 1] # key[1]
    BY <1>1, <1>2, <1>6 DEF FirstByte
  <2>2. /\ p \in Nat /\ i <= p /\ p + 1 \in 0 .. b.off
        /\ i + Len(key) <= b.off
    BY <1>1, <1>6, <2>1
  <2>3. ASSUME NEW q \in EvPlaces(b, key, i) PROVE q \in Nat /\ p <= q
    BY <1>1, <2>1, <2>2 DEF EvPlaces
  <2>4. CASE Matches(b, p, key)
    <3>1. p \in EvPlaces(b, key, i)
      BY <2>1, <2>4 DEF EvPlaces
    <3>2. Lowest(EvPlaces(b, key, i)) = p
      <4>1. /\ Lowest(EvPlaces(b, key, i)) \in EvPlaces(b, key, i)
            /\ Lowest(EvPlaces(b, key, i)) <= p
        BY <2>3, <3>1 DEF Lowest
      <4> QED
        BY <2>2, <2>3, <4>1
    <3>3. Reached(b, key, i, p)
      BY <2>1, <2>2 DEF Reached
    <3> QED
      BY <1>3, <1>6, <2>4, <3>1, <3>2, <3>3 DEF EvFirst
  <2>5. CASE ~Matches(b, p, key)
    <3>1. EvPlaces(b, key, i) = EvPlaces(b, key, p + 1)
      <4>1. ASSUME NEW q \in EvPlaces(b, key, i) PROVE q \in p + 1 .. b.off - 1
        BY <1>1, <2>2, <2>3, <2>5 DEF EvPlaces
      <4>2. p + 1 .. b.off - 1 \subseteq i .. b.off - 1
        BY <1>1, <2>2
      <4> QED
        BY <4>1, <4>2 DEF EvPlaces
    <3>2. ASSUME NEW m \in Nat, p < m
          PROVE  Reached(b, key, i, m) <=> Reached(b, key, p + 1, m)
      <4>1. i .. m - 1 = (i .. p - 1) \union {p} \union (p + 1 .. m - 1)
        BY <1>1, <2>2, <3>2
      <4>2. /\ i + Len(key) <= b.off
            /\ b.mem[b.data + p + 1] = key[1]
            /\ \A q \in i .. p - 1 : b.mem[b.data + q + 1] # key[1]
        BY <2>1, <2>2
      <4> QED
        BY <4>1, <4>2 DEF Reached
    <3>3. ASSUME EvPlaces(b, key, i) # {}
          PROVE  /\ Lowest(EvPlaces(b, key, i)) \in Nat
                 /\ p < Lowest(EvPlaces(b, key, i))
      <4>1. EvPlaces(b, key, i) \in SUBSET Nat
        BY <2>3
      <4>2. \E r \in EvPlaces(b, key, i) : \A q \in EvPlaces(b, key, i) : r <= q
        BY <3>3, <4>1, Smallest
      <4>3. Lowest(EvPlaces(b, key, i)) \in EvPlaces(b, key, i)
        BY <4>2 DEF Lowest
      <4>4. Matches(b, Lowest(EvPlaces(b, key, i)), key)
        BY <4>3 DEF EvPlaces
      <4>5. p # Lowest(EvPlaces(b, key, i))
        BY <2>5, <4>4
      <4> QED
        BY <2>2, <2>3, <4>3, <4>5
    <3>4. EvFirst(b, key, i) = EvFirst(b, key, p + 1)
      BY <3>1, <3>2, <3>3 DEF EvFirst
    <3> QED
      BY <1>3, <1>6, <2>2, <2>5, <3>4
  <2> QED
    BY <2>4, <2>5
<1> QED
  BY <1>4, <1>5, <1>6

\* What evbuffer_find's loop finds when the contents hold the key.
LEMMA EvFindIs ==
    ASSUME NEW b, Inside(b), NEW key \in Seq(Bytes), key # <<>>,
           PlacesFrom(b, key, 0) # {}
    PROVE  EvFind(b, key) = FirstFrom(b, key, 0)
<1> DEFINE N == 0 .. b.off
           D == {i \in N : PlacesFrom(b, key, i) # {}}
           v == [i \in N |-> EvFirst(b, key, i)]
           w == [i \in N |-> FirstFrom(b, key, i)]
           e == CHOOSE g : g = [i \in N |-> EvFindTurn(b, key, g, i)]
<1>1. b.off \in Nat /\ 0 \in D
  BY DEF Inside, Buffer
<1>2. EvFind(b, key) = e[0]
  BY FindLoop
<1>3. ASSUME NEW i \in N PROVE EvFindTurn(b, key, v, i) = EvFirst(b, key, i)
  <2>1. \A j \in 0 .. b.off : v[j] = EvFirst(b, key, j)
    OBVIOUS
  <2> HIDE DEF v
  <2> QED
    BY <2>1, EvFindSolved
<1>4. v = [i \in N |-> EvFindTurn(b, key, v, i)]
  BY <1>3
<1>5. e = [i \in N |-> EvFindTurn(b, key, e, i)]
  <2> HIDE DEF v, N
  <2>1. \E g : g = [i \in N |-> EvFindTurn(b, key, g, i)]
    BY <1>4
  <2> QED
    BY <2>1, Zenon
<1> HIDE DEF e
<1>6. Inherits(b.off, D, e, w)
  <2> SUFFICES ASSUME NEW i \in D, \A j \in D : j > i => e[j] = w[j]
               PROVE  e[i] = w[i]
    BY <1>1 DEF Inherits
  <2>1. \A j \in 0 .. b.off : j > i /\ PlacesFrom(b, key, j) # {}
                               => e[j] = FirstFrom(b, key, j)
    OBVIOUS
  <2>2. EvFindTurn(b, key, e, i) = FirstFrom(b, key, i)
    BY <2>1, EvFindStep
  <2> QED
    BY <1>5, <2>2
<1>7. Agree(D, e, w)
  <2> HIDE DEF D, w
  <2> QED
    BY <1>6, Downward
<1> QED
  BY <1>1, <1>2, <1>7 DEF Agree

\* FindExact holds of every buffer whose contents lie in its block.
LEMMA FindsOfIInv == IInv => FindExact
<1> SUFFICES ASSUME IInv, NEW x \in Live, NEW key \in Chunks, key # <<>>
             PROVE  LET b == buf[x]
                        places == {p \in 0 .. b.off - Len(key) :
                            SubSeq(Content(b), p + 1, p + Len(key)) = key}
                    IN  IF places = {} THEN Find(b, key) = NotFound
                        ELSE /\ Find(b, key) = EvFind(b, key)
                             /\ Find(b, key) \in places
                             /\ \A p \in places : Find(b, key) <= p
  BY DEF FindExact
<1> DEFINE b == buf[x]
<1>1. Good(b) /\ key \in Seq(Bytes)
  BY ChunkSeq DEF IInv
<1> HIDE DEF b
<1>2. Inside(b) /\ b.off \in Nat
  BY <1>1, GoodFields DEF Inside, Good
<1>3. Places(b, key) = PlacesFrom(b, key, 0)
  BY DEF Places, PlacesFrom
<1>4. Find(b, key) = FirstFrom(b, key, 0)
  BY <1>1, <1>2, FindIs
<1>5. Places(b, key) # {} => EvFind(b, key) = FirstFrom(b, key, 0)
  BY <1>1, <1>2, <1>3, EvFindIs
<1>6. /\ Places(b, key) = {} => Find(b, key) = NotFound
      /\ Places(b, key) # {} =>
           /\ Find(b, key) \in Places(b, key)
           /\ \A p \in Places(b, key) : Find(b, key) <= p
  BY <1>1, <1>2, <1>3, <1>4, FirstIs
<1> QED
  BY <1>4, <1>5, <1>6 DEF b, Places

\* find returns the first place of the key in the contents, or NULL when there
\* is none, whatever earlier contents left behind them in the block; and
\* evbuffer_find finds the same place where there is one (buffer.c:424-439,
\* BufferCache.cpp:91-114).
THEOREM FindCorrect == Spec => []FindExact
<1>1. IInv /\ [Next]_vars => IInv'
  BY NextIInv
<1> QED
  BY <1>1, InitIInv, FindsOfIInv, PTL DEF Spec
=============================================================================
