------------------------------ MODULE EvBuffer ------------------------------
(***************************************************************************)
(* libevent's buffer of bytes (net/buffer.c) and the class BufferCache     *)
(* that wraps it.                                                          *)
(*                                                                         *)
(* A buffer is a block of memory whose first misalign bytes have been      *)
(* drained and whose next off bytes are its contents; what lies behind is  *)
(* whatever earlier contents left there.  The operations are operators on  *)
(* that record.  One that may run out of memory yields the set of its      *)
(* outcomes, each with the value the function returns.                     *)
(*                                                                         *)
(* A definition whose name ends in Mutant is the definition after it with  *)
(* a plausible mistake in it.                                              *)
(***************************************************************************)
EXTENDS Integers, Sequences, FiniteSets

CONSTANTS
    Buffers,        \* the buffers of the program
    Bytes,          \* the bytes that are put in, CR and LF among them
    CR, LF,
    Junk,           \* a byte no operation has been given: NUL, or not set
    Freed,          \* in the place of a buffer that is freed
    MinLen,         \* 256, the least memory a buffer asks for
    MaxRead,        \* EVBUFFER_MAX_READ
    MaxLen,         \* bound: the memory the buffers can get together
    MaxChunk        \* bound: the bytes added or asked for in one call

ASSUME BufferAssumption ==
    /\ MinLen \in Nat \ {0} /\ MaxRead \in Nat \ {0}
    /\ MaxLen \in Nat /\ MaxChunk \in Nat
    /\ CR \in Bytes /\ LF \in Bytes /\ CR # LF /\ Junk \notin Bytes

VARIABLES
    buf,        \* the buffers
    call        \* the last call, as its caller sees it: the bytes it gave
                \* or got, and whether it succeeded

vars == <<buf, call>>

Chunks == UNION {[1 .. n -> Bytes] : n \in 0 .. MaxChunk}

(***************************************************************************)
(* struct evbuffer.  data is the pointer buffer as an offset into          *)
(* orig_buffer, which is NULL when mem is empty; totallen is Len(mem).     *)
(* told stands for cb and its client: the length the client knows from the *)
(* calls it got, NoCb when there is no callback.                           *)
(***************************************************************************)
NoCb == -1

Buffer == [mem : Seq(Bytes \cup {Junk}), data : Nat, misalign : Nat,
           off : Nat, told : Nat \cup {NoCb}]

ASSUME FreedAssumption == Freed \notin Buffer \cup Seq(Bytes)

NewBuffer == [mem |-> <<>>, data |-> 0, misalign |-> 0, off |-> 0,
              told |-> NoCb]

TotalLen(b) == Len(b.mem)

Content(b) == SubSeq(b.mem, b.data + 1, b.data + b.off)

\* cb(buf, oldoff, newoff, cbarg).
Notify(b, oldoff, newoff) ==
    IF b.told = NoCb THEN b ELSE [b EXCEPT !.told = @ + (newoff - oldoff)]

\* memcpy of d to the place at bytes into the memory.
Store(mem, at, d) ==
    [i \in 1 .. Len(mem) |->
        IF at < i /\ i <= at + Len(d) THEN d[i - at] ELSE mem[i]]

(***************************************************************************)
(* evbuffer_align, evbuffer_expand.                                        *)
(***************************************************************************)
AlignMutant(b) ==
    [b EXCEPT !.mem = Store(b.mem, 0, Content(b)), !.data = 0]

Align(b) ==
    [b EXCEPT !.mem = Store(b.mem, 0, Content(b)), !.data = 0, !.misalign = 0]

\* The lengths the doubling loop can end with: the first one that is enough.
Doubled(length, need) ==
    {l \in length .. MaxLen :
        /\ l >= need
        /\ l = length \/ l < 2 * need
        /\ \E k \in 0 .. MaxLen : l = length * 2 ^ k}

Realloc(b, length) ==
    [b EXCEPT !.mem = [i \in 1 .. length |->
        IF i <= Len(b.mem) THEN b.mem[i] ELSE Junk]]

Outcome(r, b) == [ret |-> r, b |-> b]

Expand(b, datlen) ==
    LET need    == b.misalign + b.off + datlen
        aligned == IF b.data # 0 THEN Align(b) ELSE b
        length  == IF TotalLen(b) < MinLen THEN MinLen ELSE TotalLen(b)
    IN  IF TotalLen(b) >= need THEN {Outcome(0, b)}
        ELSE IF b.misalign >= datlen THEN {Outcome(0, Align(b))}
        ELSE {Outcome(0, Realloc(aligned, l)) : l \in Doubled(length, need)}
             \cup {Outcome(-1, aligned)}

(***************************************************************************)
(* evbuffer_drain.                                                         *)
(***************************************************************************)
DrainMutant(b, len) ==
    LET drained == [b EXCEPT !.off = @ - len, !.data = @ + len,
                             !.misalign = @ + len]
    IN  IF drained.off # b.off THEN Notify(drained, b.off, drained.off)
        ELSE drained

Drain(b, len) ==
    LET drained == IF len >= b.off
                   THEN [b EXCEPT !.off = 0, !.data = 0, !.misalign = 0]
                   ELSE [b EXCEPT !.off = @ - len, !.data = @ + len,
                                  !.misalign = @ + len]
    IN  IF drained.off # b.off THEN Notify(drained, b.off, drained.off)
        ELSE drained

(***************************************************************************)
(* evbuffer_add.                                                           *)
(***************************************************************************)
Added(b, d) ==
    LET b1 == [b EXCEPT !.mem = Store(@, b.data + b.off, d),
                        !.off = @ + Len(d)]
    IN  IF Len(d) # 0 THEN Notify(b1, b.off, b1.off) ELSE b1

EvAdd(b, d) ==
    {IF e.ret = -1 THEN e ELSE Outcome(0, Added(e.b, d)) :
        e \in Expand(b, Len(d))}

(***************************************************************************)
(* evbuffer_add_vprintf: vsnprintf writes what fits and a NUL, and says    *)
(* how long the text is; when it did not fit the buffer is expanded and    *)
(* vsnprintf is called again with the va_list it has used up: what it then *)
(* reads is not defined, and text it writes can be any.  A second text     *)
(* that does not fit either only repeats the round.                        *)
(***************************************************************************)
Space(b) == TotalLen(b) - b.misalign - b.off

VsnprintfInto(b, text) ==
    LET fit == IF Len(text) < Space(b) THEN Len(text) ELSE Space(b) - 1
    IN  IF Space(b) = 0 THEN b
        ELSE [b EXCEPT !.mem = Store(@, b.data + b.off,
                                     Append(SubSeq(text, 1, fit), Junk))]

Printed(b, text) ==
    LET b1 == [VsnprintfInto(b, text) EXCEPT !.off = @ + Len(text)]
    IN  Notify(b1, b.off, b1.off)

EvPrintf(b, text) ==
    IF Len(text) < Space(b) THEN {Outcome(Len(text), Printed(b, text))}
    ELSE LET grown == Expand(VsnprintfInto(b, text), Len(text) + 1)
         IN  {e \in grown : e.ret = -1} \cup
             UNION {{Outcome(Len(again), Printed(e.b, again)) :
                         again \in {t \in Chunks : Len(t) < Space(e.b)}} :
                    e \in {g \in grown : g.ret # -1}}

(***************************************************************************)
(* evbuffer_add_buffer for two different buffers: SWAP exchanges what they *)
(* hold, but not their callbacks.                                          *)
(***************************************************************************)
Swapped(b, c) == [c EXCEPT !.told = b.told]

\* The input is drained although its bytes could not be added.
AddBufferLoses(out, in) ==
    IF out.off = 0
    THEN {[ret |-> 0, in |-> Notify(Swapped(in, out), in.off, out.off),
           out |-> Notify(Swapped(out, in), 0, in.off)]}
    ELSE {[ret |-> o.ret, out |-> o.b, in |-> Drain(in, in.off)] :
             o \in EvAdd(out, Content(in))}

AddBufferMutant(out, in) ==
    IF out.off = 0
    THEN {[ret |-> 0, in |-> Swapped(in, out),
           out |-> Notify(Swapped(out, in), 0, in.off)]}
    ELSE {[ret |-> o.ret, out |-> o.b,
           in  |-> IF o.ret = 0 THEN Drain(in, in.off) ELSE in] :
             o \in EvAdd(out, Content(in))}

AddBuffer(out, in) ==
    IF out.off = 0
    THEN {[ret |-> 0, in |-> Notify(Swapped(in, out), in.off, out.off),
           out |-> Notify(Swapped(out, in), 0, in.off)]}
    ELSE {[ret |-> o.ret, out |-> o.b,
           in  |-> IF o.ret = 0 THEN Drain(in, in.off) ELSE in] :
             o \in EvAdd(out, Content(in))}

(***************************************************************************)
(* evbuffer_remove: what the caller gets is the first len bytes, or all.   *)
(***************************************************************************)
Front(b, len) == SubSeq(Content(b), 1, IF len >= b.off THEN b.off ELSE len)

(***************************************************************************)
(* evbuffer_readline.                                                      *)
(***************************************************************************)
LineEnds(b) == {i \in 1 .. b.off : Content(b)[i] \in {CR, LF}}

FirstEnd(b) == CHOOSE i \in LineEnds(b) : \A j \in LineEnds(b) : i <= j

\* CR LF and LF CR are drained whole.
LineLen(b) ==
    LET i == FirstEnd(b)
    IN  IF i < b.off /\ Content(b)[i + 1] \in {CR, LF} \ {Content(b)[i]}
        THEN i + 1 ELSE i

(***************************************************************************)
(* evbuffer_read: how much is asked of read, when FIONREAD says n (-1: the *)
(* ioctl failed) and the caller asked for howmuch.                         *)
(***************************************************************************)
Greatest(x, y) == IF x >= y THEN x ELSE y
Least(x, y)    == IF x <= y THEN x ELSE y

ReadSize(b, n, howmuch) ==
    LET offered == IF n \in {-1, 0} THEN MaxRead
                   ELSE IF n > MaxRead /\ n > howmuch
                   THEN Greatest(Least(n, 4 * TotalLen(b)), MaxRead)
                   ELSE n
    IN  IF howmuch < 0 \/ howmuch > offered THEN offered ELSE howmuch

\* read failed, was at the end (nothing), or gave the bytes d.
ReadInto(b, size, d) ==
    {IF e.ret = -1 THEN e ELSE Outcome(Len(d), Added(e.b, d)) :
        e \in Expand(b, size)}

(***************************************************************************)
(* evbuffer_find and BufferCache::find, which is evbuffer_find with the    *)
(* bound of memchr put right: where the key is found in the block, counted *)
(* from data, and NotFound for NULL.                                       *)
(***************************************************************************)
NotFound == -1

\* memcmp(p, what, len) at p bytes behind data, as far as the block goes.
Matches(b, p, key) ==
    /\ b.data + p + Len(key) <= TotalLen(b)
    /\ SubSeq(b.mem, b.data + p + 1, b.data + p + Len(key)) = key

\* memchr over n bytes from search on.
Memchr(b, search, c, n) ==
    LET hits == {p \in search .. search + n - 1 : b.mem[b.data + p + 1] = c}
    IN  IF hits = {} THEN NotFound
        ELSE CHOOSE p \in hits : \A q \in hits : p <= q

EvFind(b, key) ==
    LET find[search \in 0 .. b.off] ==
            LET remain == b.off - search
                p      == Memchr(b, search, key[1], remain)
            IN  IF p = NotFound \/ remain < Len(key) THEN NotFound
                ELSE IF Matches(b, p, key) THEN p
                ELSE find[p + 1]
    IN  find[0]

Find(b, key) ==
    LET find[search \in 0 .. b.off] ==
            LET remain == b.off - search
                p == Memchr(b, search, key[1], remain - Len(key) + 1)
            IN  IF remain < Len(key) \/ p = NotFound THEN NotFound
                ELSE IF Matches(b, p, key) THEN p
                ELSE find[p + 1]
    IN  find[0]

-----------------------------------------------------------------------------
Call(op, on, n, data, ret) ==
    [op |-> op, on |-> on, n |-> n, data |-> data,
     ret |-> IF ret = -1 THEN -1 ELSE 0]

Done(op, on) == Call(op, on, 0, <<>>, 0)

Init ==
    /\ buf = [b \in Buffers |-> Freed]
    /\ call = Call("none", <<>>, 0, <<>>, 0)

Live == {b \in Buffers : buf[b] # Freed}

\* The memory there is.  A step to a state that has more is not taken: Expand
\* always has the outcome that realloc fails, too.
MemoryBound ==
    LET size(b) == IF b \in Live THEN TotalLen(buf[b]) ELSE 0
    IN  \A b \in Buffers : \A c \in Buffers \ {b} :
            size(b) + size(c) <= MaxLen

\* evbuffer_new, BufferCache's constructor.
New(b) ==
    /\ b \notin Live
    /\ buf' = [buf EXCEPT ![b] = NewBuffer]
    /\ call' = Done("new", <<b>>)

\* evbuffer_free, BufferCache's destructor.
Free(b) ==
    /\ b \in Live
    /\ buf' = [buf EXCEPT ![b] = Freed]
    /\ call' = Done("free", <<b>>)

\* evbuffer_setcb: the client knows the length at that moment, or leaves.
SetCb(b) ==
    /\ b \in Live
    /\ \E told \in {NoCb, buf[b].off} :
            buf' = [buf EXCEPT ![b].told = told]
    /\ call' = Done("look", <<b>>)

\* evbuffer_add, BufferCache::append.
Add(b) ==
    /\ b \in Live
    /\ \E d \in Chunks : \E o \in EvAdd(buf[b], d) :
        /\ buf' = [buf EXCEPT ![b] = o.b]
        /\ call' = Call("put", <<b>>, Len(d), d, o.ret)
    /\ MemoryBound'

AddPrintf(b) ==
    /\ b \in Live
    /\ \E d \in Chunks : \E o \in EvPrintf(buf[b], d) :
        /\ buf' = [buf EXCEPT ![b] = o.b]
        /\ call' = IF Len(d) < Space(buf[b])
                   THEN Call("put", <<b>>, Len(d), d, 0)
                   ELSE Call("reprint", <<b>>, IF o.ret = -1 THEN 0 ELSE o.ret,
                             <<>>, o.ret)
    /\ MemoryBound'

\* evbuffer_add_buffer.
Move(out, in) ==
    /\ {out, in} \subseteq Live /\ out # in
    /\ \E o \in AddBuffer(buf[out], buf[in]) :
        /\ buf' = [buf EXCEPT ![out] = o.out, ![in] = o.in]
        /\ call' = Call("move", <<out, in>>, 0, <<>>, o.ret)
    /\ MemoryBound'

\* evbuffer_drain, BufferCache::erase and reset.
Erase(b) ==
    /\ b \in Live
    /\ \E n \in 0 .. buf[b].off + 1 :
        /\ buf' = [buf EXCEPT ![b] = Drain(@, n)]
        /\ call' = Call("erase", <<b>>, n, <<>>, 0)

\* evbuffer_remove; BufferCache::take(buffer, len) asks for len - 1 bytes.
Remove(b) ==
    /\ b \in Live
    /\ \E n \in 0 .. MaxChunk :
        /\ buf' = [buf EXCEPT ![b] = Drain(@, n)]
        /\ call' = Call("get", <<b>>, n, Front(buf[b], n), 0)

\* evbuffer_readline, BufferCache::getLine.
ReadLine(b) ==
    /\ b \in Live /\ LineEnds(buf[b]) # {}
    /\ buf' = [buf EXCEPT ![b] = Drain(@, LineLen(@))]
    /\ call' = Call("line", <<b>>, 0, Front(buf[b], FirstEnd(buf[b]) - 1), 0)

\* malloc of the line fails: the line is drained, its end stays.
ReadLineFails(b) ==
    /\ b \in Live /\ LineEnds(buf[b]) # {}
    /\ buf' = [buf EXCEPT ![b] = Drain(@, FirstEnd(@) - 1)]
    /\ call' = Call("line", <<b>>, 0, <<>>, -1)

\* evbuffer_read from a descriptor that has n bytes for the reader, or does
\* not say.
ReadSizes(b) ==
    {ReadSize(b, n, howmuch) : n \in -1 .. MaxLen, howmuch \in -1 .. MaxChunk}

Read(b) ==
    /\ b \in Live
    /\ \E size \in ReadSizes(buf[b]), d \in Chunks :
        /\ Len(d) <= size
        /\ \E o \in ReadInto(buf[b], size, d) :
            /\ buf' = [buf EXCEPT ![b] = o.b]
            /\ call' = Call("put", <<b>>, Len(d), d, o.ret)
    /\ MemoryBound'

\* evbuffer_write: the descriptor takes the first n bytes, none, or fails.
Write(b) ==
    /\ b \in Live
    /\ \E n \in 1 .. buf[b].off :
        /\ buf' = [buf EXCEPT ![b] = Drain(@, n)]
        /\ call' = Call("get", <<b>>, n, Front(buf[b], n), 0)

\* BufferCache::getBuffer ends the contents with a NUL; in a block that is
\* full it is stored behind the block.
Terminated(b) ==
    [b EXCEPT !.mem = Store(@, b.data + b.off, <<Junk>>)]

GetBuffer(b) ==
    /\ b \in Live
    /\ buf' = [buf EXCEPT ![b] = Terminated(@)]
    /\ call' = Done("look", <<b>>)

\* BufferCache::append(const BufferCache *) copies what getBuffer shows.
AppendCache(b, c) ==
    /\ {b, c} \subseteq Live /\ b # c /\ buf[c].off > 0
    /\ \E o \in EvAdd(buf[b], Content(buf[c])) :
        /\ buf' = [buf EXCEPT ![b] = o.b, ![c] = Terminated(@)]
        /\ call' = Call("copy", <<b, c>>, 0, <<>>, o.ret)
    /\ MemoryBound'

\* BufferCache::take: a new BufferCache gets the evbuffer, callback and all,
\* and this one gets the new one's.
TakeCache(b, c) ==
    /\ b \notin Live /\ c \in Live
    /\ buf' = [buf EXCEPT ![b] = buf[c], ![c] = NewBuffer]
    /\ call' = Done("take", <<b, c>>)

Next ==
    \E b \in Buffers :
        \/ New(b) \/ Free(b) \/ SetCb(b)
        \/ Add(b) \/ AddPrintf(b) \/ Erase(b) \/ Remove(b)
        \/ ReadLine(b) \/ ReadLineFails(b) \/ Read(b) \/ Write(b)
        \/ GetBuffer(b)
        \/ \E c \in Buffers :
                Move(b, c) \/ AppendCache(b, c) \/ TakeCache(b, c)

Spec == Init /\ [][Next]_vars

-----------------------------------------------------------------------------
Ops == {"none", "new", "free", "look", "put", "reprint", "erase", "get",
        "line", "move", "copy", "take"}

\* Types of the buffers and of the calls.
TypeOK ==
    /\ buf \in [Buffers -> Buffer \cup {Freed}]
    /\ call \in [op : Ops, on : Seq(Buffers), n : Nat, data : Seq(Bytes),
                 ret : {0, -1}]

\* Whatever calls of drain, align, expand and swap came before, misalign says
\* where the contents begin and the contents lie in the block of memory:
\* no call of buffer.c copies from or to memory it has not asked for.
InBlock ==
    \A b \in Live :
        /\ buf[b].data = buf[b].misalign
        /\ buf[b].misalign + buf[b].off <= TotalLen(buf[b])

\* A client that follows a buffer by its callback alone (evbuffer_setcb)
\* always knows how long it is, after the shortcuts of evbuffer_add_buffer
\* and evbuffer_drain too.
CallbackKnows ==
    \A b \in Live : buf[b].told # NoCb => buf[b].told = buf[b].off

\* BufferCache::find finds the first place where the contents hold the key,
\* and never sees what earlier contents left behind them in the block;
\* evbuffer_find finds that place too when there is one.
FindExact ==
    \A b \in Live : \A key \in Chunks \ {<<>>} :
        LET places == {p \in 0 .. buf[b].off - Len(key) :
                SubSeq(Content(buf[b]), p + 1, p + Len(key)) = key}
        IN  IF places = {} THEN Find(buf[b], key) = NotFound
            ELSE /\ Find(buf[b], key) = EvFind(buf[b], key)
                 /\ Find(buf[b], key) \in places
                 /\ \A p \in places : Find(buf[b], key) <= p

\* The buffers are queues of bytes: a call that succeeds puts in exactly the
\* bytes it was given, hands out exactly the front, and moves all of a buffer
\* once; one that fails for want of memory changes no contents (a line that
\* cannot be allocated is drained, its end stays).  Growing, aligning and
\* swapping lose, double or reorder nothing.  What evbuffer_add_printf puts
\* in when its text did not fit at once is as long as it returns, no more.
Queues == INSTANCE AbstractBuffer WITH
    content <- [b \in Buffers |->
        IF buf[b] = Freed THEN Freed ELSE Content(buf[b])]

ImplementsQueues == Queues!Spec
=============================================================================
