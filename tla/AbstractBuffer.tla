--------------------------- MODULE AbstractBuffer ---------------------------
(***************************************************************************)
(* What net/buffer.c and BufferCache promise their callers: every buffer   *)
(* is a queue of bytes.  Bytes go in at the end, come out at the front in  *)
(* the order they went in, and move from one buffer to another as a whole; *)
(* how the bytes lie in memory cannot be seen.                             *)
(*                                                                         *)
(* call is the interface: the operation, the bytes its caller gave or got  *)
(* and whether it succeeded.  It fixes what becomes of the contents.       *)
(***************************************************************************)
EXTENDS Integers, Sequences, SequencesExt

CONSTANTS
    Buffers,
    Freed,      \* in the place of the contents of a buffer that is freed
    CR, LF      \* the two bytes that end a line

VARIABLES
    content,    \* the bytes each buffer holds, oldest first
    call        \* the last call: op, on which buffers, n bytes asked for,
                \* the data given or handed out, ret -1 if it failed and
                \* 0 otherwise

vars == <<content, call>>

Init ==
    /\ content = [b \in Buffers |-> Freed]
    /\ call = [op |-> "none", on |-> <<>>, n |-> 0, data |-> <<>>, ret |-> 0]

Live == {b \in Buffers : content[b] # Freed}

Called(op, on) == call'.op = op /\ call'.on = on

Failed == call'.ret = -1

Dropped(s, n) == SubSeq(s, n + 1, Len(s))

New(b) ==
    /\ Called("new", <<b>>) /\ b \notin Live
    /\ content' = [content EXCEPT ![b] = <<>>]

Free(b) ==
    /\ Called("free", <<b>>)
    /\ content' = [content EXCEPT ![b] = Freed]

\* setcb, getBuffer.
Look(b) == Called("look", <<b>>) /\ UNCHANGED content

\* All the data goes in or, when there is no memory, none.
Put(b) ==
    /\ Called("put", <<b>>)
    /\ content' = IF Failed THEN content
                  ELSE [content EXCEPT ![b] = @ \o call'.data]

\* A text that is formatted twice: n bytes go in, but not always the text.
Reprint(b) ==
    /\ Called("reprint", <<b>>)
    /\ \A c \in Buffers \ {b} : content'[c] = content[c]
    /\ IF Failed THEN content'[b] = content[b]
       ELSE /\ content'[b] # Freed
            /\ IsPrefix(content[b], content'[b])
            /\ Len(content'[b]) = Len(content[b]) + call'.n

Erase(b) ==
    /\ Called("erase", <<b>>)
    /\ content' = [content EXCEPT ![b] = Dropped(@, call'.n)]

\* The caller asks for n bytes and gets the first n, or all.
Get(b) ==
    LET n == IF call'.n < Len(content[b]) THEN call'.n ELSE Len(content[b])
    IN  /\ Called("get", <<b>>)
        /\ call'.data = SubSeq(content[b], 1, n)
        /\ content' = [content EXCEPT ![b] = Dropped(@, n)]

\* A line ends with one of CR, LF, CR LF and LF CR; the end is not part of
\* what the caller gets.
Terminator(s, i) ==
    IF i < Len(s) /\ {s[i], s[i + 1]} = {CR, LF} THEN 2 ELSE 1

FirstEndAt(s, i) ==
    s[i] \in {CR, LF} /\ \A j \in 1 .. i - 1 : s[j] \notin {CR, LF}

GetLine(b) ==
    /\ Called("line", <<b>>) /\ ~Failed
    /\ \E i \in 1 .. Len(content[b]) :
        /\ FirstEndAt(content[b], i)
        /\ call'.data = SubSeq(content[b], 1, i - 1)
        /\ content' = [content EXCEPT
               ![b] = Dropped(@, i - 1 + Terminator(@, i))]

\* There is no memory for the line: it is gone, its end stays.
LoseLine(b) ==
    /\ Called("line", <<b>>) /\ Failed
    /\ \E i \in 1 .. Len(content[b]) :
        /\ FirstEndAt(content[b], i)
        /\ content' = [content EXCEPT ![b] = Dropped(@, i - 1)]

Move(out, in) ==
    /\ Called("move", <<out, in>>)
    /\ content' = IF Failed THEN content
                  ELSE [content EXCEPT ![out] = @ \o content[in], ![in] = <<>>]

Copy(out, in) ==
    /\ Called("copy", <<out, in>>)
    /\ content' = IF Failed THEN content
                  ELSE [content EXCEPT ![out] = @ \o content[in]]

\* BufferCache::take: a new buffer gets what this one holds.
TakeOver(b, c) ==
    /\ Called("take", <<b, c>>) /\ b \notin Live /\ c \in Live
    /\ content' = [content EXCEPT ![b] = content[c], ![c] = <<>>]

Next ==
    \/ \E b \in Live :
            \/ Put(b) \/ Reprint(b) \/ Erase(b) \/ Get(b)
            \/ GetLine(b) \/ LoseLine(b) \/ Free(b) \/ Look(b)
    \/ \E b \in Buffers : New(b)
    \/ \E b, c \in Live : b # c /\ (Move(b, c) \/ Copy(b, c))
    \/ \E b, c \in Buffers : TakeOver(b, c)

Spec == Init /\ [][Next]_vars
=============================================================================
