----------------------------- MODULE NamedPipe -----------------------------
(***************************************************************************)
(* A POSIX named pipe, as the generated servers and their clients use one. *)
(* The platform never implements a pipe: the kernel does, and every        *)
(* operator here is modelled from the open, read, write and close calls    *)
(* the Bash and Python code makes.                                         *)
(*                                                                         *)
(*   buf   the chunks written and not yet read                             *)
(*   wr,rd the processes that hold (or block in opening) a write or a read *)
(*         end                                                             *)
(*   met   the processes whose open has returned: a blocking open returns  *)
(*         once the opposite end has been opened, even if it closes again  *)
(*         before the opener is scheduled                                  *)
(***************************************************************************)
EXTENDS Naturals, Sequences

PipeType(Data, W, R) ==
    [buf : Seq(Data), wr : SUBSET W, rd : SUBSET R, met : SUBSET (W \cup R)]

EmptyPipe == [buf |-> <<>>, wr |-> {}, rd |-> {}, met |-> {}]

OpenForRead(p, r) ==
    [p EXCEPT !.rd  = @ \cup {r},
              !.met = @ \cup p.wr \cup (IF p.wr = {} THEN {} ELSE {r})]

OpenForWrite(p, w) ==
    [p EXCEPT !.wr  = @ \cup {w},
              !.met = @ \cup p.rd \cup (IF p.rd = {} THEN {} ELSE {w})]

CanWrite(p, w, capacity) == w \in p.wr \cap p.met /\ p.rd # {} /\ Len(p.buf) < capacity
\* write(2) with no reader raises SIGPIPE / EPIPE.
IsBroken(p, w) == w \in p.wr \cap p.met /\ p.rd = {}
CanRead(p, r)  == r \in p.rd \cap p.met /\ p.buf # <<>>
AtEOF(p, r)    == r \in p.rd \cap p.met /\ p.buf = <<>> /\ p.wr = {}

Write(p, x) == [p EXCEPT !.buf = Append(@, x)]
Consume(p)  == [p EXCEPT !.buf = Tail(@)]

\* The kernel frees the buffer with the last descriptor.
Close(p, proc) ==
    LET wr == p.wr \ {proc}
        rd == p.rd \ {proc}
    IN  [buf |-> IF wr = {} /\ rd = {} THEN <<>> ELSE p.buf,
         wr |-> wr, rd |-> rd, met |-> p.met \ {proc}]
=============================================================================
