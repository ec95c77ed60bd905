------------------------ MODULE SerialEndpoint_proofs ------------------------
(***************************************************************************)
(* Theorems about SerialEndpoint, for any threads, requests, sizes of a    *)
(* result and bounds.                                                      *)
(***************************************************************************)
EXTENDS SerialEndpoint, SequenceTheorems, TLAPS

-----------------------------------------------------------------------------
(* The constants, and what a pipe looks like after a system call.          *)

LEMMA Constants ==
    /\ MaxRequests \in Nat \ {0} /\ MaxStarts \in Nat \ {0} /\ Chunks \in Nat \ {0}
    /\ MaxCuts \in Nat /\ Limit \in Nat \ {0} /\ MaxSends \in Nat
    /\ Watchdog \in Session /\ Default \in Session /\ Watchdog # Default
    /\ NoSession \notin Session /\ Nobody \notin Request /\ Watchdog \in Request
    /\ "writer" \notin Client /\ "drain" \notin Client /\ "writer" # "drain"
    /\ Watchdog \in Client /\ Watchdog \notin Thread /\ Thread \subseteq Client
    /\ \A t \in Thread, k \in 1 .. MaxRequests :
          /\ <<t, k>> \in Session /\ <<t, k>> \in Request
          /\ <<t, k>> \notin {Watchdog, Default, Nobody, NoSession}
BY SerialAssumption, AmbassadorAssumption, WaiterAssumption DEF Session, Request, Client

LEMMA Inodes ==
    /\ \A s \in Session \ {Watchdog} : <<s, 1>> \in Inode
    /\ \A n \in 1 .. MaxStarts : <<Watchdog, n>> \in Inode
    /\ \A i \in Inode : /\ i = <<i[1], i[2]>> /\ i[1] \in Session /\ i[2] \in Nat
                        /\ i[1] # Watchdog => i[2] = 1
                        /\ i[1] = Watchdog => i[2] \in 1 .. MaxStarts
BY Constants DEF Inode

Fifo == PipeType(Chunk, {"writer"}, Client \cup {"drain"})

LEMMA FifoFields ==
    ASSUME NEW p \in Fifo
    PROVE  /\ p.buf \in Seq(Chunk) /\ p.wr \in SUBSET {"writer"} /\ p.rd \in SUBSET (Client \cup {"drain"})
           /\ p.met \in SUBSET (Client \cup {"writer", "drain"})
BY DEF Fifo, PipeType

LEMMA FifoFrom ==
    ASSUME NEW b \in Seq(Chunk), NEW w \in SUBSET {"writer"}, NEW r \in SUBSET (Client \cup {"drain"}),
           NEW m \in SUBSET (Client \cup {"writer", "drain"})
    PROVE  [buf |-> b, wr |-> w, rd |-> r, met |-> m] \in Fifo
BY DEF Fifo, PipeType

LEMMA OpenForReadIs ==
    ASSUME NEW p \in Fifo, NEW r \in Client \cup {"drain"}
    PROVE  /\ OpenForRead(p, r) \in Fifo
           /\ OpenForRead(p, r).buf = p.buf /\ OpenForRead(p, r).wr = p.wr
           /\ OpenForRead(p, r).rd = p.rd \cup {r}
           /\ OpenForRead(p, r).met = p.met \cup p.wr \cup (IF p.wr = {} THEN {} ELSE {r})
<1> DEFINE m == p.met \cup p.wr \cup (IF p.wr = {} THEN {} ELSE {r})
           rd == p.rd \cup {r}
<1>1. OpenForRead(p, r) = [p EXCEPT !.rd = rd, !.met = m]
  BY DEF OpenForRead
<1>2. m \in SUBSET ({"writer"} \cup (Client \cup {"drain"})) /\ rd \in SUBSET (Client \cup {"drain"})
  BY FifoFields
<1> HIDE DEF m, rd
<1>3. [p EXCEPT !.rd = rd, !.met = m] \in Fifo
  BY <1>2 DEF Fifo, PipeType
<1>4. LET q == [p EXCEPT !.rd = rd, !.met = m] IN q.buf = p.buf /\ q.wr = p.wr /\ q.rd = rd /\ q.met = m
  BY DEF Fifo, PipeType
<1> QED BY <1>1, <1>3, <1>4 DEF m, rd

LEMMA OpenForWriteIs ==
    ASSUME NEW p \in Fifo
    PROVE  /\ OpenForWrite(p, "writer") \in Fifo
           /\ OpenForWrite(p, "writer").buf = p.buf /\ OpenForWrite(p, "writer").wr = p.wr \cup {"writer"}
           /\ OpenForWrite(p, "writer").rd = p.rd
           /\ OpenForWrite(p, "writer").met = p.met \cup p.rd \cup (IF p.rd = {} THEN {} ELSE {"writer"})
<1> DEFINE m == p.met \cup p.rd \cup (IF p.rd = {} THEN {} ELSE {"writer"})
           wr == p.wr \cup {"writer"}
<1>1. OpenForWrite(p, "writer") = [p EXCEPT !.wr = wr, !.met = m]
  BY DEF OpenForWrite
<1>2. m \in SUBSET ({"writer"} \cup (Client \cup {"drain"})) /\ wr \in SUBSET {"writer"}
  BY FifoFields
<1> HIDE DEF m, wr
<1>3. [p EXCEPT !.wr = wr, !.met = m] \in Fifo
  BY <1>2 DEF Fifo, PipeType
<1>4. LET q == [p EXCEPT !.wr = wr, !.met = m] IN q.buf = p.buf /\ q.rd = p.rd /\ q.wr = wr /\ q.met = m
  BY DEF Fifo, PipeType
<1> QED BY <1>1, <1>3, <1>4 DEF m, wr

LEMMA WriteIs ==
    ASSUME NEW p \in Fifo, NEW x \in Chunk
    PROVE  /\ Write(p, x) \in Fifo /\ Write(p, x).buf = Append(p.buf, x)
           /\ Write(p, x).wr = p.wr /\ Write(p, x).rd = p.rd /\ Write(p, x).met = p.met
<1> DEFINE b == Append(p.buf, x)
<1>1. b \in Seq(Chunk)
  BY FifoFields, AppendProperties
<1>2. Write(p, x) = [p EXCEPT !.buf = b]
  BY DEF Write
<1> HIDE DEF b
<1>3. [p EXCEPT !.buf = b] \in Fifo
  BY <1>1 DEF Fifo, PipeType
<1>4. LET q == [p EXCEPT !.buf = b] IN q.buf = b /\ q.wr = p.wr /\ q.rd = p.rd /\ q.met = p.met
  BY DEF Fifo, PipeType
<1> QED BY <1>2, <1>3, <1>4 DEF b

LEMMA ConsumeIs ==
    ASSUME NEW p \in Fifo, p.buf # <<>>
    PROVE  /\ Consume(p) \in Fifo /\ Consume(p).buf = Tail(p.buf)
           /\ Consume(p).wr = p.wr /\ Consume(p).rd = p.rd /\ Consume(p).met = p.met
           /\ Head(p.buf) \in Chunk
<1> DEFINE b == Tail(p.buf)
<1>1. b \in Seq(Chunk) /\ Head(p.buf) \in Chunk
  BY FifoFields, HeadTailProperties
<1>2. Consume(p) = [p EXCEPT !.buf = b]
  BY DEF Consume
<1> HIDE DEF b
<1>3. [p EXCEPT !.buf = b] \in Fifo
  BY <1>1 DEF Fifo, PipeType
<1>4. LET q == [p EXCEPT !.buf = b] IN q.buf = b /\ q.wr = p.wr /\ q.rd = p.rd /\ q.met = p.met
  BY DEF Fifo, PipeType
<1> QED BY <1>1, <1>2, <1>3, <1>4 DEF b

LEMMA CloseIs ==
    ASSUME NEW p \in Fifo, NEW c
    PROVE  /\ Close(p, c) \in Fifo /\ Close(p, c).wr = p.wr \ {c} /\ Close(p, c).rd = p.rd \ {c}
           /\ Close(p, c).met = p.met \ {c}
           /\ Close(p, c).buf = IF p.wr \ {c} = {} /\ p.rd \ {c} = {} THEN <<>> ELSE p.buf
<1> DEFINE b == IF p.wr \ {c} = {} /\ p.rd \ {c} = {} THEN <<>> ELSE p.buf
           q == [buf |-> b, wr |-> p.wr \ {c}, rd |-> p.rd \ {c}, met |-> p.met \ {c}]
<1>1. Close(p, c) = q
  BY DEF Close
<1>2. q \in Fifo
  <2>1. b \in Seq(Chunk)
    BY FifoFields
  <2> HIDE DEF b
  <2> QED BY <2>1, FifoFields, FifoFrom
<1> QED BY <1>1, <1>2

(* What the lines cat has read become when a client writes a command.      *)
LEMMA FedIs ==
    ASSUME input \in Seq(Line), NEW of \in Request, NEW s \in Session, NEW whole \in BOOLEAN,
           NEW lines \in Fed(of, s, whole)
    PROVE  /\ lines \in Seq(Line) /\ Len(lines) \in Nat \ {0} /\ lines[Len(lines)].whole = whole
           /\ Len(lines) = IF Gluing THEN Len(input) ELSE Len(input) + 1
           /\ \A i \in 1 .. Len(lines) - 1 : i \in 1 .. Len(input) /\ lines[i] = input[i]
           /\ lines[Len(lines)].session
                 \in {s, Default} \cup (IF Gluing THEN {input[Len(input)].session} ELSE {})
           /\ ~Gluing /\ whole => lines[Len(lines)].of = of /\ lines[Len(lines)].session = s
<1> DEFINE others == IF Gluing THEN SubSeq(input, 1, Len(input) - 1) ELSE input
<1>0. Len(input) \in Nat /\ Gluing \in BOOLEAN /\ (Gluing => Len(input) \in Nat \ {0} /\ input[Len(input)] \in Line)
  BY ElementOfSeq, EmptySeq DEF Gluing
<1>1. PICK new \in Parsed(of, s, whole) : lines = Append(others, new)
  BY DEF Fed
<1>2. /\ others \in Seq(Line) /\ Len(others) = IF Gluing THEN Len(input) - 1 ELSE Len(input)
      /\ \A i \in 1 .. Len(others) : i \in 1 .. Len(input) /\ others[i] = input[i]
  <2>1. CASE Gluing
    <3>1. others = SubSeq(input, 1, Len(input) - 1) /\ Len(input) \in Nat \ {0}
      BY <1>0, <2>1
    <3>2. \A i \in 1 .. Len(input) - 1 : input[i] \in Line
      BY <3>1, ElementOfSeq
    <3> DEFINE n == Len(input) - 1
    <3>3. n \in Nat /\ Len(input) = n + 1
      BY <3>1
    <3> HIDE DEF n
    <3>4. /\ SubSeq(input, 1, n) \in Seq(Line) /\ Len(SubSeq(input, 1, n)) = n
          /\ \A i \in 1 .. n : SubSeq(input, 1, n)[i] = input[i]
      BY <3>1, <3>2, <3>3, SubSeqProperties DEF n
    <3>5. others = SubSeq(input, 1, n)
      BY <3>1 DEF n
    <3> HIDE DEF others
    <3> QED BY <2>1, <3>3, <3>4, <3>5
  <2>2. CASE ~Gluing
    BY <2>2
  <2> QED BY <2>1, <2>2
<1>3. /\ new \in Line /\ new.whole = whole
      /\ new.session \in {s, Default} \cup (IF Gluing THEN {input[Len(input)].session} ELSE {})
      /\ ~Gluing /\ whole => new.of = of /\ new.session = s
  BY <1>0, <1>1, Constants DEF Parsed, Line
<1> HIDE DEF others
<1>4. lines \in Seq(Line) /\ Len(lines) = Len(others) + 1
  BY <1>1, <1>2, <1>3
<1>5. lines[Len(lines)] = new /\ \A i \in 1 .. Len(others) : lines[i] = others[i]
  BY <1>1, <1>2, <1>3
<1> QED BY <1>0, <1>2, <1>3, <1>4, <1>5

-----------------------------------------------------------------------------
(* The base invariant: the types, the names of the threads' sessions, the  *)
(* place of the loop, and that every name and every writer that is in use  *)
(* has its inode.                                                          *)

Own == Thread \X (1 .. MaxRequests)
Given(t) == {<<t, k>> : k \in 1 .. asked[t]}

NamesOf(t) ==
    /\ completed[t] \in {NoSession} \cup Given(t)
    /\ session[t] \in {NoSession} \cup Given(t)
    /\ tpc[t] = "idle" <=> session[t] = NoSession
    /\ tpc[t] # "idle" => completed[t] = NoSession /\ reply[t] = Nobody /\ asked[t] >= 1
    /\ tpc[t] # "reading" => got[t] = <<>>
Names ==
    /\ \A t \in Thread : NamesOf(t)
    /\ \A s \in torn : s \in Own /\ s[2] <= asked[s[1]]

Loop ==
    /\ spc \in {"open", "cat", "closing"} => batch = <<>>
    /\ spc \notin {"cat", "closing"} => input = <<>>
    /\ spc \in {"watch", "drain", "wait", "run"} => batch # <<>>
    /\ spc = "run" => writer[Served].pc = "none"

Asked(lines) == \A i \in 1 .. Len(lines) : lines[i].session = Watchdog => starts > 0

Numbering ==
    /\ \A s \in Session \ {Watchdog} : made[s] \in {0, 1} /\ (linked[s] <=> made[s] = 1)
    /\ made[Watchdog] <= starts
    /\ ~linked[Watchdog] /\ starts > 0 => made[Watchdog] < starts
    /\ linked[Watchdog] => made[Watchdog] > 0
    /\ starts = 0 => wpc = "down"
    /\ wpc \in {"receive", "read"} => linked[Watchdog]

Found == \A t \in Thread : tpc[t] = "reading" => linked[session[t]]
Opened == \A s \in Session : writer[s].pc = "write" => <<s, writer[s].inode>> \in Inode

Base == TypeOK /\ Names /\ Loop /\ Asked(input) /\ Asked(batch) /\ Numbering /\ Found /\ Opened

LEMMA Numbered ==
    ASSUME Base, NEW s \in Session, linked[s]
    PROVE  Current(s) \in Inode /\ made[s] \in Nat /\ Current(s) = <<s, made[s]>>
<1>1. made[s] \in 0 .. MaxStarts /\ starts \in 0 .. MaxStarts
  BY DEF Base, TypeOK, ServerTypeOK, WaiterTypeOK
<1>2. CASE s = Watchdog
  BY <1>1, <1>2, Inodes, Constants DEF Base, Numbering, Current
<1>3. CASE s # Watchdog
  <2>1. made[s] = 1
    BY <1>3 DEF Base, Numbering
  <2> QED BY <1>3, <2>1, Inodes DEF Current
<1> QED BY <1>2, <1>3

LEMMA BaseInit == Init => Base
<1> SUFFICES ASSUME Init PROVE Base
  OBVIOUS
<1>1. EmptyPipe \in Fifo
  BY EmptySeq DEF EmptyPipe, Fifo, PipeType
<1>2. ServerTypeOK
  <2>1. pipe \in [Inode -> Fifo]
    BY <1>1 DEF Init, ServerInit
  <2>2. linked \in [Session -> BOOLEAN] /\ made \in [Session -> 0 .. MaxStarts]
    BY Constants DEF Init, ServerInit
  <2>3. writer \in [Session -> [pc : {"none", "start", "write"}, inode : 0 .. MaxStarts, out : Seq(Chunk)]]
    <3>1. NoWriter \in [pc : {"none", "start", "write"}, inode : 0 .. MaxStarts, out : Seq(Chunk)]
      BY Constants, EmptySeq DEF NoWriter
    <3> QED BY <3>1 DEF Init, ServerInit
  <2>4. spc = "open" /\ opened = {} /\ met = {} /\ leaked = FALSE /\ input = <<>> /\ batch = <<>>
    BY DEF Init, ServerInit
  <2>5. input \in Seq(Line) /\ batch \in Seq(Line)
    BY <2>4, EmptySeq
  <2> QED BY <2>1, <2>2, <2>3, <2>4, <2>5 DEF ServerTypeOK, Fifo
<1>3. ThreadTypeOK
  <2>1. got \in [Thread -> Seq(Chunk)]
    BY EmptySeq DEF Init, ThreadInit
  <2> QED BY <2>1, Constants DEF Init, ThreadInit, ThreadTypeOK
<1>4. WaiterTypeOK
  <2>1. 0 \in 0 .. (Limit + 1) /\ 0 \in 0 .. MaxStarts /\ 0 \in 0 .. MaxSends
    BY Constants
  <2> QED BY <2>1 DEF Init, WaiterInit, WaiterTypeOK
<1>5. Names
  <2>1. torn = {}
    BY DEF Init, ThreadInit
  <2>2. ASSUME NEW t \in Thread PROVE NamesOf(t)
    BY <2>1, Constants DEF Init, ThreadInit, NamesOf
  <2> QED BY <2>1, <2>2 DEF Names
<1>6. Loop /\ Asked(input) /\ Asked(batch)
  BY DEF Init, ServerInit, Loop, Asked
<1>7. Numbering
  <2>1. /\ \A s \in Session : /\ linked[s] <=> s = Default
                              /\ made[s] = IF s = Default THEN 1 ELSE 0
        /\ starts = 0 /\ wpc = "down"
    BY DEF Init, ServerInit, WaiterInit
  <2>2. ~linked[Watchdog] /\ made[Watchdog] = 0
    BY <2>1, Constants
  <2> QED BY <2>1, <2>2 DEF Numbering
<1>8. Found
  BY DEF Init, ThreadInit, Found
<1>9. Opened
  BY DEF Init, ServerInit, Opened, NoWriter
<1> QED BY <1>2, <1>3, <1>4, <1>5, <1>6, <1>7, <1>8, <1>9 DEF Base, TypeOK

LEMMA TypesOf ==
    ASSUME Base
    PROVE  /\ pipe \in [Inode -> Fifo] /\ linked \in [Session -> BOOLEAN] /\ made \in [Session -> 0 .. MaxStarts]
           /\ input \in Seq(Line) /\ batch \in Seq(Line) /\ opened \in SUBSET Client /\ met \in SUBSET opened
           /\ leaked \in BOOLEAN
           /\ writer \in [Session -> [pc : {"none", "start", "write"}, inode : 0 .. MaxStarts, out : Seq(Chunk)]]
           /\ \A s \in Session : writer[s].inode \in Nat /\ writer[s].out \in Seq(Chunk)
           /\ spc \in {"open", "cat", "closing", "next", "watch", "drain", "wait", "run"}
<1>1. ServerTypeOK
  BY DEF Base, TypeOK
<1>2. writer \in [Session -> [pc : {"none", "start", "write"}, inode : 0 .. MaxStarts, out : Seq(Chunk)]]
  BY <1>1 DEF ServerTypeOK
<1>3. \A s \in Session : writer[s].inode \in Nat /\ writer[s].out \in Seq(Chunk)
  BY <1>2, Constants
<1> QED BY <1>1, <1>2, <1>3 DEF ServerTypeOK, Fifo

LEMMA ServedIs ==
    ASSUME Base, batch # <<>>
    PROVE  Served \in Session /\ Served = Head(batch).session /\ Head(batch) \in Line /\ Head(batch) = batch[1]
           /\ Len(batch) \in Nat \ {0} /\ (Served = Watchdog => starts > 0)
           /\ Head(batch).of \in Request \cup {Nobody}
<1>1. Head(batch) \in Line /\ Head(batch) = batch[1] /\ Len(batch) \in Nat \ {0}
  BY TypesOf, HeadTailProperties, EmptySeq
<1> QED BY <1>1 DEF Served, Line, Base, Asked

LEMMA TailLines ==
    ASSUME Base, batch # <<>>
    PROVE  /\ Tail(batch) \in Seq(Line) /\ Len(Tail(batch)) = Len(batch) - 1
           /\ \A i \in 1 .. Len(Tail(batch)) : i + 1 \in 1 .. Len(batch) /\ Tail(batch)[i] = batch[i + 1]
           /\ Asked(Tail(batch))
<1>1. /\ Tail(batch) \in Seq(Line) /\ Len(Tail(batch)) = Len(batch) - 1 /\ Len(batch) \in Nat
      /\ \A i \in 1 .. Len(Tail(batch)) : Tail(batch)[i] = batch[i + 1]
  BY TypesOf, HeadTailProperties, LenProperties
<1>2. \A i \in 1 .. Len(Tail(batch)) : i + 1 \in 1 .. Len(batch)
  BY <1>1
<1> QED BY <1>1, <1>2 DEF Base, Asked

(* What a step leaves alone.                                               *)
LEMMA ThreadsStay ==
    ASSUME Base, UNCHANGED threadVars
    PROVE  ThreadTypeOK' /\ Names'
<1>1. ThreadTypeOK'
  BY DEF Base, TypeOK, ThreadTypeOK, threadVars
<1>2. ASSUME NEW t \in Thread PROVE NamesOf(t)'
  BY DEF Base, Names, NamesOf, threadVars, Given
<1>3. Names'
  BY <1>2 DEF Base, Names, threadVars
<1> QED BY <1>1, <1>3

LEMMA ResultsStay ==
    ASSUME Base, UNCHANGED <<linked, made, starts, wpc>>
    PROVE  Numbering'
BY DEF Base, Numbering

LEMMA ResultsType ==
    ASSUME NEW line, line.of \in Request \cup {Nobody}, NEW out \in Results(line)
    PROVE  /\ out \in Seq(Chunk)
           /\ out # <<>> /\ line.of \in Own =>
                 Len(out) = Chunks /\ \A i \in 1 .. Chunks : out[i] = [of |-> line.of, i |-> i]
<1>0. out = <<>> \/ out = Output(line.of)
  BY DEF Results
<1>1. CASE line.of = Watchdog
  <2>1. [of |-> Watchdog, i |-> 1] \in Chunk /\ Watchdog \notin Own
    BY Constants DEF Chunk, Own
  <2> DEFINE c == [of |-> Watchdog, i |-> 1]
  <2> HIDE DEF c
  <2>2. <<c>> \in Seq(Chunk) /\ <<>> \in Seq(Chunk)
    BY <2>1 DEF c
  <2> QED BY <1>0, <1>1, <2>1, <2>2 DEF Output, c
<1>2. CASE line.of # Watchdog
  <2> DEFINE result == [i \in 1 .. Chunks |-> [of |-> line.of, i |-> i]]
  <2>1. out = <<>> \/ out = result
    BY <1>0, <1>2 DEF Output
  <2>2. \A i \in 1 .. Chunks : [of |-> line.of, i |-> i] \in Chunk
    BY DEF Chunk
  <2>3. result \in Seq(Chunk) /\ Len(result) = Chunks
    BY <2>2, Constants
  <2>4. \A i \in 1 .. Chunks : result[i] = [of |-> line.of, i |-> i]
    OBVIOUS
  <2> HIDE DEF result
  <2> QED BY <2>1, <2>3, <2>4, EmptySeq
<1> QED BY <1>1, <1>2

LEMMA PipeSet ==
    ASSUME Base, NEW i \in Inode, NEW q \in Fifo
    PROVE  [pipe EXCEPT ![i] = q] \in [Inode -> Fifo] /\ pipe[i] \in Fifo
BY TypesOf

LEMMA FifoOf ==
    ASSUME Base, NEW i \in Inode
    PROVE  pipe[i] \in Fifo
BY TypesOf

LEMMA ServerTypes ==
    ASSUME Base, pipe' \in [Inode -> Fifo], UNCHANGED <<opened, met, leaked, linked, made>>,
           input' \in Seq(Line), batch' \in Seq(Line),
           writer' \in [Session -> [pc : {"none", "start", "write"}, inode : 0 .. MaxStarts, out : Seq(Chunk)]],
           spc' \in {"open", "cat", "closing", "next", "watch", "drain", "wait", "run"}
    PROVE  ServerTypeOK'
BY TypesOf DEF ServerTypeOK, Fifo

LEMMA ServerBase == Base /\ Server => Base'
<1> SUFFICES ASSUME Base, Server PROVE Base'
  OBVIOUS
<1>1. UNCHANGED <<threadVars, wpc, counter, heard, starts, sends>>
  BY DEF Server, waiterVars, historyVars
<1>2. ThreadTypeOK' /\ Names'
  BY <1>1, ThreadsStay
<1>3. WaiterTypeOK'
  <2>1. nothingMissing' \in BOOLEAN /\ silent' \in BOOLEAN /\ contested' \in BOOLEAN
    BY DEF Server, Executed, Drained, historyVars, waiterVars, Base, TypeOK, WaiterTypeOK
  <2> QED BY <1>1, <2>1 DEF Base, TypeOK, WaiterTypeOK
<1>4. ASSUME UNCHANGED <<linked, made>> PROVE Numbering' /\ Found'
  <2>1. Numbering'
    BY <1>1, <1>4, ResultsStay
  <2>2. Found'
    BY <1>1, <1>4 DEF Base, Found, threadVars
  <2> QED BY <2>1, <2>2
<1>5. ASSUME UNCHANGED writer PROVE Opened'
  BY <1>5 DEF Base, Opened
<1>6. ASSUME UNCHANGED input PROVE Asked(input)'
  BY <1>1, <1>6 DEF Base, Asked
<1>7. ASSUME UNCHANGED batch PROVE Asked(batch)'
  BY <1>1, <1>7 DEF Base, Asked
<1>8. ASSUME ServerTypeOK', Loop', Asked(input)', Asked(batch)', Numbering', Found', Opened' PROVE Base'
  BY <1>2, <1>3, <1>8 DEF Base, TypeOK
<1>a. CASE CatAtEOF
  <2>1. ServerTypeOK' /\ UNCHANGED <<linked, made, writer, input, batch>>
    BY <1>a, ServerTypes, TypesOf DEF CatAtEOF, resultVars
  <2>2. Loop'
    BY <1>a, <2>1 DEF CatAtEOF, Base, Loop
  <2> QED BY <1>4, <1>5, <1>6, <1>7, <1>8, <2>1, <2>2
<1>b. CASE CatEnds
  <2>0. UNCHANGED <<opened, met, leaked, linked, made, pipe, writer>> /\ spc = "closing" /\ spc' = "next" /\ input' = <<>>
    BY <1>b DEF CatEnds, resultVars
  <2> DEFINE line == [of |-> Nobody, session |-> Default, whole |-> TRUE]
  <2>1. line \in Line /\ line.session # Watchdog
    BY Constants DEF Line
  <2>2. batch' = IF input = <<>> THEN <<line>> ELSE input
    BY <1>b DEF CatEnds
  <2> HIDE DEF line
  <2>3. batch' \in Seq(Line) /\ input' \in Seq(Line)
    BY <2>0, <2>1, <2>2, TypesOf
  <2>4. ServerTypeOK'
    BY <2>0, <2>3, ServerTypes, TypesOf
  <2>5. Loop'
    BY <2>0 DEF Loop
  <2>6. Asked(input)'
    BY <2>0 DEF Asked
  <2>7. Asked(batch)'
    <3>1. CASE input = <<>>
      BY <3>1, <2>1, <2>2 DEF Asked
    <3>2. CASE input # <<>>
      BY <3>2, <2>2, <1>1 DEF Base, Asked
    <3> QED BY <3>1, <3>2
  <2> QED BY <1>4, <1>5, <1>8, <2>0, <2>4, <2>5, <2>6, <2>7
<1>c. CASE NextCat
  <2>0. /\ UNCHANGED <<opened, leaked, input, batch, linked, made, pipe, writer>> /\ met' = opened
        /\ spc' \in {"open", "cat"} /\ batch = <<>> /\ spc = "next"
    BY <1>c DEF NextCat, resultVars
  <2>1. ServerTypeOK'
    BY <2>0, TypesOf DEF ServerTypeOK, Fifo
  <2>2. Loop'
    BY <2>0 DEF Base, Loop
  <2> QED BY <1>4, <1>5, <1>6, <1>7, <1>8, <2>0, <2>1, <2>2
<1>d. CASE NextCommand
  <2>0. /\ UNCHANGED <<opened, met, leaked, input, batch, pipe, writer>> /\ batch # <<>> /\ spc = "next"
        /\ linked' = [linked EXCEPT ![Served] = TRUE]
        /\ made' = [made EXCEPT ![Served] = IF linked[Served] THEN @ ELSE @ + 1]
        /\ spc' \in {"run", "watch"} /\ (spc' = "run" => writer[Served].pc = "none")
    BY <1>d DEF NextCommand, Served
  <2>1. PICK s \in Session : s = Served /\ (s = Watchdog => starts > 0)
    BY <2>0, ServedIs
  <2>2. /\ linked' = [linked EXCEPT ![s] = TRUE]
        /\ made' = [made EXCEPT ![s] = IF linked[s] THEN @ ELSE @ + 1]
    BY <2>0, <2>1
  <2>3. starts \in 0 .. MaxStarts /\ MaxStarts \in Nat \ {0} /\ \A x \in Session : made[x] \in 0 .. MaxStarts
    BY Constants DEF Base, TypeOK, ServerTypeOK, WaiterTypeOK
  <2>4. /\ linked' \in [Session -> BOOLEAN] /\ linked'[s] /\ \A x \in Session \ {s} : linked'[x] = linked[x]
        /\ made'[s] = (IF linked[s] THEN made[s] ELSE made[s] + 1) /\ \A x \in Session \ {s} : made'[x] = made[x]
    BY <2>2, TypesOf
  <2>5. s # Watchdog => made'[s] = 1
    BY <2>3, <2>4 DEF Base, Numbering
  <2>6. s = Watchdog => made'[s] \in 1 .. starts
    BY <2>1, <2>3, <2>4 DEF Base, Numbering
  <2>7. made' \in [Session -> 0 .. MaxStarts]
    <3>1. made'[s] \in 0 .. MaxStarts
      BY <2>3, <2>5, <2>6
    <3>2. made' = [x \in Session |-> made'[x]]
      BY <2>2, TypesOf
    <3> QED BY <3>1, <3>2, <2>3, <2>4
  <2>8. ServerTypeOK'
    BY <2>0, <2>4, <2>7, TypesOf DEF ServerTypeOK, Fifo
  <2>9. Loop'
    BY <2>0 DEF Base, Loop, Served
  <2>10. Numbering'
    <3>1. \A x \in Session \ {Watchdog} : made'[x] \in {0, 1} /\ (linked'[x] <=> made'[x] = 1)
      BY <2>4, <2>5 DEF Base, Numbering
    <3>2. /\ made'[Watchdog] <= starts
          /\ ~linked'[Watchdog] /\ starts > 0 => made'[Watchdog] < starts
          /\ linked'[Watchdog] => made'[Watchdog] > 0
          /\ wpc \in {"receive", "read"} => linked'[Watchdog]
      <4>1. CASE s = Watchdog
        BY <4>1, <2>3, <2>4, <2>6
      <4>2. CASE s # Watchdog
        <5>1. made'[Watchdog] = made[Watchdog] /\ linked'[Watchdog] = linked[Watchdog]
          BY <4>2, <2>4, Constants
        <5> QED BY <5>1 DEF Base, Numbering
      <4> QED BY <4>1, <4>2
    <3> QED BY <1>1, <3>1, <3>2 DEF Base, Numbering
  <2>11. Found'
    <3>1. \A t \in Thread : tpc[t] = "reading" => session[t] \in Session
      BY Constants DEF Base, TypeOK, ThreadTypeOK, Names, NamesOf
    <3>2. \A x \in Session : linked[x] => linked'[x]
      BY <2>4
    <3> QED BY <1>1, <3>1, <3>2 DEF Base, Found, threadVars
  <2> QED BY <1>5, <1>6, <1>7, <1>8, <2>0, <2>8, <2>9, <2>10, <2>11
<1>e. CASE DrainOpens
  <2>0. /\ UNCHANGED <<opened, met, leaked, input, batch, linked, made, writer>> /\ spc = "watch" /\ spc' \in {"drain", "wait"}
        /\ linked[Served] => pipe' = [pipe EXCEPT ![Current(Served)] = OpenForRead(@, "drain")]
        /\ ~linked[Served] => UNCHANGED pipe
    BY <1>e DEF DrainOpens
  <2>1. batch # <<>>
    BY <2>0 DEF Base, Loop
  <2>2. PICK s \in Session : s = Served
    BY <2>1, ServedIs
  <2>3. pipe' \in [Inode -> Fifo]
    <3>1. CASE linked[s]
      BY <3>1, <2>0, <2>2, Numbered, FifoOf, OpenForReadIs, PipeSet
    <3> QED BY <3>1, <2>0, <2>2, TypesOf
  <2>4. ServerTypeOK'
    BY <2>0, <2>3, ServerTypes, TypesOf
  <2>5. Loop'
    BY <2>0, <2>1 DEF Base, Loop
  <2> QED BY <1>4, <1>5, <1>6, <1>7, <1>8, <2>0, <2>4, <2>5
<1>f. CASE WatchdogWaits
  <2>0. /\ UNCHANGED <<opened, met, leaked, input, batch, linked, made, pipe, writer>> /\ spc = "wait" /\ spc' = "run"
        /\ writer[Served].pc = "none"
    BY <1>f DEF WatchdogWaits, resultVars
  <2>1. ServerTypeOK'
    BY <2>0, ServerTypes, TypesOf
  <2>2. Loop'
    BY <2>0 DEF Base, Loop, Served
  <2> QED BY <1>4, <1>5, <1>6, <1>7, <1>8, <2>0, <2>1, <2>2
<1>g. CASE \E i \in Inode : DrainAtEOF(i) \/ DrainExpires(i)
  <2>1. PICK i \in Inode : Draining(i) /\ DrainEnds(i)
    BY <1>g DEF DrainAtEOF, DrainExpires
  <2>0. /\ UNCHANGED <<opened, met, leaked, input, batch, linked, made, writer>> /\ spc = "drain" /\ spc' = "wait"
        /\ pipe' = [pipe EXCEPT ![i] = Close(@, "drain")]
    BY <2>1 DEF Draining, DrainEnds
  <2>2. pipe' \in [Inode -> Fifo]
    BY <2>0, FifoOf, CloseIs, PipeSet
  <2>4. ServerTypeOK'
    BY <2>0, <2>2, ServerTypes, TypesOf
  <2>5. Loop'
    BY <2>0 DEF Base, Loop
  <2> QED BY <1>4, <1>5, <1>6, <1>7, <1>8, <2>0, <2>4, <2>5
<1>h. CASE spc = "run" /\ Executed
  <2>1. PICK out \in Results(Head(batch)) : Run(out)
    BY <1>h DEF Executed
  <2>0. /\ UNCHANGED <<opened, met, leaked, input, linked, made, pipe>> /\ spc = "run" /\ spc' = "next"
        /\ writer' = [writer EXCEPT ![Served] = [pc |-> "start", inode |-> 0, out |-> out]]
        /\ batch' = Tail(batch)
    BY <2>1 DEF Run
  <2>2. batch # <<>>
    BY <2>0 DEF Base, Loop
  <2>3. out \in Seq(Chunk)
    BY <2>2, ServedIs, ResultsType
  <2>4. /\ writer' \in [Session -> [pc : {"none", "start", "write"}, inode : 0 .. MaxStarts, out : Seq(Chunk)]]
        /\ \A x \in Session : writer'[x].pc = "write" => writer'[x] = writer[x]
    <3>1. [pc |-> "start", inode |-> 0, out |-> out]
          \in [pc : {"none", "start", "write"}, inode : 0 .. MaxStarts, out : Seq(Chunk)]
      BY <2>3, Constants
    <3> DEFINE w == [pc |-> "start", inode |-> 0, out |-> out]
    <3>2. w.pc = "start"
      OBVIOUS
    <3> HIDE DEF w
    <3> QED BY <3>1, <3>2, <2>0, TypesOf, ServedIs, <2>2 DEF w
  <2>5. batch' \in Seq(Line) /\ Asked(batch)'
    BY <2>0, <2>2, <1>1, TailLines DEF Asked
  <2>6. ServerTypeOK'
    BY <2>0, <2>4, <2>5, ServerTypes, TypesOf
  <2>7. Loop'
    BY <2>0 DEF Base, Loop
  <2>8. Opened'
    BY <2>4 DEF Base, Opened
  <2> QED BY <1>4, <1>6, <1>8, <2>0, <2>5, <2>6, <2>7, <2>8
<1>i. CASE \E i \in Inode : Drained(i)
  <2>1. PICK i \in Inode : DrainReads(i)
    BY <1>i DEF Drained
  <2>0. /\ UNCHANGED <<spc, opened, met, leaked, input, batch, linked, made, writer>>
        /\ pipe' = [pipe EXCEPT ![i] = Consume(@)] /\ pipe[i].buf # <<>>
    BY <2>1 DEF DrainReads, execVars, CanRead
  <2>2. pipe' \in [Inode -> Fifo]
    BY <2>0, FifoOf, ConsumeIs, PipeSet
  <2>4. ServerTypeOK'
    BY <2>0, <2>2, ServerTypes, TypesOf
  <2>5. Loop'
    BY <2>0 DEF Base, Loop, Served
  <2> QED BY <1>4, <1>5, <1>6, <1>7, <1>8, <2>0, <2>4, <2>5
<1> QED BY <1>a, <1>b, <1>c, <1>d, <1>e, <1>f, <1>g, <1>h, <1>i DEF Server, ServerStep

LEMMA ThreadOf ==
    ASSUME Base, NEW t \in Thread
    PROVE  /\ asked[t] \in 0 .. MaxRequests /\ Given(t) \subseteq Own /\ Own \subseteq Session \ {Watchdog, Default}
           /\ got[t] \in Seq(Chunk) /\ reuse[t] \in BOOLEAN /\ reply[t] \in Request \cup {Nobody}
           /\ tpc[t] \in {"idle", "opening", "writing", "waiting", "reading"}
           /\ \A s \in Given(t) : s \in Own /\ s[1] = t /\ s = <<t, s[2]>> /\ s[2] \in 1 .. asked[t]
           /\ tpc[t] # "idle" => session[t] \in Given(t) /\ Ask(t) \in Given(t) /\ Ask(t) \in Request /\ Ask(t) # Nobody
           /\ tpc[t] = "reading" => Current(session[t]) = <<session[t], 1>> /\ Current(session[t]) \in Inode
<1>1. ThreadTypeOK
  BY DEF Base, TypeOK
<1>2. /\ asked[t] \in 0 .. MaxRequests /\ got[t] \in Seq(Chunk) /\ reuse[t] \in BOOLEAN
      /\ reply[t] \in Request \cup {Nobody} /\ tpc[t] \in {"idle", "opening", "writing", "waiting", "reading"}
  BY <1>1 DEF ThreadTypeOK
<1>3. Own \subseteq Session \ {Watchdog, Default} /\ Own \subseteq Request \ {Nobody}
  BY Constants DEF Own
<1>4. \A s \in Given(t) : s \in Own /\ s[1] = t /\ s = <<t, s[2]>> /\ s[2] \in 1 .. asked[t]
  BY <1>2, Constants DEF Given, Own
<1>5. ASSUME tpc[t] # "idle" PROVE session[t] \in Given(t) /\ Ask(t) \in Given(t)
  BY <1>2, <1>5 DEF Base, Names, NamesOf, Given, Ask
<1>6. ASSUME tpc[t] = "reading" PROVE Current(session[t]) = <<session[t], 1>> /\ Current(session[t]) \in Inode
  <2>1. session[t] \in Session \ {Watchdog} /\ linked[session[t]]
    BY <1>3, <1>4, <1>5, <1>6 DEF Base, Found
  <2>2. made[session[t]] = 1
    BY <2>1 DEF Base, Numbering
  <2> QED BY <2>1, <2>2, Inodes DEF Current
<1> QED BY <1>2, <1>3, <1>4, <1>5, <1>6

LEMMA ExecOpened ==
    ASSUME Base, NEW c \in Client, OpenExec(c), UNCHANGED <<batch, resultVars>>
    PROVE  ServerTypeOK' /\ Loop'
<1>1. /\ opened' = opened \cup {c} /\ met' \in {met, met \cup {c}} /\ spc' = IF spc = "open" THEN "cat" ELSE spc
      /\ UNCHANGED <<leaked, input, batch, linked, made, pipe, writer>>
  BY DEF OpenExec, resultVars
<1>2. ServerTypeOK'
  BY <1>1, TypesOf DEF ServerTypeOK, Fifo
<1>3. Loop'
  BY <1>1 DEF Base, Loop, Served
<1> QED BY <1>2, <1>3

LEMMA ExecLeaked ==
    ASSUME Base, LeakExec, UNCHANGED <<batch, resultVars>>
    PROVE  ServerTypeOK' /\ Loop' /\ UNCHANGED input
<1>1. /\ leaked' = TRUE /\ spc' = (IF spc = "open" THEN "cat" ELSE spc)
      /\ UNCHANGED <<opened, met, input, batch, linked, made, pipe, writer>>
  BY DEF LeakExec, resultVars
<1>2. ServerTypeOK'
  BY <1>1, TypesOf DEF ServerTypeOK, Fifo
<1>3. Loop'
  BY <1>1 DEF Base, Loop, Served
<1> QED BY <1>1, <1>2, <1>3

LEMMA ExecLeft ==
    ASSUME Base, NEW c, LeaveExec(c), UNCHANGED <<batch, resultVars>>
    PROVE  ServerTypeOK' /\ Loop'
<1>1. /\ opened' = opened \ {c} /\ met' = met \ {c} /\ UNCHANGED <<spc, leaked, input, batch, linked, made, pipe, writer>>
  BY DEF LeaveExec, resultVars
<1>2. ServerTypeOK'
  BY <1>1, TypesOf DEF ServerTypeOK, Fifo
<1>3. Loop'
  BY <1>1 DEF Base, Loop, Served
<1> QED BY <1>2, <1>3

LEMMA ExecWritten ==
    ASSUME Base, NEW c, NEW of \in Request, NEW s \in Session, NEW whole \in BOOLEAN,
           WriteExec(c, of, s, whole), UNCHANGED <<batch, resultVars>>,
           s = Watchdog => starts > 0, starts' = starts
    PROVE  ServerTypeOK' /\ Loop' /\ Asked(input)' /\ Asked(batch)'
<1>1. /\ opened' = opened \ {c} /\ met' = met \ {c} /\ UNCHANGED <<spc, leaked, batch, linked, made, pipe, writer>>
      /\ spc = "cat" => input' \in Fed(of, s, whole)
      /\ spc # "cat" => input' = input
  BY DEF WriteExec, resultVars
<1>2. input' \in Seq(Line) /\ Asked(input)'
  <2>1. CASE spc = "cat"
    <3>1. PICK lines \in Fed(of, s, whole) : input' = lines
      BY <1>1, <2>1
    <3>2. /\ lines \in Seq(Line) /\ Len(lines) \in Nat
          /\ \A i \in 1 .. Len(lines) - 1 : i \in 1 .. Len(input) /\ lines[i] = input[i]
          /\ \/ lines[Len(lines)].session \in {s, Default}
             \/ Gluing /\ lines[Len(lines)].session = input[Len(input)].session
      BY TypesOf, FedIs
    <3>a. Gluing => Len(input) \in 1 .. Len(input)
      BY TypesOf, EmptySeq DEF Gluing
    <3>3. ASSUME NEW i \in 1 .. Len(lines), lines[i].session = Watchdog PROVE starts > 0
      <4>1. CASE i = Len(lines)
        BY <4>1, <3>2, <3>3, <3>a, Constants DEF Base, Asked
      <4>2. CASE i # Len(lines)
        <5>1. i \in 1 .. Len(lines) - 1
          BY <4>2, <3>2
        <5> QED BY <5>1, <3>2, <3>3 DEF Base, Asked
      <4> QED BY <4>1, <4>2
    <3> QED BY <3>1, <3>2, <3>3 DEF Asked
  <2>2. CASE spc # "cat"
    BY <1>1, <2>2, TypesOf DEF Base, Asked
  <2> QED BY <2>1, <2>2
<1>3. ServerTypeOK'
  BY <1>1, <1>2, TypesOf DEF ServerTypeOK, Fifo
<1>4. Loop'
  BY <1>1 DEF Base, Loop, Served
<1>5. Asked(batch)'
  BY <1>1 DEF Base, Asked
<1> QED BY <1>2, <1>3, <1>4, <1>5

LEMMA WriterBase ==
    ASSUME Base, NEW s \in Session, Writes(s)
    PROVE  Base'
<1>1. UNCHANGED <<threadVars, waiterVars, spc, opened, met, leaked, input, batch, linked, made>>
  BY DEF Writes, WriterStep, WriterOpens, WriterWrites, WriterEnds, execVars
<1>2. ThreadTypeOK' /\ Names' /\ WaiterTypeOK'
  BY <1>1, ThreadsStay DEF waiterVars, historyVars, Base, TypeOK, WaiterTypeOK
<1>3. Numbering' /\ Found' /\ Asked(input)' /\ Asked(batch)'
  BY <1>1, ResultsStay DEF waiterVars, threadVars, Base, Found, Asked
<1> DEFINE Writers == [pc : {"none", "start", "write"}, inode : 0 .. MaxStarts, out : Seq(Chunk)]
<1>4. NoWriter \in Writers /\ NoWriter.pc = "none"
  BY Constants, EmptySeq DEF NoWriter
<1>5. ASSUME NEW w \in Writers, writer' = [writer EXCEPT ![s] = w], writer[s].pc # "none", pipe' \in [Inode -> Fifo],
             w.pc = "write" => <<s, w.inode>> \in Inode
      PROVE  Base'
  <2>1. /\ writer' \in [Session -> Writers] /\ writer'[s] = w
        /\ \A x \in Session \ {s} : writer'[x] = writer[x]
    BY <1>5, TypesOf
  <2> HIDE DEF Writers
  <2>2. ServerTypeOK'
    BY <1>1, <1>5, <2>1, ServerTypes, TypesOf DEF Writers
  <2>3. Opened'
    BY <1>5, <2>1 DEF Base, Opened
  <2>4. Loop'
    <3>1. ASSUME spc = "run" PROVE writer'[Served].pc = "none"
      <4>1. batch # <<>> /\ writer[Served].pc = "none"
        BY <3>1 DEF Base, Loop
      <4>2. PICK x \in Session : x = Served
        BY <4>1, ServedIs
      <4> QED BY <4>1, <4>2, <1>5, <2>1
    <3> QED BY <1>1, <3>1 DEF Base, Loop, Served
  <2> QED BY <1>2, <1>3, <2>2, <2>3, <2>4 DEF Base, TypeOK
<1>a. CASE WriterOpens(s)
  <2>1. CASE linked[s]
    <3> DEFINE w == [writer[s] EXCEPT !.pc = "write", !.inode = made[s]]
    <3>0. Current(s) \in Inode /\ Current(s) = <<s, made[s]>> /\ made[s] \in 0 .. MaxStarts
      BY <2>1, Numbered, TypesOf
    <3>1. w \in Writers /\ w.pc = "write" /\ w.inode = made[s]
      BY <3>0, TypesOf
    <3>2. writer' = [writer EXCEPT ![s] = w] /\ pipe' = [pipe EXCEPT ![Current(s)] = OpenForWrite(@, "writer")]
          /\ writer[s].pc = "start"
      BY <1>a, <2>1 DEF WriterOpens
    <3>3. pipe' \in [Inode -> Fifo]
      BY <3>0, <3>2, FifoOf, OpenForWriteIs, PipeSet
    <3> HIDE DEF w, Writers
    <3> QED BY <1>5, <3>0, <3>1, <3>2, <3>3
  <2>2. CASE ~linked[s]
    <3>1. writer' = [writer EXCEPT ![s] = NoWriter] /\ pipe' = pipe /\ writer[s].pc = "start"
      BY <1>a, <2>2 DEF WriterOpens
    <3> HIDE DEF Writers
    <3> QED BY <1>4, <1>5, <3>1, TypesOf
  <2> QED BY <2>1, <2>2
<1>b. CASE WriterWrites(s)
  <2> DEFINE i == <<s, writer[s].inode>>
  <2>1. /\ writer[s].pc = "write" /\ writer[s].out # <<>>
        /\ \/ /\ pipe' = [pipe EXCEPT ![i] = Write(pipe[i], Head(writer[s].out))]
              /\ writer' = [writer EXCEPT ![s].out = Tail(@)]
           \/ /\ pipe' = [pipe EXCEPT ![i] = Close(Write(pipe[i], Head(writer[s].out)), "writer")]
              /\ writer' = [writer EXCEPT ![s] = NoWriter]
    BY <1>b DEF WriterWrites
  <2>2. i \in Inode
    BY <2>1 DEF Base, Opened
  <2> HIDE DEF i
  <2>3. Head(writer[s].out) \in Chunk /\ Tail(writer[s].out) \in Seq(Chunk)
    BY <2>1, TypesOf, HeadTailProperties
  <2>4. pipe' \in [Inode -> Fifo]
    <3>1. Write(pipe[i], Head(writer[s].out)) \in Fifo
      BY <2>2, <2>3, FifoOf, WriteIs
    <3>2. Close(Write(pipe[i], Head(writer[s].out)), "writer") \in Fifo
      BY <3>1, CloseIs
    <3> QED BY <2>1, <2>2, <3>1, <3>2, PipeSet
  <2>5. CASE writer' = [writer EXCEPT ![s].out = Tail(@)]
    <3> DEFINE w == [writer[s] EXCEPT !.out = Tail(@)]
    <3>1. w \in Writers /\ w.pc = "write" /\ w.inode = writer[s].inode
      BY <2>1, <2>3, TypesOf, ZenonT(40)
    <3>2. writer' = [writer EXCEPT ![s] = w]
      BY <2>5
    <3> HIDE DEF w, Writers
    <3> QED BY <1>5, <2>1, <2>2, <2>4, <3>1, <3>2 DEF i
  <2>6. CASE writer' = [writer EXCEPT ![s] = NoWriter]
    <3> HIDE DEF Writers
    <3> QED BY <1>4, <1>5, <2>1, <2>4, <2>6
  <2> QED BY <2>1, <2>5, <2>6
<1>c. CASE WriterEnds(s)
  <2> DEFINE i == <<s, writer[s].inode>>
  <2>1. /\ writer[s].pc = "write" /\ pipe' = [pipe EXCEPT ![i] = Close(@, "writer")]
        /\ writer' = [writer EXCEPT ![s] = NoWriter]
    BY <1>c DEF WriterEnds
  <2>2. i \in Inode
    BY <2>1 DEF Base, Opened
  <2> HIDE DEF i
  <2>3. pipe' \in [Inode -> Fifo]
    BY <2>1, <2>2, FifoOf, CloseIs, PipeSet
  <2> HIDE DEF Writers
  <2> QED BY <1>4, <1>5, <2>1, <2>3
<1> QED BY <1>a, <1>b, <1>c DEF Writes, WriterStep

(* A thread's step changes the entries of that thread, and its names stay  *)
(* among those it was given.                                               *)
LEMMA SendBase ==
    ASSUME Base, NEW t \in Thread, NEW keep \in BOOLEAN, Send(t, keep), UNCHANGED waiterVars
    PROVE  Base'
<1>0. /\ tpc[t] = "idle" /\ asked[t] < MaxRequests
      /\ asked' = [asked EXCEPT ![t] = @ + 1]
      /\ session' = [session EXCEPT ![t] = IF keep /\ completed[t] # NoSession THEN completed[t] ELSE <<t, asked[t] + 1>>]
      /\ completed' = [completed EXCEPT ![t] = NoSession]
      /\ reuse' = [reuse EXCEPT ![t] = keep]
      /\ tpc' = [tpc EXCEPT ![t] = "opening"]
      /\ reply' = [reply EXCEPT ![t] = Nobody]
      /\ from' = [from EXCEPT ![t] = NoSession]
      /\ UNCHANGED <<got, cuts, torn, glued, serverVars>>
  BY DEF Send
<1> DEFINE new == IF keep /\ completed[t] # NoSession THEN completed[t] ELSE <<t, asked[t] + 1>>
<1>1. ThreadTypeOK
  BY DEF Base, TypeOK
<1>2. asked[t] \in Nat /\ asked[t] + 1 \in 1 .. MaxRequests
  BY <1>0, <1>1, Constants DEF ThreadTypeOK
<1>3. new \in {<<t, k>> : k \in 1 .. asked[t] + 1} /\ new \in Session /\ new # NoSession
  BY <1>2, Constants DEF Base, Names, NamesOf, Given
<1>5. session' = [session EXCEPT ![t] = new]
  BY <1>0
<1> HIDE DEF new
<1>6. /\ asked' \in [Thread -> 0 .. MaxRequests] /\ session' \in [Thread -> Session \cup {NoSession}]
      /\ completed' \in [Thread -> Session \cup {NoSession}] /\ reuse' \in [Thread -> BOOLEAN]
      /\ tpc' \in [Thread -> {"idle", "opening", "writing", "waiting", "reading"}]
      /\ reply' \in [Thread -> Request \cup {Nobody}] /\ from' \in [Thread -> Session \cup {NoSession}]
  <2>1. asked[t] + 1 \in 0 .. MaxRequests
    BY <1>2
  <2>2. asked' \in [Thread -> 0 .. MaxRequests]
    BY <1>0, <1>1, <2>1 DEF ThreadTypeOK
  <2>3. session' \in [Thread -> Session \cup {NoSession}]
    BY <1>1, <1>3, <1>5 DEF ThreadTypeOK
  <2> QED BY <1>0, <1>1, <2>2, <2>3 DEF ThreadTypeOK
<1>7. /\ asked'[t] = asked[t] + 1 /\ session'[t] = new /\ completed'[t] = NoSession /\ reuse'[t] = keep
      /\ tpc'[t] = "opening" /\ reply'[t] = Nobody
      /\ \A u \in Thread \ {t} : /\ asked'[u] = asked[u] /\ session'[u] = session[u] /\ completed'[u] = completed[u]
                                 /\ reuse'[u] = reuse[u] /\ tpc'[u] = tpc[u] /\ reply'[u] = reply[u]
  BY <1>0, <1>1, <1>5 DEF ThreadTypeOK
<1>8. ThreadTypeOK'
  BY <1>0, <1>1, <1>6 DEF ThreadTypeOK
<1>9. ASSUME NEW u \in Thread PROVE NamesOf(u)'
  <2>1. CASE u = t
    <3>1. got'[u] = <<>>
      BY <2>1, <1>0 DEF Base, Names, NamesOf
    <3>2. new \in Given(t)'
      BY <1>3, <1>7 DEF Given
    <3> QED BY <2>1, <3>1, <3>2, <1>0, <1>2, <1>3, <1>7 DEF NamesOf
  <2>2. CASE u # t
    BY <2>2, <1>0, <1>7 DEF Base, Names, NamesOf, Given
  <2> QED BY <2>1, <2>2
<1>10. Names'
  <2>1. ASSUME NEW s \in torn PROVE s \in Own /\ s[2] <= asked'[s[1]]
    <3>1. s \in Own /\ s[2] <= asked[s[1]] /\ s[1] \in Thread /\ s[2] \in Nat
      BY Constants DEF Base, Names, Own
    <3>2. CASE s[1] = t
      BY <3>1, <3>2, <1>2, <1>7
    <3> QED BY <3>1, <3>2, <1>7
  <2> QED BY <1>0, <1>9, <2>1 DEF Names
<1>11. Found'
  BY <1>0, <1>7 DEF Base, Found, serverVars
<1>12. ServerTypeOK' /\ WaiterTypeOK' /\ Loop' /\ Asked(input)' /\ Asked(batch)' /\ Opened'
  BY <1>0, ZenonT(40) DEF Base, TypeOK, ServerTypeOK, WaiterTypeOK, Loop, Asked, Opened, serverVars, waiterVars, Served, historyVars
<1>13. Numbering'
  BY <1>0, ResultsStay DEF serverVars, waiterVars
<1> QED BY <1>8, <1>10, <1>11, <1>12, <1>13 DEF Base, TypeOK

(* The names after a step in which a thread gives up or goes on.           *)
LEMMA ThreadNames ==
    ASSUME Base, NEW t \in Thread, tpc[t] # "idle", UNCHANGED asked, cuts' \in 0 .. MaxCuts,
           NEW pc \in {"idle", "opening", "writing", "waiting", "reading"}, tpc' = [tpc EXCEPT ![t] = pc],
           NEW g \in Seq(Chunk), got' = [got EXCEPT ![t] = g], pc # "reading" => g = <<>>,
           NEW r \in Request \cup {Nobody}, reply' = [reply EXCEPT ![t] = r], pc # "idle" => r = Nobody,
           NEW f \in Session \cup {NoSession}, from' = [from EXCEPT ![t] = f], glued' \in SUBSET Session,
           \/ pc # "idle" /\ UNCHANGED <<session, completed, reuse, torn>>
           \/ /\ pc = "idle" /\ session' = [session EXCEPT ![t] = NoSession] /\ reuse' = [reuse EXCEPT ![t] = FALSE]
              /\ \E c \in {completed[t], session[t], NoSession} : completed' = [completed EXCEPT ![t] = c]
              /\ torn' \in {torn, torn \cup {session[t]}}
    PROVE  ThreadTypeOK' /\ Names'
<1>1. ThreadTypeOK
  BY DEF Base, TypeOK
<1>2. session[t] \in Given(t) /\ completed[t] = NoSession /\ session[t] \in Session /\ session[t] # NoSession
  BY ThreadOf, Constants DEF Base, Names, NamesOf
<1>3. CASE pc # "idle"
  <2>0. UNCHANGED <<session, completed, reuse, torn>> /\ r = Nobody
    BY <1>3
  <2>1. ThreadTypeOK'
    BY <2>0, <1>1 DEF ThreadTypeOK
  <2>2. ASSUME NEW u \in Thread PROVE NamesOf(u)'
    <3>1. CASE u = t
      BY <1>1, <1>2, <1>3, <2>0, <3>1 DEF ThreadTypeOK, Base, Names, NamesOf, Given
    <3>2. CASE u # t
      BY <1>1, <2>0, <3>2 DEF ThreadTypeOK, Base, Names, NamesOf, Given
    <3> QED BY <3>1, <3>2
  <2> QED BY <2>0, <2>1, <2>2 DEF Base, Names
<1>4. CASE pc = "idle"
  <2>0. /\ session' = [session EXCEPT ![t] = NoSession] /\ reuse' = [reuse EXCEPT ![t] = FALSE]
        /\ torn' \in {torn, torn \cup {session[t]}} /\ g = <<>>
    BY <1>4
  <2>a. PICK c \in {completed[t], session[t], NoSession} : completed' = [completed EXCEPT ![t] = c]
    BY <1>4
  <2>1. ThreadTypeOK'
    BY <2>0, <2>a, <1>1, <1>2 DEF ThreadTypeOK
  <2>2. ASSUME NEW u \in Thread PROVE NamesOf(u)'
    <3>1. CASE u = t
      <4>1. /\ completed'[t] \in {NoSession} \cup Given(t) /\ session'[t] = NoSession /\ tpc'[t] = "idle"
            /\ got'[t] = <<>> /\ reuse'[t] = FALSE /\ asked'[t] = asked[t]
        BY <1>1, <1>2, <1>4, <2>0, <2>a DEF ThreadTypeOK
      <4> QED BY <3>1, <4>1 DEF NamesOf, Given
    <3>2. CASE u # t
      <4>1. /\ completed'[u] = completed[u] /\ session'[u] = session[u] /\ tpc'[u] = tpc[u]
            /\ got'[u] = got[u] /\ reuse'[u] = reuse[u] /\ asked'[u] = asked[u] /\ reply'[u] = reply[u]
        BY <1>1, <2>0, <2>a, <3>2 DEF ThreadTypeOK
      <4> QED BY <4>1 DEF Base, Names, NamesOf, Given
    <3> QED BY <3>1, <3>2
  <2>3. session[t] \in Own /\ session[t][2] <= asked[session[t][1]]
    BY <1>2, ThreadOf
  <2> QED BY <2>0, <2>1, <2>2, <2>3 DEF Base, Names
<1> QED BY <1>3, <1>4

LEMMA ThreadBase ==
    ASSUME Base, NEW t \in Thread, ThreadStep(t), UNCHANGED waiterVars
    PROVE  Base'
<1>1. tpc[t] # "idle" /\ UNCHANGED <<asked, linked, made, writer, batch>>
  BY DEF ThreadStep, OpenCommand, OpenExpires, WriteCommand, CutCommand, OpenResult, WaitExpires, ReadResult,
         TakeResult, ReadExpires, Unanswered, resultVars, serverVars
<1>2. ThreadTypeOK /\ WaiterTypeOK' /\ Numbering' /\ Opened' /\ cuts \in 0 .. MaxCuts
  BY <1>1, ResultsStay DEF waiterVars, historyVars, Base, TypeOK, ThreadTypeOK, WaiterTypeOK, Opened
<1>3. /\ session[t] \in Session /\ session[t] \in Own /\ session[t] # Watchdog /\ Ask(t) \in Request
      /\ t \in Client /\ got[t] \in Seq(Chunk) /\ starts' = starts
      /\ completed[t] = NoSession /\ reply[t] = Nobody
  BY <1>1, ThreadOf, Constants DEF waiterVars, Base, Names, NamesOf
<1>4. ASSUME ThreadTypeOK', Names', ServerTypeOK', Loop', Asked(input)', Found' PROVE Base'
  BY <1>1, <1>2, <1>3, <1>4 DEF Base, TypeOK, Asked
<1>5. ASSUME NEW pc, tpc' = [tpc EXCEPT ![t] = pc], pc # "reading",
             session' = [session EXCEPT ![t] = NoSession] \/ UNCHANGED session
      PROVE  Found'
  <2>1. \A u \in Thread : tpc'[u] = "reading" => u # t /\ tpc[u] = "reading" /\ session'[u] = session[u]
    BY <1>2, <1>5 DEF ThreadTypeOK
  <2> QED BY <1>1, <2>1 DEF Base, Found
<1>6. ASSUME Unanswered(t), UNCHANGED <<got, torn, glued>>, cuts' \in 0 .. MaxCuts, tpc[t] # "reading" \/ got[t] = <<>>
      PROVE  ThreadTypeOK' /\ Names' /\ Found'
  <2>1. /\ tpc' = [tpc EXCEPT ![t] = "idle"] /\ session' = [session EXCEPT ![t] = NoSession]
        /\ reuse' = [reuse EXCEPT ![t] = FALSE] /\ UNCHANGED <<asked, completed, reply, from>>
    BY <1>6 DEF Unanswered
  <2>2. got[t] = <<>>
    BY <1>6 DEF Base, Names, NamesOf
  <2>3. /\ got' = [got EXCEPT ![t] = <<>>] /\ reply' = [reply EXCEPT ![t] = Nobody]
        /\ completed' = [completed EXCEPT ![t] = completed[t]] /\ from' = [from EXCEPT ![t] = from[t]]
        /\ glued' \in SUBSET Session /\ from[t] \in Session \cup {NoSession}
    BY <1>2, <1>3, <1>6, <2>1, <2>2 DEF ThreadTypeOK
  <2>4. ThreadTypeOK' /\ Names'
    <3>1. \E c \in {completed[t], session[t], NoSession} : completed' = [completed EXCEPT ![t] = c]
      BY <2>3
    <3> QED BY <1>1, <1>6, <2>1, <2>3, <3>1, ThreadNames, EmptySeq
  <2> QED BY <1>5, <2>1, <2>4
<1>7. ASSUME NEW pc \in {"writing", "waiting", "reading"}, NEW g \in Seq(Chunk), tpc' = [tpc EXCEPT ![t] = pc],
             got' = [got EXCEPT ![t] = g], pc = "reading" \/ g = <<>>,
             UNCHANGED <<completed, session, reuse, reply, from, cuts, torn>>, glued' \in SUBSET Session
      PROVE  ThreadTypeOK' /\ Names'
  <2>1. /\ reply' = [reply EXCEPT ![t] = Nobody] /\ from' = [from EXCEPT ![t] = from[t]]
        /\ from[t] \in Session \cup {NoSession}
    BY <1>2, <1>3, <1>7 DEF ThreadTypeOK
  <2> QED BY <1>1, <1>2, <1>7, <2>1, ThreadNames
<1>8. ASSUME tpc[t] # "reading" PROVE got = [got EXCEPT ![t] = <<>>]
  BY <1>2, <1>8 DEF ThreadTypeOK, Base, Names, NamesOf
<1>9. ASSUME UNCHANGED <<spc, opened, met, leaked, input>>, pipe' \in [Inode -> Fifo] PROVE ServerTypeOK' /\ Loop' /\ Asked(input)'
  <2>1. ServerTypeOK'
    BY <1>1, <1>9, ServerTypes, TypesOf
  <2>2. Loop'
    BY <1>1, <1>9 DEF Base, Loop, Served
  <2> QED BY <1>3, <1>9, <2>1, <2>2 DEF Base, Asked
<1>a. CASE OpenCommand(t)
  <2>0. /\ tpc[t] = "opening" /\ OpenExec(t) /\ tpc' = [tpc EXCEPT ![t] = "writing"]
        /\ UNCHANGED <<completed, session, reuse, got, reply, from, cuts, torn, glued, batch, resultVars>>
    BY <1>a DEF OpenCommand
  <2>1. ServerTypeOK' /\ Loop'
    BY <2>0, <1>3, ExecOpened
  <2>2. ThreadTypeOK' /\ Names'
    BY <2>0, <1>2, <1>7, <1>8, EmptySeq DEF ThreadTypeOK
  <2>3. Found'
    BY <2>0, <1>5
  <2>4. Asked(input)'
    BY <2>0, <1>3 DEF OpenExec, Base, Asked
  <2> QED BY <1>4, <2>1, <2>2, <2>3, <2>4
<1>b. CASE OpenExpires(t) \/ WaitExpires(t)
  <2>0. /\ tpc[t] # "reading" /\ Unanswered(t) /\ UNCHANGED <<got, torn, glued>> /\ cuts' \in 0 .. MaxCuts
        /\ UNCHANGED serverVars \/ (LeakExec /\ UNCHANGED <<batch, resultVars>>)
    BY <1>b, <1>2, Constants DEF OpenExpires, WaitExpires, execVars, resultVars, serverVars
  <2>1. ServerTypeOK' /\ Loop' /\ Asked(input)'
    <3>1. CASE UNCHANGED serverVars
      BY <3>1, <1>9, TypesOf DEF serverVars
    <3>2. CASE LeakExec /\ UNCHANGED <<batch, resultVars>>
      BY <3>2, <1>3, ExecLeaked DEF Base, Asked
    <3> QED BY <2>0, <3>1, <3>2
  <2> QED BY <1>4, <1>6, <2>0, <2>1
<1>c. CASE WriteCommand(t)
  <2>0. /\ tpc[t] = "writing" /\ WriteExec(t, Ask(t), session[t], TRUE) /\ UNCHANGED <<got, cuts, torn, batch, resultVars>>
        /\ \/ /\ tpc' = [tpc EXCEPT ![t] = "waiting"] /\ Glues(t)
              /\ UNCHANGED <<asked, completed, session, reuse, reply, from>>
           \/ Unanswered(t) /\ UNCHANGED glued
    BY <1>c DEF WriteCommand
  <2>1. ServerTypeOK' /\ Loop' /\ Asked(input)'
    BY <2>0, <1>3, ExecWritten
  <2>2. ThreadTypeOK' /\ Names' /\ Found'
    <3>1. CASE Unanswered(t) /\ UNCHANGED glued
      BY <3>1, <2>0, <1>2, <1>6
    <3>2. CASE /\ tpc' = [tpc EXCEPT ![t] = "waiting"] /\ Glues(t)
               /\ UNCHANGED <<asked, completed, session, reuse, reply, from>>
      <4>1. glued' \in SUBSET Session
        BY <3>2, <1>2, <1>3 DEF Glues, ThreadTypeOK
      <4> QED BY <3>2, <4>1, <2>0, <1>5, <1>7, <1>8, EmptySeq
    <3> QED BY <2>0, <3>1, <3>2
  <2> QED BY <1>4, <2>1, <2>2
<1>d. CASE CutCommand(t)
  <2>0. /\ tpc[t] = "writing" /\ WriteExec(t, Ask(t), session[t], FALSE) /\ UNCHANGED <<got, torn, glued, batch, resultVars>>
        /\ Unanswered(t) /\ cuts < MaxCuts /\ cuts' = cuts + 1
    BY <1>d DEF CutCommand
  <2>1. ServerTypeOK' /\ Loop' /\ Asked(input)'
    BY <2>0, <1>3, ExecWritten
  <2>2. cuts' \in 0 .. MaxCuts
    BY <2>0, <1>2, Constants
  <2> QED BY <1>4, <1>6, <2>0, <2>1, <2>2
<1>e. CASE OpenResult(t)
  <2>0. /\ tpc[t] = "waiting" /\ linked[session[t]] /\ pipe' = [pipe EXCEPT ![Current(session[t])] = OpenForRead(@, t)]
        /\ tpc' = [tpc EXCEPT ![t] = "reading"]
        /\ UNCHANGED <<completed, session, reuse, got, reply, from, cuts, torn, glued, execVars>>
    BY <1>e DEF OpenResult
  <2>1. pipe' \in [Inode -> Fifo]
    BY <2>0, <1>3, Numbered, FifoOf, OpenForReadIs, PipeSet
  <2>2. ThreadTypeOK' /\ Names'
    BY <2>0, <1>2, <1>7, <1>8, EmptySeq DEF ThreadTypeOK
  <2>3. Found'
    <3>1. \A u \in Thread : tpc'[u] = "reading" => u = t \/ tpc[u] = "reading"
      BY <2>0, <1>2 DEF ThreadTypeOK
    <3> QED BY <2>0, <1>1, <3>1 DEF Base, Found
  <2> QED BY <2>0, <1>4, <1>9, <2>1, <2>2, <2>3 DEF execVars
<1>f. CASE ReadResult(t)
  <2> DEFINE i == Current(session[t])
  <2>0. /\ tpc[t] = "reading" /\ pipe[i].buf # <<>> /\ pipe' = [pipe EXCEPT ![i] = Consume(@)]
        /\ got' = [got EXCEPT ![t] = Append(@, Head(pipe[i].buf))]
        /\ UNCHANGED <<tpc, completed, session, reuse, reply, from, cuts, torn, glued, execVars>>
    BY <1>f DEF ReadResult, CanRead
  <2>1. i \in Inode /\ pipe[i] \in Fifo
    BY <2>0, ThreadOf, FifoOf
  <2> HIDE DEF i
  <2>2. pipe' \in [Inode -> Fifo] /\ Head(pipe[i].buf) \in Chunk
    BY <2>0, <2>1, ConsumeIs, PipeSet
  <2> DEFINE g == Append(got[t], Head(pipe[i].buf))
  <2>3. g \in Seq(Chunk) /\ got' = [got EXCEPT ![t] = g]
    BY <2>0, <2>2, <1>3, AppendProperties
  <2> HIDE DEF g
  <2>4. tpc' = [tpc EXCEPT ![t] = "reading"]
    BY <2>0, <1>2 DEF ThreadTypeOK
  <2>5. ThreadTypeOK' /\ Names'
    BY <2>0, <2>3, <2>4, <1>2, <1>7 DEF ThreadTypeOK
  <2>6. Found'
    BY <2>0, <1>1 DEF Base, Found
  <2> QED BY <2>0, <1>4, <1>9, <2>2, <2>5, <2>6 DEF execVars
<1>g. CASE TakeResult(t)
  <2> DEFINE i == Current(session[t])
             r == IF IsDocument(got[t]) THEN got[t][1].of ELSE Nobody
  <2>0. /\ tpc[t] = "reading" /\ got[t] # <<>> /\ reply' = [reply EXCEPT ![t] = r]
        /\ completed' = [completed EXCEPT ![t] = IF reuse[t] THEN session[t] ELSE NoSession]
        /\ torn' = IF IsDocument(got[t]) THEN torn ELSE torn \cup {session[t]}
        /\ pipe' = [pipe EXCEPT ![i] = Close(@, t)]
        /\ got' = [got EXCEPT ![t] = <<>>]
        /\ tpc' = [tpc EXCEPT ![t] = "idle"]
        /\ reuse' = [reuse EXCEPT ![t] = FALSE]
        /\ session' = [session EXCEPT ![t] = NoSession]
        /\ from' = [from EXCEPT ![t] = session[t]]
        /\ UNCHANGED <<cuts, glued, execVars>>
    BY <1>g DEF TakeResult
  <2>1. r \in Request \cup {Nobody}
    <3>1. got[t][1] \in Chunk
      BY <2>0, <1>3, EmptySeq, ElementOfSeq
    <3> QED BY <3>1 DEF Chunk
  <2>2. \E c \in {completed[t], session[t], NoSession} : completed' = [completed EXCEPT ![t] = c]
    BY <2>0
  <2>3. ThreadTypeOK' /\ Names'
    <3> HIDE DEF r, i
    <3>1. torn' \in {torn, torn \cup {session[t]}} /\ glued' \in SUBSET Session
      BY <2>0, <1>2 DEF ThreadTypeOK
    <3> QED BY <2>0, <2>1, <2>2, <3>1, <1>1, <1>3, <1>2, ThreadNames, EmptySeq
  <2>4. pipe' \in [Inode -> Fifo]
    BY <2>0, ThreadOf, FifoOf, CloseIs, PipeSet
  <2> QED BY <2>0, <1>4, <1>5, <1>9, <2>3, <2>4 DEF execVars
<1>h. CASE ReadExpires(t)
  <2>0. /\ tpc[t] = "reading" /\ got[t] = <<>> /\ pipe' = [pipe EXCEPT ![Current(session[t])] = Close(@, t)]
        /\ Unanswered(t) /\ UNCHANGED <<got, cuts, torn, glued, execVars>>
    BY <1>h DEF ReadExpires
  <2>1. pipe' \in [Inode -> Fifo]
    BY <2>0, ThreadOf, FifoOf, CloseIs, PipeSet
  <2> QED BY <2>0, <1>2, <1>4, <1>6, <1>9, <2>1 DEF execVars
<1> QED BY <1>a, <1>b, <1>c, <1>d, <1>e, <1>f, <1>g, <1>h DEF ThreadStep

LEMMA StartBase ==
    ASSUME Base, Starts
    PROVE  Base'
<1>0. /\ wpc = "down" /\ starts < MaxStarts /\ linked' = [linked EXCEPT ![Watchdog] = FALSE] /\ counter' = 0
      /\ starts' = starts + 1 /\ wpc' = "send"
      /\ UNCHANGED <<heard, sends, nothingMissing, silent, contested, execVars, batch, made, pipe, writer, threadVars>>
  BY DEF Starts, Start, historyVars
<1>1. /\ linked' \in [Session -> BOOLEAN] /\ ~linked'[Watchdog]
      /\ \A s \in Session \ {Watchdog} : linked'[s] = linked[s]
  BY <1>0, TypesOf, Constants
<1>2. ServerTypeOK' /\ Loop' /\ Opened'
  BY <1>0, <1>1, TypesOf DEF ServerTypeOK, Fifo, execVars, Base, Loop, Served, Opened
<1>3. starts \in 0 .. MaxStarts /\ starts' \in 0 .. MaxStarts /\ starts' > 0 /\ MaxStarts \in Nat
  BY <1>0, Constants DEF Base, TypeOK, WaiterTypeOK
<1>4. WaiterTypeOK'
  BY <1>0, <1>3, Constants DEF Base, TypeOK, WaiterTypeOK
<1>5. ThreadTypeOK' /\ Names'
  BY <1>0, ThreadsStay
<1>6. Asked(input)' /\ Asked(batch)'
  BY <1>3 DEF Asked
<1>7. Numbering'
  <2>1. made[Watchdog] \in Nat
    BY TypesOf, Constants
  <2> QED BY <1>0, <1>1, <1>3, <2>1 DEF Base, Numbering
<1>8. Found'
  <2>1. \A t \in Thread : tpc[t] = "reading" => session[t] \in Session \ {Watchdog}
    BY ThreadOf
  <2> QED BY <1>0, <1>1, <2>1 DEF Base, Found, threadVars
<1> QED BY <1>2, <1>4, <1>5, <1>6, <1>7, <1>8 DEF Base, TypeOK

LEMMA WaiterBase ==
    ASSUME Base, Waits
    PROVE  Base'
<1>1. UNCHANGED <<threadVars, batch, linked, made, writer, starts>>
  BY DEF Waits, WaiterStep, OpenQuery, WriteQuery, SendExpires, ResultAppears, OpenAnswer, ReadAnswer, AnswerEnds,
         AnswerExpires, resultVars, serverVars
<1>2. ThreadTypeOK' /\ Names' /\ Found' /\ Opened'
  BY <1>1, ThreadsStay DEF threadVars, Base, Found, Opened
<1>3. wpc # "down" /\ starts > 0 /\ starts' = starts /\ starts \in 0 .. MaxStarts
  <2>1. wpc # "down"
    BY DEF Waits, WaiterStep, OpenQuery, WriteQuery, SendExpires, ResultAppears, OpenAnswer, ReadAnswer, AnswerEnds,
           AnswerExpires
  <2>2. starts \in 0 .. MaxStarts /\ MaxStarts \in Nat
    BY Constants DEF Base, TypeOK, WaiterTypeOK
  <2>3. starts # 0
    BY <2>1 DEF Base, Numbering
  <2> QED BY <1>1, <2>1, <2>2, <2>3
<1>4. /\ counter \in 0 .. (Limit + 1) /\ sends \in 0 .. MaxSends /\ nothingMissing \in BOOLEAN /\ silent \in BOOLEAN /\ contested \in BOOLEAN
      /\ Limit \in Nat \ {0} /\ MaxSends \in Nat /\ heard \in BOOLEAN
  BY Constants DEF Base, TypeOK, WaiterTypeOK
<1>5. CountUp => counter' \in 0 .. (Limit + 1)
  BY <1>4 DEF CountUp
<1>6. Asked(batch)'
  BY <1>1 DEF Base, Asked
<1>7. ASSUME wpc' \in {"receive", "read"} => linked[Watchdog] PROVE Numbering'
  BY <1>1, <1>3, <1>7 DEF Base, Numbering
<1>8. ASSUME UNCHANGED <<spc, opened, met, leaked, input>>, pipe' \in [Inode -> Fifo] PROVE ServerTypeOK' /\ Loop' /\ Asked(input)'
  <2>1. ServerTypeOK'
    BY <1>1, <1>8, ServerTypes, TypesOf
  <2> QED BY <1>1, <1>8, <2>1 DEF Base, Loop, Served, Asked
<1>9. ASSUME ServerTypeOK', Loop', Asked(input)', WaiterTypeOK', Numbering' PROVE Base'
  BY <1>2, <1>6, <1>9 DEF Base, TypeOK
<1>10. wpc = "read" => Current(Watchdog) \in Inode /\ linked[Watchdog]
  BY Numbered, Constants DEF Base, Numbering
<1>a. CASE OpenQuery
  <2>0. /\ OpenExec(Watchdog) /\ sends < MaxSends /\ sends' = sends + 1 /\ wpc' = "write"
        /\ UNCHANGED <<counter, heard, starts, nothingMissing, silent, contested, batch, resultVars>>
    BY <1>a DEF OpenQuery, historyVars
  <2>1. ServerTypeOK' /\ Loop'
    BY <2>0, ExecOpened, Constants
  <2>2. WaiterTypeOK'
    BY <2>0, <1>3, <1>4 DEF WaiterTypeOK
  <2>3. Asked(input)'
    BY <2>0, <1>3 DEF OpenExec, Base, Asked
  <2> QED BY <2>0, <2>1, <2>2, <2>3, <1>7, <1>9
<1>b. CASE WriteQuery
  <2>0. /\ WriteExec(Watchdog, Watchdog, Watchdog, TRUE) /\ wpc' = "appear"
        /\ UNCHANGED <<counter, heard, starts, sends, nothingMissing, silent, contested, batch, resultVars>>
    BY <1>b DEF WriteQuery, historyVars
  <2>1. ServerTypeOK' /\ Loop' /\ Asked(input)'
    BY <2>0, <1>3, ExecWritten, Constants
  <2>2. WaiterTypeOK'
    BY <2>0, <1>3, <1>4 DEF WaiterTypeOK
  <2> QED BY <2>0, <2>1, <2>2, <1>7, <1>9
<1>c. CASE SendExpires
  <2>0. /\ LeaveExec(Watchdog) /\ CountUp /\ wpc' \in {"down", "send"}
        /\ UNCHANGED <<heard, starts, sends, nothingMissing, silent, contested, batch, resultVars>>
    BY <1>c DEF SendExpires, AttemptFails, historyVars
  <2>1. ServerTypeOK' /\ Loop' /\ UNCHANGED input
    BY <2>0, ExecLeft DEF LeaveExec
  <2>2. WaiterTypeOK'
    BY <2>0, <1>3, <1>4, <1>5 DEF WaiterTypeOK
  <2>3. Asked(input)'
    BY <2>0, <2>1 DEF Base, Asked
  <2> QED BY <2>0, <2>1, <2>2, <2>3, <1>7, <1>9
<1>d. CASE ResultAppears
  <2>0. /\ linked[Watchdog] /\ wpc' = "receive"
        /\ UNCHANGED <<counter, heard, starts, sends, nothingMissing, silent, contested, serverVars>>
    BY <1>d DEF ResultAppears, historyVars
  <2>1. WaiterTypeOK'
    BY <2>0, <1>3, <1>4 DEF WaiterTypeOK
  <2>2. ServerTypeOK' /\ Loop' /\ Asked(input)'
    BY <2>0, <1>8, TypesOf DEF serverVars
  <2> QED BY <2>0, <2>1, <2>2, <1>7, <1>9
<1>e. CASE OpenAnswer
  <2>0. /\ wpc = "receive" /\ wpc' = "read" /\ pipe' = [pipe EXCEPT ![Current(Watchdog)] = OpenForRead(@, Watchdog)]
        /\ UNCHANGED <<counter, heard, starts, sends, nothingMissing, silent, contested, execVars>>
    BY <1>e DEF OpenAnswer, historyVars
  <2>1. linked[Watchdog] /\ Current(Watchdog) \in Inode
    BY <2>0, Numbered, Constants DEF Base, Numbering
  <2>2. pipe' \in [Inode -> Fifo]
    BY <2>0, <2>1, FifoOf, OpenForReadIs, PipeSet, Constants
  <2>3. WaiterTypeOK'
    BY <2>0, <1>3, <1>4 DEF WaiterTypeOK
  <2> QED BY <2>0, <2>1, <2>2, <2>3, <1>7, <1>8, <1>9 DEF execVars
<1>f. CASE ReadAnswer
  <2>0. /\ wpc = "read" /\ wpc' = "read" /\ pipe' = [pipe EXCEPT ![Current(Watchdog)] = Consume(@)] /\ Answer.buf # <<>>
        /\ heard' = TRUE /\ UNCHANGED <<counter, starts, sends, nothingMissing, silent, contested, execVars>>
    BY <1>f DEF ReadAnswer, CanRead, historyVars
  <2>1. pipe' \in [Inode -> Fifo]
    BY <2>0, <1>10, FifoOf, ConsumeIs, PipeSet DEF Answer
  <2>3. WaiterTypeOK'
    BY <2>0, <1>3, <1>4 DEF WaiterTypeOK
  <2> QED BY <2>0, <1>10, <2>1, <2>3, <1>7, <1>8, <1>9 DEF execVars
<1>g. CASE AnswerEnds \/ AnswerExpires
  <2>0. /\ wpc = "read" /\ pipe' = [pipe EXCEPT ![Current(Watchdog)] = Close(@, Watchdog)] /\ heard' = FALSE
        /\ wpc' \in {"ready", "down", "send"} /\ (CountUp \/ counter' = counter)
        /\ UNCHANGED <<starts, sends, nothingMissing, silent, contested, execVars>>
    BY <1>g DEF AnswerEnds, AnswerExpires, AttemptFails, historyVars
  <2>1. pipe' \in [Inode -> Fifo]
    BY <2>0, <1>10, FifoOf, CloseIs, PipeSet
  <2>3. WaiterTypeOK'
    BY <2>0, <1>3, <1>4, <1>5 DEF WaiterTypeOK
  <2> QED BY <2>0, <2>1, <2>3, <1>7, <1>8, <1>9 DEF execVars
<1> QED BY <1>a, <1>b, <1>c, <1>d, <1>e, <1>f, <1>g DEF Waits, WaiterStep

LEMMA BaseStep == Base /\ [Next]_vars => Base'
<1>1. ASSUME Base, UNCHANGED vars PROVE Base'
  <2>1. ServerTypeOK' /\ ThreadTypeOK' /\ Names' /\ WaiterTypeOK'
    BY <1>1, ThreadsStay, ZenonT(40) DEF vars, Base, TypeOK, ServerTypeOK, WaiterTypeOK, serverVars, waiterVars, historyVars
  <2>2. Loop' /\ Asked(input)' /\ Asked(batch)' /\ Numbering' /\ Found' /\ Opened'
    BY <1>1 DEF vars, Base, Loop, Asked, Numbering, Found, Opened, Served, serverVars, threadVars, waiterVars
  <2> QED BY <2>1, <2>2 DEF Base, TypeOK
<1> QED BY <1>1, ServerBase, WriterBase, SendBase, ThreadBase, StartBase, WaiterBase DEF Next, Asks, Acts

LEMMA Basic == Spec => []Base
BY BaseInit, BaseStep, PTL DEF Spec

(* The types (ServerTypeOK, ThreadTypeOK, WaiterTypeOK): a FIFO that is    *)
(* opened, read or written exists, whatever was removed or made again      *)
(* under its name, and no bound of a counter is passed.                    *)
THEOREM TypeCorrect == Spec => []TypeOK
<1>1. Base => TypeOK
  BY DEF Base
<1> QED BY <1>1, Basic, PTL

-----------------------------------------------------------------------------
(* Who holds the ends of a FIFO.                                           *)

\* What a step makes of the FIFO i; it leaves the others alone.
At(i, b, w, r, m) ==
    /\ pipe'[i].buf = b /\ pipe'[i].wr = w /\ pipe'[i].rd = r /\ pipe'[i].met = m
    /\ \A j \in Inode \ {i} : pipe'[j] = pipe[j]

LEMMA FifoAt ==
    ASSUME Base, NEW i \in Inode
    PROVE  /\ pipe[i] \in Fifo /\ pipe[i].buf \in Seq(Chunk) /\ pipe[i].wr \in SUBSET {"writer"}
           /\ pipe[i].rd \in SUBSET (Client \cup {"drain"})
BY FifoOf, FifoFields

LEMMA OpensAt ==
    ASSUME Base, NEW i \in Inode, NEW r \in Client \cup {"drain"}, pipe' = [pipe EXCEPT ![i] = OpenForRead(@, r)]
    PROVE  At(i, pipe[i].buf, pipe[i].wr, pipe[i].rd \cup {r},
              pipe[i].met \cup pipe[i].wr \cup (IF pipe[i].wr = {} THEN {} ELSE {r}))
BY TypesOf, FifoAt, OpenForReadIs DEF At

LEMMA WriterAt ==
    ASSUME Base, NEW i \in Inode, pipe' = [pipe EXCEPT ![i] = OpenForWrite(@, "writer")]
    PROVE  At(i, pipe[i].buf, pipe[i].wr \cup {"writer"}, pipe[i].rd,
              pipe[i].met \cup pipe[i].rd \cup (IF pipe[i].rd = {} THEN {} ELSE {"writer"}))
BY TypesOf, FifoAt, OpenForWriteIs DEF At

LEMMA WrittenAt ==
    ASSUME Base, NEW i \in Inode, NEW x \in Chunk, pipe' = [pipe EXCEPT ![i] = Write(pipe[i], x)]
    PROVE  At(i, Append(pipe[i].buf, x), pipe[i].wr, pipe[i].rd, pipe[i].met)
BY TypesOf, FifoAt, WriteIs DEF At

LEMMA ConsumedAt ==
    ASSUME Base, NEW i \in Inode, pipe[i].buf # <<>>, pipe' = [pipe EXCEPT ![i] = Consume(@)]
    PROVE  At(i, Tail(pipe[i].buf), pipe[i].wr, pipe[i].rd, pipe[i].met)
BY TypesOf, FifoAt, ConsumeIs DEF At

LEMMA ClosedAt ==
    ASSUME Base, NEW i \in Inode, NEW c, pipe' = [pipe EXCEPT ![i] = Close(@, c)]
    PROVE  At(i, IF pipe[i].wr \ {c} = {} /\ pipe[i].rd \ {c} = {} THEN <<>> ELSE pipe[i].buf,
              pipe[i].wr \ {c}, pipe[i].rd \ {c}, pipe[i].met \ {c})
BY TypesOf, FifoAt, CloseIs DEF At

\* The last write of a writer, and the end of the writer with it.
LEMMA LastAt ==
    ASSUME Base, NEW i \in Inode, NEW x \in Chunk, pipe' = [pipe EXCEPT ![i] = Close(Write(pipe[i], x), "writer")]
    PROVE  At(i, IF pipe[i].rd = {} THEN <<>> ELSE Append(pipe[i].buf, x), {}, pipe[i].rd, pipe[i].met \ {"writer"})
<1>1. /\ pipe[i] \in Fifo /\ Write(pipe[i], x) \in Fifo
      /\ pipe[i].wr \ {"writer"} = {} /\ pipe[i].rd \ {"writer"} = pipe[i].rd
  BY FifoAt, WriteIs, Constants
<1> DEFINE p == Write(pipe[i], x)
<1>2. /\ p.buf = Append(pipe[i].buf, x) /\ p.wr = pipe[i].wr /\ p.rd = pipe[i].rd /\ p.met = pipe[i].met /\ p \in Fifo
  BY <1>1, WriteIs
<1> HIDE DEF p
<1>3. /\ Close(p, "writer").wr = {} /\ Close(p, "writer").rd = pipe[i].rd
      /\ Close(p, "writer").met = pipe[i].met \ {"writer"}
      /\ Close(p, "writer").buf = IF pipe[i].rd = {} THEN <<>> ELSE Append(pipe[i].buf, x)
  <2>1. /\ Close(p, "writer").wr = p.wr \ {"writer"} /\ Close(p, "writer").rd = p.rd \ {"writer"}
        /\ Close(p, "writer").met = p.met \ {"writer"}
        /\ Close(p, "writer").buf = IF p.wr \ {"writer"} = {} /\ p.rd \ {"writer"} = {} THEN <<>> ELSE p.buf
    BY <1>2, CloseIs
  <2>2. p.wr \ {"writer"} = {} /\ p.rd \ {"writer"} = pipe[i].rd /\ p.met = pipe[i].met
    BY <1>1, <1>2
  <2> QED BY <1>2, <2>1, <2>2
<1>4. pipe' = [pipe EXCEPT ![i] = Close(p, "writer")]
  BY DEF p
<1> QED BY <1>3, <1>4, TypesOf DEF At

Ends(i) ==
    /\ pipe[i].met \subseteq pipe[i].wr \cup pipe[i].rd
    /\ "writer" \in pipe[i].wr => writer[i[1]].pc = "write" /\ writer[i[1]].inode = i[2]
    /\ Watchdog \in pipe[i].rd => wpc = "read" /\ i = <<Watchdog, made[Watchdog]>>
    /\ \A t \in Thread : t \in pipe[i].rd => tpc[t] = "reading" /\ i = <<session[t], 1>>

HeldByWriter == \A s \in Session : writer[s].pc = "write" => "writer" \in pipe[<<s, writer[s].inode>>].wr
HeldByWaiter == wpc = "read" => Watchdog \in pipe[<<Watchdog, made[Watchdog]>>].rd
HeldByThread == \A t \in Thread : tpc[t] = "reading" => t \in pipe[<<session[t], 1>>].rd
Held == (\A i \in Inode : Ends(i)) /\ HeldByWriter /\ HeldByWaiter /\ HeldByThread

LEMMA HeldInit == Init => Held
BY Constants DEF Init, ServerInit, ThreadInit, WaiterInit, EmptyPipe, NoWriter, Held, Ends, HeldByWriter, HeldByWaiter,
   HeldByThread

\* No end changes hands.
LEMMA HeldQuiet ==
    ASSUME Held, UNCHANGED <<pipe, writer>>,
           \A t \in Thread : tpc[t] = "reading" \/ tpc'[t] = "reading" =>
                             tpc'[t] = tpc[t] /\ session'[t] = session[t],
           wpc = "read" \/ wpc' = "read" => wpc' = wpc /\ made'[Watchdog] = made[Watchdog]
    PROVE  Held'
<1>1. ASSUME NEW i \in Inode PROVE Ends(i)'
  BY DEF Held, Ends
<1>2. HeldByWriter' /\ HeldByWaiter' /\ HeldByThread'
  BY DEF Held, HeldByWriter, HeldByWaiter, HeldByThread
<1> QED BY <1>1, <1>2 DEF Held

\* Only the ends of i change hands.
LEMMA HeldAt ==
    ASSUME Base, Base', Held, NEW i \in Inode, \A j \in Inode \ {i} : pipe'[j] = pipe[j], Ends(i)', UNCHANGED made,
           \A s \in Session : s # i[1] => writer'[s] = writer[s],
           \A j \in Inode \ {i} : "writer" \in pipe[j].wr => writer'[j[1]].pc = "write" /\ writer'[j[1]].inode = j[2],
           writer'[i[1]].pc = "write" => "writer" \in pipe'[<<i[1], writer'[i[1]].inode>>].wr,
           \A t \in Thread : i # <<session[t], 1>> => tpc'[t] = tpc[t] /\ session'[t] = session[t],
           \A t \in Thread : i = <<session[t], 1>> /\ tpc'[t] = "reading" => session'[t] = session[t] /\ t \in pipe'[i].rd,
           i # <<Watchdog, made[Watchdog]>> => wpc' = wpc,
           i = <<Watchdog, made[Watchdog]>> /\ wpc' = "read" => Watchdog \in pipe'[i].rd
    PROVE  Held'
<1>1. ASSUME NEW j \in Inode PROVE Ends(j)'
  <2>1. CASE j # i
    BY <2>1 DEF Held, Ends
  <2> QED BY <2>1
<1>2. HeldByWriter'
  <2>1. ASSUME NEW s \in Session, writer'[s].pc = "write" PROVE "writer" \in pipe'[<<s, writer'[s].inode>>].wr
    <3>1. CASE s = i[1]
      BY <2>1, <3>1
    <3>2. CASE s # i[1]
      <4>1. "writer" \in pipe[<<s, writer[s].inode>>].wr /\ writer'[s] = writer[s]
        BY <2>1, <3>2 DEF Held, HeldByWriter
      <4>2. <<s, writer[s].inode>> \in Inode /\ <<s, writer[s].inode>> # i
        BY <2>1, <3>2, <4>1 DEF Base, Opened
      <4> QED BY <4>1, <4>2
    <3> QED BY <3>1, <3>2
  <2> QED BY <2>1 DEF HeldByWriter
<1>3. HeldByWaiter'
  <2>1. wpc = "read" => <<Watchdog, made[Watchdog]>> \in Inode
    BY Numbered, Constants DEF Base, Numbering
  <2> QED BY <2>1 DEF Held, HeldByWaiter
<1>4. HeldByThread'
  <2>1. ASSUME NEW t \in Thread, tpc'[t] = "reading" PROVE t \in pipe'[<<session'[t], 1>>].rd
    <3>1. CASE i = <<session[t], 1>>
      BY <2>1, <3>1
    <3>2. CASE i # <<session[t], 1>>
      <4>1. tpc[t] = "reading" /\ session'[t] = session[t]
        BY <2>1, <3>2
      <4>2. <<session[t], 1>> \in Inode
        <5>1. session[t] \in Own /\ Own \subseteq Session \ {Watchdog}
          BY <4>1, ThreadOf
        <5> QED BY <5>1, Inodes
      <4> QED BY <3>2, <4>1, <4>2 DEF Held, HeldByThread
    <3> QED BY <3>1, <3>2
  <2> QED BY <2>1 DEF HeldByThread
<1> QED BY <1>1, <1>2, <1>3, <1>4 DEF Held

\* A reader or writer ends: nobody else's end is touched.
LEMMA EndsClosed ==
    ASSUME Base, Held, NEW i \in Inode, NEW c, pipe' = [pipe EXCEPT ![i] = Close(@, c)], UNCHANGED made,
           c # "writer" => \A s \in Session : writer'[s] = writer[s],
           \A t \in Thread \ {c} : tpc'[t] = tpc[t] /\ session'[t] = session[t],
           c # Watchdog => wpc' = wpc
    PROVE  Ends(i)'
<1>1. At(i, IF pipe[i].wr \ {c} = {} /\ pipe[i].rd \ {c} = {} THEN <<>> ELSE pipe[i].buf,
         pipe[i].wr \ {c}, pipe[i].rd \ {c}, pipe[i].met \ {c})
  BY ClosedAt
<1>2. pipe'[i].wr = pipe[i].wr \ {c} /\ pipe'[i].rd = pipe[i].rd \ {c} /\ pipe'[i].met = pipe[i].met \ {c}
  BY <1>1 DEF At
<1>3. Ends(i) /\ pipe[i].wr \in SUBSET {"writer"}
  BY FifoAt DEF Held
<1>4. i[1] \in Session
  BY Inodes
<1>5. "writer" \in pipe'[i].wr => writer'[i[1]].pc = "write" /\ writer'[i[1]].inode = i[2]
  BY <1>2, <1>3, <1>4 DEF Ends
<1> QED BY <1>2, <1>3, <1>5 DEF Ends

\* What the drain does to its own end.
LEMMA DrainHolds ==
    ASSUME Base, Held, UNCHANGED <<made, writer, tpc, session, wpc>>, NEW i \in Inode,
           \A j \in Inode \ {i} : pipe'[j] = pipe[j],
           pipe'[i].wr = pipe[i].wr, pipe'[i].rd \cup {"drain"} = pipe[i].rd \cup {"drain"}
    PROVE  HeldByWriter' /\ HeldByWaiter' /\ HeldByThread'
<1>1. \A j \in Inode : pipe'[j].wr = pipe[j].wr /\ \A c : c # "drain" => (c \in pipe'[j].rd <=> c \in pipe[j].rd)
  <2>1. \A c : c # "drain" => (c \in pipe'[i].rd <=> c \in pipe[i].rd)
    <3>1. \A c : c \in pipe'[i].rd \cup {"drain"} <=> c \in pipe[i].rd \cup {"drain"}
      OBVIOUS
    <3> QED BY <3>1
  <2> QED BY <2>1
<1>2. HeldByWriter'
  BY <1>1 DEF Held, HeldByWriter, Base, Opened
<1>3. HeldByWaiter'
  <2>1. wpc = "read" => <<Watchdog, made[Watchdog]>> \in Inode
    BY Numbered, Constants DEF Base, Numbering
  <2> QED BY <1>1, <2>1, Constants DEF Held, HeldByWaiter
<1>4. HeldByThread'
  <2>1. ASSUME NEW t \in Thread, tpc[t] = "reading" PROVE <<session[t], 1>> \in Inode
    <3>1. session[t] \in Own /\ Own \subseteq Session \ {Watchdog}
      BY <2>1, ThreadOf
    <3> QED BY <3>1, Inodes
  <2>2. \A t \in Thread : t # "drain"
    BY Constants
  <2> QED BY <1>1, <2>1, <2>2 DEF Held, HeldByThread
<1> QED BY <1>2, <1>3, <1>4

LEMMA HeldServer == Base /\ Held /\ Server => Held'
<1> SUFFICES ASSUME Base, Held, Server PROVE Held'
  OBVIOUS
<1>0. Base' /\ UNCHANGED <<threadVars, wpc>>
  BY ServerBase DEF Server, waiterVars
<1>1. UNCHANGED <<tpc, session>>
  BY <1>0 DEF threadVars
<1>a. CASE CatAtEOF \/ CatEnds \/ NextCat \/ WatchdogWaits
  <2>1. UNCHANGED <<pipe, writer, made>>
    BY <1>a DEF CatAtEOF, CatEnds, NextCat, WatchdogWaits, resultVars
  <2> QED BY <1>0, <1>1, <2>1, HeldQuiet
<1>b. CASE NextCommand
  <2>1. /\ UNCHANGED <<pipe, writer>> /\ batch # <<>>
        /\ made' = [made EXCEPT ![Served] = IF linked[Served] THEN @ ELSE @ + 1]
    BY <1>b DEF NextCommand, Served
  <2>2. linked[Watchdog] => made'[Watchdog] = made[Watchdog]
    BY <2>1, ServedIs, TypesOf, Constants
  <2>3. wpc = "read" => linked[Watchdog]
    BY DEF Base, Numbering
  <2> QED BY <1>0, <1>1, <2>1, <2>2, <2>3, HeldQuiet
<1>c. CASE DrainOpens
  <2>0. /\ UNCHANGED <<made, writer>> /\ spc = "watch"
        /\ linked[Served] => pipe' = [pipe EXCEPT ![Current(Served)] = OpenForRead(@, "drain")]
        /\ ~linked[Served] => UNCHANGED pipe
    BY <1>c DEF DrainOpens
  <2>1. PICK s \in Session : s = Served
    BY <2>0, ServedIs DEF Base, Loop
  <2>2. CASE linked[s]
    <3>1. PICK i \in Inode : i = Current(s)
      BY <2>2, Numbered
    <3>2. At(i, pipe[i].buf, pipe[i].wr, pipe[i].rd \cup {"drain"},
             pipe[i].met \cup pipe[i].wr \cup (IF pipe[i].wr = {} THEN {} ELSE {"drain"}))
      BY <2>0, <2>1, <2>2, <3>1, OpensAt
    <3>3. /\ pipe'[i].wr = pipe[i].wr /\ pipe'[i].rd = pipe[i].rd \cup {"drain"}
          /\ pipe'[i].met \subseteq pipe[i].met \cup pipe[i].wr \cup {"drain"}
          /\ \A j \in Inode \ {i} : pipe'[j] = pipe[j]
      BY <3>2 DEF At
    <3>4. Ends(i)'
      BY <3>3, <2>0, <1>0, <1>1, Constants DEF Held, Ends
    <3>5. HeldByWriter' /\ HeldByWaiter' /\ HeldByThread'
      BY <3>3, <2>0, <1>0, <1>1, DrainHolds
    <3> QED BY <3>3, <3>4, <3>5, <2>0, <1>0, <1>1 DEF Held, Ends
  <2>3. CASE ~linked[s]
    BY <2>0, <2>1, <2>3, <1>0, <1>1, HeldQuiet
  <2> QED BY <2>2, <2>3
<1>d. CASE \E i \in Inode : DrainAtEOF(i) \/ DrainExpires(i)
  <2>1. PICK i \in Inode : pipe' = [pipe EXCEPT ![i] = Close(@, "drain")]
    BY <1>d DEF DrainAtEOF, DrainExpires, DrainEnds
  <2>2. UNCHANGED <<made, writer>>
    BY <1>d DEF DrainAtEOF, DrainExpires, DrainEnds
  <2>3. Ends(i)'
    BY <2>1, <2>2, <1>0, <1>1, EndsClosed, Constants
  <2>4. /\ pipe'[i].wr = pipe[i].wr \ {"drain"} /\ pipe'[i].rd = pipe[i].rd \ {"drain"}
        /\ \A j \in Inode \ {i} : pipe'[j] = pipe[j]
    BY <2>1, ClosedAt DEF At
  <2>5. HeldByWriter' /\ HeldByWaiter' /\ HeldByThread'
    <3>1. pipe'[i].wr = pipe[i].wr /\ pipe'[i].rd \cup {"drain"} = pipe[i].rd \cup {"drain"}
      BY <2>4, FifoAt, Constants
    <3> QED BY <3>1, <2>4, <2>2, <1>0, <1>1, DrainHolds
  <2> QED BY <2>2, <2>3, <2>4, <2>5, <1>0, <1>1 DEF Held, Ends
<1>e. CASE spc = "run" /\ Executed
  <2>0. PICK out : Run(out)
    BY <1>e DEF Executed
  <2>1. /\ UNCHANGED <<made, pipe>> /\ writer' = [writer EXCEPT ![Served] = [pc |-> "start", inode |-> 0, out |-> out]]
        /\ writer[Served].pc = "none" /\ batch # <<>>
    BY <2>0, <1>e DEF Run, Base, Loop
  <2>2. PICK s \in Session : s = Served
    BY <2>1, ServedIs
  <2>3. /\ writer'[s].pc = "start" /\ writer[s].pc = "none" /\ \A x \in Session \ {s} : writer'[x] = writer[x]
    BY <2>1, <2>2, TypesOf
  <2>4. \A i \in Inode : Ends(i)'
    BY <2>1, <2>3, <1>0, <1>1, Inodes DEF Held, Ends
  <2>5. HeldByWriter' /\ HeldByWaiter' /\ HeldByThread'
    BY <2>1, <2>3, <1>0, <1>1 DEF Held, HeldByWriter, HeldByWaiter, HeldByThread
  <2> QED BY <2>4, <2>5 DEF Held
<1>f. CASE \E i \in Inode : Drained(i)
  <2>1. PICK i \in Inode : DrainReads(i)
    BY <1>f DEF Drained
  <2>2. UNCHANGED <<made, writer>> /\ pipe' = [pipe EXCEPT ![i] = Consume(@)] /\ pipe[i].buf # <<>>
    BY <2>1 DEF DrainReads, CanRead
  <2>3. /\ pipe'[i].wr = pipe[i].wr /\ pipe'[i].rd = pipe[i].rd /\ pipe'[i].met = pipe[i].met
        /\ \A j \in Inode \ {i} : pipe'[j] = pipe[j]
    BY <2>2, ConsumedAt DEF At
  <2>4. \A j \in Inode : Ends(j)'
    BY <2>2, <2>3, <1>0, <1>1 DEF Held, Ends
  <2>5. HeldByWriter' /\ HeldByWaiter' /\ HeldByThread'
    BY <2>2, <2>3, <1>0, <1>1 DEF Held, HeldByWriter, HeldByWaiter, HeldByThread, Base, Opened
  <2> QED BY <2>4, <2>5 DEF Held
<1> QED BY <1>a, <1>b, <1>c, <1>d, <1>e, <1>f DEF Server, ServerStep

LEMMA HeldWriter ==
    ASSUME Base, Held, NEW s \in Session, Writes(s)
    PROVE  Held'
<1>0. Base' /\ UNCHANGED <<tpc, session, wpc, made>>
  BY WriterBase DEF Writes, WriterStep, WriterOpens, WriterWrites, WriterEnds, threadVars, waiterVars
<1>1. NoWriter.pc = "none"
  BY DEF NoWriter
<1>2. ASSUME NEW i \in Inode, i = <<s, writer[s].inode>>, writer[s].pc = "write", writer' = [writer EXCEPT ![s] = NoWriter],
             pipe'[i].wr = {}, pipe'[i].rd = pipe[i].rd, pipe'[i].met = pipe[i].met \ {"writer"},
             \A j \in Inode \ {i} : pipe'[j] = pipe[j]
      PROVE  Held'
  <2>1. writer'[s].pc = "none" /\ \A x \in Session \ {s} : writer'[x] = writer[x]
    BY <1>1, <1>2, TypesOf
  <2>2. Ends(i)'
    <3>1. Ends(i) /\ pipe[i].wr \in SUBSET {"writer"}
      BY FifoAt DEF Held
    <3>2. pipe'[i].met \subseteq pipe'[i].wr \cup pipe'[i].rd
      BY <1>2, <3>1 DEF Ends
    <3> QED BY <1>0, <1>2, <3>1, <3>2 DEF Ends
  <2>3. \A j \in Inode \ {i} : "writer" \in pipe[j].wr => writer'[j[1]].pc = "write" /\ writer'[j[1]].inode = j[2]
    BY <1>2, <2>1, Inodes DEF Held, Ends
  <2>4. i[1] = s
    BY <1>2
  <2>5. \A t \in Thread : i = <<session[t], 1>> /\ tpc[t] = "reading" => t \in pipe[i].rd
    BY DEF Held, HeldByThread
  <2>6. i = <<Watchdog, made[Watchdog]>> /\ wpc = "read" => Watchdog \in pipe[i].rd
    BY DEF Held, HeldByWaiter
  <2> QED BY <1>0, <1>2, <2>1, <2>2, <2>3, <2>4, <2>5, <2>6, HeldAt
<1>a. CASE WriterOpens(s)
  <2>0. writer[s].pc = "start"
    BY <1>a DEF WriterOpens
  <2>1. CASE ~linked[s]
    <3>1. writer' = [writer EXCEPT ![s] = NoWriter] /\ UNCHANGED pipe
      BY <1>a, <2>1 DEF WriterOpens
    <3>2. writer'[s].pc = "none" /\ \A x \in Session \ {s} : writer'[x] = writer[x]
      BY <3>1, <1>1, TypesOf
    <3>3. \A i \in Inode : Ends(i)'
      BY <3>1, <3>2, <2>0, <1>0, Inodes DEF Held, Ends
    <3>4. HeldByWriter' /\ HeldByWaiter' /\ HeldByThread'
      BY <3>1, <3>2, <1>0 DEF Held, HeldByWriter, HeldByWaiter, HeldByThread
    <3> QED BY <3>3, <3>4 DEF Held
  <2>2. CASE linked[s]
    <3>1. PICK i \in Inode : i = Current(s) /\ i = <<s, made[s]>> /\ i[1] = s /\ i[2] = made[s]
      BY <2>2, Numbered
    <3>2. /\ writer' = [writer EXCEPT ![s].pc = "write", ![s].inode = made[s]]
          /\ pipe' = [pipe EXCEPT ![i] = OpenForWrite(@, "writer")]
      BY <1>a, <2>2, <3>1 DEF WriterOpens
    <3>3. writer'[s].pc = "write" /\ writer'[s].inode = made[s] /\ \A x \in Session \ {s} : writer'[x] = writer[x]
      BY <3>2, TypesOf
    <3>4. /\ pipe'[i].wr = pipe[i].wr \cup {"writer"} /\ pipe'[i].rd = pipe[i].rd
          /\ pipe'[i].met \subseteq pipe[i].met \cup pipe[i].rd \cup {"writer"}
          /\ \A j \in Inode \ {i} : pipe'[j] = pipe[j]
      BY <3>2, WriterAt DEF At
    <3>5. Ends(i)'
      BY <3>1, <3>3, <3>4, <1>0 DEF Held, Ends
    <3>6. \A j \in Inode \ {i} : "writer" \in pipe[j].wr => writer'[j[1]].pc = "write" /\ writer'[j[1]].inode = j[2]
      BY <2>0, <3>3, Inodes DEF Held, Ends
    <3>7. \A t \in Thread : i = <<session[t], 1>> /\ tpc[t] = "reading" => t \in pipe[i].rd
      BY DEF Held, HeldByThread
    <3>8. i = <<Watchdog, made[Watchdog]>> /\ wpc = "read" => Watchdog \in pipe[i].rd
      BY DEF Held, HeldByWaiter
    <3> QED BY <1>0, <3>1, <3>3, <3>4, <3>5, <3>6, <3>7, <3>8, HeldAt
  <2> QED BY <2>1, <2>2
<1>b. CASE WriterWrites(s)
  <2>1. writer[s].pc = "write" /\ writer[s].out # <<>>
    BY <1>b DEF WriterWrites
  <2>2. PICK i \in Inode : i = <<s, writer[s].inode>>
    BY <2>1 DEF Base, Opened
  <2>3. PICK x \in Chunk : x = Head(writer[s].out)
    BY <2>1, TypesOf, HeadTailProperties
  <2>4. CASE pipe' = [pipe EXCEPT ![i] = Write(pipe[i], x)] /\ writer' = [writer EXCEPT ![s].out = Tail(@)]
    <3>1. /\ writer'[s].pc = writer[s].pc /\ writer'[s].inode = writer[s].inode
          /\ \A y \in Session \ {s} : writer'[y] = writer[y]
      BY <2>4, TypesOf
    <3>2. /\ pipe'[i].wr = pipe[i].wr /\ pipe'[i].rd = pipe[i].rd /\ pipe'[i].met = pipe[i].met
          /\ \A j \in Inode \ {i} : pipe'[j] = pipe[j]
      BY <2>4, WrittenAt DEF At
    <3>3. \A y \in Session : writer'[y].pc = writer[y].pc /\ writer'[y].inode = writer[y].inode
      BY <3>1
    <3>4. \A j \in Inode : pipe'[j].wr = pipe[j].wr /\ pipe'[j].rd = pipe[j].rd /\ pipe'[j].met = pipe[j].met
      BY <3>2
    <3>5. \A j \in Inode : Ends(j)'
      BY <3>3, <3>4, <1>0, Inodes DEF Held, Ends
    <3>6. HeldByWriter' /\ HeldByWaiter' /\ HeldByThread'
      <4>1. HeldByWriter'
        BY <3>3, <3>4 DEF Held, HeldByWriter, Base, Opened
      <4>2. wpc = "read" => <<Watchdog, made[Watchdog]>> \in Inode
        BY Numbered, Constants DEF Base, Numbering
      <4>3. ASSUME NEW t \in Thread, tpc[t] = "reading" PROVE <<session[t], 1>> \in Inode
        <5>1. session[t] \in Own /\ Own \subseteq Session \ {Watchdog}
          BY <4>3, ThreadOf
        <5> QED BY <5>1, Inodes
      <4> QED BY <1>0, <3>4, <4>1, <4>2, <4>3 DEF Held, HeldByWaiter, HeldByThread
    <3> QED BY <3>5, <3>6 DEF Held
  <2>5. CASE pipe' = [pipe EXCEPT ![i] = Close(Write(pipe[i], x), "writer")] /\ writer' = [writer EXCEPT ![s] = NoWriter]
    <3>1. /\ pipe'[i].wr = {} /\ pipe'[i].rd = pipe[i].rd /\ pipe'[i].met = pipe[i].met \ {"writer"}
          /\ \A j \in Inode \ {i} : pipe'[j] = pipe[j]
      BY <2>5, LastAt DEF At
    <3> QED BY <1>2, <2>1, <2>2, <2>5, <3>1
  <2> QED BY <1>b, <2>2, <2>3, <2>4, <2>5 DEF WriterWrites
<1>c. CASE WriterEnds(s)
  <2>1. writer[s].pc = "write"
    BY <1>c DEF WriterEnds
  <2>2. PICK i \in Inode : i = <<s, writer[s].inode>>
    BY <2>1 DEF Base, Opened
  <2>3. pipe' = [pipe EXCEPT ![i] = Close(@, "writer")] /\ writer' = [writer EXCEPT ![s] = NoWriter]
    BY <1>c, <2>2 DEF WriterEnds
  <2>4. /\ pipe'[i].wr = pipe[i].wr \ {"writer"} /\ pipe'[i].rd = pipe[i].rd \ {"writer"}
        /\ pipe'[i].met = pipe[i].met \ {"writer"} /\ \A j \in Inode \ {i} : pipe'[j] = pipe[j]
    BY <2>3, ClosedAt DEF At
  <2>5. pipe'[i].wr = {} /\ pipe'[i].rd = pipe[i].rd
    BY <2>4, FifoAt, Constants
  <2> QED BY <1>2, <2>1, <2>2, <2>3, <2>4, <2>5
<1> QED BY <1>a, <1>b, <1>c DEF Writes, WriterStep

LEMMA HeldThread ==
    ASSUME Base, Held, NEW t \in Thread, Asks(t) \/ Acts(t)
    PROVE  Held'
<1>0. Base' /\ UNCHANGED <<wpc, made, writer>>
  <2>1. CASE Asks(t)
    BY <2>1, SendBase DEF Asks, Send, waiterVars, serverVars
  <2>2. CASE Acts(t)
    BY <2>2, ThreadBase DEF Acts, ThreadStep, OpenCommand, OpenExpires, WriteCommand, CutCommand, OpenResult, WaitExpires,
         ReadResult, TakeResult, ReadExpires, waiterVars, serverVars, resultVars
  <2> QED BY <2>1, <2>2
<1>1. tpc \in [Thread -> {"idle", "opening", "writing", "waiting", "reading"}]
      /\ session \in [Thread -> Session \cup {NoSession}]
  BY DEF Base, TypeOK, ThreadTypeOK
<1>2. ASSUME UNCHANGED pipe, tpc[t] # "reading", NEW pc, pc # "reading", tpc' = [tpc EXCEPT ![t] = pc],
             \A u \in Thread \ {t} : session'[u] = session[u]
      PROVE  Held'
  <2>1. \A u \in Thread : tpc[u] = "reading" \/ tpc'[u] = "reading" => tpc'[u] = tpc[u] /\ session'[u] = session[u]
    BY <1>1, <1>2
  <2> QED BY <1>0, <1>2, <2>1, HeldQuiet
<1>3. ASSUME tpc[t] = "reading", pipe' = [pipe EXCEPT ![Current(session[t])] = Close(@, t)],
             tpc' = [tpc EXCEPT ![t] = "idle"], session' = [session EXCEPT ![t] = NoSession]
      PROVE  Held'
  <2>1. PICK i \in Inode : i = Current(session[t]) /\ i = <<session[t], 1>> /\ i[1] = session[t] /\ session[t] # Watchdog
    BY <1>3, ThreadOf
  <2>2. tpc'[t] = "idle" /\ \A u \in Thread \ {t} : tpc'[u] = tpc[u] /\ session'[u] = session[u]
    BY <1>1, <1>3
  <2>3. Ends(i)'
    <3>1. t # "writer" /\ t # Watchdog
      BY Constants
    <3> QED BY <1>0, <1>3, <2>1, <2>2, <3>1, EndsClosed
  <2>4. /\ pipe'[i].wr = pipe[i].wr \ {t} /\ pipe'[i].rd = pipe[i].rd \ {t}
        /\ \A j \in Inode \ {i} : pipe'[j] = pipe[j]
    BY <1>3, <2>1, ClosedAt DEF At
  <2>5. pipe'[i].wr = pipe[i].wr
    BY <2>4, FifoAt, Constants
  <2>6. /\ writer[i[1]].pc = "write" => "writer" \in pipe'[<<i[1], writer[i[1]].inode>>].wr
    BY <2>1, <2>4, <2>5, ThreadOf, <1>3 DEF Held, HeldByWriter, Base, Opened
  <2>7. \A j \in Inode \ {i} : "writer" \in pipe[j].wr => writer[j[1]].pc = "write" /\ writer[j[1]].inode = j[2]
    BY DEF Held, Ends
  <2>8. \A u \in Thread : i # <<session[u], 1>> => tpc'[u] = tpc[u] /\ session'[u] = session[u]
    BY <2>1, <2>2
  <2>9. \A u \in Thread : i = <<session[u], 1>> /\ tpc'[u] = "reading" => session'[u] = session[u] /\ u \in pipe'[i].rd
    BY <2>1, <2>2, <2>4 DEF Held, HeldByThread
  <2> QED BY <1>0, <2>1, <2>3, <2>4, <2>6, <2>7, <2>8, <2>9, HeldAt
<1>a. CASE Asks(t)
  <2>1. PICK keep : Send(t, keep)
    BY <1>a DEF Asks
  <2> QED BY <1>1, <1>2, <2>1 DEF Send, serverVars
<1>b. CASE OpenCommand(t)
  BY <1>b, <1>2 DEF OpenCommand, resultVars
<1>c. CASE OpenExpires(t) \/ WaitExpires(t)
  BY <1>c, <1>1, <1>2 DEF OpenExpires, WaitExpires, Unanswered, serverVars, resultVars
<1>d. CASE WriteCommand(t)
  BY <1>d, <1>1, <1>2 DEF WriteCommand, Unanswered, resultVars
<1>e. CASE CutCommand(t)
  BY <1>e, <1>1, <1>2 DEF CutCommand, Unanswered, resultVars
<1>f. CASE OpenResult(t)
  <2>0. /\ tpc[t] = "waiting" /\ linked[session[t]] /\ pipe' = [pipe EXCEPT ![Current(session[t])] = OpenForRead(@, t)]
        /\ tpc' = [tpc EXCEPT ![t] = "reading"] /\ UNCHANGED session
    BY <1>f DEF OpenResult
  <2>1. tpc'[t] = "reading" /\ \A u \in Thread \ {t} : tpc'[u] = tpc[u]
    BY <1>1, <2>0
  <2>2. PICK i \in Inode : i = Current(session[t]) /\ i = <<session[t], 1>> /\ i[1] = session[t] /\ session[t] # Watchdog
    <3>1. /\ session[t] \in Session /\ session[t] # Watchdog
          /\ Current(session[t]) = <<session[t], made[session[t]]>>
      BY <2>0, ThreadOf DEF Current
    <3>2. made[session[t]] = 1
      BY <2>0, <3>1 DEF Base, Numbering
    <3> QED BY <3>1, <3>2, <2>0, Numbered
  <2>3. /\ pipe'[i].wr = pipe[i].wr /\ pipe'[i].rd = pipe[i].rd \cup {t}
        /\ pipe'[i].met \subseteq pipe[i].met \cup pipe[i].wr \cup {t}
        /\ \A j \in Inode \ {i} : pipe'[j] = pipe[j]
    <3>1. At(i, pipe[i].buf, pipe[i].wr, pipe[i].rd \cup {t},
             pipe[i].met \cup pipe[i].wr \cup (IF pipe[i].wr = {} THEN {} ELSE {t}))
      BY <2>0, <2>2, OpensAt, Constants
    <3> QED BY <3>1 DEF At
  <2>4. Ends(i)'
    BY <1>0, <2>0, <2>1, <2>2, <2>3, Constants DEF Held, Ends
  <2>6. writer[i[1]].pc = "write" => "writer" \in pipe'[<<i[1], writer[i[1]].inode>>].wr
    <3>1. i[1] \in Session
      BY Inodes
    <3> QED BY <3>1, <2>2, <2>3 DEF Held, HeldByWriter, Base, Opened
  <2>7. \A j \in Inode \ {i} : "writer" \in pipe[j].wr => writer[j[1]].pc = "write" /\ writer[j[1]].inode = j[2]
    BY DEF Held, Ends
  <2>8. \A u \in Thread : i # <<session[u], 1>> => tpc'[u] = tpc[u] /\ session'[u] = session[u]
    BY <2>0, <2>1, <2>2
  <2>9. \A u \in Thread : i = <<session[u], 1>> /\ tpc'[u] = "reading" => session'[u] = session[u] /\ u \in pipe'[i].rd
    BY <2>0, <2>1, <2>2, <2>3 DEF Held, HeldByThread
  <2> QED BY <1>0, <2>2, <2>3, <2>4, <2>6, <2>7, <2>8, <2>9, HeldAt
<1>g. CASE ReadResult(t)
  <2>0. /\ tpc[t] = "reading" /\ pipe' = [pipe EXCEPT ![Current(session[t])] = Consume(@)]
        /\ pipe[Current(session[t])].buf # <<>> /\ UNCHANGED <<tpc, session>>
    BY <1>g DEF ReadResult, CanRead
  <2>1. PICK i \in Inode : i = Current(session[t])
    BY <2>0, ThreadOf
  <2>2. /\ pipe'[i].wr = pipe[i].wr /\ pipe'[i].rd = pipe[i].rd /\ pipe'[i].met = pipe[i].met
        /\ \A j \in Inode \ {i} : pipe'[j] = pipe[j]
    BY <2>0, <2>1, ConsumedAt DEF At
  <2>3. HeldByWriter' /\ HeldByWaiter' /\ HeldByThread'
    BY <1>0, <2>0, <2>2, DrainHolds
  <2> QED BY <1>0, <2>0, <2>2, <2>3 DEF Held, Ends
<1>h. CASE TakeResult(t)
  BY <1>h, <1>3 DEF TakeResult
<1>i. CASE ReadExpires(t)
  BY <1>i, <1>3 DEF ReadExpires, Unanswered
<1> QED BY <1>a, <1>b, <1>c, <1>d, <1>e, <1>f, <1>g, <1>h, <1>i DEF Acts, ThreadStep

LEMMA HeldWaiter ==
    ASSUME Base, Held, Starts \/ Waits
    PROVE  Held'
<1>0. Base' /\ UNCHANGED <<tpc, session, made, writer>>
  <2>1. CASE Starts
    BY <2>1, StartBase DEF Starts, Start, threadVars
  <2>2. CASE Waits
    BY <2>2, WaiterBase DEF Waits, WaiterStep, OpenQuery, WriteQuery, SendExpires, ResultAppears, OpenAnswer, ReadAnswer,
         AnswerEnds, AnswerExpires, threadVars, serverVars, resultVars
  <2> QED BY <2>1, <2>2
<1>1. wpc = "read" => Current(Watchdog) = <<Watchdog, made[Watchdog]>> /\ Current(Watchdog) \in Inode
  BY Numbered, Constants DEF Base, Numbering
<1>2. Answer = pipe[Current(Watchdog)]
  BY DEF Answer
<1>a. CASE Starts
  BY <1>a, <1>0, HeldQuiet DEF Starts, Start
<1>b. CASE OpenQuery \/ WriteQuery \/ SendExpires \/ ResultAppears
  <2>1. UNCHANGED <<pipe, writer>> /\ wpc # "read" /\ wpc' # "read"
    BY <1>b DEF OpenQuery, WriteQuery, SendExpires, ResultAppears, AttemptFails, resultVars, serverVars
  <2> QED BY <1>0, <2>1, HeldQuiet
<1>c. CASE OpenAnswer
  <2>0. wpc = "receive" /\ wpc' = "read" /\ pipe' = [pipe EXCEPT ![Current(Watchdog)] = OpenForRead(@, Watchdog)]
    BY <1>c DEF OpenAnswer
  <2>1. PICK i \in Inode : i = Current(Watchdog) /\ i = <<Watchdog, made[Watchdog]>> /\ i[1] = Watchdog
    BY <2>0, Numbered, Constants DEF Base, Numbering
  <2>2. At(i, pipe[i].buf, pipe[i].wr, pipe[i].rd \cup {Watchdog},
           pipe[i].met \cup pipe[i].wr \cup (IF pipe[i].wr = {} THEN {} ELSE {Watchdog}))
    BY <2>0, <2>1, OpensAt, Constants
  <2>3. /\ pipe'[i].wr = pipe[i].wr /\ pipe'[i].rd = pipe[i].rd \cup {Watchdog}
        /\ pipe'[i].met \subseteq pipe[i].met \cup pipe[i].wr \cup {Watchdog}
        /\ \A j \in Inode \ {i} : pipe'[j] = pipe[j]
    BY <2>2 DEF At
  <2>4. Ends(i)'
    BY <1>0, <2>0, <2>1, <2>3, Constants DEF Held, Ends
  <2>5. writer[i[1]].pc = "write" => "writer" \in pipe'[<<i[1], writer[i[1]].inode>>].wr
    BY <2>1, <2>3, Constants DEF Held, HeldByWriter, Base, Opened
  <2>6. \A j \in Inode \ {i} : "writer" \in pipe[j].wr => writer[j[1]].pc = "write" /\ writer[j[1]].inode = j[2]
    BY DEF Held, Ends
  <2>7. \A t \in Thread : i = <<session[t], 1>> /\ tpc[t] = "reading" => t \in pipe'[i].rd
    BY <2>3 DEF Held, HeldByThread
  <2> QED BY <1>0, <2>0, <2>1, <2>3, <2>4, <2>5, <2>6, <2>7, HeldAt
<1>d. CASE ReadAnswer
  <2>0. /\ wpc = "read" /\ wpc' = "read" /\ pipe' = [pipe EXCEPT ![Current(Watchdog)] = Consume(@)]
        /\ pipe[Current(Watchdog)].buf # <<>>
    BY <1>d, <1>2 DEF ReadAnswer, CanRead
  <2>1. PICK i \in Inode : i = Current(Watchdog)
    BY <2>0, <1>1
  <2>2. /\ pipe'[i].wr = pipe[i].wr /\ pipe'[i].rd = pipe[i].rd /\ pipe'[i].met = pipe[i].met
        /\ \A j \in Inode \ {i} : pipe'[j] = pipe[j]
    BY <2>0, <2>1, ConsumedAt DEF At
  <2>3. HeldByWriter' /\ HeldByWaiter' /\ HeldByThread'
    BY <1>0, <2>0, <2>2, DrainHolds
  <2> QED BY <1>0, <2>0, <2>2, <2>3 DEF Held, Ends
<1>e. CASE AnswerEnds \/ AnswerExpires
  <2>0. /\ wpc = "read" /\ pipe' = [pipe EXCEPT ![Current(Watchdog)] = Close(@, Watchdog)]
        /\ wpc' \in {"ready", "down", "send"}
    BY <1>e DEF AnswerEnds, AnswerExpires, AttemptFails
  <2>1. PICK i \in Inode : i = Current(Watchdog) /\ i = <<Watchdog, made[Watchdog]>> /\ i[1] = Watchdog
    BY <2>0, <1>1
  <2>2. Ends(i)'
    BY <1>0, <2>0, <2>1, EndsClosed, Constants
  <2>3. /\ pipe'[i].wr = pipe[i].wr \ {Watchdog} /\ pipe'[i].rd = pipe[i].rd \ {Watchdog}
        /\ \A j \in Inode \ {i} : pipe'[j] = pipe[j]
    BY <2>0, <2>1, ClosedAt DEF At
  <2>4. pipe'[i].wr = pipe[i].wr
    BY <2>3, FifoAt, Constants
  <2>5. writer[i[1]].pc = "write" => "writer" \in pipe'[<<i[1], writer[i[1]].inode>>].wr
    BY <2>1, <2>3, <2>4, Constants DEF Held, HeldByWriter, Base, Opened
  <2>6. \A j \in Inode \ {i} : "writer" \in pipe[j].wr => writer[j[1]].pc = "write" /\ writer[j[1]].inode = j[2]
    BY DEF Held, Ends
  <2>7. \A t \in Thread : i = <<session[t], 1>> /\ tpc[t] = "reading" => t \in pipe'[i].rd
    BY <2>3, Constants DEF Held, HeldByThread
  <2> QED BY <1>0, <2>0, <2>1, <2>2, <2>3, <2>5, <2>6, <2>7, HeldAt
<1> QED BY <1>a, <1>b, <1>c, <1>d, <1>e DEF Waits, WaiterStep

LEMMA HeldStep == Base /\ Held /\ [Next]_vars => Held'
<1>1. ASSUME Held, UNCHANGED vars PROVE Held'
  BY <1>1, HeldQuiet DEF vars, serverVars, threadVars, waiterVars
<1> QED BY <1>1, HeldServer, HeldWriter, HeldThread, HeldWaiter DEF Next

-----------------------------------------------------------------------------
(* What the waiter may conclude from the end of an answer.                 *)

\* An executor has ended its answer to the waiter without naming a service.
NobodyNamed == nothingMissing \/ silent

\* The waiter's writer with nothing to write brings that answer.
EmptyIsAnswer == writer[Watchdog].pc # "none" /\ writer[Watchdog].out = <<>> => NobodyNamed

\* While the waiter's cat has met a writer and has read nothing, the answer
\* is still to come or in the FIFO, unless there is nothing to say.
AnswerToCome ==
    wpc = "read" /\ ~heard /\ ~NobodyNamed /\ ~contested /\ Watchdog \in Answer.met =>
        "writer" \in Answer.wr \/ Answer.buf # <<>>

Told == EmptyIsAnswer /\ AnswerToCome /\ ReadyIsTold

AnswerAt == <<Watchdog, made[Watchdog]>>

LEMMA AnswerIs ==
    ASSUME Base
    PROVE  Answer = pipe[AnswerAt] /\ (wpc \in {"receive", "read"} => AnswerAt \in Inode /\ linked[Watchdog])
BY Numbered, Constants DEF Answer, AnswerAt, Current, Base, Numbering

LEMMA ToldInit == Init => Told
BY Constants DEF Init, ServerInit, WaiterInit, NoWriter, Told, EmptyIsAnswer, AnswerToCome, ReadyIsTold

\* A step of somebody else keeps what the waiter may conclude.
LEMMA ToldFrame ==
    ASSUME Base, Told, UNCHANGED <<wpc, heard, contested>>, NobodyNamed => NobodyNamed', EmptyIsAnswer',
           wpc = "read" => /\ made'[Watchdog] = made[Watchdog]
                           /\ Watchdog \in pipe'[AnswerAt].met => Watchdog \in pipe[AnswerAt].met
                           /\ "writer" \in pipe[AnswerAt].wr \/ pipe[AnswerAt].buf # <<>> =>
                                  "writer" \in pipe'[AnswerAt].wr \/ pipe'[AnswerAt].buf # <<>> \/ NobodyNamed'
    PROVE  Told'
<1>1. AnswerToCome'
  BY AnswerIs DEF Told, AnswerToCome, Answer, AnswerAt, Current
<1>2. ReadyIsTold'
  BY DEF Told, ReadyIsTold, NobodyNamed
<1> QED BY <1>1, <1>2 DEF Told

LEMMA ToldServer == Base /\ Held /\ Told /\ Server => Told'
<1> SUFFICES ASSUME Base, Held, Told, Server PROVE Told'
  OBVIOUS
<1>0. UNCHANGED <<wpc, heard>>
  BY DEF Server, waiterVars
<1>a. CASE spc = "run" /\ Executed
  <2>0. PICK out \in Results(Head(batch)) :
           /\ Run(out) /\ UNCHANGED contested /\ (NobodyNamed => NobodyNamed')
           /\ Head(batch).session = Watchdog /\ out = <<>> => NobodyNamed'
    BY <1>a DEF Executed, NobodyNamed
  <2>1. /\ UNCHANGED <<made, pipe>> /\ writer' = [writer EXCEPT ![Served] = [pc |-> "start", inode |-> 0, out |-> out]]
        /\ batch # <<>>
    BY <2>0, <1>a DEF Run, Base, Loop
  <2>2. PICK s \in Session : s = Served
    BY <2>1, ServedIs
  <2>3. writer'[s].out = out /\ Head(batch).session = s /\ \A x \in Session \ {s} : writer'[x] = writer[x]
    BY <2>1, <2>2, ServedIs, TypesOf
  <2>5. EmptyIsAnswer'
    BY <2>0, <2>3, Constants DEF Told, EmptyIsAnswer
  <2> QED BY <1>0, <2>0, <2>1, <2>5, ToldFrame
<1>b. CASE \E i \in Inode : Drained(i)
  <2>0. PICK i \in Inode : DrainReads(i) /\ contested' = (contested \/ Watchdog \in pipe[i].rd) /\ UNCHANGED <<nothingMissing, silent>>
    BY <1>b DEF Drained
  <2>1. UNCHANGED <<made, writer>> /\ pipe' = [pipe EXCEPT ![i] = Consume(@)] /\ pipe[i].buf # <<>>
    BY <2>0 DEF DrainReads, CanRead
  <2>2. \A j \in Inode \ {i} : pipe'[j] = pipe[j]
    BY <2>1, ConsumedAt DEF At
  <2>3. EmptyIsAnswer'
    BY <2>0, <2>1 DEF Told, EmptyIsAnswer, NobodyNamed
  <2>4. CASE wpc = "read" /\ i = AnswerAt
    <3>1. contested'
      BY <2>0, <2>4 DEF Held, HeldByWaiter, AnswerAt
    <3> QED BY <3>1, <2>3 DEF Told, AnswerToCome, ReadyIsTold
  <2>5. CASE ~(wpc = "read" /\ i = AnswerAt)
    <3>1. wpc = "read" => pipe'[AnswerAt] = pipe[AnswerAt]
      BY <2>2, <2>5, AnswerIs
    <3>2. contested => contested'
      BY <2>0
    <3>3. AnswerToCome'
      BY <1>0, <2>0, <2>1, <3>1, <3>2, AnswerIs DEF Told, AnswerToCome, Answer, AnswerAt, Current, NobodyNamed
    <3> QED BY <1>0, <2>0, <2>3, <3>2, <3>3 DEF Told, ReadyIsTold, NobodyNamed
  <2> QED BY <2>4, <2>5
<1>c. CASE ServerStep /\ UNCHANGED <<threadVars, waiterVars>>
  <2>0. UNCHANGED <<writer, nothingMissing, silent, contested>>
    BY <1>c DEF ServerStep, CatAtEOF, CatEnds, NextCat, NextCommand, DrainOpens, WatchdogWaits, DrainAtEOF, DrainExpires,
       DrainEnds, resultVars, waiterVars, historyVars
  <2>1. EmptyIsAnswer'
    BY <2>0 DEF Told, EmptyIsAnswer, NobodyNamed
  <2>2. SUFFICES ASSUME wpc = "read"
                 PROVE  /\ made'[Watchdog] = made[Watchdog]
                        /\ Watchdog \in pipe'[AnswerAt].met => Watchdog \in pipe[AnswerAt].met
                        /\ "writer" \in pipe[AnswerAt].wr \/ pipe[AnswerAt].buf # <<>> =>
                               "writer" \in pipe'[AnswerAt].wr \/ pipe'[AnswerAt].buf # <<>>
    BY <1>0, <2>0, <2>1, ToldFrame DEF NobodyNamed
  <2>3. AnswerAt \in Inode /\ linked[Watchdog] /\ Watchdog \in pipe[AnswerAt].rd
    BY <2>2, AnswerIs DEF Held, HeldByWaiter, AnswerAt
  <2>4. CASE CatAtEOF \/ CatEnds \/ NextCat \/ WatchdogWaits
    BY <2>4 DEF CatAtEOF, CatEnds, NextCat, WatchdogWaits, resultVars
  <2>5. CASE NextCommand
    <3>1. /\ UNCHANGED pipe /\ batch # <<>>
          /\ made' = [made EXCEPT ![Served] = IF linked[Served] THEN @ ELSE @ + 1]
      BY <2>5 DEF NextCommand, Served
    <3> QED BY <3>1, <2>3, ServedIs, TypesOf, Constants
  <2>6. CASE DrainOpens
    <3>0. /\ UNCHANGED made /\ spc = "watch"
          /\ linked[Served] => pipe' = [pipe EXCEPT ![Current(Served)] = OpenForRead(@, "drain")]
          /\ ~linked[Served] => UNCHANGED pipe
      BY <2>6 DEF DrainOpens
    <3>1. PICK s \in Session : s = Served
      BY <3>0, ServedIs DEF Base, Loop
    <3>2. CASE linked[s]
      <4>1. PICK i \in Inode : i = Current(s)
        BY <3>2, Numbered
      <4>2. At(i, pipe[i].buf, pipe[i].wr, pipe[i].rd \cup {"drain"},
               pipe[i].met \cup pipe[i].wr \cup (IF pipe[i].wr = {} THEN {} ELSE {"drain"}))
        BY <3>0, <3>1, <3>2, <4>1, OpensAt
      <4>3. /\ pipe'[i].wr = pipe[i].wr /\ pipe'[i].buf = pipe[i].buf
            /\ pipe'[i].met \subseteq pipe[i].met \cup pipe[i].wr \cup {"drain"}
            /\ \A j \in Inode \ {i} : pipe'[j] = pipe[j]
        BY <4>2 DEF At
      <4>4. Watchdog \notin pipe[i].wr \cup {"drain"}
        BY FifoAt, Constants
      <4> QED BY <2>3, <3>0, <4>3, <4>4
    <3>3. CASE ~linked[s]
      BY <3>0, <3>1, <3>3
    <3> QED BY <3>2, <3>3
  <2>7. CASE \E i \in Inode : DrainAtEOF(i) \/ DrainExpires(i)
    <3>1. PICK i \in Inode : pipe' = [pipe EXCEPT ![i] = Close(@, "drain")]
      BY <2>7 DEF DrainAtEOF, DrainExpires, DrainEnds
    <3>2. UNCHANGED made
      BY <2>7 DEF DrainAtEOF, DrainExpires, DrainEnds
    <3>3. At(i, IF pipe[i].wr \ {"drain"} = {} /\ pipe[i].rd \ {"drain"} = {} THEN <<>> ELSE pipe[i].buf,
             pipe[i].wr \ {"drain"}, pipe[i].rd \ {"drain"}, pipe[i].met \ {"drain"})
      BY <3>1, ClosedAt
    <3>4. CASE i = AnswerAt
      <4>1. Watchdog \in pipe[i].rd \ {"drain"} /\ "writer" # "drain"
        BY <3>4, <2>3, Constants
      <4>2. /\ pipe'[i].buf = pipe[i].buf /\ pipe'[i].wr = pipe[i].wr \ {"drain"}
            /\ pipe'[i].met = pipe[i].met \ {"drain"}
        BY <3>3, <4>1 DEF At
      <4> QED BY <3>2, <3>4, <4>1, <4>2
    <3>5. CASE i # AnswerAt
      BY <3>2, <3>3, <3>5, <2>3 DEF At
    <3> QED BY <3>4, <3>5
  <2> QED BY <1>c, <2>4, <2>5, <2>6, <2>7 DEF ServerStep
<1> QED BY <1>a, <1>b, <1>c DEF Server

LEMMA ToldWriter ==
    ASSUME Base, Held, Told, NEW s \in Session, Writes(s)
    PROVE  Told'
<1>0. UNCHANGED <<wpc, heard, contested, nothingMissing, silent, made>> /\ NobodyNamed' = NobodyNamed
  BY DEF Writes, WriterStep, WriterOpens, WriterWrites, WriterEnds, waiterVars, historyVars, NobodyNamed
<1>1. NoWriter.pc = "none"
  BY DEF NoWriter
<1>2. wpc = "read" => AnswerAt \in Inode /\ Watchdog \in pipe[AnswerAt].rd
  BY AnswerIs DEF Held, HeldByWaiter, AnswerAt
<1>3. ASSUME writer' = [writer EXCEPT ![s] = NoWriter] PROVE EmptyIsAnswer'
  <2>1. writer'[s].pc = "none" /\ \A x \in Session \ {s} : writer'[x] = writer[x]
    BY <1>1, <1>3, TypesOf
  <2> QED BY <1>0, <2>1, Constants DEF Told, EmptyIsAnswer
<1>a. CASE WriterOpens(s)
  <2>1. CASE ~linked[s]
    <3>1. writer' = [writer EXCEPT ![s] = NoWriter] /\ UNCHANGED pipe
      BY <1>a, <2>1 DEF WriterOpens
    <3> QED BY <1>0, <1>3, <3>1, ToldFrame
  <2>2. CASE linked[s]
    <3>1. PICK i \in Inode : i = Current(s)
      BY <2>2, Numbered
    <3>2. /\ writer' = [writer EXCEPT ![s].pc = "write", ![s].inode = made[s]] /\ writer[s].pc = "start"
          /\ pipe' = [pipe EXCEPT ![i] = OpenForWrite(@, "writer")]
      BY <1>a, <2>2, <3>1 DEF WriterOpens
    <3>3. writer'[s].out = writer[s].out /\ \A x \in Session \ {s} : writer'[x] = writer[x]
      BY <3>2, TypesOf
    <3>4. EmptyIsAnswer'
      BY <1>0, <3>2, <3>3, Constants DEF Told, EmptyIsAnswer
    <3>5. "writer" \in pipe'[i].wr /\ \A j \in Inode \ {i} : pipe'[j] = pipe[j]
      BY <3>2, WriterAt DEF At
    <3>6. CASE wpc = "read" /\ i = AnswerAt
      <4>1. "writer" \in Answer'.wr
        BY <1>0, <3>5, <3>6 DEF Answer, AnswerAt, Current
      <4> QED BY <1>0, <3>4, <4>1 DEF Told, AnswerToCome, ReadyIsTold
    <3>7. CASE ~(wpc = "read" /\ i = AnswerAt)
      BY <1>0, <1>2, <3>4, <3>5, <3>7, ToldFrame
    <3> QED BY <3>6, <3>7
  <2> QED BY <2>1, <2>2
<1>b. CASE WriterWrites(s)
  <2>1. writer[s].pc = "write" /\ writer[s].out # <<>>
    BY <1>b DEF WriterWrites
  <2>2. PICK i \in Inode : i = <<s, writer[s].inode>>
    BY <2>1 DEF Base, Opened
  <2>3. PICK x \in Chunk : x = Head(writer[s].out)
    BY <2>1, TypesOf, HeadTailProperties
  <2>4. Append(pipe[i].buf, x) # <<>>
    BY FifoAt, AppendProperties
  <2>5. CASE /\ Len(writer[s].out) > 1 /\ pipe' = [pipe EXCEPT ![i] = Write(pipe[i], x)]
             /\ writer' = [writer EXCEPT ![s].out = Tail(@)]
    <3>1. writer'[s].out = Tail(writer[s].out) /\ \A y \in Session \ {s} : writer'[y] = writer[y]
      BY <2>5, TypesOf
    <3>2. Tail(writer[s].out) # <<>>
      <4>1. PICK o \in Seq(Chunk) : o = writer[s].out
        BY TypesOf
      <4>2. o # <<>> /\ Len(o) > 1
        BY <2>1, <2>5, <4>1
      <4>3. Len(Tail(o)) = Len(o) - 1 /\ Len(o) \in Nat
        BY <4>2, HeadTailProperties, LenProperties
      <4>4. Len(Tail(o)) # 0 /\ Len(<<>>) = 0
        BY <4>2, <4>3, EmptySeq
      <4> QED BY <4>1, <4>4
    <3>3. EmptyIsAnswer'
      BY <1>0, <3>1, <3>2, Constants DEF Told, EmptyIsAnswer
    <3>4. pipe'[i].buf # <<>> /\ pipe'[i].met = pipe[i].met /\ \A j \in Inode \ {i} : pipe'[j] = pipe[j]
      BY <2>4, <2>5, WrittenAt DEF At
    <3>5. wpc = "read" => /\ Watchdog \in pipe'[AnswerAt].met => Watchdog \in pipe[AnswerAt].met
                          /\ pipe'[AnswerAt] = pipe[AnswerAt] \/ pipe'[AnswerAt].buf # <<>>
      BY <1>2, <3>4
    <3> QED BY <1>0, <3>3, <3>5, ToldFrame
  <2>6. CASE pipe' = [pipe EXCEPT ![i] = Close(Write(pipe[i], x), "writer")] /\ writer' = [writer EXCEPT ![s] = NoWriter]
    <3>1. At(i, IF pipe[i].rd = {} THEN <<>> ELSE Append(pipe[i].buf, x), {}, pipe[i].rd, pipe[i].met \ {"writer"})
      BY <2>6, LastAt
    <3>2. wpc = "read" => /\ Watchdog \in pipe'[AnswerAt].met => Watchdog \in pipe[AnswerAt].met
                          /\ pipe'[AnswerAt] = pipe[AnswerAt] \/ pipe'[AnswerAt].buf # <<>>
      BY <1>2, <2>4, <3>1 DEF At
    <3> QED BY <1>0, <1>3, <2>6, <3>2, ToldFrame
  <2> QED BY <1>b, <2>2, <2>3, <2>5, <2>6 DEF WriterWrites
<1>c. CASE WriterEnds(s)
  <2>1. writer[s].pc = "write"
    BY <1>c DEF WriterEnds
  <2>2. PICK i \in Inode : i = <<s, writer[s].inode>>
    BY <2>1 DEF Base, Opened
  <2>3. /\ pipe' = [pipe EXCEPT ![i] = Close(@, "writer")] /\ writer' = [writer EXCEPT ![s] = NoWriter]
        /\ writer[s].out = <<>> \/ pipe[i].rd = {}
    BY <1>c, <2>2 DEF WriterEnds, IsBroken
  <2>4. /\ pipe'[i].met = pipe[i].met \ {"writer"} /\ \A j \in Inode \ {i} : pipe'[j] = pipe[j]
    BY <2>3, ClosedAt DEF At
  <2>5. i = AnswerAt /\ writer[s].out = <<>> => NobodyNamed
    BY <2>1, <2>2 DEF Told, EmptyIsAnswer, AnswerAt
  <2>6. wpc = "read" => /\ Watchdog \in pipe'[AnswerAt].met => Watchdog \in pipe[AnswerAt].met
                        /\ pipe'[AnswerAt] = pipe[AnswerAt] \/ NobodyNamed
    BY <1>2, <2>3, <2>4, <2>5
  <2> QED BY <1>0, <1>3, <2>3, <2>6, ToldFrame
<1> QED BY <1>a, <1>b, <1>c DEF Writes, WriterStep

LEMMA ToldThread ==
    ASSUME Base, Held, Told, NEW t \in Thread, Asks(t) \/ Acts(t)
    PROVE  Told'
<1>0. UNCHANGED <<wpc, made, writer, heard, contested, nothingMissing, silent>> /\ NobodyNamed' = NobodyNamed
  <2>1. CASE Asks(t)
    BY <2>1 DEF Asks, Send, waiterVars, serverVars, historyVars, NobodyNamed
  <2>2. CASE Acts(t)
    BY <2>2 DEF Acts, ThreadStep, OpenCommand, OpenExpires, WriteCommand, CutCommand, OpenResult, WaitExpires,
         ReadResult, TakeResult, ReadExpires, waiterVars, serverVars, resultVars, historyVars, NobodyNamed
  <2> QED BY <2>1, <2>2
<1>1. EmptyIsAnswer'
  BY <1>0 DEF Told, EmptyIsAnswer
<1>2. pipe' = pipe \/ (tpc[t] # "idle" /\ \E q : pipe' = [pipe EXCEPT ![Current(session[t])] = q])
  <2>1. CASE Asks(t)
    BY <2>1 DEF Asks, Send, serverVars
  <2>2. CASE Acts(t)
    BY <2>2 DEF Acts, ThreadStep, OpenCommand, OpenExpires, WriteCommand, CutCommand, OpenResult, WaitExpires,
         ReadResult, TakeResult, ReadExpires, serverVars, resultVars
  <2> QED BY <2>1, <2>2
<1>3. wpc = "read" => pipe'[AnswerAt] = pipe[AnswerAt]
  <2>1. CASE pipe' = pipe
    BY <2>1
  <2>2. CASE tpc[t] # "idle" /\ \E q : pipe' = [pipe EXCEPT ![Current(session[t])] = q]
    <3>1. Current(session[t]) # AnswerAt
      BY <2>2, ThreadOf DEF Current, AnswerAt
    <3>2. wpc = "read" => AnswerAt \in Inode
      BY AnswerIs
    <3> QED BY <2>2, <3>1, <3>2, TypesOf
  <2> QED BY <1>2, <2>1, <2>2
<1> QED BY <1>0, <1>1, <1>3, ToldFrame

LEMMA ToldWaiter ==
    ASSUME Base, Held, Told, Starts \/ Waits
    PROVE  Told'
<1>0. UNCHANGED <<writer, contested, nothingMissing, silent, made>> /\ NobodyNamed' = NobodyNamed
  <2>1. CASE Starts
    BY <2>1 DEF Starts, Start, historyVars, NobodyNamed
  <2>2. CASE Waits
    <3>1. UNCHANGED historyVars
      BY <2>2 DEF Waits, WaiterStep, OpenQuery, WriteQuery, SendExpires, ResultAppears, OpenAnswer, ReadAnswer,
           AnswerEnds, AnswerExpires
    <3>2. UNCHANGED <<writer, made>>
      BY <2>2 DEF Waits, WaiterStep, OpenQuery, WriteQuery, SendExpires, ResultAppears, OpenAnswer, ReadAnswer,
           AnswerEnds, AnswerExpires, serverVars, resultVars
    <3> QED BY <3>1, <3>2 DEF historyVars, NobodyNamed
  <2> QED BY <2>1, <2>2
<1>1. EmptyIsAnswer'
  BY <1>0 DEF Told, EmptyIsAnswer
<1>2. ASSUME wpc' \notin {"read", "ready"} PROVE Told'
  BY <1>1, <1>2 DEF Told, AnswerToCome, ReadyIsTold
<1>a. CASE Starts \/ OpenQuery \/ WriteQuery \/ SendExpires \/ ResultAppears \/ AnswerExpires
  <2>1. wpc' \notin {"read", "ready"}
    BY <1>a DEF Starts, Start, OpenQuery, WriteQuery, SendExpires, ResultAppears, AnswerExpires, AttemptFails
  <2> QED BY <1>2, <2>1
<1>b. CASE OpenAnswer
  <2>0. wpc = "receive" /\ wpc' = "read" /\ pipe' = [pipe EXCEPT ![Current(Watchdog)] = OpenForRead(@, Watchdog)]
    BY <1>b DEF OpenAnswer
  <2>1. PICK i \in Inode : i = Current(Watchdog) /\ i = AnswerAt
    BY <2>0, AnswerIs DEF Current, AnswerAt
  <2>2. At(i, pipe[i].buf, pipe[i].wr, pipe[i].rd \cup {Watchdog},
           pipe[i].met \cup pipe[i].wr \cup (IF pipe[i].wr = {} THEN {} ELSE {Watchdog}))
    BY <2>0, <2>1, OpensAt, Constants
  <2>3. /\ pipe'[i].wr = pipe[i].wr
        /\ pipe'[i].met = pipe[i].met \cup pipe[i].wr \cup (IF pipe[i].wr = {} THEN {} ELSE {Watchdog})
    BY <2>2 DEF At
  <2>4. Watchdog \notin pipe[i].met
    BY <2>0, FifoAt, Constants DEF Held, Ends
  <2>5. Watchdog \in pipe'[i].met => "writer" \in pipe'[i].wr
    BY <2>3, <2>4, FifoAt, Constants
  <2>6. Answer' = pipe'[i]
    BY <1>0, <2>1 DEF Answer, Current
  <2>7. AnswerToCome'
    BY <2>5, <2>6 DEF AnswerToCome
  <2> QED BY <1>1, <2>0, <2>7 DEF Told, ReadyIsTold
<1>c. CASE ReadAnswer
  <2>1. wpc' = "read" /\ heard'
    BY <1>c DEF ReadAnswer
  <2> QED BY <1>1, <2>1 DEF Told, AnswerToCome, ReadyIsTold
<1>d. CASE AnswerEnds
  <2>1. /\ wpc = "read" /\ Watchdog \in Answer.met /\ Answer.buf = <<>> /\ Answer.wr = {} /\ wpc' # "read"
        /\ wpc' = "ready" => ~heard
    BY <1>d DEF AnswerEnds, AtEOF
  <2>2. wpc' = "ready" => NobodyNamed \/ contested
    BY <2>1 DEF Told, AnswerToCome
  <2> QED BY <1>0, <1>1, <2>1, <2>2 DEF Told, AnswerToCome, ReadyIsTold, NobodyNamed
<1> QED BY <1>a, <1>b, <1>c, <1>d DEF Waits, WaiterStep

LEMMA ToldStep == Base /\ Held /\ Told /\ [Next]_vars => Told'
<1>1. ASSUME Told, UNCHANGED vars PROVE Told'
  BY <1>1 DEF vars, serverVars, waiterVars, Told, EmptyIsAnswer, AnswerToCome, ReadyIsTold, Answer, Current, NobodyNamed,
     historyVars
<1> QED BY <1>1, ToldServer, ToldWriter, ToldThread, ToldWaiter DEF Next

(* A service goes on only after an executor ended without naming a missing *)
(* service (ReadyIsTold, wait_for_unavailable_services), whatever restarts,*)
(* timeouts and removals of its FIFO went before, with the one exception   *)
(* the property names: an answer that is late or lost is never taken for   *)
(* an empty one.  What makes it inductive: a cat that has met a      *)
(* writer still has the answer before it until it has read something.      *)
THEOREM ReadyAfterAnswer == Spec => []ReadyIsTold
<1>1. Init => Base /\ Held /\ Told
  BY BaseInit, HeldInit, ToldInit
<1>2. Base /\ Held /\ Told /\ [Next]_vars => (Base /\ Held /\ Told)'
  BY BaseStep, HeldStep, ToldStep
<1>3. Told => ReadyIsTold
  BY DEF Told
<1> QED BY <1>1, <1>2, <1>3, PTL DEF Spec

-----------------------------------------------------------------------------
(* Results as sequences: a chunk that moves from the writer to the FIFO,   *)
(* or from the FIFO to its reader, leaves what the three hold together as  *)
(* it was.                                                                 *)

LEMMA Moved ==
    ASSUME NEW S, NEW b \in Seq(S), NEW o \in Seq(S), o # <<>>
    PROVE  Append(b, Head(o)) \o Tail(o) = b \o o
<1>1. PICK h \in S : h = Head(o)
  BY HeadTailProperties
<1>2. PICK r \in Seq(S) : r = Tail(o)
  BY HeadTailProperties
<1>3. Len(o) \in Nat \ {0} /\ Len(r) = Len(o) - 1 /\ (\A i \in 1 .. Len(r) : r[i] = o[i + 1]) /\ h = o[1]
  BY <1>1, <1>2, HeadTailProperties, EmptySeq
<1>4. PICK a \in Seq(S) : a = Append(b, h)
  BY AppendProperties
<1>5. Len(b) \in Nat /\ Len(a) = Len(b) + 1 /\ (\A i \in 1 .. Len(b) : a[i] = b[i]) /\ a[Len(b) + 1] = h
  BY <1>4, AppendProperties, LenProperties
<1>6. a \o r \in Seq(S) /\ b \o o \in Seq(S) /\ Len(a \o r) = Len(b \o o) /\ Len(b \o o) = Len(b) + Len(o)
  <2>1. a \o r \in Seq(S) /\ Len(a \o r) = Len(a) + Len(r)
    BY ConcatProperties
  <2>2. b \o o \in Seq(S) /\ Len(b \o o) = Len(b) + Len(o)
    BY ConcatProperties
  <2> QED BY <1>3, <1>5, <2>1, <2>2
<1>7. ASSUME NEW i \in 1 .. Len(a \o r) PROVE (a \o r)[i] = (b \o o)[i]
  <2>0. i \in 1 .. Len(a) + Len(r) /\ i \in 1 .. Len(b) + Len(o) /\ i \in Nat
    BY <1>3, <1>5, <1>6, <1>7
  <2>1. /\ (a \o r)[i] = IF i <= Len(a) THEN a[i] ELSE r[i - Len(a)]
        /\ (b \o o)[i] = IF i <= Len(b) THEN b[i] ELSE o[i - Len(b)]
    BY <2>0, ConcatProperties
  <2>2. CASE i <= Len(b)
    BY <2>0, <2>1, <2>2, <1>5
  <2>3. CASE i = Len(b) + 1
    BY <2>0, <2>1, <2>3, <1>3, <1>5
  <2>4. CASE i > Len(b) + 1
    <3>1. /\ i - Len(a) \in 1 .. Len(r) /\ i - Len(b) = (i - Len(a)) + 1
      BY <2>0, <2>4, <1>3, <1>5
    <3>2. r[i - Len(a)] = o[(i - Len(a)) + 1]
      BY <3>1, <1>3
    <3> QED BY <2>0, <2>1, <2>4, <3>1, <3>2, <1>5
  <2> QED BY <2>0, <2>2, <2>3, <2>4, <1>5
<1> QED BY <1>1, <1>2, <1>4, <1>6, <1>7, SeqEqual

LEMMA MovedOn ==
    ASSUME NEW S, NEW g \in Seq(S), NEW b \in Seq(S), NEW o \in Seq(S), b # <<>>
    PROVE  Append(g, Head(b)) \o (Tail(b) \o o) = g \o (b \o o)
<1>0. PICK h \in S : h = Head(b)
  BY HeadTailProperties
<1>1. PICK c \in Seq(S), a \in Seq(S) : c = Tail(b) /\ a = Append(g, h)
  BY HeadTailProperties, AppendProperties
<1>2. a \o (c \o o) = (a \o c) \o o
  BY ConcatAssociative, SMTT(20)
<1>3. (g \o b) \o o = g \o (b \o o)
  BY ConcatAssociative, SMTT(20)
<1>4. Append(g, Head(b)) \o Tail(b) = g \o b
  BY Moved
<1> QED BY <1>0, <1>1, <1>2, <1>3, <1>4

LEMMA AllEmpty ==
    ASSUME NEW S, NEW g \in Seq(S), NEW b \in Seq(S), NEW o \in Seq(S)
    PROVE  g \o (b \o o) = <<>> <=> g = <<>> /\ b = <<>> /\ o = <<>>
<1>1. b \o o \in Seq(S)
  BY ConcatProperties
<1>2. b \o o = <<>> <=> b = <<>> /\ o = <<>>
  BY ConcatEqualIffEmpty
<1>3. g \o (b \o o) = <<>> <=> g = <<>> /\ b \o o = <<>>
  BY <1>1, ConcatEqualIffEmpty
<1> QED BY <1>2, <1>3

LEMMA LastAlone ==
    ASSUME NEW S, NEW o \in Seq(S)
    PROVE  <<>> \in Seq(S) /\ <<>> \o (<<>> \o o) = o
<1>1. <<>> \in Seq(S) /\ <<>> \o o = o
  BY EmptySeq, ConcatEmptySeq
<1> QED BY <1>1

\* The result of a request.
Result(r) == [i \in 1 .. Chunks |-> [of |-> r, i |-> i]]

LEMMA ResultIs ==
    ASSUME NEW r \in Request
    PROVE  /\ Result(r) \in Seq(Chunk) /\ Result(r) # <<>> /\ Len(Result(r)) = Chunks /\ Result(r)[1].of = r
           /\ \A out \in Seq(Chunk) :
                 Len(out) = Chunks /\ (\A i \in 1 .. Chunks : out[i] = [of |-> r, i |-> i]) => out = Result(r)
<1>1. \A i \in 1 .. Chunks : [of |-> r, i |-> i] \in Chunk
  BY DEF Chunk
<1>2. Result(r) \in Seq(Chunk) /\ Len(Result(r)) = Chunks
  BY <1>1, Constants DEF Result
<1>3. \A i \in 1 .. Chunks : Result(r)[i] = [of |-> r, i |-> i]
  BY DEF Result
<1>4. 1 \in 1 .. Chunks
  BY Constants
<1>5. Result(r) # <<>>
  BY <1>2, EmptySeq, Constants
<1>6. ASSUME NEW out \in Seq(Chunk), Len(out) = Chunks, \A i \in 1 .. Chunks : out[i] = [of |-> r, i |-> i]
      PROVE  out = Result(r)
  BY <1>2, <1>3, <1>6, SeqEqual
<1> QED BY <1>2, <1>3, <1>4, <1>5, <1>6

\* Who has read a whole document has read all there was.
LEMMA WholeRead ==
    ASSUME NEW r \in Request, NEW g \in Seq(Chunk), NEW b \in Seq(Chunk), NEW o \in Seq(Chunk),
           g # <<>>, g \o (b \o o) \in {<<>>, Result(r)}, IsDocument(g)
    PROVE  g[1].of = r /\ b = <<>> /\ o = <<>>
<1>1. g \o (b \o o) = Result(r)
  BY AllEmpty
<1>2. PICK e \in Seq(Chunk) : e = b \o o
  BY ConcatProperties
<1>3. Len(g) = Chunks /\ Len(g \o e) = Len(g) + Len(e) /\ Len(e) \in Nat /\ Len(g \o e) = Chunks
  BY <1>1, <1>2, ResultIs, ConcatProperties, LenProperties DEF IsDocument
<1>4. Len(e) = 0
  BY <1>3, Constants
<1>5. e = <<>>
  BY <1>4, EmptySeq
<1>6. g = Result(r)
  BY <1>1, <1>2, <1>5, ConcatEmptySeq
<1>7. b = <<>> /\ o = <<>>
  <2>1. b \o o = <<>> <=> b = <<>> /\ o = <<>>
    BY ConcatEqualIffEmpty
  <2> QED BY <1>2, <1>5, <2>1
<1> QED BY <1>6, <1>7, ResultIs

-----------------------------------------------------------------------------
(* The stream of a session that its thread did not leave in the middle of  *)
(* a result, and whose commands came behind no command that was cut off:   *)
(* it is the result of the thread's one request, or empty.                 *)

Clean(s) == s \notin torn \cup glued /\ (s[2] > asked[s[1]] \/ s \in {session[s[1]], completed[s[1]]})

Taking(s) == s = session[s[1]] /\ tpc[s[1]] \in {"waiting", "reading"}
Taken(s)  == IF Taking(s) THEN got[s[1]] ELSE <<>>
Stream(s) == Taken(s) \o (pipe[<<s, 1>>].buf \o writer[s].out)

\* At most one line asks for the session, a whole one, and only while its
\* stream is empty and it has no writer.
LinesOf(s, lines) == \A i \in 1 .. Len(lines) : lines[i].session = s =>
    /\ Taking(s) /\ Stream(s) = <<>> /\ writer[s].pc = "none"
    /\ lines[i].of = Ask(s[1]) /\ lines[i].whole
    /\ \A j \in 1 .. Len(lines) : lines[j].session = s => j = i

Single(s) ==
    /\ Stream(s) \in {<<>>, Result(Ask(s[1]))}
    /\ Stream(s) # <<>> => Taking(s)
\* The writer of the session, and the end of the FIFO that it writes to.
Supplied(s) ==
    /\ writer[s].out = <<>> /\ Stream(s) # <<>> => writer[s].pc = "none"
    /\ writer[s].pc # "none" => linked[s] /\ Taking(s)
    /\ "drain" \notin pipe[<<s, 1>>].rd
    /\ "writer" \in pipe[<<s, 1>>].wr \cap pipe[<<s, 1>>].met => pipe[<<s, 1>>].rd # {}
\* The loop never has to wait for the session.
Passes(s) ==
    /\ spc \in {"watch", "drain", "wait"} => Served # s
    /\ spc = "run" /\ Served = s => linked[s]

Flow(s) == Single(s) /\ LinesOf(s, input) /\ LinesOf(s, batch) /\ Supplied(s) /\ Passes(s)
Streams == \A s \in Own : Clean(s) => Flow(s)

ReplyOf(t) == reply[t] # Nobody /\ from[t] \notin torn \cup glued => reply[t] = Ask(t)

LEMMA OwnIs ==
    ASSUME Base, NEW s \in Own
    PROVE  /\ s \in Session \ {Watchdog, Default} /\ s[1] \in Thread /\ s = <<s[1], s[2]>> /\ s[2] \in 1 .. MaxRequests
           /\ s \in Request \ {Nobody} /\ s # NoSession
           /\ <<s, 1>> \in Inode /\ pipe[<<s, 1>>].buf \in Seq(Chunk) /\ writer[s].out \in Seq(Chunk)
           /\ got[s[1]] \in Seq(Chunk) /\ Taken(s) \in Seq(Chunk)
<1>1. /\ s \in Session \ {Watchdog, Default} /\ s[1] \in Thread /\ s = <<s[1], s[2]>> /\ s[2] \in 1 .. MaxRequests
      /\ s \in Request \ {Nobody} /\ s # NoSession
  BY Constants DEF Own
<1>2. <<s, 1>> \in Inode
  BY <1>1, Inodes
<1>3. got[s[1]] \in Seq(Chunk) /\ Taken(s) \in Seq(Chunk)
  BY <1>1, ThreadOf, EmptySeq DEF Taken
<1> QED BY <1>1, <1>2, <1>3, FifoAt, TypesOf

\* Nobody but the thread itself reads from the session.
LEMMA ReadersOf ==
    ASSUME Base, Held, NEW s \in Own, NEW u \in Thread, u \in pipe[<<s, 1>>].rd
    PROVE  u = s[1] /\ tpc[u] = "reading" /\ session[u] = s
<1>1. tpc[u] = "reading" /\ <<s, 1>> = <<session[u], 1>>
  BY OwnIs DEF Held, Ends
<1>2. session[u] = s /\ session[u][1] = u
  BY <1>1, ThreadOf
<1> QED BY <1>1, <1>2

LEMMA StreamEmpty ==
    ASSUME Base, NEW s \in Own, Stream(s) = <<>>
    PROVE  Taken(s) = <<>> /\ pipe[<<s, 1>>].buf = <<>> /\ writer[s].out = <<>>
BY OwnIs, AllEmpty DEF Stream

LEMMA StreamsInit == Init => Streams /\ \A t \in Thread : ReplyOf(t)
<1> SUFFICES ASSUME Init PROVE Streams /\ \A t \in Thread : ReplyOf(t)
  OBVIOUS
<1>0. Base
  BY BaseInit
<1>1. \A t \in Thread : ReplyOf(t)
  BY DEF Init, ThreadInit, ReplyOf
<1>2. ASSUME NEW s \in Own PROVE Flow(s)
  <2>1. /\ tpc[s[1]] = "idle" /\ pipe[<<s, 1>>] = EmptyPipe /\ writer[s] = NoWriter /\ spc = "open"
        /\ input = <<>> /\ batch = <<>>
    BY <1>0, OwnIs DEF Init, ThreadInit, ServerInit
  <2>2. Taken(s) = <<>> /\ pipe[<<s, 1>>].buf = <<>> /\ writer[s].out = <<>>
    BY <2>1 DEF Taken, Taking, EmptyPipe, NoWriter
  <2>3. Stream(s) = <<>>
    BY <1>0, <2>2, OwnIs, AllEmpty DEF Stream
  <2>4. LinesOf(s, input) /\ LinesOf(s, batch)
    BY <2>1 DEF LinesOf
  <2>5. Supplied(s)
    BY <2>1 DEF Supplied, EmptyPipe, NoWriter
  <2> QED BY <2>1, <2>3, <2>4, <2>5 DEF Flow, Single, Passes
<1> QED BY <1>1, <1>2 DEF Streams

\* A step that leaves the stream of a session alone.
Untouched(s) ==
    /\ Taking(s)' = Taking(s)
    /\ Taking(s) => got'[s[1]] = got[s[1]] /\ asked'[s[1]] = asked[s[1]]
    /\ pipe'[<<s, 1>>] = pipe[<<s, 1>>] /\ writer'[s] = writer[s] /\ (linked[s] => linked'[s])

LEMMA UntouchedIs ==
    ASSUME NEW s, Untouched(s)
    PROVE  /\ Taking(s)' = Taking(s) /\ Stream(s)' = Stream(s) /\ (Taking(s) => Ask(s[1])' = Ask(s[1]))
           /\ Single(s) => Single(s)'
           /\ Supplied(s) => Supplied(s)'
<1>1. Taking(s)' = Taking(s) /\ (Taking(s) => Ask(s[1])' = Ask(s[1]))
  BY DEF Untouched, Ask
<1>2. Stream(s)' = Stream(s)
  BY <1>1 DEF Untouched, Stream, Taken
<1>3. Single(s) => Single(s)'
  BY <1>1, <1>2 DEF Single
<1>4. Supplied(s) => Supplied(s)'
  BY <1>1, <1>2 DEF Untouched, Supplied
<1> QED BY <1>1, <1>2, <1>3, <1>4

\* A step of others only takes lines away, from the front if at all.
LEMMA LinesKept ==
    ASSUME NEW s \in Own, Untouched(s), NEW a \in Seq(Line), LinesOf(s, a), NEW b \in Seq(Line), NEW d \in {0, 1},
           \A i \in 1 .. Len(b) : b[i].session = s => i + d \in 1 .. Len(a) /\ a[i + d] = b[i]
    PROVE  \A i \in 1 .. Len(b) : b[i].session = s =>
              /\ Taking(s)' /\ Stream(s)' = <<>> /\ writer'[s].pc = "none" /\ b[i].of = Ask(s[1])' /\ b[i].whole
              /\ \A j \in 1 .. Len(b) : b[j].session = s => j = i
<1> SUFFICES ASSUME NEW i \in 1 .. Len(b), b[i].session = s
             PROVE  /\ Taking(s)' /\ Stream(s)' = <<>> /\ writer'[s].pc = "none" /\ b[i].of = Ask(s[1])' /\ b[i].whole
                    /\ \A j \in 1 .. Len(b) : b[j].session = s => j = i
  OBVIOUS
<1>1. /\ i + d \in 1 .. Len(a) /\ a[i + d] = b[i]
  OBVIOUS
<1>2. /\ Taking(s) /\ Stream(s) = <<>> /\ writer[s].pc = "none" /\ b[i].of = Ask(s[1]) /\ b[i].whole
      /\ \A j \in 1 .. Len(a) : a[j].session = s => j = i + d
  BY <1>1 DEF LinesOf
<1>3. ASSUME NEW j \in 1 .. Len(b), b[j].session = s PROVE j = i
  <2>1. j + d \in 1 .. Len(a) /\ a[j + d].session = s
    BY <1>3
  <2> QED BY <1>2, <2>1
<1> QED BY <1>2, <1>3, UntouchedIs DEF Untouched

LEMMA CleanBefore ==
    ASSUME Base, [Next]_vars, NEW s \in Own, Clean(s)'
    PROVE  Clean(s)
<1>1. s \notin torn' \cup glued' /\ (s[2] > asked'[s[1]] \/ s \in {session'[s[1]], completed'[s[1]]})
  BY DEF Clean
<1>2. PICK t \in Thread : t = s[1] /\ s = <<t, s[2]>> /\ s[2] \in Nat /\ s # NoSession
  <2>1. s[1] \in Thread /\ s = <<s[1], s[2]>> /\ s # NoSession /\ s[2] \in 1 .. MaxRequests
    BY OwnIs
  <2> QED BY <2>1
<1>3. ThreadTypeOK /\ asked[t] \in Nat
  BY ThreadOf DEF Base, TypeOK
<1>4. CASE UNCHANGED threadVars
  BY <1>4, <1>1 DEF threadVars, Clean
<1>5. ASSUME NEW u \in Thread, Asks(u) PROVE Clean(s)
  <2>0. PICK keep : Send(u, keep)
    BY <1>5 DEF Asks
  <2>1. /\ UNCHANGED <<torn, glued>> /\ asked' = [asked EXCEPT ![u] = @ + 1] /\ completed' = [completed EXCEPT ![u] = NoSession]
        /\ \E x \in {completed[u], <<u, asked[u] + 1>>} : session' = [session EXCEPT ![u] = x]
    BY <2>0 DEF Send
  <2>2. CASE u = t
    <3>1. asked'[t] = asked[t] + 1 /\ completed'[t] = NoSession /\ session'[t] \in {completed[t], <<t, asked[t] + 1>>}
      BY <1>3, <2>1, <2>2 DEF ThreadTypeOK
    <3>2. s = <<t, asked[t] + 1>> => s[2] > asked[t]
      BY <1>3
    <3> QED BY <1>1, <1>2, <1>3, <2>1, <3>1, <3>2 DEF Clean
  <2>3. CASE u # t
    <3>1. asked'[t] = asked[t] /\ completed'[t] = completed[t] /\ session'[t] = session[t]
      BY <1>3, <2>1, <2>3 DEF ThreadTypeOK
    <3> QED BY <1>1, <1>2, <2>1, <3>1 DEF Clean
  <2> QED BY <2>2, <2>3
<1>6. ASSUME NEW u \in Thread, Acts(u) PROVE Clean(s)
  <2>1. /\ UNCHANGED asked /\ torn \subseteq torn' /\ glued \subseteq glued'
        /\ session' = session \/ session' = [session EXCEPT ![u] = NoSession]
        /\ completed' = completed \/ \E x \in {session[u], NoSession} : completed' = [completed EXCEPT ![u] = x]
    BY <1>6 DEF Acts, ThreadStep, OpenCommand, OpenExpires, WriteCommand, CutCommand, OpenResult, WaitExpires,
         ReadResult, TakeResult, ReadExpires, Unanswered, Glues
  <2>2. /\ session'[t] \in {session[t], NoSession} /\ completed'[t] \in {completed[t], session[t], NoSession}
    BY <1>3, <2>1 DEF ThreadTypeOK
  <2> QED BY <1>1, <1>2, <2>1, <2>2 DEF Clean
<1>7. Next => UNCHANGED threadVars \/ \E u \in Thread : Asks(u) \/ Acts(u)
  BY DEF Next, Server, Writes, Starts, Waits
<1> QED BY <1>4, <1>5, <1>6, <1>7 DEF vars

\* The lines stay as they are.
LEMMA FlowLines ==
    ASSUME NEW s, Flow(s), Untouched(s), UNCHANGED <<input, batch>>, Passes(s)'
    PROVE  Flow(s)'
<1>1. Single(s)' /\ Supplied(s)' /\ Taking(s)' = Taking(s) /\ Stream(s)' = Stream(s)
      /\ (Taking(s) => Ask(s[1])' = Ask(s[1]))
  BY UntouchedIs DEF Flow
<1>2. LinesOf(s, input)' /\ LinesOf(s, batch)'
  BY <1>1 DEF Flow, LinesOf, Untouched
<1> QED BY <1>1, <1>2 DEF Flow

LEMMA FlowStays ==
    ASSUME NEW s, Flow(s), Untouched(s), UNCHANGED <<input, batch, spc>>
    PROVE  Flow(s)'
<1>1. Passes(s)'
  BY DEF Flow, Passes, Served, Untouched
<1> QED BY <1>1, FlowLines

LEMMA FlowServer ==
    ASSUME Base, Held, Server, NEW s \in Own, Flow(s)
    PROVE  Flow(s)'
<1>0. Base' /\ UNCHANGED threadVars
  BY ServerBase DEF Server
<1>1. /\ tpc' = tpc /\ session' = session /\ got' = got /\ asked' = asked /\ s[1] \in Thread /\ <<s, 1>> \in Inode
      /\ s \in Session /\ Taking(s)' = Taking(s)
  BY <1>0, OwnIs DEF threadVars, Taking
<1>2. ASSUME pipe' = pipe, writer' = writer, linked' = linked PROVE Untouched(s)
  BY <1>1, <1>2 DEF Untouched
<1>3. ASSUME Untouched(s), batch' = batch, input' = input, Passes(s)' PROVE Flow(s)'
  BY <1>3, FlowLines
<1>a. CASE CatAtEOF
  <2>1. UNCHANGED <<input, batch, linked, pipe, writer>> /\ spc' = "closing"
    BY <1>a DEF CatAtEOF, resultVars
  <2> QED BY <1>2, <1>3, <2>1 DEF Passes
<1>b. CASE CatEnds
  <2>0. /\ UNCHANGED <<linked, pipe, writer>> /\ spc' = "next" /\ input' = <<>>
        /\ batch' = IF input = <<>> THEN <<[of |-> Nobody, session |-> Default, whole |-> TRUE]>> ELSE input
    BY <1>b DEF CatEnds, resultVars
  <2>1. Untouched(s)
    BY <1>2, <2>0
  <2>2. LinesOf(s, input)'
    BY <2>0 DEF LinesOf
  <2>3. LinesOf(s, batch)'
    <3>1. CASE input = <<>>
      <4> DEFINE line == [of |-> Nobody, session |-> Default, whole |-> TRUE]
      <4>1. batch' = <<line>> /\ line.session # s
        BY <3>1, <2>0, OwnIs
      <4> HIDE DEF line
      <4> QED BY <4>1 DEF LinesOf
    <3>2. CASE input # <<>>
      <4>1. batch' = input
        BY <3>2, <2>0
      <4> QED BY <4>1, <2>1, UntouchedIs DEF Flow, LinesOf, Untouched
    <3> QED BY <3>1, <3>2
  <2> QED BY <2>0, <2>1, <2>2, <2>3, UntouchedIs DEF Flow, Passes
<1>c. CASE NextCat
  <2>1. UNCHANGED <<input, batch, linked, pipe, writer>> /\ spc' \in {"open", "cat"}
    BY <1>c DEF NextCat, resultVars
  <2> QED BY <1>2, <1>3, <2>1 DEF Passes
<1>d. CASE NextCommand
  <2>0. /\ UNCHANGED <<input, batch, pipe, writer>> /\ batch # <<>>
        /\ linked' = [linked EXCEPT ![Served] = TRUE] /\ spc' = IF writer[Served].pc = "none" THEN "run" ELSE "watch"
    BY <1>d DEF NextCommand, Served
  <2>1. \A x \in Session : linked[x] \/ x = Served => linked'[x]
    BY <2>0, ServedIs, TypesOf
  <2>2. Untouched(s)
    BY <2>0, <2>1, <1>1 DEF Untouched
  <2>3. ASSUME Served = s PROVE spc' = "run" /\ linked'[s]
    <3>1. 1 \in 1 .. Len(batch) /\ batch[1].session = s
      BY <2>0, <2>3, ServedIs
    <3>3. writer[s].pc = "none"
      BY <3>1 DEF Flow, LinesOf
    <3> QED BY <2>0, <2>1, <2>3, <3>3, <1>1
  <2>4. Passes(s)'
    BY <2>0, <2>3 DEF Passes, Served
  <2> QED BY <1>3, <2>0, <2>2, <2>4
<1>e. CASE DrainOpens
  <2>0. /\ UNCHANGED <<input, batch, linked, writer>> /\ spc = "watch" /\ spc' \in {"drain", "wait"}
        /\ linked[Served] => pipe' = [pipe EXCEPT ![Current(Served)] = OpenForRead(@, "drain")]
        /\ ~linked[Served] => UNCHANGED pipe
    BY <1>e DEF DrainOpens
  <2>1. Served # s
    BY <2>0 DEF Flow, Passes
  <2>2. Current(Served) # <<s, 1>>
    BY <2>1 DEF Current
  <2>3. pipe'[<<s, 1>>] = pipe[<<s, 1>>]
    BY <2>0, <2>2, <1>1, TypesOf
  <2>4. Untouched(s)
    BY <2>0, <2>3, <1>1 DEF Untouched
  <2>5. Passes(s)'
    BY <2>0, <2>1 DEF Passes, Served
  <2> QED BY <1>3, <2>0, <2>4, <2>5
<1>f. CASE WatchdogWaits
  <2>1. UNCHANGED <<input, batch, linked, pipe, writer>> /\ spc = "wait" /\ spc' = "run"
    BY <1>f DEF WatchdogWaits, resultVars
  <2>2. Passes(s)'
    BY <2>1 DEF Flow, Passes, Served
  <2> QED BY <1>2, <1>3, <2>1, <2>2
<1>g. CASE \E i \in Inode : DrainAtEOF(i) \/ DrainExpires(i)
  <2>1. PICK i \in Inode : Draining(i) /\ DrainEnds(i)
    BY <1>g DEF DrainAtEOF, DrainExpires
  <2>2. /\ UNCHANGED <<input, batch, linked, writer>> /\ spc = "drain" /\ spc' = "wait"
        /\ pipe' = [pipe EXCEPT ![i] = Close(@, "drain")] /\ "drain" \in pipe[i].rd
    BY <2>1 DEF Draining, DrainEnds
  <2>3. i # <<s, 1>>
    BY <2>2 DEF Flow, Supplied
  <2>4. pipe'[<<s, 1>>] = pipe[<<s, 1>>]
    BY <2>2, <2>3, <1>1, TypesOf
  <2>5. Untouched(s)
    BY <2>2, <2>4, <1>1 DEF Untouched
  <2>6. Passes(s)'
    BY <2>2 DEF Flow, Passes, Served
  <2> QED BY <1>3, <2>2, <2>5, <2>6
<1>i. CASE \E i \in Inode : Drained(i)
  <2>1. PICK i \in Inode : DrainReads(i)
    BY <1>i DEF Drained
  <2>2. /\ UNCHANGED <<input, batch, linked, writer, spc>>
        /\ pipe' = [pipe EXCEPT ![i] = Consume(@)] /\ "drain" \in pipe[i].rd
    BY <2>1 DEF DrainReads, Draining, execVars
  <2>3. i # <<s, 1>>
    BY <2>2 DEF Flow, Supplied
  <2>4. pipe'[<<s, 1>>] = pipe[<<s, 1>>]
    BY <2>2, <2>3, <1>1, TypesOf
  <2>5. Untouched(s)
    BY <2>2, <2>4, <1>1 DEF Untouched
  <2> QED BY <2>2, <2>5, FlowStays
<1>h. CASE spc = "run" /\ Executed
  <2>0. PICK out \in Results(Head(batch)) : Run(out)
    BY <1>h DEF Executed
  <2>1. /\ UNCHANGED <<input, linked, pipe>> /\ batch # <<>> /\ batch' = Tail(batch) /\ spc = "run" /\ spc' = "next"
        /\ writer' = [writer EXCEPT ![Served] = [pc |-> "start", inode |-> 0, out |-> out]] /\ input = <<>>
    BY <2>0, <1>h DEF Run, Base, Loop
  <2>2. /\ Passes(s)' /\ LinesOf(s, input)'
    BY <2>1 DEF Passes, LinesOf
  <2>3. PICK x \in Session : x = Served
    BY <2>1, ServedIs
  <2>4. /\ writer'[x] = [pc |-> "start", inode |-> 0, out |-> out] /\ \A y \in Session \ {x} : writer'[y] = writer[y]
    BY <2>1, <2>3, TypesOf
  <2>5. CASE x # s
    <3>1. Untouched(s)
      BY <2>1, <2>4, <2>5, <1>1 DEF Untouched
    <3>2. PICK a \in Seq(Line), b \in Seq(Line) : a = batch /\ b = Tail(batch) /\ Len(a) \in Nat /\ Len(b) \in Nat
      BY <2>1, TypesOf, TailLines, LenProperties
    <3>3. \A i \in 1 .. Len(b) : i + 1 \in 1 .. Len(a) /\ b[i] = a[i + 1]
      BY <2>1, <3>2, TailLines
    <3>5. \A i \in 1 .. Len(b) : b[i].session = s =>
              /\ Taking(s)' /\ Stream(s)' = <<>> /\ writer'[s].pc = "none" /\ b[i].of = Ask(s[1])' /\ b[i].whole
              /\ \A j \in 1 .. Len(b) : b[j].session = s => j = i
      <4>1. LinesOf(s, a)
        BY <3>2 DEF Flow
      <4>2. \A i \in 1 .. Len(b) : b[i].session = s => i + 1 \in 1 .. Len(a) /\ a[i + 1] = b[i]
        BY <3>3
      <4> QED BY <3>1, <4>1, <4>2, LinesKept
    <3>6. LinesOf(s, batch)'
      BY <2>1, <3>2, <3>5 DEF LinesOf
    <3> QED BY <2>2, <3>1, <3>6, UntouchedIs DEF Flow
  <2>6. CASE x = s
    <3>1. 1 \in 1 .. Len(batch) /\ batch[1].session = s /\ Head(batch) = batch[1]
      BY <2>1, <2>3, <2>6, ServedIs
    <3>2. /\ Taking(s) /\ Stream(s) = <<>> /\ Head(batch).of = Ask(s[1])
          /\ \A j \in 1 .. Len(batch) : batch[j].session = s => j = 1
      BY <3>1 DEF Flow, LinesOf
    <3>3. Ask(s[1]) \in Request /\ Ask(s[1]) \in Own
      BY <3>2, <1>1, ThreadOf DEF Taking
    <3>4. out \in {<<>>, Result(Ask(s[1]))} /\ out \in Seq(Chunk)
      <4>1. /\ out \in Seq(Chunk)
            /\ out # <<>> => Len(out) = Chunks /\ \A i \in 1 .. Chunks : out[i] = [of |-> Ask(s[1]), i |-> i]
        BY <2>1, <3>2, <3>3, ResultsType, ServedIs
      <4> QED BY <3>3, <4>1, ResultIs
    <3>5. Taking(s)' = Taking(s) /\ Taken(s)' = Taken(s) /\ Ask(s[1])' = Ask(s[1])
      BY <1>1 DEF Taking, Taken, Ask
    <3>6. Stream(s)' = <<>> \o (<<>> \o out)
      <4>1. Taken(s) = <<>> /\ pipe[<<s, 1>>].buf = <<>>
        BY <3>2, StreamEmpty
      <4>2. Taken(s)' = <<>> /\ pipe'[<<s, 1>>].buf = <<>> /\ writer'[s].out = out
        BY <2>1, <2>4, <2>6, <3>5, <4>1
      <4> QED BY <4>2 DEF Stream
    <3>7. Stream(s)' = out
      BY <3>4, <3>6, LastAlone
    <3>8. Single(s)'
      BY <3>2, <3>4, <3>5, <3>7 DEF Single
    <3>9. Supplied(s)'
      <4>1. linked[s]
        BY <2>1, <2>3, <2>6 DEF Flow, Passes
      <4>2. writer'[s].out = out /\ Taking(s)'
        BY <2>4, <2>6, <3>2, <3>5
      <4> QED BY <2>1, <3>7, <4>1, <4>2 DEF Flow, Supplied
    <3>10. LinesOf(s, batch)'
      <4>1. ASSUME NEW i \in 1 .. Len(Tail(batch)), Tail(batch)[i].session = s PROVE FALSE
        <5>1. i + 1 \in 1 .. Len(batch) /\ batch[i + 1].session = s /\ i \in Nat \ {0}
          BY <2>1, <4>1, TailLines
        <5>2. i + 1 = 1
          BY <5>1, <3>2
        <5> QED BY <5>1, <5>2
      <4> QED BY <2>1, <4>1 DEF LinesOf
    <3> QED BY <2>2, <3>8, <3>9, <3>10 DEF Flow
  <2> QED BY <2>5, <2>6
<1> QED BY <1>a, <1>b, <1>c, <1>d, <1>e, <1>f, <1>g, <1>h, <1>i DEF Server, ServerStep

LEMMA FlowWriter ==
    ASSUME Base, Held, NEW x \in Session, Writes(x), NEW s \in Own, Flow(s)
    PROVE  Flow(s)'
<1>0. UNCHANGED <<threadVars, spc, input, batch, linked>>
  BY DEF Writes, WriterStep, WriterOpens, WriterWrites, WriterEnds, execVars
<1>1. /\ got' = got /\ asked' = asked /\ s[1] \in Thread /\ <<s, 1>> \in Inode /\ s \in Session
      /\ Taking(s)' = Taking(s) /\ Taken(s)' = Taken(s) /\ Ask(s[1])' = Ask(s[1])
  BY <1>0, OwnIs DEF threadVars, Taking, Taken, Ask
<1>2. CASE x # s
  <2>1. \A n : <<x, n>> # <<s, 1>>
    BY <1>2
  <2>2. \E w : writer' = [writer EXCEPT ![x] = w]
    <3>1. CASE WriterOpens(x)
      <4>1. CASE linked[x]
        <5>1. writer' = [writer EXCEPT ![x] = [writer[x] EXCEPT !.pc = "write", !.inode = made[x]]]
          BY <3>1, <4>1 DEF WriterOpens
        <5> QED BY <5>1
      <4> QED BY <3>1, <4>1 DEF WriterOpens
    <3>2. CASE WriterWrites(x)
      <4>1. writer' = [writer EXCEPT ![x] = [writer[x] EXCEPT !.out = Tail(@)]] \/ writer' = [writer EXCEPT ![x] = NoWriter]
        BY <3>2 DEF WriterWrites
      <4> QED BY <4>1
    <3>3. CASE WriterEnds(x)
      BY <3>3 DEF WriterEnds
    <3> QED BY <3>1, <3>2, <3>3 DEF Writes, WriterStep
  <2>3. pipe' = pipe \/ \E n, q : pipe' = [pipe EXCEPT ![<<x, n>>] = q]
    BY DEF Writes, WriterStep, WriterOpens, WriterWrites, WriterEnds, Current
  <2>4. writer'[s] = writer[s] /\ pipe'[<<s, 1>>] = pipe[<<s, 1>>]
    BY <1>1, <1>2, <2>1, <2>2, <2>3, TypesOf
  <2>5. Untouched(s)
    BY <1>0, <1>1, <2>4 DEF Untouched
  <2> QED BY <1>0, <2>5, FlowStays
<1>3. CASE x = s
  <2> DEFINE i == <<s, 1>>
  <2>0. /\ i \in Inode /\ s # Watchdog /\ writer[s].out \in Seq(Chunk) /\ pipe[i].buf \in Seq(Chunk) /\ Taken(s) \in Seq(Chunk)
        /\ Flow(s) /\ Supplied(s) /\ Passes(s)' /\ writer[s].pc # "none"
    BY <1>0, <1>3, OwnIs DEF Flow, Passes, Served, Writes, WriterStep, WriterOpens, WriterWrites, WriterEnds
  <2>1. writer[s].pc = "write" => <<s, writer[s].inode>> = i
    BY <1>1, <2>0, Inodes DEF Base, Opened
  <2>2. ASSUME Stream(s)' = Stream(s), Supplied(s)' PROVE Flow(s)'
    <3>1. Single(s)'
      BY <2>2, <1>1 DEF Flow, Single
    <3>2. LinesOf(s, input)' /\ LinesOf(s, batch)'
      BY <2>0, <1>0 DEF Flow, LinesOf
    <3> QED BY <2>0, <2>2, <3>1, <3>2 DEF Flow
  <2>a. CASE WriterOpens(s)
    <3>1. writer[s].pc = "start" /\ linked[s]
      BY <2>0, <2>a DEF WriterOpens, Supplied
    <3>2. Current(s) = i
      BY <1>1, <2>0, <3>1 DEF Base, Numbering, Current
    <3>3. /\ writer' = [writer EXCEPT ![s].pc = "write", ![s].inode = made[s]]
          /\ pipe' = [pipe EXCEPT ![i] = OpenForWrite(@, "writer")]
      BY <2>a, <3>1, <3>2 DEF WriterOpens
    <3>4. writer'[s].pc = "write" /\ writer'[s].out = writer[s].out
      BY <1>1, <3>3, TypesOf
    <3>5. At(i, pipe[i].buf, pipe[i].wr \cup {"writer"}, pipe[i].rd,
             pipe[i].met \cup pipe[i].rd \cup (IF pipe[i].rd = {} THEN {} ELSE {"writer"}))
      BY <2>0, <3>3, WriterAt
    <3>6. /\ pipe'[i].buf = pipe[i].buf /\ pipe'[i].rd = pipe[i].rd
          /\ pipe'[i].met = pipe[i].met \cup pipe[i].rd \cup (IF pipe[i].rd = {} THEN {} ELSE {"writer"})
      BY <3>5 DEF At
    <3>7. Stream(s)' = Stream(s)
      BY <1>1, <3>4, <3>6 DEF Stream
    <3>8. "writer" \notin pipe[i].wr /\ ("writer" \notin pipe[i].met \/ pipe[i].rd # {})
      BY <2>0, <3>1, FifoAt DEF Held, Ends
    <3>9. "writer" \in pipe'[i].met => pipe'[i].rd # {}
      BY <3>6, <3>8
    <3>10. Supplied(s)'
      BY <1>0, <1>1, <2>0, <3>1, <3>4, <3>6, <3>7, <3>9 DEF Supplied
    <3> QED BY <2>2, <3>7, <3>10
  <2>b. CASE WriterWrites(s)
    <3>1. /\ writer[s].pc = "write" /\ writer[s].out # <<>> /\ linked[s] /\ pipe[i].rd # {}
      BY <2>b, <2>0, <2>1 DEF WriterWrites, CanWrite, Supplied
    <3>2. PICK c \in Chunk : c = Head(writer[s].out)
      BY <3>1, <2>0, HeadTailProperties
    <3>3. Taken(s) \o (Append(pipe[i].buf, c) \o Tail(writer[s].out)) = Stream(s)
      <4>1. PICK g \in Seq(Chunk), b \in Seq(Chunk), o \in Seq(Chunk) :
               g = Taken(s) /\ b = pipe[i].buf /\ o = writer[s].out
        BY <2>0
      <4>2. o # <<>> /\ c = Head(o)
        BY <3>1, <3>2, <4>1
      <4>3. Append(b, Head(o)) \o Tail(o) = b \o o
        BY <4>2, Moved
      <4> QED BY <4>1, <4>2, <4>3 DEF Stream
    <3>4. CASE Len(writer[s].out) > 1 /\ pipe' = [pipe EXCEPT ![i] = Write(pipe[i], c)]
               /\ writer' = [writer EXCEPT ![s].out = Tail(@)]
      <4>1. writer'[s].pc = "write" /\ writer'[s].out = Tail(writer[s].out)
        BY <1>1, <3>1, <3>4, TypesOf
      <4>2. At(i, Append(pipe[i].buf, c), pipe[i].wr, pipe[i].rd, pipe[i].met)
        BY <2>0, <3>4, WrittenAt
      <4>3. /\ pipe'[i].buf = Append(pipe[i].buf, c) /\ pipe'[i].wr = pipe[i].wr /\ pipe'[i].rd = pipe[i].rd
            /\ pipe'[i].met = pipe[i].met
        BY <4>2 DEF At
      <4>4. Stream(s)' = Stream(s)
        BY <1>1, <3>3, <4>1, <4>3 DEF Stream
      <4>5. Tail(writer[s].out) # <<>>
        <5>1. PICK o \in Seq(Chunk) : o = writer[s].out
          BY <2>0
        <5>2. o # <<>> /\ Len(o) > 1
          BY <3>1, <3>4, <5>1
        <5>3. Len(Tail(o)) = Len(o) - 1 /\ Len(o) \in Nat
          BY <5>2, HeadTailProperties, LenProperties
        <5>4. Len(Tail(o)) # 0 /\ Len(<<>>) = 0
          BY <5>2, <5>3, EmptySeq
        <5> QED BY <5>1, <5>4
      <4>6. Supplied(s)'
        BY <1>0, <1>1, <2>0, <3>1, <4>1, <4>3, <4>5 DEF Supplied
      <4> QED BY <2>2, <4>4, <4>6
    <3>5. CASE Len(writer[s].out) = 1 /\ pipe' = [pipe EXCEPT ![i] = Close(Write(pipe[i], c), "writer")]
               /\ writer' = [writer EXCEPT ![s] = NoWriter]
      <4>1. writer'[s].pc = "none" /\ writer'[s].out = <<>>
        BY <1>1, <3>5, TypesOf DEF NoWriter
      <4>2. At(i, IF pipe[i].rd = {} THEN <<>> ELSE Append(pipe[i].buf, c), {}, pipe[i].rd, pipe[i].met \ {"writer"})
        BY <2>0, <3>5, LastAt
      <4>3. pipe'[i].buf = Append(pipe[i].buf, c) /\ pipe'[i].wr = {} /\ pipe'[i].rd = pipe[i].rd
        BY <3>1, <4>2 DEF At
      <4>4. Tail(writer[s].out) = <<>>
        <5>1. PICK o \in Seq(Chunk) : o = writer[s].out
          BY <2>0
        <5>2. o # <<>> /\ Len(o) = 1
          BY <3>1, <3>5, <5>1
        <5>3. Len(Tail(o)) = 0 /\ Tail(o) \in Seq(Chunk)
          BY <5>2, HeadTailProperties
        <5> QED BY <5>1, <5>3, EmptySeq
      <4>5. Stream(s)' = Stream(s)
        BY <1>1, <3>3, <4>1, <4>3, <4>4 DEF Stream
      <4>6. Supplied(s)'
        BY <1>0, <2>0, <4>1, <4>3 DEF Supplied
      <4> QED BY <2>2, <4>5, <4>6
    <3> QED BY <2>b, <2>1, <3>1, <3>2, <3>4, <3>5 DEF WriterWrites
  <2>c. CASE WriterEnds(s)
    <3>1. /\ writer[s].pc = "write" /\ (writer[s].out = <<>> \/ IsBroken(pipe[i], "writer"))
          /\ pipe' = [pipe EXCEPT ![i] = Close(@, "writer")] /\ writer' = [writer EXCEPT ![s] = NoWriter]
      BY <2>c, <2>1 DEF WriterEnds
    <3>2. writer[s].out = <<>> /\ Stream(s) = <<>>
      BY <2>0, <3>1 DEF Supplied, IsBroken
    <3>3. At(i, IF pipe[i].wr \ {"writer"} = {} /\ pipe[i].rd \ {"writer"} = {} THEN <<>> ELSE pipe[i].buf,
             pipe[i].wr \ {"writer"}, pipe[i].rd \ {"writer"}, pipe[i].met \ {"writer"})
      BY <2>0, <3>1, ClosedAt
    <3>4. /\ Taken(s) = <<>> /\ pipe[i].buf = <<>> /\ pipe'[i].buf = <<>>
          /\ pipe'[i].wr = pipe[i].wr \ {"writer"} /\ pipe'[i].rd = pipe[i].rd \ {"writer"}
      BY <3>2, <3>3, StreamEmpty DEF At
    <3>5. writer'[s].pc = "none" /\ writer'[s].out = <<>>
      BY <1>1, <3>1, TypesOf DEF NoWriter
    <3>6. Stream(s)' = Stream(s)
      BY <1>1, <3>2, <3>4, <3>5 DEF Stream
    <3>7. Supplied(s)'
      BY <2>0, <3>4, <3>5 DEF Supplied
    <3> QED BY <2>2, <3>6, <3>7
  <2> QED BY <1>3, <2>a, <2>b, <2>c DEF Writes, WriterStep
<1> QED BY <1>2, <1>3

\* A command that does not name the session brings no line for it.
LEMMA FedFlow ==
    ASSUME Base, NEW s \in Own, Flow(s), Untouched(s), NEW of \in Request, NEW x \in Session, NEW whole \in BOOLEAN,
           x # s, input' \in Fed(of, x, whole) \/ input' = input, UNCHANGED <<batch, spc>>
    PROVE  Flow(s)'
<1>1. CASE input' = input
  BY <1>1, FlowStays
<1>2. CASE input' \in Fed(of, x, whole)
  <2>1. PICK b \in Fed(of, x, whole) : b = input'
    BY <1>2
  <2>2. /\ b \in Seq(Line) /\ Len(b) \in Nat
        /\ \A i \in 1 .. Len(b) - 1 : i \in 1 .. Len(input) /\ b[i] = input[i]
        /\ \/ b[Len(b)].session \in {x, Default}
           \/ Gluing /\ b[Len(b)].session = input[Len(input)].session
    <3>1. PICK a \in Seq(Line) : a = input
      BY TypesOf
    <3>2. /\ b \in Seq(Line)
          /\ \A i \in 1 .. Len(b) - 1 : i \in 1 .. Len(input) /\ b[i] = input[i]
          /\ Len(b) \in Nat \ {0}
          /\ b[Len(b)].session
               \in {x, Default} \cup (IF Gluing THEN {input[Len(input)].session} ELSE {})
      BY <3>1, FedIs
    <3>3. CASE Gluing
      BY <3>2, <3>3
    <3>4. CASE ~Gluing
      <4>1. b[Len(b)].session \in {x, Default}
        BY <3>2, <3>4
      <4> QED BY <3>2, <4>1
    <3> QED BY <3>2, <3>3, <3>4
  <2>3. b[Len(b)].session # s
    <3>1. ASSUME Gluing PROVE input[Len(input)].session # s
      <4>1. Len(input) \in 1 .. Len(input) /\ ~input[Len(input)].whole
        BY <3>1, TypesOf, EmptySeq DEF Gluing
      <4> QED BY <4>1 DEF Flow, LinesOf
    <3> QED BY <2>2, <3>1, OwnIs
  <2>4. ASSUME NEW i \in 1 .. Len(b), b[i].session = s PROVE i + 0 \in 1 .. Len(input) /\ input[i + 0] = b[i]
    <3>1. i \in 1 .. Len(b) - 1 /\ i + 0 = i
      BY <2>2, <2>3, <2>4
    <3> QED BY <3>1, <2>2
  <2>5. PICK a \in Seq(Line) : a = input
    BY TypesOf
  <2>6. LinesOf(s, a) /\ \A i \in 1 .. Len(b) : b[i].session = s => i + 0 \in 1 .. Len(a) /\ a[i + 0] = b[i]
    BY <2>4, <2>5 DEF Flow
  <2>7. \A i \in 1 .. Len(b) : b[i].session = s =>
              /\ Taking(s)' /\ Stream(s)' = <<>> /\ writer'[s].pc = "none" /\ b[i].of = Ask(s[1])' /\ b[i].whole
              /\ \A j \in 1 .. Len(b) : b[j].session = s => j = i
    BY <2>2, <2>6, LinesKept
  <2>8. LinesOf(s, input)'
    BY <2>1, <2>7 DEF LinesOf
  <2>9. LinesOf(s, batch)' /\ Passes(s)'
    BY UntouchedIs DEF Flow, LinesOf, Passes, Served, Untouched
  <2> QED BY <2>8, <2>9, UntouchedIs DEF Flow
<1> QED BY <1>1, <1>2

LEMMA FlowWaiter ==
    ASSUME Base, Held, Starts \/ Waits, NEW s \in Own, Flow(s)
    PROVE  Flow(s)'
<1>0. UNCHANGED <<threadVars, batch, writer>>
  BY DEF Starts, Start, Waits, WaiterStep, OpenQuery, WriteQuery, SendExpires, ResultAppears, OpenAnswer, ReadAnswer,
         AnswerEnds, AnswerExpires, serverVars, resultVars
<1>1. /\ got' = got /\ asked' = asked /\ s[1] \in Thread /\ <<s, 1>> \in Inode /\ s \in Session /\ s # Watchdog
      /\ Taking(s)' = Taking(s)
  BY <1>0, OwnIs DEF threadVars, Taking
<1>2. pipe' = pipe \/ \E q : pipe' = [pipe EXCEPT ![Current(Watchdog)] = q]
  BY DEF Starts, Start, Waits, WaiterStep, OpenQuery, WriteQuery, SendExpires, ResultAppears, OpenAnswer, ReadAnswer,
         AnswerEnds, AnswerExpires, serverVars, resultVars
<1>3. pipe'[<<s, 1>>] = pipe[<<s, 1>>]
  <2>1. Current(Watchdog) # <<s, 1>>
    BY <1>1 DEF Current
  <2> QED BY <1>1, <1>2, <2>1, TypesOf
<1>4. linked[s] => linked'[s]
  <2>1. linked' = linked \/ linked' = [linked EXCEPT ![Watchdog] = FALSE]
    BY DEF Starts, Start, Waits, WaiterStep, OpenQuery, WriteQuery, SendExpires, ResultAppears, OpenAnswer, ReadAnswer,
           AnswerEnds, AnswerExpires, serverVars, resultVars
  <2> QED BY <1>1, <2>1, TypesOf
<1>5. Untouched(s)
  BY <1>0, <1>1, <1>3, <1>4 DEF Untouched
<1>6. CASE UNCHANGED <<spc, input>>
  BY <1>0, <1>5, <1>6, FlowStays
<1>7. CASE OpenQuery
  <2>1. UNCHANGED input /\ spc' = IF spc = "open" THEN "cat" ELSE spc
    BY <1>7 DEF OpenQuery, OpenExec
  <2>2. Passes(s)'
    BY <1>0, <1>4, <2>1 DEF Flow, Passes, Served
  <2> QED BY <1>0, <1>5, <2>1, <2>2, FlowLines
<1>8. CASE WriteQuery
  <2>1. /\ input' \in Fed(Watchdog, Watchdog, TRUE) \/ input' = input
        /\ UNCHANGED spc
    BY <1>8 DEF WriteQuery, WriteExec
  <2> QED BY <1>0, <1>1, <1>5, <2>1, FedFlow, Constants
<1> QED BY <1>6, <1>7, <1>8 DEF Starts, Start, Waits, WaiterStep, SendExpires, LeaveExec, ResultAppears, OpenAnswer,
        ReadAnswer, AnswerEnds, AnswerExpires, serverVars, execVars

\* A session that its thread gave up is not one of those any more.
LEMMA GivenUp ==
    ASSUME Base, NEW t \in Thread, tpc[t] # "idle", Unanswered(t), NEW s \in Own, Clean(s)'
    PROVE  s # session[t] /\ Taking(s)' = Taking(s)
<1>1. /\ tpc' = [tpc EXCEPT ![t] = "idle"] /\ session' = [session EXCEPT ![t] = NoSession]
      /\ UNCHANGED <<asked, completed>>
  BY DEF Unanswered
<1>2. ThreadTypeOK /\ s[1] \in Thread /\ s # NoSession
  BY OwnIs DEF Base, TypeOK
<1>3. session'[t] = NoSession /\ tpc'[t] = "idle" /\ completed[t] = NoSession
  BY <1>1, <1>2 DEF ThreadTypeOK, Base, Names, NamesOf
<1>4. \A u \in Thread \ {t} : session'[u] = session[u] /\ tpc'[u] = tpc[u]
  BY <1>1, <1>2 DEF ThreadTypeOK
<1>5. ASSUME s = session[t] PROVE FALSE
  <2>1. s[1] = t /\ s[2] \in Nat /\ s[2] <= asked[t] /\ asked[t] \in Nat
    BY <1>5, ThreadOf
  <2>2. s[2] > asked[t] \/ s \in {session'[t], completed[t]}
    BY <1>1, <2>1 DEF Clean
  <2> QED BY <1>2, <1>3, <2>1, <2>2
<1>6. Taking(s)' = Taking(s)
  <2>1. CASE s[1] = t
    BY <1>2, <1>3, <1>5, <2>1 DEF Taking
  <2>2. CASE s[1] # t
    BY <1>2, <1>4, <2>2 DEF Taking
  <2> QED BY <2>1, <2>2
<1> QED BY <1>5, <1>6

LEMMA FlowThread ==
    ASSUME Base, Held, NEW t \in Thread, Asks(t) \/ Acts(t), NEW s \in Own, Flow(s), Clean(s)'
    PROVE  Flow(s)'
<1> DEFINE i == <<s, 1>>
<1>0. UNCHANGED <<batch, writer, linked>> /\ (Acts(t) => UNCHANGED asked)
  BY DEF Asks, Send, Acts, ThreadStep, OpenCommand, OpenExpires, WriteCommand, CutCommand, OpenResult, WaitExpires,
         ReadResult, TakeResult, ReadExpires, Unanswered, serverVars, resultVars
<1>1. /\ s[1] \in Thread /\ i \in Inode /\ s \in Session /\ s # NoSession
      /\ writer[s].out \in Seq(Chunk) /\ pipe[i].buf \in Seq(Chunk) /\ got[s[1]] \in Seq(Chunk)
      /\ ThreadTypeOK
  BY OwnIs DEF Base, TypeOK
<1>2. /\ tpc[t] # "idle" => /\ session[t] \in Session /\ session[t][1] = t /\ Ask(t) \in Request
                            /\ completed[t] = NoSession
  BY ThreadOf DEF Base, Names, NamesOf
<1>3. ASSUME UNCHANGED <<pipe, got>>, Taking(s)' = Taking(s), Taking(s) => UNCHANGED asked PROVE Untouched(s)
  BY <1>0, <1>3 DEF Untouched
<1>4. ASSUME UNCHANGED <<session, tpc>> PROVE Taking(s)' = Taking(s)
  BY <1>4 DEF Taking
<1>5. ASSUME s # session[t], s # session'[t], \A u \in Thread \ {t} : tpc'[u] = tpc[u] /\ session'[u] = session[u]
      PROVE  Taking(s)' = Taking(s)
  BY <1>1, <1>5 DEF Taking
<1>a. CASE Asks(t)
  <2>0. PICK keep : Send(t, keep)
    BY <1>a DEF Asks
  <2>1. /\ tpc[t] = "idle" /\ tpc' = [tpc EXCEPT ![t] = "opening"] /\ UNCHANGED <<got, serverVars>>
        /\ \E x : session' = [session EXCEPT ![t] = x]
        /\ asked' = [asked EXCEPT ![t] = @ + 1]
    BY <2>0 DEF Send
  <2>2. /\ tpc'[t] = "opening"
        /\ \A u \in Thread \ {t} : tpc'[u] = tpc[u] /\ session'[u] = session[u] /\ asked'[u] = asked[u]
    BY <1>1, <2>1 DEF ThreadTypeOK
  <2>3. Taking(s)' = Taking(s) /\ (Taking(s) => asked'[s[1]] = asked[s[1]])
    BY <1>1, <2>1, <2>2 DEF Taking
  <2>4. Untouched(s)
    BY <1>0, <2>1, <2>3 DEF Untouched, serverVars
  <2> QED BY <2>1, <2>4, FlowStays DEF serverVars
<1>b. CASE OpenCommand(t)
  <2>1. /\ tpc[t] = "opening" /\ tpc' = [tpc EXCEPT ![t] = "writing"] /\ UNCHANGED <<session, got, asked, input, pipe>>
        /\ spc' = IF spc = "open" THEN "cat" ELSE spc
    BY <1>b DEF OpenCommand, OpenExec, resultVars
  <2>2. tpc'[t] = "writing" /\ \A u \in Thread \ {t} : tpc'[u] = tpc[u]
    BY <1>1, <2>1 DEF ThreadTypeOK
  <2>3. Taking(s)' = Taking(s)
    BY <1>1, <2>1, <2>2 DEF Taking
  <2>4. Passes(s)'
    BY <1>0, <2>1 DEF Flow, Passes, Served
  <2> QED BY <1>0, <1>3, <2>1, <2>3, <2>4, FlowLines
<1>c. CASE OpenExpires(t) \/ WaitExpires(t)
  <2>1. /\ tpc[t] # "idle" /\ Unanswered(t) /\ UNCHANGED <<got, asked, pipe, input>>
        /\ spc' = spc \/ (spc = "open" /\ spc' = "cat")
    BY <1>c DEF OpenExpires, WaitExpires, Unanswered, LeakExec, serverVars, resultVars, execVars
  <2>2. Taking(s)' = Taking(s)
    BY <2>1, GivenUp
  <2>3. Passes(s)'
    BY <1>0, <2>1 DEF Flow, Passes, Served
  <2> QED BY <1>0, <1>3, <2>1, <2>2, <2>3, FlowLines
<1>d. CASE CutCommand(t)
  <2>1. /\ tpc[t] = "writing" /\ Unanswered(t) /\ UNCHANGED <<got, pipe, asked, spc>>
        /\ input' \in Fed(Ask(t), session[t], FALSE) \/ input' = input
    BY <1>d DEF CutCommand, WriteExec, Unanswered, resultVars
  <2>2. Taking(s)' = Taking(s)
    BY <2>1, GivenUp
  <2>3. s # session[t]
    BY <2>1, GivenUp
  <2> QED BY <1>0, <1>2, <1>3, <2>1, <2>2, <2>3, FedFlow
<1>e. CASE WriteCommand(t)
  <2>1. /\ tpc[t] = "writing" /\ UNCHANGED <<got, pipe, asked, spc>>
        /\ input' = input \/ (spc = "cat" /\ input' \in Fed(Ask(t), session[t], TRUE))
        /\ \/ /\ tpc' = [tpc EXCEPT ![t] = "waiting"] /\ Glues(t)
              /\ UNCHANGED session
           \/ Unanswered(t)
    BY <1>e DEF WriteCommand, WriteExec, Unanswered, resultVars
  <2>2. CASE Unanswered(t)
    <3>1. Taking(s)' = Taking(s) /\ s # session[t]
      BY <2>1, <2>2, GivenUp
    <3> QED BY <1>0, <1>2, <1>3, <2>1, <3>1, FedFlow
  <2>3. CASE tpc' = [tpc EXCEPT ![t] = "waiting"] /\ UNCHANGED session /\ Glues(t)
    <3>0. tpc'[t] = "waiting" /\ \A u \in Thread \ {t} : tpc'[u] = tpc[u]
      BY <1>1, <2>3 DEF ThreadTypeOK
    <3>1. CASE s # session[t]
      <4>1. Taking(s)' = Taking(s)
        BY <1>5, <2>3, <3>0, <3>1
      <4> QED BY <1>0, <1>2, <1>3, <2>1, <3>1, <4>1, FedFlow
    <3>2. CASE s = session[t]
      <4>1. s[1] = t /\ ~Taking(s) /\ Taking(s)' /\ Ask(t) \in Request /\ Ask(t)' = Ask(t)
        BY <1>2, <2>1, <2>3, <3>0, <3>2 DEF Taking, Ask
      <4>2. Stream(s) = <<>>
        BY <4>1 DEF Flow, Single
      <4>3. got[t] = <<>> /\ writer[s].pc = "none"
        BY <2>1, <4>1 DEF Base, Names, NamesOf, Flow, Supplied
      <4>4. Stream(s)' = Stream(s)
        BY <1>0, <2>1, <4>1, <4>3 DEF Stream, Taken
      <4>5. Single(s)' /\ Supplied(s)' /\ Passes(s)'
        BY <1>0, <2>1, <4>1, <4>2, <4>3, <4>4 DEF Flow, Single, Supplied, Passes, Served
      <4>6. \A lines : LinesOf(s, lines) => \A j \in 1 .. Len(lines) : lines[j].session # s
        BY <4>1 DEF LinesOf
      <4>7. LinesOf(s, batch)'
        BY <1>0, <4>6 DEF Flow, LinesOf
      <4>8. LinesOf(s, input)'
        <5>1. CASE input' = input
          BY <4>6, <5>1 DEF Flow, LinesOf
        <5>2. CASE spc = "cat" /\ input' \in Fed(Ask(t), s, TRUE)
          <6>0. ~Gluing
            BY <2>3, <3>2, <5>2 DEF Glues, Clean
          <6>1. PICK b \in Fed(Ask(t), s, TRUE) : b = input'
            BY <5>2
          <6>2. /\ b \in Seq(Line) /\ Len(b) \in Nat /\ b[Len(b)].of = Ask(t) /\ b[Len(b)].whole
                /\ \A j \in 1 .. Len(b) - 1 : j \in 1 .. Len(input) /\ b[j] = input[j]
            <7>1. PICK r \in Request : r = Ask(t)
              BY <4>1
            <7>2. PICK x \in Session, w \in BOOLEAN : x = s /\ w = TRUE
              BY <1>1
            <7>3. b \in Fed(r, x, w) /\ input \in Seq(Line)
              BY <7>1, <7>2, TypesOf
            <7>4. /\ b \in Seq(Line) /\ (~Gluing /\ w => b[Len(b)].of = r) /\ b[Len(b)].whole = w
                  /\ \A j \in 1 .. Len(b) - 1 : j \in 1 .. Len(input) /\ b[j] = input[j]
              BY <7>3, FedIs
            <7> QED BY <6>0, <7>1, <7>2, <7>4, LenProperties
          <6>3. \A j \in 1 .. Len(b) : b[j].session = s => j = Len(b)
            <7>1. \A j \in 1 .. Len(input) : input[j].session # s
              BY <4>6 DEF Flow
            <7> QED BY <6>2, <7>1
          <6>4. \A j \in 1 .. Len(b) : b[j].session = s =>
                    b[j].of = Ask(t) /\ b[j].whole /\ \A k \in 1 .. Len(b) : b[k].session = s => k = j
            BY <6>2, <6>3
          <6> QED BY <1>0, <4>1, <4>2, <4>3, <4>4, <6>1, <6>4 DEF LinesOf
        <5> QED BY <2>1, <3>2, <5>1, <5>2
      <4> QED BY <4>5, <4>7, <4>8 DEF Flow
    <3> QED BY <3>1, <3>2
  <2> QED BY <2>1, <2>2, <2>3
<1>6. ASSUME tpc[t] \in {"waiting", "reading"}, s # session[t], UNCHANGED <<input, spc>>,
             \E q : pipe' = [pipe EXCEPT ![Current(session[t])] = q],
             \E pc : tpc' = [tpc EXCEPT ![t] = pc], \E g : got' = [got EXCEPT ![t] = g],
             session' = session \/ session' = [session EXCEPT ![t] = NoSession], UNCHANGED asked
      PROVE  Flow(s)'
  <2>1. /\ \A u \in Thread \ {t} : tpc'[u] = tpc[u] /\ session'[u] = session[u] /\ got'[u] = got[u]
        /\ session'[t] \in {session[t], NoSession}
    BY <1>1, <1>6 DEF ThreadTypeOK
  <2>2. Taking(s)' = Taking(s)
    BY <1>1, <1>5, <1>6, <2>1
  <2>3. Taking(s) => got'[s[1]] = got[s[1]]
    BY <1>1, <1>6, <2>1 DEF Taking
  <2>4. Current(session[t]) # i
    BY <1>6 DEF Current
  <2>5. pipe'[i] = pipe[i]
    BY <1>1, <1>6, <2>4, TypesOf
  <2>6. Untouched(s)
    BY <1>0, <1>6, <2>2, <2>3, <2>5 DEF Untouched
  <2> QED BY <1>0, <1>6, <2>6, FlowStays
<1>7. ASSUME tpc[t] \in {"waiting", "reading"}, s = session[t], linked[s]
      PROVE  Current(s) = i /\ Taking(s) /\ s[1] = t /\ Taken(s) = got[t]
  BY <1>1, <1>2, <1>7, OwnIs DEF Base, Numbering, Current, Taking, Taken
<1>8. ASSUME s = session[t], UNCHANGED <<input, spc, session, asked>>, Taking(s), Taking(s)', s[1] = t,
             Stream(s)' = Stream(s), Supplied(s)'
      PROVE  Flow(s)'
  <2>1. Single(s)' /\ LinesOf(s, input)' /\ LinesOf(s, batch)'
    BY <1>0, <1>8 DEF Flow, Single, LinesOf, Ask
  <2>2. Passes(s)'
    BY <1>0, <1>8 DEF Flow, Passes, Served
  <2> QED BY <1>8, <2>1, <2>2 DEF Flow
<1>f. CASE OpenResult(t)
  <2>0. /\ tpc[t] = "waiting" /\ linked[session[t]] /\ pipe' = [pipe EXCEPT ![Current(session[t])] = OpenForRead(@, t)]
        /\ tpc' = [tpc EXCEPT ![t] = "reading"] /\ UNCHANGED <<session, got, asked, input, spc>>
    BY <1>f DEF OpenResult, execVars
  <2>1. got' = [got EXCEPT ![t] = got[t]]
    BY <1>1, <2>0 DEF ThreadTypeOK
  <2>2. CASE s # session[t]
    BY <1>6, <2>0, <2>1, <2>2
  <2>3. CASE s = session[t]
    <3>1. Current(s) = i /\ Taking(s) /\ s[1] = t /\ tpc'[t] = "reading"
      BY <1>1, <1>7, <2>0, <2>3 DEF ThreadTypeOK
    <3>2. At(i, pipe[i].buf, pipe[i].wr, pipe[i].rd \cup {t},
             pipe[i].met \cup pipe[i].wr \cup (IF pipe[i].wr = {} THEN {} ELSE {t}))
      BY <1>1, <2>0, <2>3, <3>1, OpensAt, Constants
    <3>3. pipe'[i].buf = pipe[i].buf /\ pipe'[i].rd = pipe[i].rd \cup {t}
      BY <3>2 DEF At
    <3>4. Taking(s)' /\ Stream(s)' = Stream(s)
      BY <1>0, <2>0, <2>3, <3>1, <3>3 DEF Taking, Stream, Taken
    <3>5. Supplied(s)'
      BY <1>0, <3>3, <3>4, Constants DEF Flow, Supplied
    <3> QED BY <1>8, <2>0, <2>3, <3>1, <3>4, <3>5
  <2> QED BY <2>2, <2>3
<1>g. CASE ReadResult(t)
  <2>0. /\ tpc[t] = "reading" /\ pipe' = [pipe EXCEPT ![Current(session[t])] = Consume(@)]
        /\ pipe[Current(session[t])].buf # <<>>
        /\ got' = [got EXCEPT ![t] = Append(@, Head(pipe[Current(session[t])].buf))]
        /\ UNCHANGED <<session, tpc, asked, input, spc>> /\ linked[session[t]]
    BY <1>g DEF ReadResult, CanRead, execVars, Base, Found
  <2>1. tpc' = [tpc EXCEPT ![t] = "reading"]
    BY <1>1, <2>0 DEF ThreadTypeOK
  <2>2. CASE s # session[t]
    BY <1>6, <2>0, <2>1, <2>2
  <2>3. CASE s = session[t]
    <3>1. Current(s) = i /\ Taking(s) /\ Taking(s)' /\ s[1] = t /\ Taken(s) = got[t]
      BY <1>4, <1>7, <2>0, <2>3
    <3>2. At(i, Tail(pipe[i].buf), pipe[i].wr, pipe[i].rd, pipe[i].met)
      BY <1>1, <2>0, <2>3, <3>1, ConsumedAt
    <3>3. /\ pipe'[i].buf = Tail(pipe[i].buf) /\ pipe'[i].rd = pipe[i].rd /\ pipe'[i].wr = pipe[i].wr
          /\ pipe'[i].met = pipe[i].met
      BY <3>2 DEF At
    <3>4. Stream(s)' = Stream(s)
      <4>1. PICK g \in Seq(Chunk), b \in Seq(Chunk), o \in Seq(Chunk) : g = got[t] /\ b = pipe[i].buf /\ o = writer[s].out
        BY <1>1, <3>1
      <4>2. b # <<>> /\ got'[t] = Append(g, Head(b))
        BY <1>1, <2>0, <2>3, <3>1, <4>1 DEF ThreadTypeOK
      <4>3. Append(g, Head(b)) \o (Tail(b) \o o) = g \o (b \o o)
        <5>1. g \in Seq(Chunk) /\ b \in Seq(Chunk) /\ o \in Seq(Chunk) /\ b # <<>>
          BY <4>2
        <5> QED BY <5>1, MovedOn
      <4>4. Taken(s)' = Append(g, Head(b))
        BY <3>1, <4>2 DEF Taken
      <4> QED BY <1>0, <3>1, <3>3, <4>1, <4>3, <4>4 DEF Stream
    <3>5. Supplied(s)'
      BY <1>0, <3>1, <3>3, <3>4 DEF Flow, Supplied
    <3> QED BY <1>8, <2>0, <2>3, <3>1, <3>4, <3>5
  <2> QED BY <2>2, <2>3
<1>h. CASE TakeResult(t)
  <2>0. /\ tpc[t] = "reading" /\ got[t] # <<>> /\ linked[session[t]]
        /\ torn' = IF IsDocument(got[t]) THEN torn ELSE torn \cup {session[t]}
        /\ pipe' = [pipe EXCEPT ![Current(session[t])] = Close(@, t)] /\ got' = [got EXCEPT ![t] = <<>>]
        /\ tpc' = [tpc EXCEPT ![t] = "idle"] /\ session' = [session EXCEPT ![t] = NoSession]
        /\ UNCHANGED <<input, spc, asked>>
    BY <1>h DEF TakeResult, execVars, Base, Found
  <2>2. CASE s # session[t]
    BY <1>6, <2>0, <2>2
  <2>3. CASE s = session[t]
    <3>0. IsDocument(got[t])
      BY <2>0, <2>3 DEF Clean
    <3>1. Current(s) = i /\ Taking(s) /\ s[1] = t /\ Taken(s) = got[t] /\ tpc'[t] = "idle" /\ Ask(t) \in Request
      BY <1>1, <1>2, <1>7, <2>0, <2>3 DEF ThreadTypeOK
    <3>2. pipe[i].buf = <<>> /\ writer[s].out = <<>>
      <4>1. PICK r \in Request, g \in Seq(Chunk), b \in Seq(Chunk), o \in Seq(Chunk) :
               r = Ask(t) /\ g = got[t] /\ b = pipe[i].buf /\ o = writer[s].out
        BY <1>1, <3>1
      <4>2. g \o (b \o o) \in {<<>>, Result(r)}
        BY <3>1, <4>1 DEF Flow, Single, Stream
      <4>3. g # <<>> /\ IsDocument(g)
        BY <2>0, <3>0, <4>1
      <4>4. b = <<>> /\ o = <<>>
        BY <4>2, <4>3, WholeRead
      <4> QED BY <4>1, <4>4
    <3>a. Stream(s) # <<>>
      BY <1>1, <2>0, <3>1, AllEmpty DEF Stream
    <3>3. writer[s].pc = "none"
      BY <3>2, <3>a DEF Flow, Supplied
    <3>4. At(i, IF pipe[i].wr \ {t} = {} /\ pipe[i].rd \ {t} = {} THEN <<>> ELSE pipe[i].buf,
             pipe[i].wr \ {t}, pipe[i].rd \ {t}, pipe[i].met \ {t})
      BY <1>1, <2>0, <2>3, <3>1, ClosedAt
    <3>5. /\ pipe'[i].buf = <<>> /\ pipe'[i].wr = pipe[i].wr \ {t} /\ pipe'[i].rd = pipe[i].rd \ {t}
      BY <3>2, <3>4 DEF At
    <3>6. ~Taking(s)'
      BY <3>1 DEF Taking
    <3>7. Stream(s)' = <<>>
      BY <1>0, <3>2, <3>5, <3>6, LastAlone DEF Stream, Taken
    <3>8. "writer" \notin pipe[i].wr
      BY <1>1, <3>3 DEF Held, Ends
    <3>9. Supplied(s)' /\ Single(s)' /\ Passes(s)'
      BY <1>0, <2>0, <3>3, <3>5, <3>7, <3>8 DEF Flow, Supplied, Single, Passes, Served
    <3>10. LinesOf(s, input)' /\ LinesOf(s, batch)'
      <4>2. \A lines : LinesOf(s, lines) => \A j \in 1 .. Len(lines) : lines[j].session # s
        BY <3>a DEF LinesOf
      <4> QED BY <1>0, <2>0, <4>2 DEF Flow, LinesOf
    <3> QED BY <3>9, <3>10 DEF Flow
  <2> QED BY <2>2, <2>3
<1>i. CASE ReadExpires(t)
  <2>0. /\ tpc[t] = "reading" /\ pipe' = [pipe EXCEPT ![Current(session[t])] = Close(@, t)]
        /\ Unanswered(t) /\ UNCHANGED <<got, input, spc, asked>>
        /\ tpc' = [tpc EXCEPT ![t] = "idle"] /\ session' = [session EXCEPT ![t] = NoSession]
    BY <1>i DEF ReadExpires, execVars, Unanswered
  <2>1. got' = [got EXCEPT ![t] = got[t]]
    BY <1>1, <2>0 DEF ThreadTypeOK
  <2>2. s # session[t]
    BY <2>0, GivenUp
  <2> QED BY <1>6, <2>0, <2>1, <2>2
<1> QED BY <1>a, <1>b, <1>c, <1>d, <1>e, <1>f, <1>g, <1>h, <1>i DEF Acts, ThreadStep

LEMMA StreamsStep == Base /\ Held /\ Streams /\ [Next]_vars => Streams'
<1> SUFFICES ASSUME Base, Held, Streams, [Next]_vars, NEW s \in Own, Clean(s)'
             PROVE  Flow(s)'
  BY DEF Streams
<1>1. Flow(s)
  BY CleanBefore DEF Streams
<1>2. CASE UNCHANGED vars
  <2>1. UNCHANGED <<input, batch, spc>> /\ Untouched(s)
    BY <1>2 DEF vars, serverVars, threadVars, Untouched, Taking
  <2> QED BY <1>1, <2>1, FlowStays
<1>3. CASE Server
  BY <1>1, <1>3, FlowServer
<1>4. ASSUME NEW x \in Session, Writes(x) PROVE Flow(s)'
  BY <1>1, <1>4, FlowWriter
<1>5. ASSUME NEW t \in Thread, Asks(t) \/ Acts(t) PROVE Flow(s)'
  BY <1>1, <1>5, FlowThread
<1>6. CASE Starts \/ Waits
  BY <1>1, <1>6, FlowWaiter
<1> QED BY <1>2, <1>3, <1>4, <1>5, <1>6 DEF Next

LEMMA ReplyStep ==
    ASSUME Base, Streams, [Next]_vars, NEW u \in Thread, ReplyOf(u)
    PROVE  ReplyOf(u)'
<1>0. ThreadTypeOK
  BY DEF Base, TypeOK
<1>1. CASE UNCHANGED threadVars
  BY <1>1 DEF threadVars, ReplyOf, Ask
<1>2. ASSUME NEW t \in Thread, Asks(t) PROVE ReplyOf(u)'
  <2>0. PICK keep : Send(t, keep)
    BY <1>2 DEF Asks
  <2>1. /\ UNCHANGED <<torn, glued>> /\ asked' = [asked EXCEPT ![t] = @ + 1] /\ from' = [from EXCEPT ![t] = NoSession]
        /\ reply' = [reply EXCEPT ![t] = Nobody]
    BY <2>0 DEF Send
  <2>2. CASE u = t
    BY <1>0, <2>1, <2>2 DEF ThreadTypeOK, ReplyOf
  <2>3. CASE u # t
    BY <1>0, <2>1, <2>3 DEF ThreadTypeOK, ReplyOf, Ask
  <2> QED BY <2>2, <2>3
<1>3. ASSUME NEW t \in Thread, TakeResult(t) PROVE ReplyOf(u)'
  <2> DEFINE s == session[t]
             i == <<s, 1>>
  <2>0. /\ tpc[t] = "reading" /\ got[t] # <<>> /\ UNCHANGED asked
        /\ reply' = [reply EXCEPT ![t] = IF IsDocument(got[t]) THEN got[t][1].of ELSE Nobody]
        /\ from' = [from EXCEPT ![t] = s] /\ UNCHANGED glued
        /\ torn' = IF IsDocument(got[t]) THEN torn ELSE torn \cup {s}
    BY <1>3 DEF TakeResult
  <2>1. CASE u # t
    <3>1. reply'[u] = reply[u] /\ from'[u] = from[u] /\ torn \subseteq torn'
      BY <1>0, <2>0, <2>1 DEF ThreadTypeOK
    <3> QED BY <2>0, <3>1 DEF ReplyOf, Ask
  <2>2. CASE u = t
    <3> SUFFICES ASSUME reply'[t] # Nobody, from'[t] \notin torn' \cup glued'
                 PROVE  reply'[t] = Ask(t)
      BY <2>0, <2>2 DEF ReplyOf, Ask
    <3>1. /\ reply'[t] = IF IsDocument(got[t]) THEN got[t][1].of ELSE Nobody
          /\ from'[t] = s
      BY <1>0, <2>0 DEF ThreadTypeOK
    <3>2. IsDocument(got[t]) /\ reply'[t] = got[t][1].of /\ torn' = torn
      BY <2>0, <3>1
    <3>3. s \in Own /\ s[1] = t
      BY <2>0, ThreadOf DEF Own
    <3>4. s \notin torn \cup glued
      BY <2>0, <3>1, <3>2
    <3>5. Flow(s) /\ Taking(s) /\ Taken(s) = got[t]
      <4>1. Clean(s)
        BY <3>3, <3>4 DEF Clean
      <4>2. Taking(s) /\ Taken(s) = got[t]
        BY <2>0, <3>3 DEF Taking, Taken
      <4> QED BY <3>3, <4>1, <4>2 DEF Streams
    <3>6. PICK r \in Request, g \in Seq(Chunk), b \in Seq(Chunk), o \in Seq(Chunk) :
             r = Ask(t) /\ g = got[t] /\ b = pipe[i].buf /\ o = writer[s].out
      <4>1. got[t] \in Seq(Chunk) /\ pipe[i].buf \in Seq(Chunk) /\ writer[s].out \in Seq(Chunk)
        BY <3>3, OwnIs
      <4>2. Ask(t) \in Request
        BY <2>0, ThreadOf
      <4> QED BY <4>1, <4>2
    <3>7. g \o (b \o o) \in {<<>>, Result(r)}
      BY <3>3, <3>5, <3>6 DEF Flow, Single, Stream
    <3>8. g # <<>> /\ IsDocument(g)
      BY <2>0, <3>2, <3>6
    <3>9. g[1].of = r
      BY <3>7, <3>8, WholeRead
    <3> QED BY <3>2, <3>6, <3>9
  <2> QED BY <2>1, <2>2
<1>4. ASSUME NEW t \in Thread, Acts(t), ~TakeResult(t) PROVE ReplyOf(u)'
  <2>1. UNCHANGED <<reply, from, asked, torn>> /\ glued \subseteq glued'
    BY <1>4 DEF Acts, ThreadStep, OpenCommand, OpenExpires, WriteCommand, CutCommand, OpenResult, WaitExpires,
         ReadResult, ReadExpires, Unanswered, Glues
  <2> QED BY <2>1 DEF ReplyOf, Ask
<1>5. Next => UNCHANGED threadVars \/ \E t \in Thread : Asks(t) \/ TakeResult(t) \/ (Acts(t) /\ ~TakeResult(t))
  BY DEF Next, Server, Writes, Starts, Waits
<1> QED BY <1>1, <1>2, <1>3, <1>4, <1>5 DEF vars

\* Spec keeps a thread from taking another request's result for its answer,
\* whatever deadlines pass and wherever they cut off a command or a result,
\* as long as every result on the session was read to its end and none of
\* its commands came behind one that was cut off: a request then finds the
\* session's FIFO and its writer empty (execute of server.py,
\* APIQueryInterruptible of api_fs_query.py).
THEOREM OwnRepliesOnly == Spec => []RepliesAreOwn
<1> DEFINE Replies == \A t \in Thread : ReplyOf(t)
<1>1. Init => Base /\ Held /\ Streams /\ Replies
  BY BaseInit, HeldInit, StreamsInit
<1>2. Base /\ Held /\ Streams /\ Replies /\ [Next]_vars => (Base /\ Held /\ Streams /\ Replies)'
  BY BaseStep, HeldStep, StreamsStep, ReplyStep
<1>3. Replies => RepliesAreOwn
  BY DEF ReplyOf, RepliesAreOwn
<1> HIDE DEF Replies
<1> QED BY <1>1, <1>2, <1>3, PTL DEF Spec
=============================================================================
