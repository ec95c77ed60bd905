-------------------------- MODULE RagBulkAdd_proofs --------------------------
(***************************************************************************)
(* Proofs about RagBulkAdd and the DirectoryEvents processor it consumes,  *)
(* for every finite set of paths and any number of versions and workers.   *)
(***************************************************************************)
EXTENDS RagBulkAdd, FiniteSetTheorems, SequenceTheorems, WellFoundedInduction, TLAPS

-----------------------------------------------------------------------------
(* Every file a sealed session found is announced.                         *)

Occurs(p, s) == \E n \in 1 .. Len(s) : s[n] = p

Numbers ==
    /\ made \in Nat /\ {stage, linked, sealedStage} \subseteq [Path -> Nat]
    /\ current \in [Path -> Nat] /\ emitted \in [Path -> Nat]
    /\ todo \subseteq Path /\ journal \in Seq(Path \cup {"terminated"})

\* Versions only grow, an upload's as well when it appears: a scan sees the tree of its
\* own time or an earlier one.
Versions ==
    /\ \A p \in Path : stage[p] <= made /\ sealedStage[p] <= stage[p] /\ current[p] <= stage[p]
    /\ \A p \in Path : linked[p] # 0 => stage[p] <= linked[p] /\ linked[p] <= made
    /\ sealed = "explicit" => sealing = "read"

\* The turns that count for an explicit seal: all but those cut short by a signal.
Counts == phase \in {"scan", "flush", "decide"} \/ (phase \in {"final", "ended"} /\ ~stopping)

\* A scan begun after the seal was read has seen at least the tree of the seal.
Visited ==
    /\ phase \in {"flush", "decide", "final", "ended"} => todo = {}
    /\ sealed = "explicit" /\ Counts => \A p \in Path \ todo : sealedStage[p] <= current[p]

\* What counts as announced is in the journal, and an explicit seal ends a session
\* only when that is everything the scan saw.
Announced ==
    /\ \A p \in Path : emitted[p] # 0 => Occurs(p, journal)
    /\ phase \in {"final", "ended"} /\ sealed = "explicit" /\ ~stopping => AllEmitted

SealInv == Numbers /\ Versions /\ Visited /\ Announced

\* A set listed as a sequence has each of its members there.
LEMMA SetToSeqListsAll ==
  ASSUME NEW S, IsFiniteSet(S)
  PROVE  /\ SetToSeq(S) \in Seq(S)
         /\ \A x \in S : Occurs(x, SetToSeq(S))
  <1> DEFINE n == Cardinality(S)
             f == SetToSeq(S)
  <1>1. n \in Nat /\ ExistsBijection(1 .. n, S)
    BY FS_CardinalityType
  <1>2. \E g \in [1 .. n -> S] : IsInjective(g)
    BY <1>1 DEF ExistsBijection, Bijection, Injection
  <1>3. f \in [1 .. n -> S] /\ IsInjective(f)
    BY <1>2 DEF SetToSeq
  <1>4. IsFiniteSet(1 .. n) /\ Cardinality(1 .. n) = n
    BY <1>1, FS_Interval
  <1>5. f \in Injection(1 .. n, S)
    BY <1>3 DEF Injection
  <1> HIDE DEF f
  <1>6. f \in Surjection(1 .. n, S)
    BY <1>4, <1>5, FS_Injection
  <1>7. f \in Seq(S) /\ Len(f) = n
    BY <1>1, <1>3
  <1>8. \A x \in S : \E i \in 1 .. n : f[i] = x
    BY <1>6 DEF Surjection
  <1> QED
    BY <1>7, <1>8 DEF Occurs, f

\* What occurs in a sequence occurs in its extensions.
LEMMA OccursInExtension ==
  ASSUME NEW S, NEW s \in Seq(S), NEW t \in Seq(S), NEW p, Occurs(p, s) \/ Occurs(p, t)
  PROVE  Occurs(p, s \o t)
  <1>1. /\ Len(s) \in Nat /\ Len(t) \in Nat /\ Len(s \o t) = Len(s) + Len(t)
        /\ \A i \in 1 .. Len(s) + Len(t) : (s \o t)[i] = IF i <= Len(s) THEN s[i] ELSE t[i - Len(s)]
    BY ConcatProperties
  <1>2. CASE Occurs(p, s)
    BY <1>1, <1>2 DEF Occurs
  <1>3. CASE Occurs(p, t)
    <2>1. PICK n \in 1 .. Len(t) : t[n] = p
      BY <1>3 DEF Occurs
    <2>2. Len(s) + n \in 1 .. Len(s) + Len(t) /\ ~(Len(s) + n <= Len(s)) /\ Len(s) + n - Len(s) = n
      BY <1>1
    <2>3. (s \o t)[Len(s) + n] = p
      BY <1>1, <2>1, <2>2
    <2> QED
      BY <1>1, <2>2, <2>3 DEF Occurs
  <1> QED
    BY <1>2, <1>3

-----------------------------------------------------------------------------
\* What the seal is about is left alone.
treeVars == <<stage, made, linked, sealing, sealedStage, todo, current, emitted, sealed, journal, stopping>>

LEMMA InitSealInv == Init => SealInv
  <1> SUFFICES ASSUME Init PROVE SealInv
    OBVIOUS
  <1>0. /\ stage = NoFile /\ made = 0 /\ linked = NoFile /\ sealedStage = NoFile /\ current = NoFile
        /\ emitted = NoFile /\ phase = "scan" /\ todo = Path /\ journal = <<>> /\ sealed = ""
    BY DEF Init, EventsInit, ChannelInit
  <1>1. Numbers
    <2>1. NoFile \in [Path -> Nat]
      BY DEF NoFile
    <2>2. <<>> \in Seq(Path \cup {"terminated"})
      OBVIOUS
    <2> QED
      BY <1>0, <2>1, <2>2 DEF Numbers
  <1>2. Versions
    <2>1. \A p \in Path : NoFile[p] = 0
      BY DEF NoFile
    <2>2. \A p \in Path : stage[p] = 0 /\ linked[p] = 0 /\ sealedStage[p] = 0 /\ current[p] = 0
      BY <1>0, <2>1
    <2>3. 0 <= 0
      OBVIOUS
    <2> QED
      BY <1>0, <2>2, <2>3 DEF Versions
  <1>3. Visited /\ Announced
    BY <1>0 DEF Visited, Announced, NoFile
  <1> QED
    BY <1>1, <1>2, <1>3 DEF SealInv

\* Parts of a turn that change nothing but the phase.
LEMMA PhaseKeepsSeal ==
  ASSUME SealInv, UNCHANGED treeVars,
         \/ phase' = phase
         \/ phase = "flush" /\ phase' = "decide"
         \/ phase = "final" /\ phase' = "ended"
         \/ phase' = "failed"
  PROVE  SealInv'
  <1>1. Numbers' /\ Versions'
    BY DEF SealInv, Numbers, Versions, treeVars
  <1>2. Visited' /\ Announced'
    BY DEF SealInv, Visited, Announced, Counts, AllEmitted, Occurs, treeVars
  <1> QED
    BY <1>1, <1>2 DEF SealInv

LEMMA ProducerKeepsSeal ==
  ASSUME SealInv, Producer \/ SignalProcessor
  PROVE  SealInv'
  <1> USE DEF SealInv, processorVars, scanVars, writerVars, producerVars
  <1>1. ASSUME NEW p \in Path, Rename(p) PROVE SealInv'
    <2>0. UNCHANGED <<sealing, sealedStage, phase, todo, current, emitted, sealed, journal, stopping>>
      BY <1>1 DEF Rename
    <2>0a. made' = made + 1 /\ stage' = [stage EXCEPT ![p] = made + 1] /\ linked' = linked /\ linked = NoFile
      BY <1>1 DEF Rename
    <2>1. Numbers'
      BY <2>0, <2>0a DEF Numbers
    <2>2. Versions'
      BY <2>0, <2>0a DEF Numbers, Versions, NoFile
    <2>3. Visited' /\ Announced'
      BY <2>0 DEF Visited, Announced, Counts, AllEmitted, Occurs
    <2> QED
      BY <2>1, <2>2, <2>3
  <1>1a. ASSUME NEW p \in Path, LinkUpload(p) PROVE SealInv'
    <2>0. /\ UNCHANGED <<stage, sealing, sealedStage, phase, todo, current, emitted, sealed, journal, stopping>>
          /\ made' = made + 1 /\ linked' = [linked EXCEPT ![p] = made + 1]
      BY <1>1a DEF LinkUpload
    <2>1. Numbers' /\ Versions'
      BY <2>0 DEF Numbers, Versions
    <2>2. Visited' /\ Announced'
      BY <2>0 DEF Visited, Announced, Counts, AllEmitted, Occurs
    <2> QED
      BY <2>1, <2>2
  <1>1b. ASSUME NEW p \in Path, FinishUpload(p) PROVE SealInv'
    <2>0. /\ UNCHANGED <<made, sealing, sealedStage, phase, todo, current, emitted, sealed, journal, stopping>>
          /\ linked[p] # 0 /\ stage' = [stage EXCEPT ![p] = linked[p]] /\ linked' = [linked EXCEPT ![p] = 0]
      BY <1>1b DEF FinishUpload
    <2>1. Numbers'
      BY <2>0 DEF Numbers
    <2>2. Versions'
      BY <2>0 DEF Numbers, Versions
    <2>3. Visited' /\ Announced'
      BY <2>0 DEF Visited, Announced, Counts, AllEmitted, Occurs
    <2> QED
      BY <2>1, <2>2, <2>3
  <1>2. CASE Seal
    <2>0. /\ UNCHANGED <<stage, made, linked, phase, todo, current, emitted, sealed, journal, stopping>>
          /\ sealing = "no" /\ sealing' = "written" /\ sealedStage' = stage
      BY <1>2 DEF Seal
    <2>1. Numbers'
      BY <2>0 DEF Numbers
    <2>2. sealed # "explicit"
      BY <2>0 DEF Versions
    <2>3. Versions'
      BY <2>0, <2>2 DEF Numbers, Versions
    <2>4. Visited' /\ Announced'
      BY <2>0, <2>2 DEF Visited, Announced, Counts, AllEmitted, Occurs
    <2> QED
      BY <2>1, <2>3, <2>4
  <1>3. CASE SignalProcessor
    <2>0. /\ UNCHANGED <<stage, made, linked, sealing, sealedStage, phase, todo, current, emitted, sealed, journal>>
          /\ stopping' = TRUE
      BY <1>3 DEF SignalProcessor
    <2>1. Numbers' /\ Versions'
      BY <2>0 DEF Numbers, Versions
    <2>2. Visited' /\ Announced'
      BY <2>0 DEF Visited, Announced, Counts, AllEmitted, Occurs
    <2> QED
      BY <2>1, <2>2
  <1> QED
    BY <1>1, <1>1a, <1>1b, <1>2, <1>3 DEF Producer

LEMMA VisitKeepsSeal ==
  ASSUME SealInv, NEW p \in Path, Visit(p)
  PROVE  SealInv'
  <1>0. /\ UNCHANGED <<stage, made, linked, sealing, sealedStage, phase, emitted, sealed, journal, stopping>>
        /\ phase = "scan" /\ todo' = todo \ {p} /\ current' = [current EXCEPT ![p] = stage[p]]
    BY DEF Visit, producerVars, writerVars
  <1>1. Numbers' /\ Versions'
    BY <1>0 DEF SealInv, Numbers, Versions
  <1>2. Visited'
    BY <1>0 DEF SealInv, Numbers, Versions, Visited, Counts
  <1>3. Announced'
    BY <1>0 DEF SealInv, Announced, Occurs
  <1> QED
    BY <1>1, <1>2, <1>3 DEF SealInv

LEMMA EmitKeepsSeal ==
  ASSUME SealInv, EmitStable
  PROVE  SealInv'
  <1>0. /\ UNCHANGED <<stage, made, linked, sealing, sealedStage, todo, current, sealed, stopping>>
        /\ phase = "scan" /\ phase' = "flush" /\ todo = {}
        /\ journal' = journal \o SetToSeq(Stable)
        /\ emitted' = [p \in Path |-> IF p \in Stable THEN current[p] ELSE emitted[p]]
    BY DEF EmitStable, producerVars, writerVars
  <1>1. Stable \subseteq Path /\ IsFiniteSet(Stable)
    BY EventsAssumption, FS_Subset DEF Stable
  <1>2. SetToSeq(Stable) \in Seq(Path \cup {"terminated"})
    <2>1. SetToSeq(Stable) \in Seq(Stable)
      BY <1>1, SetToSeqListsAll
    <2> QED
      BY <1>1, <2>1
  <1>3. \A p \in Stable : Occurs(p, SetToSeq(Stable))
    BY <1>1, SetToSeqListsAll
  <1>4. Numbers'
    BY <1>0, <1>1, <1>2, ConcatProperties DEF SealInv, Numbers
  <1>5. Versions' /\ Visited'
    BY <1>0 DEF SealInv, Versions, Visited, Counts
  <1>6. \A p \in Path : Occurs(p, journal) \/ p \in Stable => Occurs(p, journal')
    BY <1>0, <1>2, <1>3, OccursInExtension DEF SealInv, Numbers
  <1>7. Announced'
    <2>1. \A p \in Path : emitted'[p] # 0 => p \in Stable \/ emitted[p] # 0
      BY <1>0
    <2> QED
      BY <1>0, <1>6, <2>1 DEF SealInv, Announced, Occurs
  <1> QED
    BY <1>4, <1>5, <1>7 DEF SealInv

LEMMA DecideKeepsSeal ==
  ASSUME SealInv, Decide
  PROVE  SealInv'
  <1>0. /\ UNCHANGED <<stage, made, linked, sealedStage, emitted, stopping>>
        /\ phase = "decide" /\ SealNow
        /\ IF stopping \/ (sealed # "" /\ AllEmitted) THEN Terminate ELSE NextScan
    BY DEF Decide
  <1>1. /\ sealed' = "explicit" => sealing' = "read"
        /\ sealed' # sealed => sealed = ""
    BY <1>0 DEF SealInv, Versions, SealNow
  <1>2. CASE Terminate
    <2>0. /\ journal' = Append(journal, "terminated") /\ phase' = "final"
          /\ UNCHANGED <<todo, current>>
      BY <1>2 DEF Terminate
    <2>1. ~stopping => sealed # "" /\ AllEmitted
      <3>1. ~NextScan
        BY <2>0 DEF NextScan
      <3> QED
        BY <1>0, <3>1
    <2>2. Numbers' /\ Versions'
      BY <1>0, <1>1, <2>0, AppendProperties DEF SealInv, Numbers, Versions
    <2>3. Visited'
      BY <1>0, <1>1, <2>0, <2>1 DEF SealInv, Visited, Counts
    <2>4. \A p \in Path : Occurs(p, journal) => Occurs(p, journal')
      BY <2>0, AppendProperties DEF SealInv, Numbers, Occurs
    <2>5. Announced'
      BY <1>0, <2>0, <2>1, <2>4 DEF SealInv, Announced, AllEmitted
    <2> QED
      BY <2>2, <2>3, <2>5 DEF SealInv
  <1>3. CASE NextScan
    <2>0. /\ todo' = Path /\ current' = NoFile /\ phase' = "scan" /\ UNCHANGED journal
      BY <1>3 DEF NextScan
    <2>1. Numbers'
      BY <1>0, <2>0 DEF SealInv, Numbers, NoFile
    <2>2. \A p \in Path : current'[p] = 0 /\ stage'[p] \in Nat
      BY <1>0, <2>0 DEF SealInv, Numbers, NoFile
    <2>3. Versions'
      <3>1. UNCHANGED <<stage, made, linked, sealedStage>>
        BY <1>0
      <3>2. \A p \in Path : current'[p] <= stage'[p]
        BY <2>2
      <3> QED
        BY <1>1, <3>1, <3>2 DEF SealInv, Versions
    <2>4. Visited' /\ Announced'
      BY <1>0, <2>0 DEF SealInv, Visited, Announced, Occurs
    <2> QED
      BY <2>1, <2>3, <2>4 DEF SealInv
  <1> QED
    BY <1>0, <1>2, <1>3

\* The other turns of the processor, and everything its consumer and the executor do,
\* leave the tree and its journal alone.
LEMMA FlushOnlyMoves ==
  ASSUME NEW readers, Flush(readers) \/ InitialTimeout(readers) \/ End(readers)
  PROVE  /\ UNCHANGED treeVars
         /\ \/ phase' = phase
            \/ phase = "flush" /\ phase' = "decide"
            \/ phase = "final" /\ phase' = "ended"
            \/ phase' = "failed"
  <1> USE DEF treeVars, producerVars, scanVars
  <1>1. CASE Flush(readers)
    <2>1. Flushed \/ Flushing
      BY <1>1 DEF Flush, FlushNoReader, FlushNothing, FlushFull, FlushWrite
    <2> QED
      BY <2>1 DEF Flushed, Flushing, FlushIn
  <1>2. CASE InitialTimeout(readers)
    BY <1>2 DEF InitialTimeout
  <1>3. CASE End(readers)
    BY <1>3 DEF End
  <1> QED
    BY <1>1, <1>2, <1>3

LEMMA ConsumerOnlyReads ==
  ASSUME Main \/ Threads \/ Notify \/ RemoveRequest
  PROVE  UNCHANGED treeVars /\ phase' = phase
  <1> USE DEF treeVars, eventVars, processorVars, producerVars, scanVars
  <1>1. CASE Main
    BY <1>1 DEF Main, StartWorker, StartCollector, OpenEvents, ReadPart, ReadEnd, StopWorkers, JoinWorkers,
                JoinCollector, Report
  <1>2. CASE Threads
    BY <1>2 DEF Threads, TakeTask, FinishTask, Collect, EndCollector
  <1>3. CASE Notify \/ RemoveRequest
    BY <1>3 DEF Notify, RemoveRequest
  <1> QED
    BY <1>1, <1>2, <1>3

LEMMA NextSealInv == SealInv /\ [Next]_vars => SealInv'
  <1> SUFFICES ASSUME SealInv, [Next]_vars PROVE SealInv'
    OBVIOUS
  <1>1. CASE Events
    BY <1>1, ProducerKeepsSeal DEF Events
  <1>2. CASE RunProcessor
    <2>1. Processor(reading)
      BY <1>2 DEF RunProcessor
    <2>2. ASSUME NEW p \in Path, Visit(p) PROVE SealInv'
      BY <2>2, VisitKeepsSeal
    <2>3. CASE EmitStable
      BY <2>3, EmitKeepsSeal
    <2>4. CASE Decide
      BY <2>4, DecideKeepsSeal
    <2>5. CASE Flush(reading) \/ InitialTimeout(reading) \/ End(reading)
      BY <2>5, FlushOnlyMoves, PhaseKeepsSeal
    <2> QED
      BY <2>1, <2>2, <2>3, <2>4, <2>5 DEF Processor
  <1>3. CASE Main \/ Threads \/ Notify \/ RemoveRequest
    BY <1>3, ConsumerOnlyReads, PhaseKeepsSeal
  <1>4. CASE UNCHANGED vars
    <2>1. UNCHANGED treeVars /\ phase' = phase
      BY <1>4 DEF vars, eventVars, processorVars, producerVars, scanVars, treeVars
    <2> QED
      BY <2>1, PhaseKeepsSeal
  <1> QED
    BY <1>1, <1>2, <1>3, <1>4 DEF Next

\* The seal's invariant implies the property.
LEMMA SealInvCovers == SealInv => SealCoversTheTree
  <1> SUFFICES ASSUME SealInv, phase \in {"final", "ended"}, sealed = "explicit", ~stopping,
                      NEW p \in Path, sealedStage[p] # 0, stage[p] = sealedStage[p]
               PROVE  \E n \in 1 .. Len(journal) : journal[n] = p /\ emitted[p] = stage[p]
    BY DEF SealCoversTheTree
  <1>1. sealedStage[p] <= current[p] /\ current[p] <= stage[p]
    BY DEF SealInv, Visited, Counts, Versions
  <1>2. current[p] = stage[p]
    BY <1>1 DEF SealInv, Numbers
  <1>3. emitted[p] = stage[p]
    BY <1>2 DEF SealInv, Announced, AllEmitted
  <1> QED
    BY <1>3 DEF SealInv, Announced, Occurs

\* For every tree and any number of versions: a session that ends on an explicit seal
\* has announced every file that was in place at the seal and not replaced since
\* (the reconcile scan of run in streaming_directory_events_processor.py).
THEOREM SealCovers == Spec => []SealCoversTheTree
  <1>1. Spec => []SealInv
    BY InitSealInv, NextSealInv, PTL DEF Spec
  <1> QED
    BY <1>1, SealInvCovers, PTL

-----------------------------------------------------------------------------
(* The reader gets the journal.                                            *)

StreamTypes ==
    /\ popped \in Nat /\ writer \in [open : BOOLEAN, batch : Nat, half : BOOLEAN]
    /\ fifo \in Seq(Part)
    /\ got \in Seq(Nat) /\ \A i \in 1 .. Len(got) : got[i] = i

\* Nothing is written before the reader has opened the FIFO, which it does once.
Early == main \in {"workers", "collector", "open"}
Unopened ==
    Early => /\ ~reading /\ fifo = <<>> /\ got = <<>> /\ line = <<0, 0>>
             /\ popped = 0 /\ ~writer.half

\* The main thread only reads what it has opened.
Opened == main \in {"opening", "read"} => reading

\* At most the first part in the FIFO is of a payload, and it is the next one due.
Due(p) ==
    /\ p.from = Len(got) + 1 /\ p.from <= p.to
    /\ line = IF p.part = "tail" THEN <<p.from, p.to>> ELSE <<0, 0>>
Parts ==
    /\ \A i \in 1 .. Len(fifo) : fifo[i].part = "notice" => fifo[i].from = 0
    /\ \A i \in 2 .. Len(fifo) : fifo[i].part = "notice"
    /\ reading /\ fifo # <<>> /\ fifo[1].part # "notice" => Due(fifo[1])

\* What the running processor remembers of the stream agrees with what was read.
Sending(p) ==
    IF p.part = "head" THEN writer.half /\ popped = Len(got) /\ p.to = popped + writer.batch
    ELSE ~writer.half /\ popped = p.to
Agreement ==
    Running =>
        /\ \A i \in 1 .. Len(fifo) : fifo[i].part # "notice"
        /\ writer.half => writer.batch # 0
        /\ reading /\ fifo = <<>> =>
              /\ popped = Len(got)
              /\ line = IF writer.half THEN <<popped + 1, popped + writer.batch>> ELSE <<0, 0>>
        /\ reading /\ fifo # <<>> => Sending(fifo[1])

StreamInv == StreamTypes /\ Unopened /\ Parts /\ Agreement

LEMMA InitStreamInv == Init => StreamInv
  <1> SUFFICES ASSUME Init PROVE StreamInv
    OBVIOUS
  <1>0. /\ popped = 0 /\ writer = Idle /\ fifo = <<>> /\ main = "workers" /\ reading = FALSE
        /\ line = <<0, 0>> /\ got = <<>>
    BY DEF Init, EventsInit, ChannelInit
  <1>1. StreamTypes
    <2>1. Idle \in [open : BOOLEAN, batch : Nat, half : BOOLEAN]
      BY DEF Idle
    <2>2. <<>> \in Seq(Part) /\ <<>> \in Seq(Nat) /\ Len(<<>>) = 0
      OBVIOUS
    <2> QED
      BY <1>0, <2>1, <2>2 DEF StreamTypes
  <1>2. ~writer.half
    BY <1>0 DEF Idle
  <1>3. Unopened /\ Parts /\ Agreement
    BY <1>0, <1>2 DEF Unopened, Parts, Agreement
  <1> QED
    BY <1>1, <1>3 DEF StreamInv

\* What the stream is about.
streamVars == <<popped, writer, fifo, line, got>>

\* Steps that leave the stream alone: also those that end the processor, or the reading.
LEMMA StreamKept ==
  ASSUME StreamInv, UNCHANGED streamVars, Running' => Running,
         reading' => reading, Early' => Early
  PROVE  StreamInv'
  <1>1. StreamTypes'
    BY DEF StreamInv, StreamTypes, streamVars
  <1>2. Unopened'
    BY DEF StreamInv, Unopened, streamVars
  <1>3. Parts'
    BY DEF StreamInv, Parts, Due, streamVars
  <1>4. Agreement'
    BY DEF StreamInv, Agreement, Sending, streamVars
  <1> QED
    BY <1>1, <1>2, <1>3, <1>4 DEF StreamInv

\* The reader opens the FIFO: nothing was written before.
LEMMA OpenKeepsStream ==
  ASSUME StreamInv, UNCHANGED streamVars, phase' = phase, Early, ~Early'
  PROVE  StreamInv'
  <1>1. fifo = <<>> /\ got = <<>> /\ line = <<0, 0>> /\ popped = 0 /\ ~writer.half
    BY DEF StreamInv, Unopened
  <1>2. Len(got) = 0
    BY <1>1
  <1>3. StreamTypes' /\ Unopened'
    BY DEF StreamInv, StreamTypes, Unopened, streamVars
  <1>4. Parts' /\ Agreement'
    BY <1>1, <1>2 DEF StreamInv, Parts, Agreement, streamVars
  <1> QED
    BY <1>3, <1>4 DEF StreamInv

\* A FIFO that only one end had is emptied when that end is closed.
LEMMA CloseKeepsStream ==
  ASSUME StreamInv, UNCHANGED <<popped, line, got, reading>>, Early' => Early, writer' = Idle,
         \/ ~reading /\ fifo' = <<>>
         \/ ~Running' /\ fifo' = fifo
  PROVE  StreamInv'
  <1>1. ~writer'.half /\ writer' \in [open : BOOLEAN, batch : Nat, half : BOOLEAN]
    BY DEF Idle
  <1>2. <<>> \in Seq(Part) /\ Len(<<>>) = 0
    OBVIOUS
  <1>3. StreamTypes'
    BY <1>1, <1>2 DEF StreamInv, StreamTypes
  <1>4. Unopened'
    BY <1>1 DEF StreamInv, Unopened
  <1>5. CASE ~reading /\ fifo' = <<>>
    <2>1. Parts' /\ Agreement'
      BY <1>1, <1>2, <1>5 DEF Parts, Agreement
    <2> QED
      BY <1>3, <1>4, <2>1 DEF StreamInv
  <1>6. CASE ~Running' /\ fifo' = fifo
    <2>1. Parts'
      BY <1>6 DEF StreamInv, Parts, Due
    <2>2. Agreement'
      BY <1>6 DEF Agreement
    <2> QED
      BY <1>3, <1>4, <2>1, <2>2 DEF StreamInv
  <1> QED
    BY <1>5, <1>6

\* The writer connects, or keeps a batch for which there is no room.
LEMMA WaitKeepsStream ==
  ASSUME StreamInv, UNCHANGED <<popped, fifo, line, got, reading>>, Running, Early' => Early,
         writer' \in [open : BOOLEAN, batch : Nat, half : BOOLEAN],
         writer'.half = writer.half,
         writer'.batch = writer.batch \/ writer.batch = 0
  PROVE  StreamInv'
  <1>1. StreamTypes' /\ Unopened'
    BY DEF StreamInv, StreamTypes, Unopened
  <1>2. Parts'
    BY DEF StreamInv, Parts, Due
  <1>3. writer.half => writer'.batch = writer.batch
    BY DEF StreamInv, Agreement
  <1>4. Agreement'
    BY <1>3 DEF StreamInv, Agreement, Sending
  <1> QED
    BY <1>1, <1>2, <1>4 DEF StreamInv

LEMMA FlushKeepsStream ==
  ASSUME SealInv, StreamInv, Flush(reading), UNCHANGED <<line, got, reading>>, Early' => Early
  PROVE  StreamInv'
  <1>0. /\ popped \in Nat /\ writer \in [open : BOOLEAN, batch : Nat, half : BOOLEAN]
        /\ Pending \in Int
    BY DEF SealInv, Numbers, StreamInv, StreamTypes, Pending
  <1>1. Running /\ Running'
    <2>1. Flushed \/ Flushing
      BY DEF Flush, FlushNoReader, FlushNothing, FlushFull, FlushWrite
    <2> QED
      BY <2>1 DEF Flushed, Flushing, FlushIn, Running
  <1>2. CASE FlushNoReader(reading)
    BY <1>2, CloseKeepsStream DEF FlushNoReader
  <1>3. CASE FlushNothing(reading)
    <2>1. UNCHANGED <<popped, fifo>> /\ writer' = [writer EXCEPT !.open = TRUE]
      BY <1>3 DEF FlushNothing
    <2>2. /\ writer' \in [open : BOOLEAN, batch : Nat, half : BOOLEAN]
          /\ writer'.half = writer.half /\ writer'.batch = writer.batch
      BY <1>0, <2>1
    <2> QED
      BY <1>1, <2>1, <2>2, WaitKeepsStream
  <1>4. CASE FlushFull(reading)
    <2>1. /\ UNCHANGED <<popped, fifo>> /\ Pending > 0
          /\ writer' = [open |-> TRUE, batch |-> IF writer.batch = 0 THEN Pending ELSE writer.batch,
                        half |-> writer.half]
      BY <1>4 DEF FlushFull
    <2>2. /\ writer' \in [open : BOOLEAN, batch : Nat, half : BOOLEAN]
          /\ writer'.half = writer.half /\ (writer'.batch = writer.batch \/ writer.batch = 0)
      BY <1>0, <2>1
    <2> QED
      BY <1>1, <2>1, <2>2, WaitKeepsStream
  <1>5. CASE FlushWrite(reading)
    <2> DEFINE batch == IF writer.batch = 0 THEN Pending ELSE writer.batch
               next(part) == [from |-> popped + 1, to |-> popped + batch, part |-> part]
    <2>1. reading /\ Pending > 0 /\ fifo = <<>>
      BY <1>5 DEF FlushWrite
    <2>2. batch \in Nat /\ batch > 0 /\ (writer.half => batch = writer.batch)
      BY <1>0, <1>1, <2>1 DEF StreamInv, Agreement
    <2>3. /\ popped = Len(got) /\ Len(got) \in Nat
          /\ line = IF writer.half THEN <<popped + 1, popped + batch>> ELSE <<0, 0>>
      BY <1>1, <2>1, <2>2 DEF StreamInv, StreamTypes, Agreement
    <2>4. ~Early /\ ~Early'
      BY <2>1 DEF StreamInv, Unopened
    <2>5. \/ /\ ~writer.half /\ fifo' = Append(fifo, next("head")) /\ popped' = popped
             /\ writer' = [open |-> TRUE, batch |-> batch, half |-> TRUE]
          \/ /\ fifo' = Append(fifo, next(IF writer.half THEN "tail" ELSE "whole"))
             /\ popped' = popped + batch /\ writer' = [open |-> TRUE, batch |-> 0, half |-> FALSE]
      BY <1>5 DEF FlushWrite
    <2> HIDE DEF batch
    <2>6. ASSUME NEW part \in {"head", "tail", "whole"}, fifo' = Append(fifo, next(part))
          PROVE  /\ next(part) \in Part /\ fifo' \in Seq(Part) /\ Len(fifo') = 1 /\ fifo'[1] = next(part)
                 /\ fifo'[1].from = popped + 1 /\ fifo'[1].to = popped + batch /\ fifo'[1].part = part
      <3>1. next(part) \in Part
        BY <1>0, <2>2 DEF Part
      <3>2. fifo' = <<next(part)>>
        BY <2>1, <2>6
      <3> QED
        BY <3>1, <3>2
    <2> HIDE DEF next
    <2>7. CASE ~writer.half /\ fifo' = Append(fifo, next("head")) /\ popped' = popped
               /\ writer' = [open |-> TRUE, batch |-> batch, half |-> TRUE]
      <3>1. /\ fifo' \in Seq(Part) /\ Len(fifo') = 1 /\ fifo' # <<>>
            /\ fifo'[1].from = popped + 1 /\ fifo'[1].to = popped + batch /\ fifo'[1].part = "head"
        BY <2>6, <2>7
      <3>2. StreamTypes' /\ Unopened'
        BY <2>2, <2>4, <2>7, <3>1 DEF StreamInv, StreamTypes, Unopened
      <3>3. Parts'
        BY <1>0, <2>2, <2>3, <2>7, <3>1 DEF Parts, Due
      <3>4. Agreement'
        BY <2>2, <2>3, <2>7, <3>1 DEF Agreement, Sending
      <3> QED
        BY <3>2, <3>3, <3>4 DEF StreamInv
    <2>8. CASE /\ fifo' = Append(fifo, next(IF writer.half THEN "tail" ELSE "whole"))
               /\ popped' = popped + batch /\ writer' = [open |-> TRUE, batch |-> 0, half |-> FALSE]
      <3> DEFINE part == IF writer.half THEN "tail" ELSE "whole"
      <3>1. /\ fifo' \in Seq(Part) /\ Len(fifo') = 1 /\ fifo' # <<>>
            /\ fifo'[1].from = popped + 1 /\ fifo'[1].to = popped + batch /\ fifo'[1].part = part
        BY <2>6, <2>8
      <3>2. StreamTypes' /\ Unopened'
        BY <1>0, <2>2, <2>4, <2>8, <3>1 DEF StreamInv, StreamTypes, Unopened
      <3>3. Parts'
        BY <1>0, <2>2, <2>3, <2>8, <3>1, SMTT(20) DEF Parts, Due
      <3>4. Agreement'
        BY <1>0, <2>2, <2>3, <2>8, <3>1 DEF Agreement, Sending
      <3> QED
        BY <3>2, <3>3, <3>4 DEF StreamInv
    <2> QED
      BY <2>5, <2>7, <2>8
  <1> QED
    BY <1>2, <1>3, <1>4, <1>5 DEF Flush

\* The executor's notice goes behind what the ended processor has left.
LEMMA NotifyKeepsStream ==
  ASSUME StreamInv, Notify
  PROVE  StreamInv'
  <1> DEFINE notice == [from |-> 0, to |-> 0, part |-> "notice"]
  <1>0. /\ ~Running /\ ~Running' /\ UNCHANGED <<popped, writer, line, got, reading>>
        /\ fifo' = fifo \/ (reading /\ fifo' = Append(fifo, notice))
        /\ Early' = Early
    BY DEF Notify, Running, Woken, Early
  <1>1. CASE fifo' = fifo
    BY <1>0, <1>1, StreamKept DEF streamVars
  <1>2. CASE reading /\ fifo' = Append(fifo, notice)
    <2>1. fifo \in Seq(Part) /\ notice \in Part /\ notice.part = "notice" /\ notice.from = 0
      BY DEF StreamInv, StreamTypes, Part
    <2> HIDE DEF notice
    <2>2. /\ fifo' \in Seq(Part) /\ Len(fifo) \in Nat /\ Len(fifo') = Len(fifo) + 1
          /\ \A i \in 1 .. Len(fifo) : fifo'[i] = fifo[i]
          /\ fifo'[Len(fifo')] = notice
      BY <1>0, <1>2, <2>1, AppendProperties
    <2>3. ~Early
      BY <1>2 DEF StreamInv, Unopened
    <2>4. StreamTypes' /\ Unopened' /\ Agreement'
      BY <1>0, <2>2, <2>3 DEF StreamInv, StreamTypes, Unopened, Agreement
    <2>5. \A i \in 1 .. Len(fifo') : (fifo'[i] = fifo[i] /\ i \in 1 .. Len(fifo)) \/ fifo'[i] = notice
      BY <2>2
    <2>6. fifo'[1].part # "notice" => fifo # <<>> /\ fifo'[1] = fifo[1]
      BY <2>1, <2>2
    <2>7. Parts'
      BY <1>0, <2>1, <2>2, <2>5, <2>6 DEF StreamInv, Parts, Due
    <2> QED
      BY <2>4, <2>7 DEF StreamInv
  <1> QED
    BY <1>0, <1>1, <1>2

\* Nothing but a notice behind a cut line is found unfit.
Unfit(p) ==
    \/ p.part \in {"whole", "notice"} /\ line # <<0, 0>>
    \/ p.part = "tail" /\ line # <<p.from, p.to>>
    \/ p.part \in {"whole", "tail"} /\ got # <<>> /\ p.from <= Last(got)

LEMMA DueIsFit ==
  ASSUME StreamInv, NEW p \in Part, p.part # "notice", Due(p)
  PROVE  ~Unfit(p)
  <1>1. got # <<>> => Last(got) = Len(got) /\ Len(got) \in Nat
    BY DEF StreamInv, StreamTypes, Last
  <1>2. got # <<>> => ~(p.from <= Last(got))
    BY <1>1 DEF Due
  <1> QED
    BY <1>2 DEF Due, Unfit

LEMMA ReadKeepsStream ==
  ASSUME Opened, StreamInv, ReadPart
  PROVE  StreamInv'
  <1> DEFINE p == Head(fifo)
  <1>0. /\ main = "read" /\ main' \in {"read", "stop"} /\ fifo # <<>> /\ fifo' = Tail(fifo)
        /\ UNCHANGED <<popped, writer, reading, phase>>
    BY DEF ReadPart
  <1>1. /\ p \in Part /\ p = fifo[1] /\ fifo' \in Seq(Part) /\ Len(fifo') = Len(fifo) - 1
        /\ Len(fifo) \in Nat /\ \A i \in 1 .. Len(fifo') : fifo'[i] = fifo[i + 1]
    BY <1>0, HeadTailProperties DEF StreamInv, StreamTypes
  <1>2. ~Early /\ ~Early'
    BY <1>0 DEF Early
  <1>3. \A i \in 1 .. Len(fifo') : fifo'[i].part = "notice" /\ fifo'[i].from = 0
    BY <1>1 DEF StreamInv, Parts
  <1>4. Parts'
    BY <1>3, <1>1 DEF Parts
  <1>5. popped \in Nat /\ writer \in [open : BOOLEAN, batch : Nat, half : BOOLEAN]
    BY DEF StreamInv, StreamTypes
  <1>6. Running => fifo' = <<>> /\ p.part # "notice" /\ Running' /\ (reading => Sending(p))
    <2>1. ASSUME Running, fifo' # <<>> PROVE FALSE
      <3>1. Len(fifo) >= 2
        BY <1>1, <2>1
      <3>2. fifo[2].part = "notice" /\ 2 \in 1 .. Len(fifo)
        BY <1>1, <3>1 DEF StreamInv, Parts
      <3> QED
        BY <2>1, <3>2 DEF StreamInv, Agreement
    <2>2. 1 \in 1 .. Len(fifo)
      BY <1>0, <1>1
    <2> QED
      BY <1>0, <1>1, <2>1, <2>2 DEF StreamInv, Agreement, Running
  <1>7. Running' => Running
    BY <1>0 DEF Running
  <1>8. reading /\ p.part # "notice" => Due(p)
    BY <1>0, <1>1 DEF StreamInv, Parts
  <1>9. \/ p.part = "head" /\ line' = <<p.from, p.to>> /\ got' = got
        \/ p.part = "notice" /\ got' = got
        \/ Unfit(p) /\ got' = got
        \/ /\ p.part \in {"whole", "tail"} /\ ~Unfit(p) /\ line' = <<0, 0>>
           /\ got' = got \o [i \in 1 .. p.to + 1 - p.from |-> p.from + i - 1]
    BY DEF ReadPart, Unfit
  <1> HIDE DEF p
  <1>10. CASE got' = got /\ (~Running \/ ~reading)
    <2>1. StreamTypes' /\ Unopened'
      BY <1>1, <1>2, <1>0, <1>10 DEF StreamInv, StreamTypes, Unopened
    <2>2. Agreement'
      BY <1>0, <1>6, <1>7, <1>10 DEF StreamInv, Agreement
    <2> QED
      BY <1>4, <2>1, <2>2 DEF StreamInv
  <1>11. CASE reading /\ Running /\ p.part = "head" /\ line' = <<p.from, p.to>> /\ got' = got
    <2>1. StreamTypes' /\ Unopened'
      BY <1>1, <1>2, <1>0, <1>11 DEF StreamInv, StreamTypes, Unopened
    <2>2. writer.half /\ popped = Len(got) /\ p.to = popped + writer.batch /\ p.from = popped + 1
      BY <1>6, <1>8, <1>11 DEF Due, Sending
    <2>3. Agreement'
      BY <1>0, <1>6, <1>11, <2>2 DEF StreamInv, Agreement
    <2> QED
      BY <1>4, <2>1, <2>3 DEF StreamInv
  <1>12. CASE reading /\ Running /\ (p.part = "notice" \/ Unfit(p))
    BY <1>1, <1>6, <1>8, <1>12, DueIsFit
  <1>13. CASE /\ reading /\ p.part \in {"whole", "tail"} /\ line' = <<0, 0>>
              /\ got' = got \o [i \in 1 .. p.to + 1 - p.from |-> p.from + i - 1]
    <2> DEFINE rest == [i \in 1 .. p.to + 1 - p.from |-> p.from + i - 1]
    <2>1. Due(p) /\ p.from \in Nat /\ p.to \in Nat /\ Len(got) \in Nat /\ got \in Seq(Nat)
      BY <1>1, <1>8, <1>13, SMTT(20) DEF Part, StreamInv, StreamTypes
    <2>2. p.from = Len(got) + 1 /\ p.from <= p.to
      BY <2>1 DEF Due
    <2>3. p.to + 1 - p.from \in Nat /\ Len(got) + (p.to + 1 - p.from) = p.to
      BY <2>1, <2>2
    <2>4. rest \in Seq(Nat) /\ Len(rest) = p.to + 1 - p.from
      <3>1. \A i \in 1 .. p.to + 1 - p.from : p.from + i - 1 \in Nat
        BY <2>1, <2>2
      <3>2. rest \in [1 .. p.to + 1 - p.from -> Nat]
        BY <3>1
      <3> HIDE DEF rest
      <3> QED
        BY <2>3, <3>2
    <2>5. \A i \in 1 .. Len(rest) : rest[i] = Len(got) + i
      BY <2>1, <2>2, <2>4
    <2> HIDE DEF rest
    <2>6. got' = got \o rest
      BY <1>13 DEF rest
    <2>7. /\ got' \in Seq(Nat) /\ Len(got') = p.to
          /\ \A i \in 1 .. p.to : got'[i] = IF i <= Len(got) THEN got[i] ELSE rest[i - Len(got)]
      <3>1. /\ got \o rest \in Seq(Nat) /\ Len(got \o rest) = Len(got) + Len(rest)
            /\ \A i \in 1 .. Len(got) + Len(rest) :
                  (got \o rest)[i] = IF i <= Len(got) THEN got[i] ELSE rest[i - Len(got)]
        BY <2>1, <2>4, ConcatProperties
      <3>2. Len(got) + Len(rest) = p.to
        BY <2>3, <2>4
      <3> QED
        BY <2>6, <3>1, <3>2
    <2>8. ASSUME NEW i \in 1 .. Len(got') PROVE got'[i] = i
      <3>0. i \in 1 .. p.to /\ i \in Nat
        BY <2>1, <2>7
      <3>1. CASE i <= Len(got)
        <4>1. i \in 1 .. Len(got)
          BY <2>1, <3>0, <3>1
        <4> QED
          BY <2>7, <3>0, <3>1, <4>1 DEF StreamInv, StreamTypes
      <3>2. CASE ~(i <= Len(got))
        <4>1. i - Len(got) \in 1 .. Len(rest) /\ Len(got) + (i - Len(got)) = i
          <5>1. Len(got) + Len(rest) = p.to
            BY <2>3, <2>4
          <5>2. Len(rest) \in Nat
            BY <2>4
          <5> QED
            BY <2>1, <3>0, <3>2, <5>1, <5>2
        <4>2. rest[i - Len(got)] = i
          BY <2>5, <4>1
        <4> QED
          BY <2>7, <3>0, <3>2, <4>2
      <3> QED
        BY <3>1, <3>2
    <2>9. StreamTypes' /\ Unopened'
      BY <1>0, <1>1, <1>2, <1>5, <2>7, <2>8 DEF StreamTypes, Unopened
    <2>10. Running => ~writer.half /\ popped = p.to
      BY <1>6, <1>13 DEF Sending
    <2>11. Agreement'
      <3> SUFFICES ASSUME Running' PROVE Agreement'
        BY DEF Agreement
      <3>1. fifo' = <<>> /\ Len(fifo') = 0 /\ ~writer'.half
        BY <1>0, <1>6, <1>7, <2>10
      <3>2. popped' = Len(got') /\ line' = <<0, 0>>
        BY <1>0, <1>7, <1>13, <2>7, <2>10
      <3> QED
        BY <3>1, <3>2 DEF Agreement
    <2> QED
      BY <1>4, <2>9, <2>11 DEF StreamInv
  <1>14. reading
    BY <1>0 DEF Opened
  <1> QED
    BY <1>9, <1>10, <1>11, <1>12, <1>13, <1>14

\* What the rest of the main thread, the other threads and the executor do.
LEMMA ConsumerKeepsStream ==
  ASSUME Opened, StreamInv, Main \/ Threads \/ Notify \/ RemoveRequest
  PROVE  StreamInv'
  <1> USE DEF streamVars, eventVars, processorVars, producerVars, scanVars, writerVars
  <1>0. Running' = Running
    <2>1. phase' = phase
      BY ConsumerOnlyReads
    <2> QED
      BY <2>1 DEF Running
  <1>1. CASE OpenEvents
    <2>1. CASE At("open", "opening")
      BY <1>1, <2>1, OpenKeepsStream DEF OpenEvents, At, Early
    <2>2. CASE At("open", "stop") /\ UNCHANGED reading
      BY <1>0, <1>1, <2>2, StreamKept DEF OpenEvents, At, Early
    <2> QED
      BY <1>1, <2>1, <2>2 DEF OpenEvents
  <1>2. CASE ReadPart
    BY <1>2, ReadKeepsStream
  <1>3. CASE Notify
    BY <1>3, NotifyKeepsStream
  <1>4. CASE StartWorker \/ StartCollector
    BY <1>0, <1>4, StreamKept DEF StartWorker, StartCollector, At, Early
  <1>5. CASE ReadEnd \/ StopWorkers
    BY <1>0, <1>5, StreamKept DEF ReadEnd, StopWorkers, At, Early
  <1>6. CASE JoinWorkers \/ JoinCollector \/ Report
    BY <1>0, <1>6, StreamKept DEF JoinWorkers, JoinCollector, Report, At, Early
  <1>7. CASE Threads \/ RemoveRequest
    BY <1>0, <1>7, StreamKept DEF Threads, TakeTask, FinishTask, Collect, EndCollector, RemoveRequest, Early
  <1> QED
    BY <1>1, <1>2, <1>3, <1>4, <1>5, <1>6, <1>7 DEF Main

LEMMA NextOpened == Opened /\ [Next]_vars => Opened'
  <1> SUFFICES ASSUME Opened, [Next]_vars PROVE Opened'
    OBVIOUS
  <1> USE DEF Opened
  <1>1. CASE Events \/ RemoveRequest \/ Threads \/ UNCHANGED vars
    <2>1. UNCHANGED <<main, reading>>
      BY <1>1 DEF Events, bulkVars, RemoveRequest, Threads, TakeTask, FinishTask, Collect, EndCollector, vars
    <2> QED
      BY <2>1
  <1>2. CASE RunProcessor \/ Notify
    <2>1. reading' = reading /\ (main' = main \/ main = "opening")
      BY <1>2 DEF RunProcessor, Notify, Woken
    <2> QED
      BY <2>1
  <1>3. CASE Main
    BY <1>3 DEF Main, StartWorker, StartCollector, OpenEvents, ReadPart, ReadEnd, StopWorkers, JoinWorkers,
                JoinCollector, Report, At
  <1> QED
    BY <1>1, <1>2, <1>3 DEF Next

LEMMA NextStreamInv == SealInv /\ Opened /\ StreamInv /\ [Next]_vars => StreamInv'
  <1> SUFFICES ASSUME SealInv, Opened, StreamInv, [Next]_vars PROVE StreamInv'
    OBVIOUS
  <1> USE DEF streamVars, eventVars, bulkVars, processorVars, producerVars, scanVars, writerVars
  <1>1. CASE Events
    <2>1. UNCHANGED streamVars /\ UNCHANGED <<phase, reading, main>>
      BY <1>1 DEF Events, Producer, Rename, LinkUpload, FinishUpload, Seal, SignalProcessor
    <2> QED
      BY <2>1, StreamKept DEF Running, Early
  <1>2. CASE RunProcessor
    <2>0. /\ Processor(reading) /\ UNCHANGED <<reading, line, got>>
          /\ main' = main \/ main' = "read"
      BY <1>2 DEF RunProcessor, Woken
    <2>1. Early' => Early
      BY <2>0 DEF Early
    <2>2. CASE EmitStable \/ Decide \/ \E p \in Path : Visit(p)
      <3>1. UNCHANGED <<popped, writer, fifo>> /\ Running
        BY <2>2 DEF EmitStable, Decide, Visit, Running
      <3> QED
        BY <2>0, <2>1, <3>1, StreamKept
    <2>3. CASE Flush(reading)
      BY <2>0, <2>1, <2>3, FlushKeepsStream
    <2>4. CASE InitialTimeout(reading) \/ End(reading)
      <3>1. Close(reading) /\ ~Running' /\ UNCHANGED popped
        BY <2>4 DEF InitialTimeout, End, Running
      <3> QED
        BY <2>0, <2>1, <3>1, CloseKeepsStream DEF Close
    <2> QED
      BY <2>0, <2>2, <2>3, <2>4 DEF Processor
  <1>3. CASE Main \/ Threads \/ Notify \/ RemoveRequest
    BY <1>3, ConsumerKeepsStream
  <1>4. CASE UNCHANGED vars
    <2>1. UNCHANGED streamVars /\ UNCHANGED <<phase, reading, main>>
      BY <1>4 DEF vars
    <2> QED
      BY <2>1, StreamKept DEF Running, Early
  <1> QED
    BY <1>1, <1>2, <1>3, <1>4 DEF Next

LEMMA StreamInvJournal == StreamInv => StreamIsTheJournal
  <1> SUFFICES ASSUME StreamInv PROVE StreamIsTheJournal
    OBVIOUS
  <1>1. got \in Seq(Nat) /\ Len(got) \in Nat /\ \A i \in 1 .. Len(got) : got[i] = i
    BY DEF StreamInv, StreamTypes
  <1>2. got = [i \in 1 .. Len(got) |-> i]
    BY <1>1
  <1>3. reading /\ fifo # <<>> => fifo[1].from \in {0, Len(got) + 1}
    <2>1. fifo # <<>> => 1 \in 1 .. Len(fifo)
      BY DEF StreamInv, StreamTypes
    <2> QED
      BY <2>1 DEF StreamInv, Parts, Due
  <1> QED
    BY <1>2, <1>3 DEF StreamIsTheJournal

\* For every journal and every sequence of partial writes, full FIFOs and lost readers:
\* a reader gets the sequence numbers from 1 without a gap and without a repetition
\* (EventWriter.flush, iter_directory_event_stream).
THEOREM StreamJournal == Spec => []StreamIsTheJournal
  <1>1. Spec => [](SealInv /\ Opened /\ StreamInv)
    <2>1. Init => SealInv /\ Opened /\ StreamInv
      BY InitSealInv, InitStreamInv DEF Init, Opened
    <2>2. SealInv /\ Opened /\ StreamInv /\ [Next]_vars => (SealInv /\ Opened /\ StreamInv)'
      BY NextSealInv, NextOpened, NextStreamInv
    <2> QED
      BY <2>1, <2>2, PTL DEF Spec
  <1> QED
    BY <1>1, StreamInvJournal, PTL

-----------------------------------------------------------------------------
(* Numbers in their order.                                                 *)

LEMMA LeastNumber ==
  ASSUME NEW S \in SUBSET Nat, S # {}
  PROVE  \E n \in S : \A m \in S : n <= m
  <1> DEFINE less == OpToRel(<, Nat)
  <1>1. \E n \in S : \A m \in S : ~(<<m, n>> \in less)
    <2> HIDE DEF less
    <2>1. IsWellFoundedOn(less, Nat)
      BY NatLessThanWellFounded DEF less
    <2> QED
      BY <2>1, WFMin
  <1>2. \A m, n \in S : m < n => <<m, n>> \in less
    BY DEF OpToRel
  <1> HIDE DEF less
  <1>3. PICK n \in S : \A m \in S : ~(<<m, n>> \in less)
    BY <1>1
  <1>4. \A m \in S : ~(m < n)
    BY <1>2, <1>3
  <1>5. \A m \in S : n <= m
    BY <1>4
  <1> QED
    BY <1>5

Increasing(s, S) ==
    s \in [1 .. Cardinality(S) -> S] /\ \A i, j \in 1 .. Cardinality(S) : i < j => s[i] < s[j]

\* A set of numbers has an increasing sequence: its largest number goes behind the rest.
LEMMA CanBeOrdered ==
  ASSUME NEW b \in Nat, NEW S \in SUBSET (1 .. b)
  PROVE  \E s : Increasing(s, S)
  <1> DEFINE Ordered(n) == \A T \in SUBSET (1 .. n) : \E s : Increasing(s, T)
  <1>1. Ordered(0)
    <2> SUFFICES ASSUME NEW T \in SUBSET (1 .. 0) PROVE \E s : Increasing(s, T)
      OBVIOUS
    <2>1. T = {} /\ Cardinality(T) = 0
      <3>1. T = {}
        OBVIOUS
      <3> QED
        BY <3>1, FS_EmptySet
    <2>2. <<>> \in [1 .. 0 -> T]
      OBVIOUS
    <2>3. Increasing(<<>>, T)
      BY <2>1, <2>2 DEF Increasing
    <2> QED
      BY <2>3
  <1>2. ASSUME NEW n \in Nat, n # 0, Ordered(n - 1) PROVE Ordered(n)
    <2> SUFFICES ASSUME NEW T \in SUBSET (1 .. n) PROVE \E s : Increasing(s, T)
      OBVIOUS
    <2> DEFINE R == T \ {n}
    <2>1. R \in SUBSET (1 .. n - 1)
      BY <1>2
    <2>2. PICK r : Increasing(r, R)
      BY <1>2, <2>1
    <2>3. CASE n \notin T
      <3>1. R = T
        BY <2>3
      <3> QED
        BY <2>2, <3>1
    <2>4. CASE n \in T
      <3>1. IsFiniteSet(T)
        <4>1. IsFiniteSet(1 .. n) /\ T \subseteq 1 .. n
          BY <1>2, FS_Interval
        <4> QED
          BY <4>1, FS_Subset
      <3>2. IsFiniteSet(R) /\ Cardinality(R) \in Nat /\ Cardinality(T) = Cardinality(R) + 1
        <4>1. IsFiniteSet(R) /\ Cardinality(R) = Cardinality(T) - 1
          BY <2>4, <3>1, FS_RemoveElement
        <4>2. Cardinality(R) \in Nat /\ Cardinality(T) \in Nat
          BY <3>1, <4>1, FS_CardinalityType
        <4> QED
          BY <4>1, <4>2
      <3> DEFINE c == Cardinality(R)
                 s == [i \in 1 .. c + 1 |-> IF i <= c THEN r[i] ELSE n]
      <3>3. r \in [1 .. c -> R] /\ \A i, j \in 1 .. c : i < j => r[i] < r[j]
        BY <2>2 DEF Increasing
      <3>4. \A x \in R : x \in T /\ x \in Int /\ x < n
        BY <1>2, <2>1
      <3> HIDE DEF R
      <3>5. c \in Nat /\ Cardinality(T) = c + 1
        BY <3>2
      <3> HIDE DEF c
      <3>6. \A i \in 1 .. c + 1 : /\ i <= c => i \in 1 .. c /\ s[i] = r[i] /\ s[i] \in R
                                  /\ ~(i <= c) => i = c + 1 /\ s[i] = n
        BY <3>3, <3>5
      <3>7. s \in [1 .. c + 1 -> T]
        BY <2>4, <3>3, <3>4, <3>5
      <3> HIDE DEF s
      <3>8. ASSUME NEW i \in 1 .. c + 1, NEW j \in 1 .. c + 1, i < j PROVE s[i] < s[j]
        <4>1. i <= c
          BY <3>5, <3>8
        <4>2. CASE j <= c
          BY <3>3, <3>6, <3>8, <4>1, <4>2
        <4>3. CASE ~(j <= c)
          BY <3>4, <3>6, <4>1, <4>3
        <4> QED
          BY <4>2, <4>3
      <3> QED
        BY <3>5, <3>7, <3>8 DEF Increasing
    <2> QED
      BY <2>3, <2>4
  <1> HIDE DEF Ordered
  <1>3. Ordered(b)
    <2> SUFFICES ASSUME ~Ordered(b) PROVE FALSE
      OBVIOUS
    <2> DEFINE wrong == {n \in Nat : ~Ordered(n)}
    <2>1. wrong \in SUBSET Nat /\ wrong # {}
      OBVIOUS
    <2>2. PICK n \in wrong : \A m \in wrong : n <= m
      BY <2>1, LeastNumber
    <2>3. n \in Nat /\ ~Ordered(n) /\ n # 0
      BY <1>1
    <2>4. n - 1 \in Nat /\ n - 1 \notin wrong
      BY <2>2, <2>3
    <2> QED
      BY <1>2, <2>3, <2>4
  <1> QED
    BY <1>3 DEF Ordered

OnceEach(s) == \A i, j \in 1 .. Len(s) : s[i] = s[j] /\ s[i] # Terminator => i = j

\* InOrder lists a set of sequence numbers: each of them, and each once.
LEMMA InOrderIs ==
  ASSUME NEW b \in Nat, NEW S \in SUBSET (1 .. b)
  PROVE  /\ InOrder(S) \in Seq(S) /\ InOrder(S) \in Seq(Nat) /\ Len(InOrder(S)) \in Nat
         /\ \A i \in 1 .. Len(InOrder(S)) : InOrder(S)[i] \in S
         /\ \A k \in S : Occurs(k, InOrder(S))
         /\ OnceEach(InOrder(S))
  <1> DEFINE n == Cardinality(S)
             s == InOrder(S)
  <1>1. IsFiniteSet(S) /\ n \in Nat
    <2>1. IsFiniteSet(1 .. b) /\ S \subseteq 1 .. b
      BY FS_Interval
    <2>2. IsFiniteSet(S)
      BY <2>1, FS_Subset
    <2> QED
      BY <2>2, FS_CardinalityType
  <1>2. s \in [1 .. n -> S] /\ \A i, j \in 1 .. n : i < j => s[i] < s[j]
    <2>1. \E t \in [1 .. Cardinality(S) -> S] : \A i, j \in 1 .. Cardinality(S) : i < j => t[i] < t[j]
      BY CanBeOrdered DEF Increasing
    <2> QED
      BY <2>1 DEF InOrder
  <1> HIDE DEF s
  <1>3. s \in Seq(S) /\ Len(s) = n
    BY <1>1, <1>2
  <1>4. \A i, j \in 1 .. n : s[i] = s[j] => i = j
    <2> SUFFICES ASSUME NEW i \in 1 .. n, NEW j \in 1 .. n, s[i] = s[j], i # j PROVE FALSE
      OBVIOUS
    <2>1. i < j \/ j < i
      BY <1>1
    <2>2. s[i] \in Int /\ s[j] \in Int
      <3>1. \A x \in S : x \in Int
        OBVIOUS
      <3> HIDE DEF n
      <3>2. s[i] \in S /\ s[j] \in S
        BY <1>2
      <3> QED
        BY <3>1, <3>2
    <2> QED
      BY <1>2, <2>1, <2>2
  <1>5. IsFiniteSet(1 .. n) /\ Cardinality(1 .. n) = n
    BY <1>1, FS_Interval
  <1>6. s \in Injection(1 .. n, S)
    BY <1>2, <1>4 DEF Injection, IsInjective
  <1>7. s \in Surjection(1 .. n, S)
    <2> HIDE DEF n
    <2>1. Cardinality(S) = n
      BY DEF n
    <2> QED
      BY <1>1, <1>5, <1>6, <2>1, FS_Injection
  <1>8. \A k \in S : Occurs(k, s)
    BY <1>3, <1>7 DEF Surjection, Occurs
  <1>9. s \in Seq(Nat)
    <2>1. \A x \in S : x \in Nat
      OBVIOUS
    <2>2. \A i \in 1 .. n : s[i] \in Nat
      BY <1>2, <2>1
    <2> HIDE DEF n
    <2> QED
      BY <1>1, <1>2, <2>2
  <1> QED
    BY <1>1, <1>2, <1>3, <1>4, <1>8, <1>9 DEF s, OnceEach

-----------------------------------------------------------------------------
(* The types.  No batch and no part of a payload reaches beyond the        *)
(* journal, so that neither does what the reader was given.                *)

Bounds ==
    /\ popped + writer.batch <= Len(journal) /\ Len(got) <= Len(journal)
    /\ \A i \in 1 .. Len(fifo) : fifo[i].to <= Len(journal)

LEMMA SeqGrows ==
  ASSUME NEW S, NEW T, S \subseteq T
  PROVE  \A s \in Seq(S) : s \in Seq(T)
  OBVIOUS

\* The parts of a payload and the batch that was announced.
LEMMA EventNumbers ==
  ASSUME EventsTypeOK, Bounds
  PROVE  /\ Len(journal) \in Nat /\ popped \in Nat /\ popped <= Len(journal)
         /\ writer \in [open : BOOLEAN, batch : 0 .. Len(journal), half : BOOLEAN]
         /\ writer.batch \in Nat /\ writer.half \in BOOLEAN /\ writer.open \in BOOLEAN
         /\ popped + writer.batch <= Len(journal) /\ Pending \in Nat /\ popped + Pending = Len(journal)
         /\ fifo \in Seq(Part)
  <1>0. journal \in Seq(Path \cup {"terminated"}) /\ popped \in 0 .. Len(journal) /\ fifo \in Seq(Part)
    BY DEF EventsTypeOK
  <1>1. Len(journal) \in Nat /\ popped \in 0 .. Len(journal) /\ fifo \in Seq(Part)
    BY <1>0, LenProperties
  <1>2. writer \in [open : BOOLEAN, batch : 0 .. Len(journal), half : BOOLEAN]
    BY DEF EventsTypeOK
  <1> QED
    BY <1>1, <1>2 DEF Bounds, Pending

\* Steps of the producer and of the scan leave the payloads alone; the journal grows.
LEMMA JournalGrows ==
  ASSUME EventsTypeOK, Bounds, UNCHANGED <<popped, writer, fifo>>,
         journal' \in Seq(Path \cup {"terminated"}), Len(journal) <= Len(journal')
  PROVE  /\ popped' \in 0 .. Len(journal') /\ fifo' \in Seq(Part)
         /\ writer' \in [open : BOOLEAN, batch : 0 .. Len(journal'), half : BOOLEAN]
         /\ (UNCHANGED got => Bounds')
  <1>1. Len(journal') \in Nat
    OBVIOUS
  <1>2. \A i \in 1 .. Len(fifo) : fifo[i].to \in Nat
    <2>1. \A i \in 1 .. Len(fifo) : fifo[i] \in Part
      BY EventNumbers, ElementOfSeq
    <2> QED
      BY <2>1 DEF Part
  <1>3. writer \in [open : BOOLEAN, batch : 0 .. Len(journal'), half : BOOLEAN]
    BY <1>1, EventNumbers
  <1>4. ASSUME UNCHANGED got PROVE Bounds'
    <2>1. \A i \in 1 .. Len(fifo) : fifo[i].to <= Len(journal')
      BY <1>1, <1>2, EventNumbers DEF Bounds
    <2>2. popped + writer.batch <= Len(journal')
      BY <1>1, EventNumbers
    <2>3. Len(got) <= Len(journal')
      BY <1>1, EventNumbers DEF Bounds
    <2> QED
      BY <1>4, <2>1, <2>2, <2>3 DEF Bounds
  <1> QED
    BY <1>1, <1>3, <1>4, EventNumbers

\* The other half: the tree and the journal stay, the payloads move.
LEMMA PayloadMoves ==
  ASSUME EventsTypeOK, UNCHANGED <<producerVars, scanVars, journal>>, stopping' \in BOOLEAN,
         phase' \in {"scan", "flush", "decide", "final", "ended", "failed"},
         popped' \in 0 .. Len(journal), fifo' \in Seq(Part),
         writer' \in [open : BOOLEAN, batch : 0 .. Len(journal), half : BOOLEAN]
  PROVE  EventsTypeOK'
  BY DEF EventsTypeOK, producerVars, scanVars

LEMMA ProducerTypes ==
  ASSUME EventsTypeOK, Bounds, Producer \/ SignalProcessor, UNCHANGED got
  PROVE  EventsTypeOK' /\ Bounds' /\ Len(journal) <= Len(journal')
  <1>0. UNCHANGED <<popped, writer, fifo, journal, todo, current, previous, emitted, sealed, phase>>
    BY DEF Producer, Rename, LinkUpload, FinishUpload, Seal, SignalProcessor, processorVars, scanVars, writerVars
  <1>1. Bounds' /\ Len(journal) <= Len(journal')
    BY <1>0, EventNumbers DEF Bounds
  <1>2. /\ popped' \in 0 .. Len(journal') /\ fifo' \in Seq(Part)
        /\ writer' \in [open : BOOLEAN, batch : 0 .. Len(journal'), half : BOOLEAN]
        /\ journal' \in Seq(Path \cup {"terminated"})
    BY <1>0 DEF EventsTypeOK
  <1> DEFINE Tree == /\ {stage', linked'} \subseteq [Path -> 0 .. MaxVersion] /\ made' \in 0 .. MaxVersion
                     /\ sealing' \in {"no", "written", "read"} /\ sealedStage' \in [Path -> 0 .. MaxVersion]
                     /\ stopping' \in BOOLEAN
  <1>3. Tree
    <2>0. /\ made \in 0 .. MaxVersion /\ MaxVersion \in Nat /\ 0 \in 0 .. MaxVersion
          /\ stage \in [Path -> 0 .. MaxVersion] /\ linked \in [Path -> 0 .. MaxVersion]
          /\ sealing \in {"no", "written", "read"} /\ sealedStage \in [Path -> 0 .. MaxVersion] /\ stopping \in BOOLEAN
      <3>1. MaxVersion \in Nat /\ 0 \in 0 .. MaxVersion
        BY EventsAssumption
      <3>2. {stage, linked} \subseteq [Path -> 0 .. MaxVersion]
        BY DEF EventsTypeOK
      <3>3. stage \in [Path -> 0 .. MaxVersion] /\ linked \in [Path -> 0 .. MaxVersion]
        BY <3>2
      <3>4. /\ made \in 0 .. MaxVersion /\ sealing \in {"no", "written", "read"}
            /\ sealedStage \in [Path -> 0 .. MaxVersion] /\ stopping \in BOOLEAN
        BY DEF EventsTypeOK
      <3> QED
        BY <3>1, <3>3, <3>4
    <2>1. ASSUME NEW p \in Path, Rename(p) PROVE Tree
      <3>1. /\ made < MaxVersion /\ made' = made + 1 /\ stage' = [stage EXCEPT ![p] = made + 1]
            /\ UNCHANGED <<linked, sealing, sealedStage, stopping>>
        BY <2>1 DEF Rename, processorVars
      <3>2. made + 1 \in 0 .. MaxVersion
        BY <2>0, <3>1
      <3> QED
        BY <2>0, <3>1, <3>2
    <2>1a. ASSUME NEW p \in Path, LinkUpload(p) PROVE Tree
      <3>1. /\ made < MaxVersion /\ made' = made + 1 /\ linked' = [linked EXCEPT ![p] = made + 1]
            /\ UNCHANGED <<stage, sealing, sealedStage, stopping>>
        BY <2>1a DEF LinkUpload, processorVars
      <3>2. made + 1 \in 0 .. MaxVersion
        BY <2>0, <3>1
      <3> QED
        BY <2>0, <3>1, <3>2
    <2>1b. ASSUME NEW p \in Path, FinishUpload(p) PROVE Tree
      <3>1. /\ stage' = [stage EXCEPT ![p] = linked[p]] /\ linked' = [linked EXCEPT ![p] = 0]
            /\ UNCHANGED <<made, sealing, sealedStage, stopping>>
        BY <2>1b DEF FinishUpload, processorVars
      <3>2. linked[p] \in 0 .. MaxVersion
        BY <2>0
      <3> QED
        BY <2>0, <3>1, <3>2
    <2>2. CASE Seal
      BY <2>2 DEF Seal, EventsTypeOK, processorVars
    <2>3. CASE SignalProcessor
      BY <2>3 DEF SignalProcessor, EventsTypeOK, producerVars
    <2> QED
      BY <2>1, <2>1a, <2>1b, <2>2, <2>3 DEF Producer
  <1>4. /\ phase' \in {"scan", "flush", "decide", "final", "ended", "failed"} /\ todo' \subseteq Path
        /\ {current', previous', emitted'} \subseteq [Path -> 0 .. MaxVersion] /\ sealed' \in {"", "explicit", "idle"}
    BY <1>0 DEF EventsTypeOK
  <1> QED
    BY <1>1, <1>2, <1>3, <1>4 DEF EventsTypeOK

LEMMA ScanTypes ==
  ASSUME EventsTypeOK, Bounds, EmitStable \/ Decide \/ \E p \in Path : Visit(p), UNCHANGED got
  PROVE  EventsTypeOK' /\ Bounds' /\ Len(journal) <= Len(journal')
  <1>0. /\ UNCHANGED <<popped, writer, fifo, stage, made, linked, sealedStage, stopping>>
        /\ journal \in Seq(Path \cup {"terminated"})
    BY DEF EmitStable, Decide, Visit, producerVars, writerVars, EventsTypeOK
  <1>1. ASSUME journal' \in Seq(Path \cup {"terminated"}), Len(journal) <= Len(journal'),
               sealing' \in {"no", "written", "read"}, sealed' \in {"", "explicit", "idle"},
               phase' \in {"scan", "flush", "decide", "final", "ended", "failed"}, todo' \subseteq Path,
               current' \in [Path -> 0 .. MaxVersion], previous' \in [Path -> 0 .. MaxVersion],
               emitted' \in [Path -> 0 .. MaxVersion]
        PROVE  EventsTypeOK' /\ Bounds' /\ Len(journal) <= Len(journal')
    <2>1. /\ popped' \in 0 .. Len(journal') /\ fifo' \in Seq(Part) /\ Bounds'
          /\ writer' \in [open : BOOLEAN, batch : 0 .. Len(journal'), half : BOOLEAN]
      BY <1>0, <1>1, JournalGrows
    <2>2. EventsTypeOK'
      BY <1>0, <1>1, <2>1 DEF EventsTypeOK
    <2> QED
      BY <1>1, <2>1, <2>2
  <1>2. ASSUME NEW p \in Path, Visit(p) PROVE EventsTypeOK' /\ Bounds' /\ Len(journal) <= Len(journal')
    <2>1. /\ UNCHANGED <<journal, sealing, sealed, phase, previous, emitted>> /\ todo' = todo \ {p}
          /\ current' = [current EXCEPT ![p] = stage[p]]
      BY <1>2 DEF Visit, producerVars
    <2>2. current' \in [Path -> 0 .. MaxVersion] /\ todo' \subseteq Path
      BY <2>1 DEF EventsTypeOK
    <2>3. Len(journal) <= Len(journal')
      BY <2>1, EventNumbers
    <2> QED
      BY <1>0, <1>1, <2>1, <2>2, <2>3 DEF EventsTypeOK
  <1>3. CASE EmitStable
    <2>1. /\ UNCHANGED <<sealing, sealed, todo, current, previous>> /\ phase' = "flush"
          /\ journal' = journal \o SetToSeq(Stable)
          /\ emitted' = [p \in Path |-> IF p \in Stable THEN current[p] ELSE emitted[p]]
      BY <1>3 DEF EmitStable, producerVars
    <2>2. emitted' \in [Path -> 0 .. MaxVersion]
      BY <2>1 DEF EventsTypeOK
    <2>3. PICK e \in Seq(Path \cup {"terminated"}) : e = SetToSeq(Stable)
      <3>1. Stable \subseteq Path /\ IsFiniteSet(Stable)
        BY EventsAssumption, FS_Subset DEF Stable
      <3>2. SetToSeq(Stable) \in Seq(Stable)
        BY <3>1, SetToSeqListsAll
      <3> QED
        BY <3>1, <3>2
    <2>4. journal' \in Seq(Path \cup {"terminated"}) /\ Len(journal) <= Len(journal')
      <3>1. /\ journal \o e \in Seq(Path \cup {"terminated"}) /\ Len(journal \o e) = Len(journal) + Len(e)
            /\ Len(e) \in Nat /\ Len(journal) \in Nat
        BY <1>0, <2>3, ConcatProperties, LenProperties
      <3> QED
        BY <2>1, <2>3, <3>1
    <2> QED
      BY <1>1, <2>1, <2>2, <2>4 DEF EventsTypeOK
  <1>4. CASE Decide
    <2>1. /\ UNCHANGED emitted /\ SealNow
          /\ Terminate \/ NextScan
      BY <1>4 DEF Decide
    <2>2. sealing' \in {"no", "written", "read"} /\ sealed' \in {"", "explicit", "idle"}
      BY <2>1 DEF SealNow, EventsTypeOK
    <2>3. CASE Terminate
      <3>1. /\ journal' = Append(journal, "terminated") /\ phase' = "final" /\ UNCHANGED <<todo, current, previous>>
        BY <2>3 DEF Terminate
      <3>2. journal' \in Seq(Path \cup {"terminated"}) /\ Len(journal) <= Len(journal')
        BY <1>0, <3>1
      <3> QED
        BY <1>1, <2>1, <2>2, <3>1, <3>2 DEF EventsTypeOK
    <2>4. CASE NextScan
      <3>1. /\ todo' = Path /\ previous' = current /\ current' = NoFile /\ phase' = "scan" /\ UNCHANGED journal
        BY <2>4 DEF NextScan
      <3>2. current' \in [Path -> 0 .. MaxVersion] /\ Len(journal) <= Len(journal')
        BY <3>1, EventsAssumption, EventNumbers DEF NoFile
      <3> QED
        BY <1>0, <1>1, <2>1, <2>2, <3>1, <3>2 DEF EventsTypeOK
    <2> QED
      BY <2>1, <2>3, <2>4
  <1> QED
    BY <1>2, <1>3, <1>4

LEMMA FlushTypes ==
  ASSUME SealInv, EventsTypeOK, Bounds, NEW readers, UNCHANGED got,
         Flush(readers) \/ InitialTimeout(readers) \/ End(readers)
  PROVE  EventsTypeOK' /\ Bounds' /\ Len(journal) <= Len(journal')
  <1> DEFINE Writers == [open : BOOLEAN, batch : 0 .. Len(journal), half : BOOLEAN]
  <1>0. UNCHANGED <<producerVars, scanVars, journal, stopping>>
    BY DEF Flush, FlushNoReader, FlushNothing, FlushFull, FlushWrite, Flushed, Flushing, InitialTimeout, End
  <1>1. phase' \in {"scan", "flush", "decide", "final", "ended", "failed"} /\ stopping' \in BOOLEAN
    <2>1. phase' = phase \/ phase' \in {"decide", "ended", "failed"}
      BY FlushOnlyMoves
    <2> QED
      BY <1>0, <2>1 DEF EventsTypeOK
  <1>2. ASSUME popped' \in 0 .. Len(journal), fifo' \in Seq(Part), writer' \in Writers,
               popped' + writer'.batch <= Len(journal), \A i \in 1 .. Len(fifo') : fifo'[i].to <= Len(journal)
        PROVE  EventsTypeOK' /\ Bounds' /\ Len(journal) <= Len(journal')
    <2>1. EventsTypeOK'
      BY <1>0, <1>1, <1>2, PayloadMoves
    <2>2. Bounds' /\ Len(journal) <= Len(journal')
      BY <1>0, <1>2, EventNumbers DEF Bounds
    <2> QED
      BY <2>1, <2>2
  <1>3. Idle \in Writers /\ Idle.batch = 0 /\ <<>> \in Seq(Part) /\ Len(<<>>) = 0
    BY EventNumbers DEF Idle
  <1>4. CASE FlushNoReader(readers)
    <2>1. popped' = popped /\ fifo' = <<>> /\ writer' = Idle
      BY <1>4 DEF FlushNoReader
    <2> QED
      BY <1>2, <1>3, <2>1, EventNumbers
  <1>5. CASE FlushNothing(readers)
    <2>1. popped' = popped /\ fifo' = fifo /\ writer' = [writer EXCEPT !.open = TRUE]
      BY <1>5 DEF FlushNothing
    <2>2. writer' \in Writers /\ writer'.batch = writer.batch
      BY <2>1, EventNumbers
    <2> QED
      BY <1>2, <2>1, <2>2, EventNumbers DEF Bounds
  <1>6. CASE FlushFull(readers)
    <2>1. /\ popped' = popped /\ fifo' = fifo
          /\ writer' = [open |-> TRUE, batch |-> IF writer.batch = 0 THEN Pending ELSE writer.batch, half |-> writer.half]
      BY <1>6 DEF FlushFull
    <2>2. writer' \in Writers /\ popped + writer'.batch <= Len(journal)
      <3> DEFINE batch == IF writer.batch = 0 THEN Pending ELSE writer.batch
      <3>1. batch \in 0 .. Len(journal) /\ popped + batch <= Len(journal)
        BY EventNumbers
      <3>2. writer' = [open |-> TRUE, batch |-> batch, half |-> writer.half]
        BY <2>1
      <3> HIDE DEF batch
      <3> QED
        BY <3>1, <3>2, EventNumbers
    <2> QED
      BY <1>2, <2>1, <2>2, EventNumbers DEF Bounds
  <1>7. CASE FlushWrite(readers)
    <2> DEFINE batch == IF writer.batch = 0 THEN Pending ELSE writer.batch
               next(part) == [from |-> popped + 1, to |-> popped + batch, part |-> part]
    <2>1. batch \in 0 .. Len(journal) /\ batch \in Nat /\ popped + batch <= Len(journal)
      BY EventNumbers
    <2>2. /\ fifo = <<>>
          /\ \/ /\ fifo' = Append(fifo, next("head")) /\ popped' = popped
                /\ writer' = [open |-> TRUE, batch |-> batch, half |-> TRUE]
             \/ /\ fifo' = Append(fifo, next(IF writer.half THEN "tail" ELSE "whole"))
                /\ popped' = popped + batch /\ writer' = [open |-> TRUE, batch |-> 0, half |-> FALSE]
      BY <1>7 DEF FlushWrite
    <2> HIDE DEF batch
    <2>3. ASSUME NEW part \in {"head", "tail", "whole"}, fifo' = Append(fifo, next(part))
          PROVE  fifo' \in Seq(Part) /\ \A i \in 1 .. Len(fifo') : fifo'[i].to <= Len(journal)
      <3>1. next(part) \in Part /\ next(part).to = popped + batch
        BY <2>1, EventNumbers DEF Part
      <3> HIDE DEF next
      <3>2. fifo' = <<next(part)>>
        BY <2>2, <2>3
      <3> QED
        BY <2>1, <3>1, <3>2
    <2>4. /\ popped' \in 0 .. Len(journal) /\ writer' \in Writers /\ popped' + writer'.batch <= Len(journal)
      <3> HIDE DEF next
      <3>1. CASE popped' = popped /\ writer' = [open |-> TRUE, batch |-> batch, half |-> TRUE]
        BY <2>1, <3>1, EventNumbers
      <3>2. CASE popped' = popped + batch /\ writer' = [open |-> TRUE, batch |-> 0, half |-> FALSE]
        BY <2>1, <3>2, EventNumbers
      <3> QED
        BY <2>2, <3>1, <3>2
    <2>5. fifo' \in Seq(Part) /\ \A i \in 1 .. Len(fifo') : fifo'[i].to <= Len(journal)
      <3> HIDE DEF next
      <3>1. \E part \in {"head", "tail", "whole"} : fifo' = Append(fifo, next(part))
        BY <2>2
      <3> QED
        BY <2>3, <3>1
    <2> QED
      BY <1>2, <2>4, <2>5
  <1>8. CASE InitialTimeout(readers) \/ End(readers)
    <2>1. popped' = popped /\ writer' = Idle /\ fifo' \in {fifo, <<>>}
      BY <1>8 DEF InitialTimeout, End, Close
    <2>2. fifo' \in Seq(Part) /\ \A i \in 1 .. Len(fifo') : fifo'[i].to <= Len(journal)
      <3>1. CASE fifo' = fifo
        BY <3>1, EventNumbers DEF Bounds
      <3>2. CASE fifo' = <<>>
        BY <1>3, <3>2
      <3> QED
        BY <2>1, <3>1, <3>2
    <2> QED
      BY <1>2, <1>3, <2>1, <2>2, EventNumbers
  <1> QED
    BY <1>4, <1>5, <1>6, <1>7, <1>8 DEF Flush

\* The notice, and the parts that were read, end no further than the journal.
LEMMA ReadingTypes ==
  ASSUME SealInv, Opened, StreamInv, EventsTypeOK, Bounds, Notify \/ ReadPart
  PROVE  EventsTypeOK' /\ Bounds' /\ UNCHANGED journal
  <1>0. UNCHANGED <<producerVars, phase, scanVars, journal, popped, writer, stopping>>
    BY DEF Notify, ReadPart
  <1>1. ASSUME fifo' \in Seq(Part), \A i \in 1 .. Len(fifo') : fifo'[i].to <= Len(journal), Len(got') <= Len(journal)
        PROVE  EventsTypeOK' /\ Bounds' /\ UNCHANGED journal
    <2>1. /\ phase' \in {"scan", "flush", "decide", "final", "ended", "failed"} /\ stopping' \in BOOLEAN
          /\ popped' \in 0 .. Len(journal) /\ writer' \in [open : BOOLEAN, batch : 0 .. Len(journal), half : BOOLEAN]
      BY <1>0 DEF EventsTypeOK
    <2>2. EventsTypeOK'
      BY <1>0, <1>1, <2>1, PayloadMoves
    <2>3. Bounds'
      BY <1>0, <1>1 DEF Bounds
    <2> QED
      BY <1>0, <2>2, <2>3
  <1>2. CASE Notify
    <2> DEFINE notice == [from |-> 0, to |-> 0, part |-> "notice"]
    <2>1. fifo' \in {fifo, Append(fifo, notice)} /\ UNCHANGED got
      BY <1>2 DEF Notify
    <2>2. notice \in Part /\ notice.to = 0
      BY DEF Part
    <2> HIDE DEF notice
    <2>3. fifo' \in Seq(Part) /\ \A i \in 1 .. Len(fifo') : fifo'[i].to <= Len(journal)
      <3>1. CASE fifo' = fifo
        BY <3>1, EventNumbers DEF Bounds
      <3>2. CASE fifo' = Append(fifo, notice)
        <4>1. /\ fifo' \in Seq(Part) /\ Len(fifo') = Len(fifo) + 1 /\ Len(fifo) \in Nat
              /\ \A i \in 1 .. Len(fifo) : fifo'[i] = fifo[i]
              /\ fifo'[Len(fifo) + 1] = notice
          BY <2>2, <3>2, EventNumbers, AppendProperties, LenProperties
        <4>2. \A i \in 1 .. Len(fifo') : i \in 1 .. Len(fifo) \/ i = Len(fifo) + 1
          BY <4>1
        <4> QED
          BY <2>2, <4>1, <4>2, EventNumbers DEF Bounds
      <3> QED
        BY <2>1, <3>1, <3>2
    <2> QED
      BY <1>1, <2>1, <2>3 DEF Bounds
  <1>3. CASE ReadPart
    <2> DEFINE p == Head(fifo)
    <2>1. /\ main = "read" /\ fifo # <<>> /\ fifo' = Tail(fifo)
          /\ \/ got' = got
             \/ /\ p.part \in {"whole", "tail"}
                /\ got' = got \o [i \in 1 .. p.to + 1 - p.from |-> p.from + i - 1]
      BY <1>3 DEF ReadPart
    <2>2. /\ p \in Part /\ p = fifo[1] /\ fifo' \in Seq(Part) /\ Len(fifo') = Len(fifo) - 1
          /\ Len(fifo) \in Nat \ {0} /\ \A i \in 1 .. Len(fifo') : fifo'[i] = fifo[i + 1]
      BY <2>1, EventNumbers, HeadTailProperties, EmptySeq
    <2>3. \A i \in 1 .. Len(fifo') : fifo'[i].to <= Len(journal)
      <3>1. \A i \in 1 .. Len(fifo') : i + 1 \in 1 .. Len(fifo)
        BY <2>2
      <3> QED
        BY <2>2, <3>1 DEF Bounds
    <2>4. p.to <= Len(journal) /\ p.to \in Nat /\ p.from \in Nat
      <3>1. 1 \in 1 .. Len(fifo)
        BY <2>2
      <3> QED
        BY <2>2, <3>1 DEF Bounds, Part
    <2>5. p.part # "notice" => p.from = Len(got) + 1 /\ p.from <= p.to
      BY <2>1, <2>2 DEF Opened, StreamInv, Parts, Due
    <2> HIDE DEF p
    <2>6. ASSUME p.part \in {"whole", "tail"}, got' = got \o [i \in 1 .. p.to + 1 - p.from |-> p.from + i - 1]
          PROVE  Len(got') <= Len(journal)
      <3>0. got \in Seq(Nat) /\ Len(got) \in Nat
        BY DEF StreamInv, StreamTypes
      <3>a. PICK from \in Nat, to \in Nat : from = p.from /\ to = p.to
        BY <2>4
      <3>b. from = Len(got) + 1 /\ from <= to
        <4>1. p.part # "notice"
          BY <2>6
        <4> QED
          BY <2>5, <3>a, <4>1
      <3> DEFINE n == to + 1 - from
                 rest == [i \in 1 .. n |-> from + i - 1]
      <3>1. n \in Nat /\ Len(got) + n = to
        BY <3>0, <3>b
      <3>2. \A i \in 1 .. n : from + i - 1 \in Nat
        BY <3>1
      <3> HIDE DEF n
      <3>3. rest \in [1 .. n -> Nat]
        BY <3>2
      <3>4. got' = got \o rest
        BY <2>6, <3>a DEF n
      <3> HIDE DEF rest
      <3>5. rest \in Seq(Nat) /\ Len(rest) = n
        BY <3>1, <3>3
      <3>6. Len(got \o rest) = Len(got) + Len(rest)
        BY <3>0, <3>5, ConcatProperties
      <3> QED
        BY <2>4, <3>a, <3>1, <3>4, <3>5, <3>6
    <2>7. Len(got') <= Len(journal)
      BY <2>1, <2>6 DEF Bounds
    <2> QED
      BY <1>1, <2>2, <2>3, <2>7
  <1> QED
    BY <1>2, <1>3

LEMMA EventTypes ==
  ASSUME SealInv, Opened, StreamInv, EventsTypeOK, Bounds, [Next]_vars
  PROVE  EventsTypeOK' /\ Bounds' /\ Len(journal) <= Len(journal')
  <1>1. ASSUME UNCHANGED <<eventVars, got>> PROVE EventsTypeOK' /\ Bounds' /\ Len(journal) <= Len(journal')
    <2>1. /\ UNCHANGED <<stage, made, linked, sealing, sealedStage, todo, current, previous, emitted, sealed>>
          /\ UNCHANGED <<phase, journal, popped, writer, fifo, stopping>>
      BY <1>1 DEF eventVars, processorVars, producerVars, scanVars, writerVars
    <2>2. EventsTypeOK'
      BY <2>1 DEF EventsTypeOK
    <2> QED
      BY <1>1, <2>1, <2>2, EventNumbers DEF Bounds
  <1>2. CASE Events
    BY <1>2, ProducerTypes DEF Events, bulkVars
  <1>3. CASE RunProcessor
    <2>1. Processor(reading) /\ UNCHANGED got
      BY <1>3 DEF RunProcessor
    <2> QED
      BY <2>1, ScanTypes, FlushTypes DEF Processor
  <1>4. CASE Notify \/ ReadPart
    BY <1>4, ReadingTypes, EventNumbers
  <1>5. CASE RemoveRequest \/ Threads \/ (Main /\ ~ReadPart) \/ UNCHANGED vars
    <2>1. UNCHANGED <<eventVars, got>>
      BY <1>5 DEF RemoveRequest, Threads, TakeTask, FinishTask, Collect, EndCollector, Main, StartWorker,
                  StartCollector, OpenEvents, ReadEnd, StopWorkers, JoinWorkers, JoinCollector, Report, vars, bulkVars
    <2> QED
      BY <1>1, <2>1
  <1> QED
    BY <1>2, <1>3, <1>4, <1>5 DEF Next

MainTypes ==
    /\ request \in {"served", "noticed", "removed"}
    /\ main \in {"workers", "collector", "open", "opening", "read", "stop", "join", "drain", "report", "done", "error"}
    /\ reading \in BOOLEAN /\ line \in Nat \X Nat /\ failure \in BOOLEAN /\ got \in Seq(1 .. Len(journal))
    /\ started \in 0 .. NWorkers /\ collector \in {"none", "running", "ended"} /\ reachable \in BOOLEAN
QueueTypes ==
    /\ tasks \in Seq(1 .. Len(journal))
    /\ input \in [Worker -> Seq(0 .. Len(tasks))] /\ busy \in [Worker -> 0 .. Len(tasks)]
    /\ outcomes \in Seq(0 .. Len(tasks)) /\ recorded \in Seq(1 .. Len(tasks)) /\ added \subseteq 1 .. Len(tasks)
    /\ published \in Seq(0 .. Len(tasks) + 1)

LEMMA TypeParts == TypeOK <=> EventsTypeOK /\ MainTypes /\ QueueTypes
  BY DEF TypeOK, MainTypes, QueueTypes

\* What a worker is dealt of a batch: its share, each task once.
LEMMA DealtToIs ==
  ASSUME NEW w \in Worker, NEW from \in Nat, NEW n \in Nat
  PROVE  LET d == DealtTo(w, from, n)
         IN  /\ d \in Seq(from + 1 .. from + n) /\ Len(d) \in Nat
             /\ \A i \in 1 .. Len(d) : d[i] \in from + 1 .. from + n /\ WorkerOf(d[i]) = w
             /\ \A k \in from + 1 .. from + n : WorkerOf(k) = w => Occurs(k, d)
             /\ OnceEach(d)
  <1> DEFINE S == {k \in from + 1 .. from + n : WorkerOf(k) = w}
  <1>1. S \in SUBSET (1 .. from + n) /\ from + n \in Nat
    OBVIOUS
  <1>2. DealtTo(w, from, n) = InOrder(S)
    BY DEF DealtTo
  <1>3. S \subseteq from + 1 .. from + n /\ \A k \in S : WorkerOf(k) = w
    OBVIOUS
  <1>4. \A k \in from + 1 .. from + n : WorkerOf(k) = w => k \in S
    OBVIOUS
  <1> HIDE DEF S
  <1>5. PICK d : d = InOrder(S)
    OBVIOUS
  <1>6. /\ d \in Seq(S) /\ Len(d) \in Nat /\ (\A i \in 1 .. Len(d) : d[i] \in S)
        /\ (\A k \in S : Occurs(k, d)) /\ OnceEach(d)
    BY <1>1, <1>5, InOrderIs
  <1>7. d \in Seq(from + 1 .. from + n)
    BY <1>3, <1>6, SeqGrows
  <1> QED
    BY <1>2, <1>3, <1>4, <1>5, <1>6, <1>7

\* A batch that is fit is dealt out whole.
LEMMA Dealing ==
  ASSUME SealInv, Opened, StreamInv, TypeOK, Bounds, ReadPart
  PROVE  \/ UNCHANGED <<tasks, input>>
         \/ \E ready \in Seq(1 .. Len(journal)) :
               /\ tasks' = tasks \o ready /\ tasks' \in Seq(1 .. Len(journal))
               /\ Len(tasks) \in Nat /\ Len(ready) \in Nat /\ Len(tasks') = Len(tasks) + Len(ready)
               /\ input' = [w \in Worker |-> input[w] \o DealtTo(w, Len(tasks), Len(ready))]
  <1> SUFFICES ASSUME ~UNCHANGED <<tasks, input>>
               PROVE  \E ready \in Seq(1 .. Len(journal)) :
                         /\ tasks' = tasks \o ready /\ tasks' \in Seq(1 .. Len(journal))
                         /\ Len(tasks) \in Nat /\ Len(ready) \in Nat /\ Len(tasks') = Len(tasks) + Len(ready)
                         /\ input' = [w \in Worker |-> input[w] \o DealtTo(w, Len(tasks), Len(ready))]
    OBVIOUS
  <1> DEFINE p == Head(fifo)
             r == Ready(p.from, p.to)
  <1>1. /\ fifo # <<>> /\ main = "read" /\ p.part \in {"whole", "tail"} /\ tasks' = tasks \o r
        /\ input' = [w \in Worker |-> input[w] \o DealtTo(w, Len(tasks), Len(r))]
    BY DEF ReadPart
  <1>2. fifo \in Seq(Part) /\ Len(journal) \in Nat /\ tasks \in Seq(1 .. Len(journal)) /\ Len(tasks) \in Nat
    <2>1. fifo \in Seq(Part) /\ Len(journal) \in Nat /\ tasks \in Seq(1 .. Len(journal))
      BY EventNumbers DEF TypeOK
    <2> QED
      BY <2>1, LenProperties
  <1>3. p \in Part /\ p = fifo[1] /\ 1 \in 1 .. Len(fifo)
    BY <1>1, <1>2, HeadTailProperties, EmptySeq
  <1>4. p.to <= Len(journal) /\ p.to \in Nat /\ p.from \in Nat
    BY <1>3 DEF Bounds, Part
  <1>5. p.from >= 1
    <2>1. p.part # "notice" /\ reading
      BY <1>1 DEF Opened
    <2>2. p.from = Len(got) + 1
      BY <1>1, <1>3, <2>1 DEF StreamInv, Parts, Due
    <2>3. Len(got) \in Nat
      BY DEF StreamInv, StreamTypes
    <2> QED
      BY <2>2, <2>3
  <1>6. r \in Seq(1 .. Len(journal)) /\ Len(r) \in Nat
    <2>1. PICK from \in Nat, to \in Nat : from = p.from /\ to = p.to /\ from >= 1 /\ to <= Len(journal)
      BY <1>4, <1>5
    <2> DEFINE S == {n \in from .. to : journal[n] # "terminated"}
    <2>2. S \in SUBSET (1 .. Len(journal))
      BY <1>2, <2>1
    <2>3. r = InOrder(S)
      BY <2>1 DEF Ready
    <2> HIDE DEF S, r
    <2>4. r \in Seq(S) /\ Len(r) \in Nat
      BY <1>2, <2>2, <2>3, InOrderIs
    <2> QED
      BY <2>2, <2>4, SeqGrows
  <1> HIDE DEF r
  <1>7. tasks \o r \in Seq(1 .. Len(journal)) /\ Len(tasks \o r) = Len(tasks) + Len(r)
    BY <1>2, <1>6, ConcatProperties
  <1> QED
    BY <1>1, <1>2, <1>6, <1>7

LEMMA MainTypesStep ==
  ASSUME SealInv, Opened, StreamInv, TypeOK, Bounds, [Next]_vars
  PROVE  MainTypes'
  <1>0. MainTypes /\ WorkersAssumption /\ EventsTypeOK
    BY TypeParts, WorkersAssumption
  <1>1. got' \in Seq(1 .. Len(journal'))
    <2>1. got' \in Seq(Nat) /\ Len(got') \in Nat /\ \A i \in 1 .. Len(got') : got'[i] = i
      <3>1. StreamInv'
        BY NextStreamInv
      <3> QED
        BY <3>1 DEF StreamInv, StreamTypes
    <2>2. Len(got') <= Len(journal') /\ Len(journal') \in Nat
      <3>1. EventsTypeOK' /\ Bounds'
        BY <1>0, EventTypes
      <3>2. journal' \in Seq(Path \cup {"terminated"})
        BY <3>1 DEF EventsTypeOK
      <3> QED
        BY <3>1, <3>2 DEF Bounds
    <2>3. \A i \in 1 .. Len(got') : got'[i] \in 1 .. Len(journal')
      BY <2>1, <2>2
    <2>4. got' \in [1 .. Len(got') -> 1 .. Len(journal')]
      BY <2>1, <2>3
    <2> QED
      BY <2>1, <2>4
  <1>2. line' \in Nat \X Nat
    <2>1. CASE ReadPart
      <3> DEFINE p == Head(fifo)
      <3>1. fifo # <<>> /\ line' \in {line, <<0, 0>>, <<p.from, p.to>>}
        BY <2>1 DEF ReadPart
      <3>2. p \in Part
        BY <1>0, <3>1, HeadTailProperties DEF EventsTypeOK
      <3>3. p.from \in Nat /\ p.to \in Nat
        BY <3>2 DEF Part
      <3> HIDE DEF p
      <3> QED
        BY <1>0, <3>1, <3>3 DEF MainTypes
    <2>2. CASE ~ReadPart
      <3>1. UNCHANGED line
        BY <2>2 DEF Next, Events, RunProcessor, Notify, RemoveRequest, Threads, TakeTask, FinishTask, Collect,
                    EndCollector, Main, StartWorker, StartCollector, OpenEvents, ReadEnd, StopWorkers, JoinWorkers,
                    JoinCollector, Report, vars, bulkVars
      <3> QED
        BY <1>0, <3>1 DEF MainTypes
    <2> QED
      BY <2>1, <2>2
  <1>3. /\ request' \in {"served", "noticed", "removed"} /\ reading' \in BOOLEAN /\ failure' \in BOOLEAN
        /\ collector' \in {"none", "running", "ended"} /\ reachable' \in BOOLEAN
    BY <1>0 DEF MainTypes, Next, Events, RunProcessor, Notify, RemoveRequest, Threads, TakeTask, FinishTask, Collect,
                EndCollector, Main, StartWorker, StartCollector, OpenEvents, ReadPart, ReadEnd, StopWorkers, JoinWorkers,
                JoinCollector, Report, vars, bulkVars
  <1>4. /\ main' \in {"workers", "collector", "open", "opening", "read", "stop", "join", "drain", "report", "done", "error"}
        /\ started' \in 0 .. NWorkers
    <2>1. CASE Main
      <3>1. main' \in {main, "collector", "open", "opening", "stop", "join", "drain", "report", "done", "error"}
        BY <2>1 DEF Main, StartWorker, StartCollector, OpenEvents, ReadPart, ReadEnd, StopWorkers, JoinWorkers,
                    JoinCollector, Report, At
      <3>2. started' = started \/ (started < NWorkers /\ started' = started + 1)
        BY <2>1 DEF Main, StartWorker, StartCollector, OpenEvents, ReadPart, ReadEnd, StopWorkers, JoinWorkers,
                    JoinCollector, Report
      <3>3. NWorkers \in Nat
        BY <1>0 DEF WorkersAssumption
      <3> QED
        BY <1>0, <3>1, <3>2, <3>3 DEF MainTypes
    <2>2. CASE ~Main
      <3>1. main' \in {main, "read"} /\ UNCHANGED started
        BY <2>2 DEF Next, Events, RunProcessor, Notify, RemoveRequest, Woken, Threads, TakeTask, FinishTask, Collect,
                    EndCollector, vars, bulkVars
      <3> QED
        BY <1>0, <3>1 DEF MainTypes
    <2> QED
      BY <2>1, <2>2
  <1> QED
    BY <1>1, <1>2, <1>3, <1>4 DEF MainTypes

\* Only these steps touch the queues.
LEMMA QueuesStay ==
  ASSUME [Next]_vars
  PROVE  \/ UNCHANGED <<tasks, input, busy, outcomes, recorded, added, published>>
         \/ ReadPart \/ StopWorkers \/ JoinWorkers \/ Report \/ Collect \/ EndCollector
         \/ \E w \in Worker : TakeTask(w) \/ FinishTask(w)
  <1>1. CASE Events \/ RunProcessor \/ Notify \/ RemoveRequest \/ UNCHANGED vars
    BY <1>1 DEF Events, RunProcessor, Notify, RemoveRequest, vars, bulkVars
  <1>2. CASE Main
    BY <1>2 DEF Main, StartWorker, StartCollector, OpenEvents, ReadEnd, JoinCollector
  <1>3. CASE Threads
    BY <1>3 DEF Threads
  <1> QED
    BY <1>1, <1>2, <1>3 DEF Next

LEMMA QueueTypesStep ==
  ASSUME SealInv, Opened, StreamInv, TypeOK, Bounds, [Next]_vars
  PROVE  QueueTypes' /\ Len(tasks) <= Len(tasks')
  <1> DEFINE n == Len(tasks)
  <1>0. QueueTypes /\ MainTypes /\ EventsTypeOK
    BY TypeParts
  <1>1. /\ tasks \in Seq(1 .. Len(journal)) /\ n \in Nat /\ input \in [Worker -> Seq(0 .. n)]
        /\ busy \in [Worker -> 0 .. n] /\ outcomes \in Seq(0 .. n) /\ recorded \in Seq(1 .. n)
        /\ added \subseteq 1 .. n /\ published \in Seq(0 .. n + 1)
    <2>1. tasks \in Seq(1 .. Len(journal))
      BY <1>0 DEF QueueTypes
    <2> QED
      BY <1>0, <2>1, LenProperties DEF QueueTypes
  <1>2. Len(journal) <= Len(journal') /\ Len(journal) \in Nat /\ Len(journal') \in Nat
    <2>1. EventsTypeOK' /\ Len(journal) <= Len(journal')
      BY <1>0, EventTypes
    <2>2. journal' \in Seq(Path \cup {"terminated"}) /\ journal \in Seq(Path \cup {"terminated"})
      BY <1>0, <2>1 DEF EventsTypeOK
    <2> QED
      BY <2>1, <2>2, LenProperties
  <1> HIDE DEF n
  <1>3. ASSUME UNCHANGED tasks, input' \in [Worker -> Seq(0 .. n)], busy' \in [Worker -> 0 .. n],
               outcomes' \in Seq(0 .. n), recorded' \in Seq(1 .. n), added' \subseteq 1 .. n,
               published' \in Seq(0 .. n + 1)
        PROVE  QueueTypes' /\ Len(tasks) <= Len(tasks')
    <2>1. tasks \in Seq(1 .. Len(journal'))
      <3>1. 1 .. Len(journal) \subseteq 1 .. Len(journal')
        BY <1>2
      <3> QED
        BY <1>1, <3>1, SeqGrows
    <2>2. Len(tasks) <= Len(tasks') /\ Len(tasks') = n
      BY <1>1, <1>3 DEF n
    <2> QED
      BY <1>3, <2>1, <2>2 DEF QueueTypes
  <1>4. CASE UNCHANGED <<tasks, input, busy, outcomes, recorded, added, published>>
    BY <1>1, <1>3, <1>4
  <1>5. CASE ReadPart
    <2>1. UNCHANGED <<journal, busy, outcomes, recorded, added, published>>
      BY <1>5 DEF ReadPart
    <2>2. CASE UNCHANGED <<tasks, input>>
      BY <1>1, <1>3, <2>1, <2>2
    <2>3. CASE ~UNCHANGED <<tasks, input>>
      <3>1. PICK ready \in Seq(1 .. Len(journal)) :
               /\ tasks' \in Seq(1 .. Len(journal)) /\ Len(ready) \in Nat /\ Len(tasks') = n + Len(ready)
               /\ input' = [w \in Worker |-> input[w] \o DealtTo(w, n, Len(ready))]
        BY <1>5, <2>3, Dealing DEF n
      <3>2. PICK m \in Nat : m = Len(tasks') /\ n <= m /\ m = n + Len(ready)
        BY <1>1, <3>1
      <3>3. /\ 0 .. n \subseteq 0 .. m /\ 1 .. n \subseteq 1 .. m /\ 0 .. n + 1 \subseteq 0 .. m + 1
            /\ n + 1 .. m \subseteq 0 .. m
        BY <1>1, <3>2
      <3>4. ASSUME NEW w \in Worker PROVE input[w] \o DealtTo(w, n, Len(ready)) \in Seq(0 .. m)
        <4>1. PICK d : d = DealtTo(w, n, Len(ready))
          OBVIOUS
        <4>2. d \in Seq(n + 1 .. n + Len(ready))
          BY <1>1, <3>1, <4>1, DealtToIs
        <4>3. d \in Seq(0 .. m)
          BY <3>2, <3>3, <4>2, SeqGrows
        <4>4. input[w] \in Seq(0 .. m)
          BY <1>1, <3>3, SeqGrows
        <4> QED
          BY <4>1, <4>3, <4>4, ConcatProperties
      <3>5. input' \in [Worker -> Seq(0 .. m)]
        BY <3>1, <3>4
      <3>6. busy' \in [Worker -> 0 .. m] /\ added' \subseteq 1 .. m
        BY <1>1, <2>1, <3>3
      <3>7. outcomes' \in Seq(0 .. m) /\ recorded' \in Seq(1 .. m) /\ published' \in Seq(0 .. m + 1)
        BY <1>1, <2>1, <3>3, SeqGrows
      <3>8. Len(tasks) <= Len(tasks')
        BY <3>2 DEF n
      <3> QED
        BY <2>1, <3>1, <3>2, <3>5, <3>6, <3>7, <3>8 DEF QueueTypes
    <2> QED
      BY <2>2, <2>3
  <1>6. CASE StopWorkers
    <2>1. /\ UNCHANGED <<tasks, busy, outcomes, recorded, added, published>>
          /\ input' = [w \in Worker |-> IF w <= started THEN Append(input[w], Terminator) ELSE input[w]]
      BY <1>6 DEF StopWorkers
    <2>2. Terminator \in 0 .. n
      BY <1>1 DEF Terminator
    <2>3. ASSUME NEW w \in Worker PROVE Append(input[w], Terminator) \in Seq(0 .. n) /\ input[w] \in Seq(0 .. n)
      BY <1>1, <2>2, AppendProperties
    <2>4. input' \in [Worker -> Seq(0 .. n)]
      BY <2>1, <2>3
    <2> QED
      BY <1>1, <1>3, <2>1, <2>4
  <1>7. CASE JoinWorkers
    <2>1. /\ UNCHANGED <<tasks, input, busy, recorded, added, published>>
          /\ outcomes' \in {outcomes, Append(outcomes, Terminator)}
      BY <1>7 DEF JoinWorkers
    <2>2. Terminator \in 0 .. n
      BY <1>1 DEF Terminator
    <2>3. outcomes' \in Seq(0 .. n)
      <3>1. Append(outcomes, Terminator) \in Seq(0 .. n)
        BY <1>1, <2>2, AppendProperties
      <3> QED
        BY <1>1, <2>1, <3>1
    <2> QED
      BY <1>1, <1>3, <2>1, <2>3
  <1>8. CASE Report
    <2>1. /\ UNCHANGED <<tasks, input, busy, outcomes, recorded, added>>
          /\ published' \in {published, Append(published, n + 1)}
      BY <1>8 DEF Report, n
    <2>2. n + 1 \in 0 .. n + 1
      BY <1>1
    <2>3. published' \in Seq(0 .. n + 1)
      <3>1. Append(published, n + 1) \in Seq(0 .. n + 1)
        BY <1>1, <2>2, AppendProperties
      <3> QED
        BY <1>1, <2>1, <3>1
    <2> QED
      BY <1>1, <1>3, <2>1, <2>3
  <1>9. CASE Collect \/ EndCollector
    <2>1. /\ UNCHANGED <<tasks, input, busy, added>> /\ outcomes # <<>> /\ outcomes' = Tail(outcomes)
          /\ \/ UNCHANGED <<recorded, published>>
             \/ /\ Head(outcomes) # Terminator /\ recorded' = Append(recorded, Head(outcomes))
                /\ published' \in {published, Append(published, Head(outcomes)), Append(published, Cut)}
      BY <1>9 DEF Collect, EndCollector
    <2>2. PICK k \in 0 .. n : k = Head(outcomes)
      BY <1>1, <2>1, HeadTailProperties
    <2>3. outcomes' \in Seq(0 .. n)
      BY <1>1, <2>1, HeadTailProperties
    <2>4. k # Terminator => k \in 1 .. n /\ k \in 0 .. n + 1 /\ Cut \in 0 .. n + 1
      BY <1>1 DEF Terminator, Cut
    <2>5. recorded' \in Seq(1 .. n) /\ published' \in Seq(0 .. n + 1)
      <3>1. CASE UNCHANGED <<recorded, published>>
        BY <1>1, <3>1
      <3>2. CASE k # Terminator /\ recorded' = Append(recorded, k) /\ published' \in {published, Append(published, k), Append(published, Cut)}
        <4>1. /\ Append(recorded, k) \in Seq(1 .. n) /\ Append(published, k) \in Seq(0 .. n + 1)
              /\ Append(published, Cut) \in Seq(0 .. n + 1)
          BY <1>1, <2>4, <3>2, AppendProperties
        <4> QED
          BY <1>1, <3>2, <4>1
      <3> QED
        BY <2>1, <2>2, <3>1, <3>2
    <2> QED
      BY <1>1, <1>3, <2>1, <2>3, <2>5
  <1>10. ASSUME NEW w \in Worker, TakeTask(w) PROVE QueueTypes' /\ Len(tasks) <= Len(tasks')
    <2>1. /\ UNCHANGED <<tasks, outcomes, recorded, added, published>> /\ input[w] # <<>>
          /\ input' = [input EXCEPT ![w] = Tail(@)] /\ busy' = [busy EXCEPT ![w] = Head(input[w])]
      BY <1>10 DEF TakeTask
    <2>2. input[w] \in Seq(0 .. n)
      BY <1>1
    <2>3. Tail(input[w]) \in Seq(0 .. n) /\ Head(input[w]) \in 0 .. n
      BY <2>1, <2>2, HeadTailProperties
    <2>4. input' \in [Worker -> Seq(0 .. n)] /\ busy' \in [Worker -> 0 .. n]
      BY <1>1, <2>1, <2>3
    <2> QED
      BY <1>1, <1>3, <2>1, <2>4
  <1>11. ASSUME NEW w \in Worker, FinishTask(w) PROVE QueueTypes' /\ Len(tasks) <= Len(tasks')
    <2>1. /\ UNCHANGED <<tasks, input, recorded, published>> /\ busy[w] # 0
          /\ outcomes' = Append(outcomes, busy[w]) /\ busy' = [busy EXCEPT ![w] = 0]
          /\ added' \in {added, added \cup {busy[w]}}
      BY <1>11 DEF FinishTask
    <2>2. busy[w] \in 0 .. n /\ busy[w] \in 1 .. n /\ 0 \in 0 .. n
      BY <1>1, <2>1
    <2>3. outcomes' \in Seq(0 .. n) /\ busy' \in [Worker -> 0 .. n] /\ added' \subseteq 1 .. n
      BY <1>1, <2>1, <2>2, AppendProperties
    <2> QED
      BY <1>1, <1>3, <2>1, <2>3
  <1> QED
    BY <1>4, <1>5, <1>6, <1>7, <1>8, <1>9, <1>10, <1>11, QueuesStay

LEMMA InitTyped == Init => TypeOK /\ Bounds
  <1> SUFFICES ASSUME Init PROVE TypeOK /\ Bounds
    OBVIOUS
  <1>1. /\ journal = <<>> /\ fifo = <<>> /\ popped = 0 /\ writer = Idle /\ got = <<>> /\ tasks = <<>>
        /\ Len(<<>>) = 0 /\ Idle.batch = 0
    BY DEF Init, EventsInit, ChannelInit, Idle
  <1>2. Bounds
    BY <1>1 DEF Bounds
  <1>3. EventsTypeOK
    <2>1. NoFile \in [Path -> 0 .. MaxVersion] /\ 0 \in 0 .. MaxVersion
      BY EventsAssumption DEF NoFile
    <2>2. Idle \in [open : BOOLEAN, batch : 0 .. 0, half : BOOLEAN]
      BY DEF Idle
    <2>3. journal \in Seq(Path \cup {"terminated"}) /\ fifo \in Seq(Part) /\ popped \in 0 .. Len(journal)
          /\ Len(journal) = 0
      BY <1>1
    <2> QED
      BY <1>1, <2>1, <2>2, <2>3 DEF EventsTypeOK, Init, EventsInit, ChannelInit
  <1>4. MainTypes
    <2>1. got \in Seq(1 .. Len(journal)) /\ 0 \in 0 .. NWorkers /\ <<0, 0>> \in Nat \X Nat
      BY <1>1, WorkersAssumption
    <2> QED
      BY <2>1 DEF MainTypes, Init
  <1>5. QueueTypes
    BY <1>1 DEF QueueTypes, Init
  <1> QED
    BY <1>2, <1>3, <1>4, <1>5, TypeParts

Stream == SealInv /\ Opened /\ StreamInv

LEMMA InitStream == Init => Stream
  BY InitSealInv, InitStreamInv DEF Init, Opened, Stream

LEMMA NextStream == Stream /\ [Next]_vars => Stream'
  BY NextSealInv, NextOpened, NextStreamInv DEF Stream

LEMMA NextTyped == Stream /\ TypeOK /\ Bounds /\ [Next]_vars => (TypeOK /\ Bounds)'
  <1> SUFFICES ASSUME Stream, TypeOK, Bounds, [Next]_vars PROVE (TypeOK /\ Bounds)'
    OBVIOUS
  <1>1. MainTypes' /\ QueueTypes'
    BY MainTypesStep, QueueTypesStep DEF Stream
  <1>2. EventsTypeOK' /\ Bounds'
    BY EventTypes, TypeParts DEF Stream
  <1> QED
    BY <1>1, <1>2 DEF TypeOK, MainTypes, QueueTypes

\* For any paths, versions and workers: every sequence number in the queues, in the
\* batches and in the reports is one of the journal's or of the tasks' (run of
\* rag_bulk_add.py, EventWriter.flush).
THEOREM TypeCorrect == Spec => []TypeOK
  <1>1. Init => Stream /\ TypeOK /\ Bounds
    BY InitStream, InitTyped
  <1>2. Stream /\ TypeOK /\ Bounds /\ [Next]_vars => (Stream /\ TypeOK /\ Bounds)'
    BY NextStream, NextTyped
  <1> QED
    BY <1>1, <1>2, PTL DEF Spec

-----------------------------------------------------------------------------
(* The reports of a bulk request.                                          *)

\* As long as delivery works, everything recorded was reported, if not always whole.
ReportInv ==
    main # "done" =>
        /\ Len(published) <= Len(recorded)
        /\ reachable => Len(published) = Len(recorded)
        /\ \A i \in 1 .. Len(published) :
               published[i] = recorded[i] \/ (published[i] = Cut /\ CutOff(recorded[i]))

\* The file of a task stays the same: the journal and the tasks only grow.
LEMMA CutOffStays ==
  ASSUME Stream, TypeOK, Bounds, [Next]_vars
  PROVE  \A k \in 1 .. Len(tasks) : CutOff(k) => journal'[tasks'[k]] \in Long
  <1>1. journal \in Seq(Path \cup {"terminated"}) /\ Len(journal) \in Nat
    BY LenProperties DEF TypeOK, EventsTypeOK
  <1>2. tasks \in Seq(1 .. Len(journal)) /\ Len(tasks) \in Nat
    <2>1. tasks \in Seq(1 .. Len(journal))
      BY DEF TypeOK
    <2> QED
      BY <2>1, LenProperties
  <1>3. \A n \in 1 .. Len(journal) : journal'[n] = journal[n]
    <2>1. CASE UNCHANGED journal
      BY <2>1
    <2>2. CASE EmitStable
      <3>1. PICK e \in Seq(Path \cup {"terminated"}) : e = SetToSeq(Stable)
        <4>1. Stable \subseteq Path /\ IsFiniteSet(Stable)
          BY EventsAssumption, FS_Subset DEF Stable
        <4>2. SetToSeq(Stable) \in Seq(Stable)
          BY <4>1, SetToSeqListsAll
        <4>3. Seq(Stable) \subseteq Seq(Path \cup {"terminated"})
          BY <4>1
        <4> QED
          BY <4>2, <4>3
      <3>2. journal' = journal \o e
        BY <2>2, <3>1 DEF EmitStable
      <3> QED
        BY <1>1, <3>1, <3>2, ConcatProperties
    <2>3. CASE Terminate
      <3>1. journal' = Append(journal, "terminated")
        BY <2>3 DEF Terminate
      <3> QED
        BY <1>1, <3>1, AppendProperties
    <2>4. ~EmitStable /\ ~Terminate => UNCHANGED journal
      <3>1. CASE Events \/ Notify \/ RemoveRequest \/ UNCHANGED vars
        BY <3>1 DEF Events, Notify, RemoveRequest, Producer, Rename, LinkUpload, FinishUpload, Seal, SignalProcessor,
                    vars, eventVars, processorVars
      <3>2. CASE Main \/ Threads
        BY <3>2 DEF Main, StartWorker, StartCollector, OpenEvents, ReadPart, ReadEnd, StopWorkers, JoinWorkers,
                    JoinCollector, Report, Threads, TakeTask, FinishTask, Collect, EndCollector, eventVars, processorVars
      <3>3. ASSUME RunProcessor, ~EmitStable, ~Terminate PROVE UNCHANGED journal
        BY <3>3 DEF RunProcessor, Processor, Visit, Decide, NextScan, Flush, FlushNoReader, FlushNothing, FlushFull,
                    FlushWrite, Flushed, Flushing, InitialTimeout, End
      <3> QED
        BY <3>1, <3>2, <3>3 DEF Next
    <2> QED
      BY <2>1, <2>2, <2>3, <2>4
  <1>4. \A k \in 1 .. Len(tasks) : tasks'[k] = tasks[k]
    <2>1. CASE UNCHANGED tasks
      BY <2>1
    <2>2. CASE ReadPart
      BY <1>2, <2>2, Dealing, ConcatProperties DEF Stream
    <2> QED
      BY <2>1, <2>2, QueuesStay DEF StopWorkers, JoinWorkers, Report, Collect, EndCollector, TakeTask, FinishTask
  <1>5. \A k \in 1 .. Len(tasks) : tasks[k] \in 1 .. Len(journal)
    BY <1>2
  <1> QED
    BY <1>3, <1>4, <1>5 DEF CutOff

LEMMA CollectKeepsReports ==
  ASSUME TypeOK, ReportInv, Collect
  PROVE  ReportInv'
  <1> DEFINE n == Len(tasks)
             x == Head(outcomes)
  <1>1. /\ recorded' = Append(recorded, x) /\ UNCHANGED <<main, tasks, journal>> /\ outcomes # <<>>
        /\ \/ reachable /\ published' = Append(published, x) /\ reachable' = reachable
           \/ /\ reachable /\ journal[tasks[x]] \in Long
              /\ published' = Append(published, Cut) /\ reachable' = reachable
           \/ reachable' = FALSE /\ published' = published
    BY DEF Collect, eventVars, processorVars
  <1>2. recorded \in Seq(Nat) /\ published \in Seq(Nat) /\ outcomes \in Seq(Nat)
    <2>1. /\ outcomes \in Seq(0 .. n) /\ recorded \in Seq(1 .. n) /\ published \in Seq(0 .. n + 1)
      BY DEF TypeOK
    <2>2. 0 .. n \subseteq Nat /\ 1 .. n \subseteq Nat /\ 0 .. n + 1 \subseteq Nat
      OBVIOUS
    <2> QED
      BY <2>1, <2>2, SeqGrows
  <1>3. x \in Nat /\ Cut \in Nat
    BY <1>1, <1>2, HeadTailProperties DEF Cut
  <1>4. \A k : journal'[tasks'[k]] \in Long <=> CutOff(k)
    BY <1>1 DEF CutOff
  <1>5. journal[tasks[x]] \in Long => CutOff(x)
    BY DEF CutOff
  <1> HIDE DEF n, x
  <1>6. /\ Len(recorded) \in Nat /\ Len(recorded') = Len(recorded) + 1 /\ recorded'[Len(recorded) + 1] = x
        /\ \A i \in 1 .. Len(recorded) : recorded'[i] = recorded[i]
    BY <1>1, <1>2, <1>3, AppendProperties, LenProperties
  <1>7. Len(published) \in Nat
    BY <1>2, LenProperties
  <1>8. ASSUME reachable, NEW y, y = x \/ (y = Cut /\ CutOff(x)), published' = Append(published, y), main # "done"
        PROVE  ReportInv'
    <2>1. /\ Len(published') = Len(published) + 1 /\ published'[Len(published) + 1] = y
          /\ \A i \in 1 .. Len(published) : published'[i] = published[i]
      BY <1>2, <1>3, <1>8, AppendProperties
    <2>2. Len(published) = Len(recorded)
      BY <1>8 DEF ReportInv
    <2>3. ASSUME NEW i \in 1 .. Len(published')
          PROVE  published'[i] = recorded'[i] \/ (published'[i] = Cut /\ journal'[tasks'[recorded'[i]]] \in Long)
      <3>1. CASE i \in 1 .. Len(published)
        <4>1. published'[i] = published[i] /\ recorded'[i] = recorded[i]
          BY <1>6, <2>1, <2>2, <3>1
        <4>2. published[i] = recorded[i] \/ (published[i] = Cut /\ CutOff(recorded[i]))
          BY <1>8, <3>1 DEF ReportInv
        <4> QED
          BY <1>4, <4>1, <4>2
      <3>2. CASE i = Len(published) + 1
        BY <1>4, <1>6, <1>8, <2>1, <2>2, <3>2
      <3> QED
        BY <1>7, <2>1, <3>1, <3>2
    <2> QED
      BY <1>6, <1>7, <2>1, <2>2, <2>3 DEF ReportInv, CutOff
  <1>9. ASSUME reachable' = FALSE, published' = published, main # "done" PROVE ReportInv'
    <2>1. \A i \in 1 .. Len(published) : i \in 1 .. Len(recorded)
      BY <1>6, <1>7, <1>9 DEF ReportInv
    <2>2. \A i \in 1 .. Len(published) :
              published'[i] = recorded'[i] \/ (published'[i] = Cut /\ journal'[tasks'[recorded'[i]]] \in Long)
      BY <1>4, <1>6, <1>9, <2>1 DEF ReportInv
    <2> QED
      BY <1>6, <1>7, <1>9, <2>2 DEF ReportInv, CutOff
  <1>10. CASE main = "done"
    BY <1>1, <1>10 DEF ReportInv
  <1> QED
    BY <1>1, <1>5, <1>8, <1>9, <1>10

LEMMA InitReportInv == Init => ReportInv
  <1> SUFFICES ASSUME Init PROVE ReportInv
    OBVIOUS
  <1>1. recorded = <<>> /\ published = <<>> /\ Len(<<>>) = 0
    BY DEF Init
  <1> QED
    BY <1>1 DEF ReportInv

LEMMA NextReportInv == Stream /\ TypeOK /\ Bounds /\ ReportInv /\ [Next]_vars => ReportInv'
  <1> SUFFICES ASSUME Stream, TypeOK, Bounds, ReportInv, [Next]_vars PROVE ReportInv'
    OBVIOUS
  <1>1. CASE Collect
    BY <1>1, CollectKeepsReports
  <1>2. CASE Report
    BY <1>2 DEF Report, At, ReportInv
  <1>3. ASSUME UNCHANGED <<recorded, published, reachable>>, main = "done" => main' = "done" PROVE ReportInv'
    <2>1. /\ recorded \in Seq(1 .. Len(tasks)) /\ published \in Seq(0 .. Len(tasks) + 1)
          /\ Len(recorded) \in Nat /\ Len(published) \in Nat
      <3>1. recorded \in Seq(1 .. Len(tasks)) /\ published \in Seq(0 .. Len(tasks) + 1)
        BY DEF TypeOK
      <3> QED
        BY <3>1, LenProperties
    <2>2. \A i \in 1 .. Len(recorded) : recorded[i] \in 1 .. Len(tasks)
      BY <2>1
    <2>3. \A i \in 1 .. Len(recorded) : CutOff(recorded[i]) => journal'[tasks'[recorded[i]]] \in Long
      BY <1>3, <2>2, CutOffStays
    <2>4. CASE main # "done"
      <3>1. \A i \in 1 .. Len(published) : i \in 1 .. Len(recorded)
        BY <2>1, <2>4 DEF ReportInv
      <3> QED
        BY <1>3, <2>3, <2>4, <3>1 DEF ReportInv, CutOff
    <2>5. CASE main = "done"
      BY <1>3, <2>5 DEF ReportInv
    <2> QED
      BY <2>4, <2>5
  <1>4. CASE Events \/ RunProcessor \/ Notify \/ RemoveRequest \/ UNCHANGED vars
    BY <1>3, <1>4 DEF Events, RunProcessor, Notify, RemoveRequest, Woken, bulkVars, vars
  <1>5. CASE Main
    <2>1. ASSUME ~Report PROVE ReportInv'
      BY <1>3, <1>5, <2>1 DEF Main, StartWorker, StartCollector, OpenEvents, ReadPart, ReadEnd, StopWorkers,
                              JoinWorkers, JoinCollector, At
    <2> QED
      BY <1>2, <2>1
  <1>6. CASE Threads
    BY <1>1, <1>3, <1>6 DEF Threads, TakeTask, FinishTask, EndCollector
  <1> QED
    BY <1>4, <1>5, <1>6 DEF Next

\* For any number of workers and tasks, and whatever outcomes are too long for one write:
\* a reader of the bulk request's events that goes away, or comes back, never gets a
\* report after one it missed, and an outcome that fits is never cut off
\* (collect_outcomes, publish_event).
THEOREM ReportsUnbroken == Spec => []ReportsHaveNoGap
  <1>1. Init => Stream /\ TypeOK /\ Bounds /\ ReportInv
    BY InitStream, InitTyped, InitReportInv
  <1>2. Stream /\ TypeOK /\ Bounds /\ ReportInv /\ [Next]_vars => (Stream /\ TypeOK /\ Bounds /\ ReportInv)'
    BY NextStream, NextTyped, NextReportInv
  <1>3. ReportInv => ReportsHaveNoGap
    BY DEF ReportInv, ReportsHaveNoGap
  <1> QED
    BY <1>1, <1>2, <1>3, PTL DEF Spec

-----------------------------------------------------------------------------
(* The accounts of the tasks: each is in one place of its worker, in the   *)
(* outcomes or in the record.                                              *)

Task == 1 .. Len(tasks)
Queued(k) == Occurs(k, input[WorkerOf(k)])
Held(k) == busy[WorkerOf(k)] = k

InOnePlace(k) ==
    /\ Queued(k) \/ Held(k) \/ Occurs(k, outcomes) \/ Occurs(k, recorded)
    /\ Queued(k) => ~Held(k)
    /\ Queued(k) \/ Held(k) => ~Occurs(k, outcomes)
    /\ Queued(k) \/ Held(k) \/ Occurs(k, outcomes) => ~Occurs(k, recorded)

\* A worker has only tasks of its own.
Dealt ==
    /\ \A w \in Worker : /\ OnceEach(input[w]) /\ (\A k \in Task : Occurs(k, input[w]) => WorkerOf(k) = w)
                         /\ busy[w] # 0 => WorkerOf(busy[w]) = w
    /\ OnceEach(outcomes) /\ OnceEach(recorded)

\* There are tasks only when all the workers run.
Manned ==
    /\ main \in {"collector", "open", "opening", "read"} \/ tasks # <<>> => started = NWorkers
    /\ main \in {"workers", "collector"} => collector = "none"
    /\ main \in {"open", "opening", "read"} => collector = "running"

\* The collector's terminator comes when the workers are through, and is the last.
Closing ==
    /\ main \notin {"drain", "report", "done", "error"} => ~Occurs(0, outcomes) /\ collector # "ended"
    /\ main \in {"drain", "report", "done"} =>
          /\ \A w \in Worker : w <= started => input[w] = <<>> /\ busy[w] = 0
          /\ \A i \in 1 .. Len(outcomes) : outcomes[i] = 0 <=> i = Len(outcomes)
          /\ collector # "none" /\ (collector = "running" <=> outcomes # <<>>)
    /\ main \in {"report", "done"} => collector = "ended"

Accounted == Manned /\ Dealt /\ Closing /\ \A k \in Task : InOnePlace(k)

LEMMA WorkerOfIs ==
  ASSUME NEW k \in Nat, k # 0
  PROVE  WorkerOf(k) \in Worker
  <1>1. NWorkers \in Nat /\ NWorkers > 0 /\ k - 1 \in Nat
    BY WorkersAssumption
  <1>2. (k - 1) % NWorkers \in 0 .. NWorkers - 1
    BY <1>1
  <1> QED
    BY <1>1, <1>2 DEF WorkerOf, Worker

\* How the steps change what a queue holds.
LEMMA AppendOccurs ==
  ASSUME NEW S, NEW s \in Seq(S), NEW x \in S
  PROVE  /\ \A k : Occurs(k, Append(s, x)) <=> Occurs(k, s) \/ k = x
         /\ OnceEach(s) /\ (x = 0 \/ ~Occurs(x, s)) => OnceEach(Append(s, x))
  <1> DEFINE t == Append(s, x)
  <1>1. /\ Len(s) \in Nat /\ Len(t) = Len(s) + 1 /\ t[Len(s) + 1] = x
        /\ \A i \in 1 .. Len(s) : t[i] = s[i]
    BY AppendProperties, LenProperties
  <1> HIDE DEF t
  <1>2. \A i \in 1 .. Len(t) : i \in 1 .. Len(s) \/ i = Len(s) + 1
    BY <1>1
  <1>3. \A i \in 1 .. Len(s) : i \in 1 .. Len(t)
    BY <1>1
  <1>4. Len(s) + 1 \in 1 .. Len(t)
    BY <1>1
  <1>5. ASSUME NEW k PROVE Occurs(k, t) <=> Occurs(k, s) \/ k = x
    BY <1>1, <1>2, <1>3, <1>4 DEF Occurs
  <1>6. ASSUME OnceEach(s), x = 0 \/ ~Occurs(x, s) PROVE OnceEach(t)
    <2> SUFFICES ASSUME NEW i \in 1 .. Len(t), NEW j \in 1 .. Len(t), t[i] = t[j], t[i] # 0 PROVE i = j
      BY DEF OnceEach, Terminator
    <2>1. CASE i \in 1 .. Len(s) /\ j \in 1 .. Len(s)
      BY <1>1, <1>6, <2>1 DEF OnceEach, Terminator
    <2>2. CASE i = Len(s) + 1 /\ j \in 1 .. Len(s)
      BY <1>1, <1>6, <2>2 DEF Occurs
    <2>3. CASE j = Len(s) + 1 /\ i \in 1 .. Len(s)
      BY <1>1, <1>6, <2>3 DEF Occurs
    <2> QED
      BY <1>2, <2>1, <2>2, <2>3
  <1> QED
    BY <1>5, <1>6 DEF t

LEMMA TailOccurs ==
  ASSUME NEW S, NEW s \in Seq(S), s # <<>>
  PROVE  /\ Head(s) \in S /\ Tail(s) \in Seq(S)
         /\ \A k : Occurs(k, s) <=> Occurs(k, Tail(s)) \/ k = Head(s)
         /\ OnceEach(s) => OnceEach(Tail(s)) /\ (Head(s) # 0 => ~Occurs(Head(s), Tail(s)))
  <1> DEFINE t == Tail(s)
             x == Head(s)
  <1>1. /\ t \in Seq(S) /\ x \in S /\ x = s[1] /\ Len(s) \in Nat \ {0} /\ Len(t) = Len(s) - 1
        /\ \A i \in 1 .. Len(t) : t[i] = s[i + 1]
    BY HeadTailProperties, LenProperties, EmptySeq
  <1> HIDE DEF t, x
  <1>2. \A i \in 1 .. Len(t) : i + 1 \in 1 .. Len(s) /\ i + 1 # 1
    BY <1>1
  <1>3. \A i \in 1 .. Len(s) : i = 1 \/ (i - 1 \in 1 .. Len(t) /\ t[i - 1] = s[i])
    <2> SUFFICES ASSUME NEW i \in 1 .. Len(s), i # 1 PROVE i - 1 \in 1 .. Len(t) /\ t[i - 1] = s[i]
      OBVIOUS
    <2>1. i - 1 \in 1 .. Len(t) /\ (i - 1) + 1 = i
      BY <1>1
    <2> QED
      BY <1>1, <2>1
  <1>4. ASSUME NEW k PROVE Occurs(k, s) <=> Occurs(k, t) \/ k = x
    <2>1. Occurs(k, s) => Occurs(k, t) \/ k = x
      BY <1>1, <1>3 DEF Occurs
    <2>2. Occurs(k, t) => Occurs(k, s)
      BY <1>1, <1>2 DEF Occurs
    <2>3. Occurs(x, s)
      <3>1. 1 \in 1 .. Len(s)
        BY <1>1
      <3> QED
        BY <1>1, <3>1 DEF Occurs
    <2> QED
      BY <2>1, <2>2, <2>3
  <1>5. ASSUME OnceEach(s) PROVE OnceEach(t) /\ (x # 0 => ~Occurs(x, t))
    <2>1. ASSUME NEW i \in 1 .. Len(t), NEW j \in 1 .. Len(t), t[i] = t[j], t[i] # 0 PROVE i = j
      <3>1. i + 1 = j + 1
        BY <1>1, <1>2, <1>5, <2>1 DEF OnceEach, Terminator
      <3> QED
        BY <3>1
    <2>2. ASSUME x # 0, NEW i \in 1 .. Len(t), t[i] = x PROVE FALSE
      <3>1. i + 1 \in 1 .. Len(s) /\ 1 \in 1 .. Len(s) /\ s[i + 1] = s[1] /\ s[1] # 0 /\ i + 1 # 1
        BY <1>1, <1>2, <2>2
      <3> QED
        BY <1>5, <3>1 DEF OnceEach, Terminator
    <2> QED
      BY <2>1, <2>2 DEF OnceEach, Occurs, Terminator
  <1> QED
    BY <1>1, <1>4, <1>5 DEF t, x

LEMMA ConcatOccurs ==
  ASSUME NEW S, NEW s \in Seq(S), NEW t \in Seq(S)
  PROVE  /\ \A k : Occurs(k, s \o t) <=> Occurs(k, s) \/ Occurs(k, t)
         /\ OnceEach(s) /\ OnceEach(t) /\ (\A k \in S : k # 0 => ~(Occurs(k, s) /\ Occurs(k, t))) => OnceEach(s \o t)
  <1> DEFINE u == s \o t
  <1>1. /\ Len(s) \in Nat /\ Len(t) \in Nat /\ Len(u) = Len(s) + Len(t)
        /\ \A i \in 1 .. Len(s) + Len(t) : u[i] = IF i <= Len(s) THEN s[i] ELSE t[i - Len(s)]
    BY ConcatProperties, LenProperties
  <1> HIDE DEF u
  <1>2. ASSUME NEW i \in 1 .. Len(u)
        PROVE  \/ i \in 1 .. Len(s) /\ u[i] = s[i]
               \/ i - Len(s) \in 1 .. Len(t) /\ u[i] = t[i - Len(s)]
    BY <1>1
  <1>3. \A i \in 1 .. Len(s) : i \in 1 .. Len(u) /\ u[i] = s[i]
    BY <1>1
  <1>4. ASSUME NEW i \in 1 .. Len(t) PROVE Len(s) + i \in 1 .. Len(u) /\ u[Len(s) + i] = t[i]
    <2>1. Len(s) + i \in 1 .. Len(s) + Len(t) /\ ~(Len(s) + i <= Len(s)) /\ (Len(s) + i) - Len(s) = i
      BY <1>1
    <2> QED
      BY <1>1, <2>1
  <1>5. ASSUME NEW k PROVE Occurs(k, u) <=> Occurs(k, s) \/ Occurs(k, t)
    <2>1. Occurs(k, u) => Occurs(k, s) \/ Occurs(k, t)
      BY <1>2 DEF Occurs
    <2>2. Occurs(k, s) => Occurs(k, u)
      BY <1>3 DEF Occurs
    <2>3. Occurs(k, t) => Occurs(k, u)
      BY <1>4 DEF Occurs
    <2> QED
      BY <2>1, <2>2, <2>3
  <1>6. ASSUME OnceEach(s), OnceEach(t), \A k \in S : k # 0 => ~(Occurs(k, s) /\ Occurs(k, t))
        PROVE  OnceEach(u)
    <2> SUFFICES ASSUME NEW i \in 1 .. Len(u), NEW j \in 1 .. Len(u), u[i] = u[j], u[i] # 0 PROVE i = j
      BY DEF OnceEach, Terminator
    <2>0. i \in Nat /\ j \in Nat /\ Len(s) \in Nat
      BY <1>1
    <2>1. CASE i \in 1 .. Len(s) /\ j \in 1 .. Len(s)
      BY <1>3, <1>6, <2>1 DEF OnceEach, Terminator
    <2>2. CASE i - Len(s) \in 1 .. Len(t) /\ u[i] = t[i - Len(s)] /\ j - Len(s) \in 1 .. Len(t) /\ u[j] = t[j - Len(s)]
      <3>1. i - Len(s) = j - Len(s)
        BY <1>6, <2>2 DEF OnceEach, Terminator
      <3> QED
        BY <2>0, <3>1
    <2>3. ASSUME NEW a \in 1 .. Len(s), NEW b \in 1 .. Len(t), s[a] = t[b], s[a] # 0 PROVE FALSE
      <3>1. s[a] \in S
        BY ElementOfSeq
      <3>2. Occurs(s[a], s) /\ Occurs(s[a], t)
        BY <2>3 DEF Occurs
      <3> QED
        BY <1>6, <2>3, <3>1, <3>2
    <2> QED
      BY <1>2, <2>1, <2>2, <2>3
  <1> QED
    BY <1>5, <1>6 DEF u

\* Steps that move no task.
LEMMA AsideAccounted ==
  ASSUME Accounted, UNCHANGED <<tasks, input, busy, outcomes, recorded>>, Manned', Closing'
  PROVE  Accounted'
  <1>1. Dealt'
    BY DEF Accounted, Dealt, Task, Occurs, OnceEach
  <1>2. \A k \in Task' : InOnePlace(k)'
    BY DEF Accounted, InOnePlace, Task, Queued, Held, Occurs
  <1> QED
    BY <1>1, <1>2 DEF Accounted

LEMMA AsideKeepsAccounts ==
  ASSUME Accounted, UNCHANGED <<tasks, input, busy, outcomes, recorded>>,
         \/ UNCHANGED <<main, started, collector>>
         \/ StartWorker \/ StartCollector \/ OpenEvents \/ ReadEnd \/ JoinCollector \/ Report
         \/ main = "opening" /\ main' = "read" /\ UNCHANGED <<started, collector>>
  PROVE  Accounted'
  <1>0. Manned /\ Closing
    BY DEF Accounted
  <1>1. CASE UNCHANGED <<main, started, collector>>
    BY <1>0, <1>1, AsideAccounted DEF Manned, Closing, Occurs
  <1>2. CASE StartWorker
    <2>1. /\ main = "workers" /\ UNCHANGED collector
          /\ \/ started < NWorkers /\ main' = "workers"
             \/ main' = "stop" /\ started' = started
             \/ main' = "collector" /\ started = NWorkers /\ started' = started
      BY <1>2 DEF StartWorker
    <2>2. Manned'
      <3>2. tasks # <<>> => ~(started < NWorkers)
        BY <1>0, WorkersAssumption DEF Manned
      <3> QED
        BY <1>0, <2>1, <3>2 DEF Manned
    <2>3. Closing'
      BY <1>0, <2>1 DEF Closing, Manned, Occurs
    <2> QED
      BY <2>2, <2>3, AsideAccounted
  <1>3. CASE StartCollector
    <2>1. /\ main = "collector" /\ UNCHANGED started
          /\ \/ main' = "open" /\ collector' = "running"
             \/ main' = "stop" /\ UNCHANGED collector
      BY <1>3 DEF StartCollector, At
    <2> QED
      BY <1>0, <2>1, AsideAccounted DEF Manned, Closing, Occurs
  <1>4. CASE OpenEvents \/ ReadEnd
    <2>1. /\ main \in {"open", "read"} /\ main' \in {"opening", "stop"} /\ UNCHANGED <<started, collector>>
      BY <1>4 DEF OpenEvents, ReadEnd, At
    <2> QED
      BY <1>0, <2>1, AsideAccounted DEF Manned, Closing, Occurs
  <1>5. CASE JoinCollector
    <2>1. /\ main = "drain" /\ main' \in {"report", "error"} /\ collector = "ended" /\ UNCHANGED <<started, collector>>
      BY <1>5 DEF JoinCollector, At
    <2> QED
      BY <1>0, <2>1, AsideAccounted DEF Manned, Closing, Occurs
  <1>6. CASE Report
    <2>1. /\ main = "report" /\ main' = "done" /\ UNCHANGED <<started, collector>>
      BY <1>6 DEF Report, At
    <2> QED
      BY <1>0, <2>1, AsideAccounted DEF Manned, Closing, Occurs
  <1>7. CASE main = "opening" /\ main' = "read" /\ UNCHANGED <<started, collector>>
    BY <1>0, <1>7, AsideAccounted DEF Manned, Closing, Occurs
  <1> QED
    BY <1>1, <1>2, <1>3, <1>4, <1>5, <1>6, <1>7

\* The types the accounts need, with the number of tasks named.
Lists(n) ==
    /\ n = Len(tasks) /\ n \in Nat /\ input \in [Worker -> Seq(0 .. n)] /\ busy \in [Worker -> 0 .. n]
    /\ outcomes \in Seq(0 .. n) /\ recorded \in Seq(1 .. n)
    /\ Len(outcomes) \in Nat /\ Len(recorded) \in Nat /\ started \in 0 .. NWorkers

LEMMA TypeLists == TypeOK => \E n \in Nat : Lists(n)
  <1> SUFFICES ASSUME TypeOK PROVE \E n \in Nat : Lists(n)
    OBVIOUS
  <1>1. /\ tasks \in Seq(1 .. Len(journal)) /\ input \in [Worker -> Seq(0 .. Len(tasks))]
        /\ busy \in [Worker -> 0 .. Len(tasks)] /\ outcomes \in Seq(0 .. Len(tasks))
        /\ recorded \in Seq(1 .. Len(tasks)) /\ started \in 0 .. NWorkers
    BY DEF TypeOK
  <1>2. Len(tasks) \in Nat /\ Len(outcomes) \in Nat /\ Len(recorded) \in Nat
    BY <1>1, LenProperties
  <1> QED
    BY <1>1, <1>2 DEF Lists

LEMMA StopKeepsAccounts ==
  ASSUME NEW n \in Nat, Lists(n), Accounted, StopWorkers
  PROVE  Accounted'
  <1>0. /\ main = "stop" /\ main' = "join" /\ UNCHANGED <<tasks, started, busy, collector, outcomes, recorded>>
        /\ input' = [w \in Worker |-> IF w <= started THEN Append(input[w], 0) ELSE input[w]]
    BY DEF StopWorkers, At, Terminator
  <1>1. Manned /\ Dealt /\ Closing /\ (\A k \in Task : InOnePlace(k)) /\ Task = 1 .. n
    BY DEF Accounted, Task, Lists
  <1>2. ASSUME NEW w \in Worker
        PROVE  (\A k \in 1 .. n : Occurs(k, input'[w]) <=> Occurs(k, input[w])) /\ OnceEach(input'[w])
    <2>1. input[w] \in Seq(0 .. n) /\ 0 \in 0 .. n /\ OnceEach(input[w])
      BY <1>1 DEF Lists, Dealt
    <2>2. /\ \A k : Occurs(k, Append(input[w], 0)) <=> Occurs(k, input[w]) \/ k = 0
          /\ OnceEach(Append(input[w], 0))
      BY <2>1, AppendOccurs
    <2>3. input'[w] \in {input[w], Append(input[w], 0)}
      BY <1>0
    <2>4. \A k \in 1 .. n : k # 0
      OBVIOUS
    <2> QED
      BY <2>1, <2>2, <2>3, <2>4
  <1>3. Task' = 1 .. n
    BY <1>0, <1>1 DEF Task
  <1>4. Dealt'
    BY <1>0, <1>1, <1>2, <1>3 DEF Dealt, OnceEach
  <1>5. Manned' /\ Closing'
    BY <1>0, <1>1 DEF Manned, Closing, Occurs
  <1>6. ASSUME NEW k \in 1 .. n PROVE InOnePlace(k)'
    <2>1. WorkerOf(k) \in Worker /\ InOnePlace(k)
      BY <1>1, WorkerOfIs
    <2>2. Occurs(k, input'[WorkerOf(k)]) <=> Occurs(k, input[WorkerOf(k)])
      BY <1>2, <2>1
    <2>3. UNCHANGED <<busy, outcomes, recorded>>
      BY <1>0
    <2>4. Queued(k)' <=> Queued(k)
      BY <2>2 DEF Queued, Occurs
    <2>5. Held(k)' <=> Held(k)
      BY <2>3 DEF Held
    <2>6. (Occurs(k, outcomes)' <=> Occurs(k, outcomes)) /\ (Occurs(k, recorded)' <=> Occurs(k, recorded))
      BY <2>3 DEF Occurs
    <2> QED
      BY <2>1, <2>4, <2>5, <2>6 DEF InOnePlace
  <1> QED
    BY <1>3, <1>4, <1>5, <1>6 DEF Accounted

LEMMA JoinKeepsAccounts ==
  ASSUME NEW n \in Nat, Lists(n), Accounted, JoinWorkers
  PROVE  Accounted'
  <1>0. /\ main = "join" /\ UNCHANGED <<tasks, input, busy, recorded, started, collector>>
        /\ \A w \in 1 .. started : input[w] = <<>> /\ busy[w] = 0
        /\ \/ collector = "running" /\ main' = "drain" /\ outcomes' = Append(outcomes, 0)
           \/ collector # "running" /\ main' = "error" /\ UNCHANGED outcomes
    BY DEF JoinWorkers, Terminator
  <1>1. Manned /\ Dealt /\ Closing /\ (\A k \in Task : InOnePlace(k)) /\ Task = 1 .. n
    BY DEF Accounted, Task, Lists
  <1>2. CASE main' = "error"
    <2>1. UNCHANGED outcomes
      BY <1>0, <1>2
    <2>2. Manned' /\ Closing'
      BY <1>0, <1>1, <1>2, <2>1 DEF Manned, Closing, Occurs
    <2> QED
      BY <1>0, <2>1, <2>2, AsideAccounted
  <1>3. CASE main' = "drain" /\ collector = "running" /\ outcomes' = Append(outcomes, 0)
    <2>1. outcomes \in Seq(0 .. n) /\ 0 \in 0 .. n /\ OnceEach(outcomes) /\ Len(outcomes) \in Nat
      BY <1>1 DEF Lists, Dealt
    <2>2. /\ \A k : Occurs(k, Append(outcomes, 0)) <=> Occurs(k, outcomes) \/ k = 0
          /\ OnceEach(Append(outcomes, 0))
      BY <2>1, AppendOccurs
    <2>3. Task' = 1 .. n
      BY <1>0, <1>1 DEF Task
    <2>4. Dealt'
      <3>1. OnceEach(outcomes)'
        BY <1>3, <2>2 DEF OnceEach
      <3> QED
        BY <1>0, <1>1, <2>3, <3>1 DEF Dealt, OnceEach, Occurs
    <2>5. ASSUME NEW k \in 1 .. n PROVE InOnePlace(k)'
      <3>1. k # 0 /\ InOnePlace(k)
        BY <1>1
      <3>2. Occurs(k, outcomes') <=> Occurs(k, outcomes)
        BY <1>3, <2>2, <3>1
      <3>3. (Queued(k)' <=> Queued(k)) /\ (Held(k)' <=> Held(k)) /\ (Occurs(k, recorded)' <=> Occurs(k, recorded))
        BY <1>0 DEF Queued, Held, Occurs
      <3>4. Occurs(k, outcomes)' <=> Occurs(k, outcomes)
        BY <3>2 DEF Occurs
      <3> QED
        BY <3>1, <3>3, <3>4 DEF InOnePlace
    <2>6. Manned'
      BY <1>0, <1>1, <1>3 DEF Manned
    <2>7. Closing'
      <3>1. ~Occurs(0, outcomes)
        BY <1>0, <1>1 DEF Closing
      <3>2. /\ Len(outcomes') = Len(outcomes) + 1 /\ outcomes'[Len(outcomes) + 1] = 0
            /\ \A i \in 1 .. Len(outcomes) : outcomes'[i] = outcomes[i]
        BY <1>3, <2>1, AppendProperties
      <3>3. \A i \in 1 .. Len(outcomes) : outcomes[i] # 0
        BY <3>1 DEF Occurs
      <3>4. \A i \in 1 .. Len(outcomes') : i \in 1 .. Len(outcomes) \/ i = Len(outcomes')
        BY <2>1, <3>2
      <3>5. \A i \in 1 .. Len(outcomes) : i # Len(outcomes')
        BY <2>1, <3>2
      <3>6. \A i \in 1 .. Len(outcomes') : outcomes'[i] = 0 <=> i = Len(outcomes')
        BY <3>2, <3>3, <3>4, <3>5
      <3>7. outcomes' # <<>>
        BY <2>1, <3>2
      <3>8. \A w \in Worker : w <= started => w \in 1 .. started
        BY DEF Worker, Lists
      <3> QED
        BY <1>0, <1>3, <3>6, <3>7, <3>8 DEF Closing
    <2> QED
      BY <2>3, <2>4, <2>5, <2>6, <2>7 DEF Accounted
  <1> QED
    BY <1>0, <1>2, <1>3

LEMMA TakeKeepsAccounts ==
  ASSUME NEW n \in Nat, Lists(n), Accounted, NEW w \in Worker, TakeTask(w)
  PROVE  Accounted'
  <1>0. /\ w <= started /\ busy[w] = 0 /\ input[w] # <<>>
        /\ input' = [input EXCEPT ![w] = Tail(input[w])] /\ busy' = [busy EXCEPT ![w] = Head(input[w])]
        /\ UNCHANGED <<tasks, outcomes, recorded, started, main, collector>>
    BY DEF TakeTask
  <1>1. Manned /\ Dealt /\ Closing /\ (\A k \in Task : InOnePlace(k)) /\ Task = 1 .. n
    BY DEF Accounted, Task, Lists
  <1>2. /\ input \in [Worker -> Seq(0 .. n)] /\ busy \in [Worker -> 0 .. n] /\ OnceEach(input[w])
        /\ input[w] \in Seq(0 .. n)
    BY <1>1 DEF Lists, Dealt
  <1>3. PICK x, t : x = Head(input[w]) /\ t = Tail(input[w])
    OBVIOUS
  <1>4. /\ x \in 0 .. n /\ t \in Seq(0 .. n) /\ OnceEach(t) /\ (x # 0 => ~Occurs(x, t))
        /\ \A k : Occurs(k, input[w]) <=> Occurs(k, t) \/ k = x
    BY <1>0, <1>2, <1>3, TailOccurs
  <1>5. /\ input'[w] = t /\ busy'[w] = x
        /\ \A v \in Worker : v # w => input'[v] = input[v] /\ busy'[v] = busy[v]
    BY <1>0, <1>2, <1>3
  <1>6. Task' = 1 .. n
    BY <1>0, <1>1 DEF Task
  <1>7. Manned'
    BY <1>0, <1>1 DEF Manned
  <1>8. Closing'
    <2>1. main \notin {"drain", "report", "done"}
      BY <1>0, <1>1 DEF Closing
    <2> QED
      BY <1>0, <1>1, <2>1 DEF Closing, Occurs
  <1>9. x # 0 => WorkerOf(x) = w
    BY <1>1, <1>4 DEF Dealt
  <1>10. Dealt'
    <2>1. ASSUME NEW v \in Worker
          PROVE  /\ OnceEach(input'[v]) /\ (\A k \in 1 .. n : Occurs(k, input'[v]) => WorkerOf(k) = v)
                 /\ busy'[v] # 0 => WorkerOf(busy'[v]) = v
      BY <1>1, <1>4, <1>5, <1>9 DEF Dealt
    <2>2. OnceEach(outcomes)' /\ OnceEach(recorded)'
      BY <1>0, <1>1 DEF Dealt, OnceEach
    <2> QED
      BY <1>6, <2>1, <2>2 DEF Dealt, OnceEach, Occurs
  <1>11. ASSUME NEW k \in 1 .. n PROVE InOnePlace(k)'
    <2>1. WorkerOf(k) \in Worker /\ InOnePlace(k) /\ k # 0
      BY <1>1, WorkerOfIs
    <2>2. (Occurs(k, outcomes)' <=> Occurs(k, outcomes)) /\ (Occurs(k, recorded)' <=> Occurs(k, recorded))
      BY <1>0 DEF Occurs
    <2>3. CASE k = x
      <3>1. WorkerOf(k) = w /\ Queued(k) /\ ~Held(k)
        BY <1>0, <1>4, <1>9, <2>1, <2>3 DEF Queued, Held
      <3>2. Held(k)' /\ ~Occurs(k, input'[WorkerOf(k)])
        BY <1>4, <1>5, <2>1, <2>3, <3>1 DEF Held
      <3>3. ~Queued(k)'
        BY <3>2 DEF Queued, Occurs
      <3> QED
        BY <2>1, <2>2, <3>1, <3>2, <3>3 DEF InOnePlace
    <2>4. CASE k # x
      <3>1. Occurs(k, input'[WorkerOf(k)]) <=> Occurs(k, input[WorkerOf(k)])
        BY <1>4, <1>5, <2>1, <2>4
      <3>2. busy'[WorkerOf(k)] = k <=> busy[WorkerOf(k)] = k
        BY <1>0, <1>5, <2>1, <2>4
      <3>3. Queued(k)' <=> Queued(k)
        BY <3>1 DEF Queued, Occurs
      <3>4. Held(k)' <=> Held(k)
        BY <3>2 DEF Held
      <3> QED
        BY <2>1, <2>2, <3>3, <3>4 DEF InOnePlace
    <2> QED
      BY <2>3, <2>4
  <1> QED
    BY <1>6, <1>7, <1>8, <1>10, <1>11 DEF Accounted

LEMMA FinishKeepsAccounts ==
  ASSUME NEW n \in Nat, Lists(n), Accounted, NEW w \in Worker, FinishTask(w)
  PROVE  Accounted'
  <1>0. /\ busy[w] # 0 /\ outcomes' = Append(outcomes, busy[w]) /\ busy' = [busy EXCEPT ![w] = 0]
        /\ UNCHANGED <<tasks, input, recorded, started, main, collector>>
    BY DEF FinishTask
  <1>1. Manned /\ Dealt /\ Closing /\ (\A k \in Task : InOnePlace(k)) /\ Task = 1 .. n
    BY DEF Accounted, Task, Lists
  <1>2. PICK x \in 0 .. n : x = busy[w] /\ x # 0
    BY <1>0 DEF Lists
  <1>3. x \in 1 .. n /\ WorkerOf(x) = w
    BY <1>1, <1>2 DEF Dealt
  <1>4. Held(x) /\ InOnePlace(x)
    BY <1>1, <1>2, <1>3 DEF Held
  <1>5. outcomes \in Seq(0 .. n) /\ OnceEach(outcomes) /\ ~Occurs(x, outcomes)
    BY <1>1, <1>4 DEF Lists, Dealt, InOnePlace
  <1>6. /\ \A k : Occurs(k, outcomes') <=> Occurs(k, outcomes) \/ k = x
        /\ OnceEach(outcomes')
    BY <1>0, <1>2, <1>5, AppendOccurs
  <1>7. busy'[w] = 0 /\ \A v \in Worker : v # w => busy'[v] = busy[v]
    BY <1>0 DEF Lists
  <1>8. Task' = 1 .. n
    BY <1>0, <1>1 DEF Task
  <1>9. Manned'
    BY <1>0, <1>1 DEF Manned
  <1>10. Closing'
    <2>1. tasks # <<>>
      BY <1>3 DEF Lists
    <2>2. w <= started
      <3>1. started = NWorkers
        BY <1>1, <2>1 DEF Manned
      <3> QED
        BY <3>1 DEF Worker
    <2>3. main \notin {"drain", "report", "done"}
      BY <1>0, <1>1, <2>2 DEF Closing
    <2>4. ~Occurs(0, outcomes) => ~Occurs(0, outcomes')
      BY <1>2, <1>6
    <2> QED
      BY <1>0, <1>1, <2>3, <2>4 DEF Closing, Occurs
  <1>11. Dealt'
    <2>1. ASSUME NEW v \in Worker PROVE busy'[v] # 0 => WorkerOf(busy'[v]) = v
      BY <1>1, <1>7 DEF Dealt
    <2>2. OnceEach(outcomes)' /\ OnceEach(recorded)'
      BY <1>0, <1>1, <1>6 DEF Dealt, OnceEach
    <2>3. ASSUME NEW v \in Worker PROVE OnceEach(input'[v])
      BY <1>0, <1>1 DEF Dealt
    <2>4. ASSUME NEW v \in Worker, NEW k \in Task', Occurs(k, input'[v]) PROVE WorkerOf(k) = v
      BY <1>0, <1>1, <1>8, <2>4 DEF Dealt
    <2> QED
      BY <2>1, <2>2, <2>3, <2>4, ZenonT(40) DEF Dealt, OnceEach, Occurs
  <1>12. ASSUME NEW k \in 1 .. n PROVE InOnePlace(k)'
    <2>1. WorkerOf(k) \in Worker /\ InOnePlace(k) /\ k # 0
      BY <1>1, WorkerOfIs
    <2>2. (Queued(k)' <=> Queued(k)) /\ (Occurs(k, recorded)' <=> Occurs(k, recorded))
      BY <1>0 DEF Queued, Occurs
    <2>3. Occurs(k, outcomes)' <=> Occurs(k, outcomes) \/ k = x
      BY <1>6 DEF Occurs
    <2>4. CASE k = x
      <3>1. ~Held(k)'
        BY <1>3, <1>7, <2>1, <2>4 DEF Held
      <3> QED
        BY <1>4, <2>1, <2>2, <2>3, <2>4, <3>1 DEF InOnePlace
    <2>5. CASE k # x
      <3>1. Held(k)' <=> Held(k)
        BY <1>2, <1>7, <2>1, <2>5 DEF Held
      <3> QED
        BY <2>1, <2>2, <2>3, <2>5, <3>1 DEF InOnePlace
    <2> QED
      BY <2>4, <2>5
  <1> QED
    BY <1>8, <1>9, <1>10, <1>11, <1>12 DEF Accounted

\* What the collector takes from the queue, and what that leaves there.
LEMMA CollectorTakes ==
  ASSUME NEW n \in Nat, Lists(n), Accounted, Collect \/ EndCollector
  PROVE  \E x \in 0 .. n, t \in Seq(0 .. n) :
            /\ x = Head(outcomes) /\ outcomes' = t /\ OnceEach(t) /\ (x # 0 => ~Occurs(x, t))
            /\ \A k : Occurs(k, outcomes) <=> Occurs(k, t) \/ k = x
            /\ main \in {"drain", "report", "done"} =>
                  /\ x = 0 <=> t = <<>>
                  /\ \A i \in 1 .. Len(t) : t[i] = 0 <=> i = Len(t)
  <1>1. outcomes # <<>> /\ outcomes' = Tail(outcomes)
    BY DEF Collect, EndCollector
  <1>2. outcomes \in Seq(0 .. n) /\ OnceEach(outcomes) /\ Closing
    BY DEF Accounted, Lists, Dealt
  <1>3. PICK x, t : x = Head(outcomes) /\ t = Tail(outcomes)
    OBVIOUS
  <1>4. /\ x \in 0 .. n /\ t \in Seq(0 .. n) /\ OnceEach(t) /\ (x # 0 => ~Occurs(x, t))
        /\ \A k : Occurs(k, outcomes) <=> Occurs(k, t) \/ k = x
    BY <1>1, <1>2, <1>3, TailOccurs
  <1>5. ASSUME main \in {"drain", "report", "done"}
        PROVE  (x = 0 <=> t = <<>>) /\ (\A i \in 1 .. Len(t) : t[i] = 0 <=> i = Len(t))
    <2>1. \A i \in 1 .. Len(outcomes) : outcomes[i] = 0 <=> i = Len(outcomes)
      BY <1>2, <1>5 DEF Closing
    <2>2. /\ x = outcomes[1] /\ Len(outcomes) \in Nat \ {0} /\ Len(t) = Len(outcomes) - 1
          /\ \A i \in 1 .. Len(t) : t[i] = outcomes[i + 1]
      BY <1>1, <1>2, <1>3, HeadTailProperties, LenProperties, EmptySeq
    <2>3. t = <<>> <=> Len(t) = 0
      BY <1>4, EmptySeq
    <2>4. x = 0 <=> 1 = Len(outcomes)
      BY <2>1, <2>2
    <2>5. x = 0 <=> t = <<>>
      BY <2>2, <2>3, <2>4
    <2>6. ASSUME NEW i \in 1 .. Len(t) PROVE t[i] = 0 <=> i = Len(t)
      <3>1. i + 1 \in 1 .. Len(outcomes) /\ (i + 1 = Len(outcomes) <=> i = Len(t))
        BY <2>2
      <3> QED
        BY <2>1, <2>2, <3>1
    <2> QED
      BY <2>5, <2>6
  <1> QED
    BY <1>1, <1>3, <1>4, <1>5

LEMMA CollectKeepsAccounts ==
  ASSUME NEW n \in Nat, Lists(n), Accounted, Collect
  PROVE  Accounted'
  <1>0. /\ collector = "running" /\ Head(outcomes) # 0 /\ recorded' = Append(recorded, Head(outcomes))
        /\ outcomes # <<>> /\ UNCHANGED <<tasks, input, busy, started, main, collector>>
    BY DEF Collect, Terminator
  <1>1. Manned /\ Dealt /\ Closing /\ (\A k \in Task : InOnePlace(k)) /\ Task = 1 .. n
    BY DEF Accounted, Task, Lists
  <1>2. PICK x \in 0 .. n, t \in Seq(0 .. n) :
            /\ x = Head(outcomes) /\ outcomes' = t /\ OnceEach(t) /\ (x # 0 => ~Occurs(x, t))
            /\ \A k : Occurs(k, outcomes) <=> Occurs(k, t) \/ k = x
            /\ main \in {"drain", "report", "done"} =>
                  /\ x = 0 <=> t = <<>>
                  /\ \A i \in 1 .. Len(t) : t[i] = 0 <=> i = Len(t)
    BY CollectorTakes
  <1>3. x \in 1 .. n /\ x # 0 /\ recorded' = Append(recorded, x)
    BY <1>0, <1>2
  <1>4. Occurs(x, outcomes) /\ ~Occurs(x, recorded) /\ ~Queued(x) /\ ~Held(x)
    BY <1>1, <1>2, <1>3 DEF InOnePlace
  <1>5. recorded \in Seq(1 .. n) /\ OnceEach(recorded)
    BY <1>1 DEF Lists, Dealt
  <1>6. /\ \A k : Occurs(k, recorded') <=> Occurs(k, recorded) \/ k = x
        /\ OnceEach(recorded')
    BY <1>3, <1>4, <1>5, AppendOccurs
  <1>7. Task' = 1 .. n
    BY <1>0, <1>1 DEF Task
  <1>8. Manned'
    BY <1>0, <1>1 DEF Manned
  <1>9. Closing'
    <2>1. ~Occurs(0, outcomes) => ~Occurs(0, outcomes')
      BY <1>2
    <2> QED
      BY <1>0, <1>1, <1>2, <1>3, <2>1 DEF Closing, Occurs
  <1>10. Dealt'
    <2>1. OnceEach(outcomes)' /\ OnceEach(recorded)'
      BY <1>2, <1>6 DEF OnceEach
    <2> QED
      BY <1>0, <1>1, <1>7, <2>1 DEF Dealt, OnceEach, Occurs
  <1>11. ASSUME NEW k \in 1 .. n PROVE InOnePlace(k)'
    <2>1. InOnePlace(k) /\ k # 0
      BY <1>1
    <2>2. (Queued(k)' <=> Queued(k)) /\ (Held(k)' <=> Held(k))
      BY <1>0 DEF Queued, Held, Occurs
    <2>3. Occurs(k, recorded)' <=> Occurs(k, recorded) \/ k = x
      BY <1>6 DEF Occurs
    <2>4. Occurs(k, outcomes)' <=> Occurs(k, t)
      BY <1>2 DEF Occurs
    <2>5. CASE k = x
      <3>1. ~Occurs(k, t)
        BY <1>2, <1>3, <2>5
      <3> QED
        BY <1>4, <2>2, <2>3, <2>4, <2>5, <3>1 DEF InOnePlace
    <2>6. CASE k # x
      <3>1. Occurs(k, outcomes) <=> Occurs(k, t)
        BY <1>2, <2>6
      <3> QED
        BY <2>1, <2>2, <2>3, <2>4, <2>6, <3>1 DEF InOnePlace
    <2> QED
      BY <2>5, <2>6
  <1> QED
    BY <1>7, <1>8, <1>9, <1>10, <1>11 DEF Accounted

LEMMA EndKeepsAccounts ==
  ASSUME NEW n \in Nat, Lists(n), Accounted, EndCollector
  PROVE  Accounted'
  <1>0. /\ collector = "running" /\ Head(outcomes) = 0 /\ collector' = "ended"
        /\ outcomes # <<>> /\ UNCHANGED <<tasks, input, busy, recorded, started, main>>
    BY DEF EndCollector, Terminator
  <1>1. Manned /\ Dealt /\ Closing /\ (\A k \in Task : InOnePlace(k)) /\ Task = 1 .. n
    BY DEF Accounted, Task, Lists
  <1>2. PICK x \in 0 .. n, t \in Seq(0 .. n) :
            /\ x = Head(outcomes) /\ outcomes' = t /\ OnceEach(t) /\ (x # 0 => ~Occurs(x, t))
            /\ \A k : Occurs(k, outcomes) <=> Occurs(k, t) \/ k = x
            /\ main \in {"drain", "report", "done"} =>
                  /\ x = 0 <=> t = <<>>
                  /\ \A i \in 1 .. Len(t) : t[i] = 0 <=> i = Len(t)
    BY CollectorTakes
  <1>3. x = 0 /\ Occurs(0, outcomes)
    BY <1>0, <1>2
  <1>4. main \in {"drain", "report", "done", "error"}
    BY <1>1, <1>3 DEF Closing
  <1>5. Task' = 1 .. n
    BY <1>0, <1>1 DEF Task
  <1>6. Manned'
    BY <1>0, <1>1, <1>4 DEF Manned
  <1>7. Closing'
    BY <1>0, <1>1, <1>2, <1>3, <1>4 DEF Closing, Occurs
  <1>8. Dealt'
    <2>1. OnceEach(outcomes)'
      BY <1>2 DEF OnceEach
    <2> QED
      BY <1>0, <1>1, <1>5, <2>1 DEF Dealt, OnceEach, Occurs
  <1>9. ASSUME NEW k \in 1 .. n PROVE InOnePlace(k)'
    <2>1. InOnePlace(k) /\ k # 0
      BY <1>1
    <2>2. (Queued(k)' <=> Queued(k)) /\ (Held(k)' <=> Held(k)) /\ (Occurs(k, recorded)' <=> Occurs(k, recorded))
      BY <1>0 DEF Queued, Held, Occurs
    <2>3. Occurs(k, outcomes)' <=> Occurs(k, t)
      BY <1>2 DEF Occurs
    <2>4. Occurs(k, outcomes) <=> Occurs(k, t)
      BY <1>2, <1>3, <2>1
    <2> QED
      BY <2>1, <2>2, <2>3, <2>4 DEF InOnePlace
  <1> QED
    BY <1>5, <1>6, <1>7, <1>8, <1>9 DEF Accounted

LEMMA ReadKeepsAccounts ==
  ASSUME Stream, TypeOK, Bounds, NEW n \in Nat, Lists(n), Accounted, ReadPart
  PROVE  Accounted'
  <1>0. /\ main = "read" /\ main' \in {"read", "stop"}
        /\ UNCHANGED <<started, busy, collector, outcomes, recorded>>
    BY DEF ReadPart
  <1>1. Manned /\ Dealt /\ Closing /\ (\A k \in Task : InOnePlace(k)) /\ Task = 1 .. n
    BY DEF Accounted, Task, Lists
  <1>2. Manned' /\ Closing'
    BY <1>0, <1>1 DEF Manned, Closing, Occurs
  <1>3. CASE UNCHANGED <<tasks, input>>
    BY <1>0, <1>2, <1>3, AsideAccounted
  <1>4. CASE ~UNCHANGED <<tasks, input>>
    <2>1. PICK r \in Nat : /\ Len(tasks') = n + r
                           /\ input' = [w \in Worker |-> input[w] \o DealtTo(w, n, r)]
      BY <1>4, Dealing DEF Stream, Lists
    <2>2. PICK m \in Nat : m = n + r /\ Task' = 1 .. m
      BY <2>1 DEF Task
    <2>3. ASSUME NEW w \in Worker
          PROVE  /\ OnceEach(input'[w])
                 /\ \A k \in 1 .. m : Occurs(k, input'[w]) <=>
                       IF k <= n THEN Occurs(k, input[w]) ELSE WorkerOf(k) = w
      <3>1. PICK d, q : d = DealtTo(w, n, r) /\ q = input[w]
        OBVIOUS
      <3>2. /\ d \in Seq(n + 1 .. n + r)
            /\ \A i \in 1 .. Len(d) : d[i] \in n + 1 .. n + r /\ WorkerOf(d[i]) = w
            /\ \A k \in n + 1 .. n + r : WorkerOf(k) = w => Occurs(k, d)
            /\ OnceEach(d)
        BY <3>1, DealtToIs
      <3>3. q \in Seq(0 .. n) /\ OnceEach(q)
        BY <1>1, <3>1 DEF Lists, Dealt
      <3>4. d \in Seq(0 .. m) /\ q \in Seq(0 .. m)
        <4>1. n + 1 .. n + r \subseteq 0 .. m /\ 0 .. n \subseteq 0 .. m
          BY <2>2
        <4> QED
          BY <3>2, <3>3, <4>1, SeqGrows
      <3>5. \A k \in 0 .. m : Occurs(k, q) => k <= n
        <4>1. \A i \in 1 .. Len(q) : q[i] \in 0 .. n
          BY <3>3, ElementOfSeq
        <4>2. \A k \in 0 .. n : k <= n
          OBVIOUS
        <4> QED
          BY <4>1, <4>2 DEF Occurs
      <3>6. \A k \in 0 .. m : Occurs(k, d) => k \in n + 1 .. n + r /\ WorkerOf(k) = w
        BY <3>2 DEF Occurs
      <3>7. /\ \A k : Occurs(k, q \o d) <=> Occurs(k, q) \/ Occurs(k, d)
            /\ OnceEach(q \o d)
        <4>1. \A k \in 0 .. m : k # 0 => ~(Occurs(k, q) /\ Occurs(k, d))
          BY <3>5, <3>6
        <4> QED
          BY <3>2, <3>3, <3>4, <4>1, ConcatOccurs
      <3>8. input'[w] = q \o d
        BY <2>1, <3>1
      <3>9. ASSUME NEW k \in 1 .. m
            PROVE  Occurs(k, q \o d) <=> IF k <= n THEN Occurs(k, q) ELSE WorkerOf(k) = w
        <4>1. CASE k <= n
          BY <3>6, <3>7, <4>1
        <4>2. CASE ~(k <= n)
          <5>1. k \in n + 1 .. n + r /\ k \in 0 .. m
            BY <2>2, <4>2
          <5>2. Occurs(k, d) <=> WorkerOf(k) = w
            BY <3>2, <3>6, <5>1
          <5> QED
            BY <3>5, <3>7, <4>2, <5>1, <5>2
        <4> QED
          BY <4>1, <4>2
      <3> QED
        BY <3>1, <3>7, <3>8, <3>9
    <2>4. Dealt'
      <3>1. \A k \in 1 .. m : k <= n => k \in 1 .. n
        OBVIOUS
      <3>2. \A w \in Worker : \A k \in 1 .. m : Occurs(k, input'[w]) => WorkerOf(k) = w
        BY <1>1, <2>3, <3>1 DEF Dealt
      <3>3. \A w \in Worker : OnceEach(input'[w])
        BY <2>3
      <3> QED
        BY <1>0, <1>1, <2>2, <3>2, <3>3 DEF Dealt, OnceEach, Occurs
    <2>5. ASSUME NEW k \in 1 .. m PROVE InOnePlace(k)'
      <3>1. WorkerOf(k) \in Worker /\ k # 0
        BY WorkerOfIs
      <3>2. Queued(k)' <=> IF k <= n THEN Queued(k) ELSE TRUE
        <4>1. Occurs(k, input'[WorkerOf(k)]) <=> IF k <= n THEN Occurs(k, input[WorkerOf(k)]) ELSE TRUE
          BY <2>3, <3>1
        <4> QED
          BY <4>1 DEF Queued, Occurs
      <3>3. /\ Held(k)' <=> Held(k)
            /\ Occurs(k, outcomes)' <=> Occurs(k, outcomes)
            /\ Occurs(k, recorded)' <=> Occurs(k, recorded)
        BY <1>0 DEF Held, Occurs
      <3>4. CASE k <= n
        <4>1. k \in 1 .. n
          BY <3>4
        <4>2. InOnePlace(k)
          BY <1>1, <4>1
        <4> QED
          BY <3>2, <3>3, <3>4, <4>2 DEF InOnePlace
      <3>5. CASE ~(k <= n)
        <4>1. k \notin 0 .. n
          BY <3>5
        <4>2. ~Held(k)
          BY <3>1, <4>1 DEF Held, Lists
        <4>3. ~Occurs(k, outcomes)
          BY <4>1, ElementOfSeq DEF Occurs, Lists
        <4>4. ~Occurs(k, recorded)
          <5>1. \A i \in 1 .. Len(recorded) : recorded[i] \in 1 .. n
            BY ElementOfSeq DEF Lists
          <5>2. k \notin 1 .. n
            BY <3>5
          <5> QED
            BY <5>1, <5>2 DEF Occurs
        <4> QED
          BY <3>2, <3>3, <3>5, <4>2, <4>3, <4>4 DEF InOnePlace
      <3> QED
        BY <3>4, <3>5
    <2> QED
      BY <1>2, <2>2, <2>4, <2>5 DEF Accounted
  <1> QED
    BY <1>3, <1>4

LEMMA InitAccounted == Init => Accounted
  <1> SUFFICES ASSUME Init PROVE Accounted
    OBVIOUS
  <1>1. /\ main = "workers" /\ tasks = <<>> /\ started = 0 /\ input = [w \in Worker |-> <<>>]
        /\ busy = [w \in Worker |-> 0] /\ collector = "none" /\ outcomes = <<>> /\ recorded = <<>>
    BY DEF Init
  <1>2. Task = {} /\ Len(<<>>) = 0 /\ \A i \in 1 .. 0 : FALSE
    BY <1>1 DEF Task
  <1>3. Manned /\ Closing
    BY <1>1, <1>2 DEF Manned, Closing, Occurs
  <1>4. Dealt
    BY <1>1, <1>2 DEF Dealt, OnceEach
  <1> QED
    BY <1>2, <1>3, <1>4 DEF Accounted

LEMMA NextAccounted == Stream /\ TypeOK /\ Bounds /\ Accounted /\ [Next]_vars => Accounted'
  <1> SUFFICES ASSUME Stream, TypeOK, Bounds, Accounted, [Next]_vars PROVE Accounted'
    OBVIOUS
  <1>0. PICK n \in Nat : Lists(n)
    BY TypeLists
  <1>1. CASE Events \/ RemoveRequest \/ UNCHANGED vars
    <2>1. UNCHANGED <<tasks, input, busy, outcomes, recorded, main, started, collector>>
      BY <1>1 DEF Events, RemoveRequest, vars, bulkVars
    <2> QED
      BY <2>1, AsideKeepsAccounts
  <1>2. CASE RunProcessor \/ Notify
    <2>1. /\ UNCHANGED <<tasks, input, busy, outcomes, recorded, started, collector>>
          /\ main' = main \/ (main = "opening" /\ main' = "read")
      BY <1>2 DEF RunProcessor, Notify, Woken
    <2> QED
      BY <2>1, AsideKeepsAccounts
  <1>3. CASE StartWorker \/ StartCollector \/ OpenEvents \/ ReadEnd \/ JoinCollector \/ Report
    <2>1. UNCHANGED <<tasks, input, busy, outcomes, recorded>>
      BY <1>3 DEF StartWorker, StartCollector, OpenEvents, ReadEnd, JoinCollector, Report
    <2> QED
      BY <1>3, <2>1, AsideKeepsAccounts
  <1>4. CASE ReadPart
    BY <1>0, <1>4, ReadKeepsAccounts
  <1>5. CASE StopWorkers
    BY <1>0, <1>5, StopKeepsAccounts
  <1>6. CASE JoinWorkers
    BY <1>0, <1>6, JoinKeepsAccounts
  <1>7. ASSUME NEW w \in Worker, TakeTask(w) PROVE Accounted'
    BY <1>0, <1>7, TakeKeepsAccounts
  <1>8. ASSUME NEW w \in Worker, FinishTask(w) PROVE Accounted'
    BY <1>0, <1>8, FinishKeepsAccounts
  <1>9. CASE Collect
    BY <1>0, <1>9, CollectKeepsAccounts
  <1>10. CASE EndCollector
    BY <1>0, <1>10, EndKeepsAccounts
  <1> QED
    BY <1>1, <1>2, <1>3, <1>4, <1>5, <1>6, <1>7, <1>8, <1>9, <1>10 DEF Next, Main, Threads

\* With the queues drained every task is recorded, and OnceEach makes the numbers equal.
LEMMA AccountsClosed == TypeOK /\ Accounted => EveryTaskHasAnOutcome
  <1> SUFFICES ASSUME TypeOK, Accounted, main \in {"report", "done"}
               PROVE  /\ Len(recorded) = Len(tasks)
                      /\ \A k \in 1 .. Len(tasks) : \E i \in 1 .. Len(recorded) : recorded[i] = k
                      /\ outcomes = <<>>
    BY DEF EveryTaskHasAnOutcome
  <1>1. PICK n \in Nat : Lists(n)
    BY TypeLists
  <1>2. Manned /\ Dealt /\ Closing /\ (\A k \in Task : InOnePlace(k)) /\ Task = 1 .. n
    BY <1>1 DEF Accounted, Task, Lists
  <1>3. /\ outcomes = <<>>
        /\ \A w \in Worker : w <= started => input[w] = <<>> /\ busy[w] = 0
    BY <1>2 DEF Closing
  <1>4. ASSUME NEW k \in 1 .. n PROVE Occurs(k, recorded)
    <2>1. WorkerOf(k) \in Worker /\ k # 0 /\ InOnePlace(k)
      BY <1>2, WorkerOfIs
    <2>2. started = NWorkers
      <3>1. tasks # <<>>
        BY <1>1 DEF Lists
      <3> QED
        BY <1>2, <3>1 DEF Manned
    <2>3. WorkerOf(k) <= started
      BY <2>1, <2>2 DEF Worker
    <2>4. input[WorkerOf(k)] = <<>> /\ busy[WorkerOf(k)] = 0
      BY <1>3, <2>1, <2>3
    <2>5. Len(<<>>) = 0 /\ \A i \in 1 .. 0 : FALSE
      OBVIOUS
    <2>6. ~Queued(k) /\ ~Held(k) /\ ~Occurs(k, outcomes)
      BY <1>3, <2>1, <2>4, <2>5 DEF Queued, Held, Occurs
    <2> QED
      BY <2>1, <2>6 DEF InOnePlace
  <1>5. PICK r \in Nat : r = Len(recorded)
    BY <1>1 DEF Lists
  <1>6. recorded \in [1 .. r -> 1 .. n]
    BY <1>1, <1>5 DEF Lists
  <1>7. recorded \in Injection(1 .. r, 1 .. n)
    <2>1. \A i \in 1 .. r : recorded[i] # 0
      BY <1>6
    <2>2. \A i, j \in 1 .. r : recorded[i] = recorded[j] => i = j
      BY <1>2, <1>5, <2>1 DEF Dealt, OnceEach, Terminator
    <2> QED
      BY <1>6, <2>2 DEF Injection, IsInjective
  <1>8. recorded \in Surjection(1 .. r, 1 .. n)
    BY <1>4, <1>5, <1>6 DEF Surjection, Occurs
  <1>9. IsFiniteSet(1 .. r) /\ Cardinality(1 .. r) = r /\ IsFiniteSet(1 .. n) /\ Cardinality(1 .. n) = n
    <2>1. \A b \in Nat : IsFiniteSet(1 .. b) /\ Cardinality(1 .. b) = b
      BY FS_Interval
    <2> QED
      BY <2>1
  <1>10. r <= n
    BY <1>7, <1>9, FS_Injection
  <1>11. n <= r
    BY <1>8, <1>9, FS_Surjection
  <1>12. r = n
    BY <1>10, <1>11
  <1> QED
    BY <1>1, <1>3, <1>4, <1>5, <1>12 DEF Lists, Occurs

\* For any journal and number of workers: once the threads are joined, each ready event
\* that was dealt out has exactly one recorded outcome, whichever worker had it and
\* whatever became of it (finally block of run in rag_bulk_add.py).
THEOREM EveryTaskRecorded == Spec => []EveryTaskHasAnOutcome
  <1>1. Init => Stream /\ TypeOK /\ Bounds /\ Accounted
    BY InitStream, InitTyped, InitAccounted
  <1>2. Stream /\ TypeOK /\ Bounds /\ Accounted /\ [Next]_vars => (Stream /\ TypeOK /\ Bounds /\ Accounted)'
    BY NextStream, NextTyped, NextAccounted
  <1> QED
    BY <1>1, <1>2, AccountsClosed, PTL DEF Spec
=============================================================================
