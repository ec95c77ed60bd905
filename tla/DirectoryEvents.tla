--------------------------- MODULE DirectoryEvents ---------------------------
(***************************************************************************)
(* utility/file-uploader: the processor of streaming_directory_events.  It *)
(* scans a staging directory, journals an event for each file that stood   *)
(* still for two scans, and writes batches of events to a FIFO it never    *)
(* blocks on, until the producer seals the session or is idle too long.    *)
(* A sequence number is an index of the journal.  A payload, the JSON line *)
(* of a batch, is written in one or two parts.                             *)
(***************************************************************************)
EXTENDS Naturals, Sequences, FiniteSets, SequencesExt

CONSTANTS
    Path,       \* relative paths that the filters allow
    MaxVersion, \* bound: versions the producer puts at the paths
    MaxUploads  \* bound: uploads of the HTTP ambassador at a time

ASSUME EventsAssumption == IsFiniteSet(Path) /\ {MaxVersion, MaxUploads} \subseteq Nat

VARIABLES
    stage, made,           \* the version at each path, and the versions made
    linked,                \* versions that are still linked to a second name
    sealing, sealedStage,  \* the seal message is in its FIFO; the tree when it was written
    phase, todo,           \* where the processor is, and the paths it has still to visit
    current, previous,     \* identities of this scan and of the last one
    emitted,               \* the identity last journaled for each path
    journal,               \* event_journal.jsonl
    popped,                \* events that have left the front of pending
    writer,                \* descriptor, batch and offset of the EventWriter
    fifo,                  \* parts of payloads in the events FIFO
    sealed,                \* why the session is sealed, if it is
    stopping               \* the processor has caught a signal

producerVars == <<stage, made, linked, sealing, sealedStage>>
scanVars == <<todo, current, previous, emitted, sealed>>
writerVars == <<popped, writer, fifo>>
processorVars == <<phase, scanVars, journal, writerVars, stopping>>
eventVars == <<producerVars, processorVars>>

NoFile == [p \in Path |-> 0]
Idle == [open |-> FALSE, batch |-> 0, half |-> FALSE]
Part == [from : Nat, to : Nat, part : {"head", "tail", "whole", "notice"}]

EventsTypeOK ==
    /\ {stage, linked} \subseteq [Path -> 0 .. MaxVersion] /\ made \in 0 .. MaxVersion
    /\ sealing \in {"no", "written", "read"} /\ sealedStage \in [Path -> 0 .. MaxVersion]
    /\ phase \in {"scan", "flush", "decide", "final", "ended", "failed"} /\ todo \subseteq Path
    /\ {current, previous, emitted} \subseteq [Path -> 0 .. MaxVersion]
    /\ journal \in Seq(Path \cup {"terminated"})
    /\ popped \in 0 .. Len(journal)
    /\ writer \in [open : BOOLEAN, batch : 0 .. Len(journal), half : BOOLEAN]
    /\ fifo \in Seq(Part)
    /\ sealed \in {"", "explicit", "idle"} /\ stopping \in BOOLEAN

\* prepare: an empty staging directory, the FIFOs of the events and of the seal.
ChannelInit ==
    /\ stage = NoFile /\ made = 0 /\ linked = NoFile
    /\ sealing = "no" /\ sealedStage = NoFile /\ fifo = <<>>

EventsInit ==
    /\ ChannelInit
    /\ phase = "scan" /\ todo = Path /\ current = NoFile /\ previous = NoFile
    /\ emitted = NoFile /\ journal = <<>> /\ popped = 0
    /\ writer = Idle /\ sealed = "" /\ stopping = FALSE

Running == phase \notin {"ended", "failed"}

-----------------------------------------------------------------------------
(* The producer puts files in the tree and may seal the session: a local   *)
(* one renames them in, the HTTP ambassador uploads them.                  *)

\* A session has one producer: nothing is renamed in while an upload is under way.
Rename(p) ==
    /\ Running /\ linked = NoFile /\ made < MaxVersion
    /\ made' = made + 1 /\ stage' = [stage EXCEPT ![p] = made + 1]
    /\ UNCHANGED <<linked, sealing, sealedStage, processorVars>>

\* bulk_upload_file stores the content outside the tree and links it to its path,
\* which fails if there is something; a scan passes over a file with two names.
LinkUpload(p) ==
    /\ Running /\ made < MaxVersion /\ stage[p] = 0 /\ linked[p] = 0
    /\ Cardinality({q \in Path : linked[q] # 0}) < MaxUploads
    /\ made' = made + 1 /\ linked' = [linked EXCEPT ![p] = made + 1]
    /\ UNCHANGED <<stage, sealing, sealedStage, processorVars>>

\* The temporary name is removed and the upload answered; an ambassador that is killed
\* before leaves the file with both names.
FinishUpload(p) ==
    /\ Running /\ linked[p] # 0
    /\ stage' = [stage EXCEPT ![p] = linked[p]] /\ linked' = [linked EXCEPT ![p] = 0]
    /\ UNCHANGED <<made, sealing, sealedStage, processorVars>>

\* bulk_finish, or a local producer, writes the seal; a second one changes nothing.
Seal ==
    /\ Running /\ sealing = "no"
    /\ sealing' = "written" /\ sealedStage' = stage
    /\ UNCHANGED <<stage, made, linked, processorVars>>

SignalProcessor ==
    /\ Running /\ stopping' = TRUE
    /\ UNCHANGED <<producerVars, phase, scanVars, journal, writerVars>>

-----------------------------------------------------------------------------
(* One turn of the loop of run: scan, journal, flush, decide.              *)

Visit(p) ==
    /\ phase = "scan" /\ p \in todo
    /\ todo' = todo \ {p} /\ current' = [current EXCEPT ![p] = stage[p]]
    /\ UNCHANGED <<producerVars, phase, previous, emitted, sealed, journal, writerVars, stopping>>

Stable == {p \in Path : current[p] # 0 /\ previous[p] = current[p] /\ emitted[p] # current[p]}

\* Every file seen twice alike gets a sequence number, a journal record and its
\* place in pending.
EmitStable ==
    /\ phase = "scan" /\ todo = {}
    /\ journal' = journal \o SetToSeq(Stable)
    /\ emitted' = [p \in Path |-> IF p \in Stable THEN current[p] ELSE emitted[p]]
    /\ phase' = "flush"
    /\ UNCHANGED <<producerVars, todo, current, previous, sealed, writerVars, stopping>>

Pending == Len(journal) - popped
FlushIn(next) ==
    /\ phase = "flush" \/ (phase = "final" /\ ~stopping)
    /\ phase' = (IF phase = "final" THEN "final" ELSE next)
Flushed == FlushIn("decide") /\ UNCHANGED <<producerVars, scanVars, journal, stopping>>
Flushing == FlushIn("flush") /\ UNCHANGED <<producerVars, scanVars, journal, stopping>>

\* Opening without a reader is ENXIO, writing to a FIFO that has lost its reader is
\* EPIPE: the descriptor is closed, which empties a FIFO nobody else holds, and the
\* payload is given up, to be made again from pending.
FlushNoReader(readers) ==
    /\ Flushed /\ ~readers /\ (~writer.open \/ Pending > 0)
    /\ writer' = Idle /\ fifo' = <<>> /\ UNCHANGED popped

\* Nothing to write; the writer only connects to the reader.
FlushNothing(readers) ==
    /\ Flushed /\ phase = "flush" /\ Pending = 0 /\ (readers \/ writer.open)
    /\ writer' = [writer EXCEPT !.open = TRUE] /\ UNCHANGED <<fifo, popped>>

\* EAGAIN: the FIFO is full; the payload and its offset are kept for the next flush.
FlushFull(readers) ==
    /\ Flushed /\ readers /\ Pending > 0 /\ fifo # <<>>
    /\ writer' = [open |-> TRUE, batch |-> IF writer.batch = 0 THEN Pending ELSE writer.batch,
                  half |-> writer.half]
    /\ UNCHANGED <<fifo, popped>>

\* Mutant: a partly written payload is made again from pending.
FlushWriteAnew(readers) ==
    /\ readers /\ Pending > 0 /\ fifo = <<>>
    /\ LET next(part) == Append(fifo, [from |-> popped + 1, to |-> popped + Pending, part |-> part])
       IN  \/ /\ Flushing /\ ~writer.half
              /\ fifo' = next("head")
              /\ writer' = [open |-> TRUE, batch |-> Pending, half |-> TRUE] /\ UNCHANGED popped
           \/ /\ Flushed
              /\ fifo' = next(IF writer.half THEN "tail" ELSE "whole")
              /\ writer' = [open |-> TRUE, batch |-> 0, half |-> FALSE] /\ popped' = popped + Pending

\* The first or the last part of a payload, or all of it, is written; the batch
\* leaves pending with its last part.
FlushWrite(readers) ==
    /\ readers /\ Pending > 0 /\ fifo = <<>>
    /\ LET batch == IF writer.batch = 0 THEN Pending ELSE writer.batch
           next(part) == Append(fifo, [from |-> popped + 1, to |-> popped + batch, part |-> part])
       IN  \/ /\ Flushing /\ ~writer.half
              /\ fifo' = next("head")
              /\ writer' = [open |-> TRUE, batch |-> batch, half |-> TRUE] /\ UNCHANGED popped
           \/ /\ Flushed
              /\ fifo' = next(IF writer.half THEN "tail" ELSE "whole")
              /\ writer' = [open |-> TRUE, batch |-> 0, half |-> FALSE] /\ popped' = popped + batch

Flush(readers) ==
    FlushNoReader(readers) \/ FlushNothing(readers) \/ FlushFull(readers) \/ FlushWrite(readers)

Terminate ==
    /\ journal' = Append(journal, "terminated") /\ phase' = "final"
    /\ UNCHANGED <<todo, current, previous>>

NextScan ==
    /\ todo' = Path /\ previous' = current /\ current' = NoFile
    /\ phase' = "scan" /\ UNCHANGED journal

SealNow ==
    \/ sealed = "" /\ sealing = "written" /\ sealing' = "read" /\ sealed' = "explicit"
    \/ sealed = "" /\ sealing # "written" /\ current # NoFile /\ sealed' = "idle" /\ UNCHANGED sealing
    \/ (sealed # "" \/ sealing # "written") /\ UNCHANGED <<sealing, sealed>>

AllEmitted == \A p \in Path : current[p] \in {0, emitted[p]}

\* Mutant: the turn that reads the seal may end the session.
DecideNoExtraScan ==
    /\ phase = "decide" /\ SealNow
    /\ IF stopping \/ (sealed' # "" /\ AllEmitted) THEN Terminate ELSE NextScan
    /\ UNCHANGED <<stage, made, linked, sealedStage, emitted, writerVars, stopping>>

\* The seal is read, or nothing new appeared for the update timeout; the session ends
\* in a later turn, one that leaves nothing unannounced, or after a signal.
Decide ==
    /\ phase = "decide" /\ SealNow
    /\ IF stopping \/ (sealed # "" /\ AllEmitted) THEN Terminate ELSE NextScan
    /\ UNCHANGED <<stage, made, linked, sealedStage, emitted, writerVars, stopping>>

Close(readers) == writer' = Idle /\ fifo' = (IF readers THEN fifo ELSE <<>>)

\* No entry at all before the initial timeout: exit code 124.
InitialTimeout(readers) ==
    /\ phase = "decide" /\ sealed = "" /\ sealing # "written" /\ current = NoFile /\ emitted = NoFile
    /\ phase' = "failed" /\ Close(readers)
    /\ UNCHANGED <<producerVars, scanVars, journal, popped, stopping>>

\* The last second of flushing ends: pending is empty, the deadline has passed, or
\* there was a signal.
End(readers) ==
    /\ phase = "final"
    /\ phase' = "ended" /\ Close(readers)
    /\ UNCHANGED <<producerVars, scanVars, journal, popped, stopping>>

Processor(readers) ==
    \/ \E p \in Path : Visit(p)
    \/ EmitStable \/ Flush(readers) \/ Decide \/ InitialTimeout(readers) \/ End(readers)

Producer == (\E p \in Path : Rename(p) \/ LinkUpload(p) \/ FinishUpload(p)) \/ Seal

\* Timeouts expire in the end, though they are only looked at once in a turn.
IdleTimeout == Decide /\ sealed = "" /\ sealed' = "idle"
=============================================================================
