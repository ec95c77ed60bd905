----------------------------- MODULE RagBulkAdd -----------------------------
(***************************************************************************)
(* ai_agent/sources/rag_bulk_add.py: the consumer of a directory-events    *)
(* session.  Its main thread deals the ready events out to worker threads  *)
(* in turn, each adds its files to the RAG store, and a collector thread   *)
(* records the outcomes and reports them to a reader that may be absent.   *)
(***************************************************************************)
EXTENDS DirectoryEvents

CONSTANTS
    NWorkers,
    Long       \* the paths whose outcomes are longer than PIPE_BUF

ASSUME WorkersAssumption == NWorkers \in Nat \ {0} /\ Long \subseteq Path

Worker == 1 .. NWorkers
Terminator == 0  \* TERMINATE_WORKER, TERMINATE_COLLECTOR
Cut == 0         \* the beginning of an outcome whose rest never follows

VARIABLES
    request,    \* the uploader's executor serves the request, has given notice or removed it
    main,       \* where the main thread is
    reading,    \* the events FIFO is opened for reading
    line,       \* the events of the line of which a part was read
    failure,    \* the open or the reading of the events has raised an exception
    got,        \* sequence numbers of the events it was given
    tasks,      \* tasks dealt out: the event of each sequence number
    started,    \* worker threads that run
    input,      \* the input queue of each worker
    busy,       \* the task each worker holds
    collector,  \* "none", "running" or "ended"
    outcomes,   \* the outcome queue
    recorded,   \* outcomes in added and failed, in their order
    added,      \* those that were added
    reachable,  \* delivery_available
    published   \* what the reader of events was sent: sequence numbers, or Cut

bulkVars == <<request, main, reading, line, failure, got, tasks, started, input, busy, collector, outcomes, recorded,
              added, reachable, published>>
vars == <<eventVars, bulkVars>>

TypeOK ==
    /\ EventsTypeOK /\ request \in {"served", "noticed", "removed"}
    /\ main \in {"workers", "collector", "open", "opening", "read", "stop", "join", "drain", "report", "done",
                "error"}
    /\ reading \in BOOLEAN /\ line \in Nat \X Nat /\ failure \in BOOLEAN /\ got \in Seq(1 .. Len(journal))
    /\ tasks \in Seq(1 .. Len(journal)) /\ started \in 0 .. NWorkers
    /\ input \in [Worker -> Seq(0 .. Len(tasks))] /\ busy \in [Worker -> 0 .. Len(tasks)]
    /\ collector \in {"none", "running", "ended"} /\ outcomes \in Seq(0 .. Len(tasks))
    /\ recorded \in Seq(1 .. Len(tasks)) /\ added \subseteq 1 .. Len(tasks)
    /\ reachable \in BOOLEAN /\ published \in Seq(0 .. Len(tasks) + 1)

Init ==
    /\ EventsInit /\ request = "served"
    /\ main = "workers" /\ reading = FALSE /\ line = <<0, 0>> /\ failure = FALSE /\ got = <<>> /\ tasks = <<>>
    /\ started = 0 /\ input = [w \in Worker |-> <<>>] /\ busy = [w \in Worker |-> 0]
    /\ collector = "none" /\ outcomes = <<>> /\ recorded = <<>> /\ added = {}
    /\ reachable = TRUE /\ published = <<>>

-----------------------------------------------------------------------------
(* The main thread.                                                        *)

At(here, there) == main = here /\ main' = there

\* start_workers: one thread after the other; if one cannot start, those that did are
\* stopped again.
StartWorker ==
    /\ main = "workers"
    /\ \/ started < NWorkers /\ started' = started + 1 /\ UNCHANGED main
       \/ started < NWorkers /\ main' = "stop" /\ UNCHANGED started
       \/ started = NWorkers /\ main' = "collector" /\ UNCHANGED started
    /\ UNCHANGED <<eventVars, request, reading, line, failure, got, tasks, input, busy, collector, outcomes, recorded,
                   added, reachable, published>>

StartCollector ==
    /\ \/ At("collector", "open") /\ collector' = "running"
       \/ At("collector", "stop") /\ UNCHANGED collector
    /\ UNCHANGED <<eventVars, request, reading, line, failure, got, tasks, started, input, busy, outcomes, recorded,
                   added, reachable, published>>

\* The open blocks until the other end is opened; it fails when the FIFO is gone with
\* its request.
OpenEvents ==
    /\ \/ At("open", "opening") /\ request # "removed" /\ reading' = TRUE /\ UNCHANGED failure
       \/ At("open", "stop") /\ request = "removed" /\ failure' = TRUE /\ UNCHANGED reading
    /\ UNCHANGED <<eventVars, request, line, got, tasks, started, input, busy, collector, outcomes, recorded, added,
                   reachable, published>>

InOrder(S) == CHOOSE s \in [1 .. Cardinality(S) -> S] : \A i, j \in 1 .. Cardinality(S) : i < j => s[i] < s[j]
WorkerOf(k) == 1 + ((k - 1) % NWorkers)
Ready(first, last) == InOrder({n \in first .. last : journal[n] # "terminated"})
DealtTo(w, from, n) == InOrder({k \in from + 1 .. from + n : WorkerOf(k) = w})

\* A part of a payload is read; with its newline the events of the batch are checked
\* to be in sequence and dealt out to the workers' queues in turn.  A line that is cut
\* off, or out of sequence, is an error.
ReadPart ==
    /\ main = "read" /\ fifo # <<>>
    /\ fifo' = Tail(fifo)
    /\ LET p == Head(fifo)
           unfit == \/ p.part \in {"whole", "notice"} /\ line # <<0, 0>>
                    \/ p.part = "tail" /\ line # <<p.from, p.to>>
                    \/ p.part \in {"whole", "tail"} /\ got # <<>> /\ p.from <= Last(got)
       IN  \/ /\ p.part = "head" /\ line' = <<p.from, p.to>>
              /\ UNCHANGED <<main, failure, got, tasks, input>>
           \/ /\ p.part = "notice" /\ ~unfit
              /\ UNCHANGED <<main, line, failure, got, tasks, input>>
           \/ /\ unfit /\ main' = "stop" /\ failure' = TRUE
              /\ UNCHANGED <<line, got, tasks, input>>
           \/ /\ p.part \in {"whole", "tail"} /\ ~unfit /\ line' = <<0, 0>>
              /\ LET ready == Ready(p.from, p.to)
                 IN     /\ got' = got \o [i \in 1 .. p.to + 1 - p.from |-> p.from + i - 1]
                        /\ tasks' = tasks \o ready
                        /\ input' = [w \in Worker |-> input[w] \o DealtTo(w, Len(tasks), Len(ready))]
                        /\ UNCHANGED <<main, failure>>
    /\ UNCHANGED <<producerVars, phase, scanVars, journal, popped, writer, stopping, request, reading, started, busy,
                   collector, outcomes, recorded, added, reachable, published>>

\* End of file: the processor has closed its end.  A line without its end is an error
\* as well, and like every other one ends in the same finally block.
ReadEnd ==
    /\ At("read", "stop") /\ fifo = <<>> /\ ~writer.open
    /\ reading' = FALSE /\ failure' = (line # <<0, 0>>)
    /\ UNCHANGED <<eventVars, request, line, got, tasks, started, input, busy, collector, outcomes, recorded, added,
                   reachable, published>>

\* stop_workers puts one terminator behind the tasks of each worker that runs.
StopWorkers ==
    /\ At("stop", "join")
    /\ input' = [w \in Worker |-> IF w <= started THEN Append(input[w], Terminator) ELSE input[w]]
    /\ reading' = FALSE
    /\ UNCHANGED <<eventVars, request, line, failure, got, tasks, started, busy, collector, outcomes, recorded, added,
                   reachable, published>>

\* Mutant: the collector is ended while workers still add files.
JoinWorkersNot ==
    /\ main = "join"
    /\ IF collector = "running" THEN main' = "drain" /\ outcomes' = Append(outcomes, Terminator)
       ELSE main' = "error" /\ UNCHANGED outcomes
    /\ UNCHANGED <<eventVars, request, reading, line, failure, got, tasks, started, input, busy, collector, recorded,
                   added, reachable, published>>

\* Every queue is joined before the collector is given its terminator.
JoinWorkers ==
    /\ main = "join" /\ \A w \in 1 .. started : input[w] = <<>> /\ busy[w] = 0
    /\ IF collector = "running" THEN main' = "drain" /\ outcomes' = Append(outcomes, Terminator)
       ELSE main' = "error" /\ UNCHANGED outcomes
    /\ UNCHANGED <<eventVars, request, reading, line, failure, got, tasks, started, input, busy, collector, recorded,
                   added, reachable, published>>

\* The exception goes on behind the finally block, past the terminal event.
JoinCollector ==
    /\ At("drain", IF failure THEN "error" ELSE "report") /\ collector = "ended"
    /\ UNCHANGED <<eventVars, request, reading, line, failure, got, tasks, started, input, busy, collector, outcomes,
                   recorded, added, reachable, published>>

\* The terminal event is tried once more, whatever came of the outcomes.
Report ==
    /\ At("report", "done")
    /\ published' \in {published, Append(published, Len(tasks) + 1)}
    /\ UNCHANGED <<eventVars, request, reading, line, failure, got, tasks, started, input, busy, collector, outcomes,
                   recorded, added, reachable>>

Main ==
    \/ StartWorker \/ StartCollector \/ OpenEvents \/ ReadPart \/ ReadEnd \/ StopWorkers \/ JoinWorkers
    \/ JoinCollector \/ Report

-----------------------------------------------------------------------------
(* The worker threads and the collector.                                   *)

\* A worker takes its next task; the terminator, last in its queue, ends it.
TakeTask(w) ==
    /\ w <= started /\ busy[w] = 0 /\ input[w] # <<>>
    /\ input' = [input EXCEPT ![w] = Tail(@)] /\ busy' = [busy EXCEPT ![w] = Head(input[w])]
    /\ UNCHANGED <<eventVars, request, main, reading, line, failure, got, tasks, started, collector, outcomes,
                   recorded, added, reachable, published>>

\* rag_add_file succeeds, or fails with an error or an exception; both are outcomes.
FinishTask(w) ==
    /\ busy[w] # 0
    /\ added' \in {added, added \cup {busy[w]}}
    /\ outcomes' = Append(outcomes, busy[w]) /\ busy' = [busy EXCEPT ![w] = 0]
    /\ UNCHANGED <<eventVars, request, main, reading, line, failure, got, tasks, started, input, collector, recorded,
                   reachable, published>>

\* Mutant: the collector records its terminator like an outcome.
CollectAnything ==
    /\ collector = "running" /\ outcomes # <<>>
    /\ outcomes' = Tail(outcomes) /\ recorded' = Append(recorded, Head(outcomes))
    /\ UNCHANGED <<eventVars, request, main, reading, line, failure, got, tasks, started, input, busy, collector,
                   added, reachable, published>>

\* Mutant: a failed delivery does not end the reporting.
CollectRetrying ==
    /\ collector = "running" /\ outcomes # <<>> /\ Head(outcomes) # Terminator
    /\ outcomes' = Tail(outcomes) /\ recorded' = Append(recorded, Head(outcomes))
    /\ published' \in {published, Append(published, Head(outcomes))}
    /\ UNCHANGED <<eventVars, request, main, reading, line, failure, got, tasks, started, input, busy, collector,
                   added, reachable>>

\* Mutant: the collector waits for a reader before it takes further outcomes.
CollectForReader ==
    /\ collector = "running" /\ outcomes # <<>> /\ Head(outcomes) # Terminator /\ reachable
    /\ outcomes' = Tail(outcomes) /\ recorded' = Append(recorded, Head(outcomes))
    /\ \/ published' = Append(published, Head(outcomes)) /\ UNCHANGED reachable
       \/ reachable' = FALSE /\ UNCHANGED published
    /\ UNCHANGED <<eventVars, request, main, reading, line, failure, got, tasks, started, input, busy, collector,
                   added>>

\* An outcome is reported while delivery works, and recorded in any case.  The write does
\* not block and its count is not looked at: of a long outcome the FIFO may take only
\* a part, which passes for delivered.
Collect ==
    /\ collector = "running" /\ outcomes # <<>> /\ Head(outcomes) # Terminator
    /\ outcomes' = Tail(outcomes) /\ recorded' = Append(recorded, Head(outcomes))
    /\ \/ reachable /\ published' = Append(published, Head(outcomes)) /\ UNCHANGED reachable
       \/ /\ reachable /\ journal[tasks[Head(outcomes)]] \in Long
          /\ published' = Append(published, Cut) /\ UNCHANGED reachable
       \/ reachable' = FALSE /\ UNCHANGED published
    /\ UNCHANGED <<eventVars, request, main, reading, line, failure, got, tasks, started, input, busy, collector,
                   added>>

EndCollector ==
    /\ collector = "running" /\ outcomes # <<>> /\ Head(outcomes) = Terminator
    /\ outcomes' = Tail(outcomes) /\ collector' = "ended"
    /\ UNCHANGED <<eventVars, request, main, reading, line, failure, got, tasks, started, input, busy, recorded,
                   added, reachable, published>>

Threads == (\E w \in Worker : TakeTask(w) \/ FinishTask(w)) \/ Collect \/ EndCollector

-----------------------------------------------------------------------------
\* An open that blocks returns as soon as the processor or the executor opens.
Woken(opens) == main' = IF main = "opening" /\ opens THEN "read" ELSE main

RunProcessor ==
    /\ Processor(reading) /\ Woken(writer'.open)
    /\ UNCHANGED <<request, reading, line, failure, got, tasks, started, input, busy, collector, outcomes, recorded,
                   added, reachable, published>>

\* The deferred executor, once the processor has ended: for a second it tries to wake a
\* reader of the events FIFO with a notice, then it removes the request.  One that has
\* caught a signal gives no notice.
Notify ==
    /\ ~Running /\ request = "served" /\ request' = "noticed"
    /\ \/ /\ Woken(reading)
          /\ fifo' = IF reading THEN Append(fifo, [from |-> 0, to |-> 0, part |-> "notice"]) ELSE fifo
       \/ UNCHANGED <<main, fifo>>
    /\ UNCHANGED <<producerVars, phase, scanVars, journal, popped, writer, stopping, reading, line, failure, got,
                   tasks, started, input, busy, collector, outcomes, recorded, added, reachable, published>>

RemoveRequest ==
    /\ request = "noticed" /\ request' = "removed"
    /\ UNCHANGED <<eventVars, main, reading, line, failure, got, tasks, started, input, busy, collector, outcomes,
                   recorded, added, reachable, published>>

Events == (Producer \/ SignalProcessor) /\ UNCHANGED bulkVars
Next == Events \/ RunProcessor \/ Notify \/ RemoveRequest \/ Main \/ Threads
Spec == Init /\ [][Next]_vars

\* Processes and threads run, and timeouts expire; the producer may rename and seal or
\* not.
FairSpec ==
    /\ Spec /\ WF_vars(RunProcessor) /\ WF_vars(Notify \/ RemoveRequest) /\ WF_vars(Main)
    /\ SF_vars(RunProcessor /\ IdleTimeout) /\ SF_vars(RunProcessor /\ InitialTimeout(reading))
    /\ WF_vars(Collect \/ EndCollector)
    /\ \A w \in Worker : WF_vars(TakeTask(w) \/ FinishTask(w))

-----------------------------------------------------------------------------
(* Properties.                                                             *)

\* A session that ends on an explicit seal has announced every file that was in place
\* when the seal was written and was not replaced afterwards, even one renamed in
\* between the last scan and the seal (run, "always reconcile at least once more").
SealCoversTheTree ==
    phase \in {"final", "ended"} /\ sealed = "explicit" /\ ~stopping =>
        \A p \in Path : sealedStage[p] # 0 /\ stage[p] = sealedStage[p] =>
            \E n \in 1 .. Len(journal) : journal[n] = p /\ emitted[p] = stage[p]

\* A reader that stays gets the journal from its beginning, every sequence number
\* once and in order, over partial writes and full FIFOs; so the check in
\* iter_directory_event_stream never fails on what the processor sends.
StreamIsTheJournal ==
    /\ got = [i \in 1 .. Len(got) |-> i]
    /\ reading /\ fifo # <<>> => fifo[1].from \in {0, Len(got) + 1}

\* When the bulk request has stopped its threads, each ready event it was given has
\* exactly one recorded outcome, and no other was recorded (finally block of run).
EveryTaskHasAnOutcome ==
    main \in {"report", "done"} =>
        /\ Len(recorded) = Len(tasks) /\ \A k \in 1 .. Len(tasks) : \E i \in 1 .. Len(recorded) : recorded[i] = k
        /\ outcomes = <<>>

\* Until the terminal event, what the reader of the bulk request's events got follows
\* what was recorded one by one from its beginning: no outcome is missing between two
\* others, none comes twice or out of turn, and only a long one may be cut off
\* (collect_outcomes, publish_event).
CutOff(k) == journal[tasks[k]] \in Long
ReportsHaveNoGap ==
    main # "done" =>
        /\ Len(published) <= Len(recorded)
        /\ \A i \in 1 .. Len(published) :
               published[i] = recorded[i] \/ (published[i] = Cut /\ CutOff(recorded[i]))

\* The bulk request ends, also when a thread could not be started, when the stream
\* ends without its terminal event, and when nobody reads its reports; but for a main
\* thread whose open of the FIFO still blocks when the uploader's executor removes the
\* request, because it came after the executor's last try to wake it or because a
\* signal has kept the executor from trying: nothing wakes it any more.
Unwoken == main = "opening" /\ request = "removed"
BulkEnds == <>(main \in {"done", "error"} \/ Unwoken)
=============================================================================
