-------------------------- MODULE CapturePipeline --------------------------
(***************************************************************************)
(* The TAP subscriber, the Kafka topic and the log event aggregator.  The  *)
(* topic is all they share.                                                *)
(***************************************************************************)
EXTENDS TapSubscriber, LogAggregator

vars == <<subscriberVars, aggregatorVars>>

Init == SubscriberInit /\ AggregatorInit

Next ==
    \/ SubscriberNext /\ UNCHANGED aggregatorVars
    \/ /\ AggregatorNext
       /\ UNCHANGED <<pumpVars, captureVars, mainVars, shutdown, publisherVars>>

Spec == Init /\ [][Next]_vars

(***************************************************************************)
(* Both programs keep running; the broker stores and acknowledges what it  *)
(* is sent, an outage being over some day.  The wait for the next trace is *)
(* finite, as deployed (60 s and 15 s), so a loop that comes back to its   *)
(* deadline again and again runs into it; so is drain_all's.  The activity *)
(* deadline of the aggregator bounds its wait for a terminal event that    *)
(* never comes.  Nothing is assumed of signals, kills and restarts.        *)
(***************************************************************************)
FairSpec ==
    /\ Spec
    /\ WF_vars(MainStep /\ UNCHANGED aggregatorVars)
    /\ WF_vars((PumpPuts \/ PumpQuits) /\ UNCHANGED aggregatorVars)
    /\ WF_vars(Broker /\ UNCHANGED aggregatorVars)
    /\ SF_vars(WaitExpires /\ UNCHANGED aggregatorVars)
    /\ WF_vars(DrainAfterFailure /\ UNCHANGED aggregatorVars)
    /\ WF_vars(AggregatorStep /\ UNCHANGED <<pumpVars, captureVars, mainVars,
                                             shutdown, publisherVars>>)

TypeOK == SubscriberTypeOK /\ AggregatorTypeOK

(***************************************************************************)
(* "preserving order within a partition so capture_complete follows its    *)
(* connection logs": while Kafka only delays, the aggregator never finds a *)
(* chunk out of order, a log incomplete or unfinished, although the        *)
(* events pass two buffers and are produced through refusals, and though   *)
(* the subscriber may be killed between any two of them.                   *)
(***************************************************************************)
StreamStaysInOrder == verdict # "disorder"

(***************************************************************************)
(* The pipeline as a whole keeps the contract of CaptureContract: a test   *)
(* result is computed from exactly what was captured, whatever signals,    *)
(* kills, drains that expire and restarts of the aggregator intervene.     *)
(***************************************************************************)
Captured ==
    [t \in DOMAIN decoded \cup active |->
        IF t \in active THEN spool[t] ELSE decoded[t]]
CaptureClosed == captureFailed \/ pc \in {"drain", "exited", "done"}

Contract == INSTANCE CaptureContract WITH
    Outcome <- Verdict,
    captured <- Captured,
    closed <- CaptureClosed,
    outcome <- verdict,
    report <- IF verdict = "result" THEN files ELSE NoLogs

ContractKept == Contract!Spec

(***************************************************************************)
(* drain_all returns only when nothing is undelivered: a subscriber that   *)
(* exits with 0 has every event of every log, and the terminal event, in   *)
(* the topic, though the broker may have refused some of them before.      *)
(***************************************************************************)
In(e, s) == \E i \in 1 .. Len(s) : s[i] = e
InTopic(e) == In(e, topic)

SuccessMeansDelivered ==
    pc \in {"exited", "done"} /\ code = 0 =>
        /\ InTopic(Terminal("capture_complete"))
        /\ \A t \in DOMAIN decoded :
              /\ InTopic(Complete(t, decoded[t]))
              /\ \A i \in 1 .. decoded[t] : InTopic(Chunk(t, i - 1))

(***************************************************************************)
(* A subscriber that exits with success is never left unjudged nor judged  *)
(* for something else: the aggregator comes to a result or to finding no   *)
(* logs, and after exit code 10 to the start timeout, unless a refusal has *)
(* brought the stream out of order or its own deadlines expire first.      *)
(***************************************************************************)
JudgedAs(c, verdicts) ==
    (pc = "done" /\ code = c) ~> (verdict \in verdicts \cup {"disorder", "timeout"})

SuccessIsJudged ==
    /\ JudgedAs(0, {"result", "no_logs"})
    /\ JudgedAs(10, {"start_timeout"})

(***************************************************************************)
(* "preserving order within a partition so capture_complete follows its    *)
(* connection logs", without exception.                                    *)
(***************************************************************************)
CompleteFollowsItsLogs ==
    \A i, j \in 1 .. Len(topic) :
        topic[i].type = "capture_complete" /\ i < j
            => ~IsConnectionEvent(topic[j])

(***************************************************************************)
(* "On every exit path, including capture timeout and normal completion,   *)
(* the subscriber drains both buffers for KAFKA_DELIVERY_TIMEOUT_SECONDS": *)
(* unless it is killed, it does not exit with something buffered except    *)
(* through drain_all.                                                      *)
(***************************************************************************)
EveryExitDrains ==
    [][pc # "exited" /\ pc' = "exited" =>
          \/ code' = 137
          \/ pc = "drain" \/ captureFailed
          \/ pending = <<>> /\ outbox = <<>>]_vars
=============================================================================
