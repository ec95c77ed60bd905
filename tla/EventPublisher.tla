--------------------------- MODULE EventPublisher ---------------------------
(***************************************************************************)
(* BufferedEventPublisher of the TAP subscriber over librdkafka.  The main *)
(* thread calls publish for the events of `todo' one after the other; the  *)
(* library's own thread sends what is in its queue, and its delivery       *)
(* reports are served whenever the main thread polls.                      *)
(***************************************************************************)
EXTENDS CaptureTopic

CONSTANTS
    QueueCapacity,   \* messages librdkafka holds before produce raises BufferError
    MaxRejections    \* bound on records the broker refuses for good

ASSUME PublisherAssumption ==
    QueueCapacity \in Nat \ {0} /\ MaxRejections \in Nat

VARIABLES
    todo,        \* events the running call has still to publish
    pending,     \* the publisher's application buffer
    failures,    \* delivery_failures: records whose delivery failed
    drain,       \* where drain_available is
    outbox,      \* librdkafka's queue, in the order of produce
    written,     \* how many of its first records the broker has, unacknowledged
    acks,        \* reports of success that no poll has served yet
    refused,     \* the records of such reports of failure, in their order
    rejections   \* records refused so far

publisherVars ==
    <<todo, pending, failures, drain, outbox, written, acks, refused, rejections>>

PublisherInit ==
    /\ todo = <<>> /\ pending = <<>> /\ failures = <<>> /\ drain = "idle"
    /\ outbox = <<>> /\ written = 0 /\ acks = 0 /\ refused = <<>>
    /\ rejections = 0 /\ topic = <<>>

PublisherTypeOK ==
    /\ todo \in Seq(Event) /\ pending \in Seq(Event) /\ failures \in Seq(Event)
    /\ drain \in {"idle", "poll", "produce"}
    /\ outbox \in Seq(Event)
    /\ written \in 0 .. Len(outbox)
    /\ acks \in Nat /\ refused \in Seq(Event)
    /\ rejections \in 0 .. MaxRejections
    /\ topic \in Seq(Event)

Idle == todo = <<>> /\ drain = "idle"

(* A poll serves the reports: callbacks append the records that failed to  *)
(* delivery_failures.                                                      *)
Poll ==
    /\ failures' = failures \o refused
    /\ acks' = 0 /\ refused' = <<>>

(* A message counts until its report is served. *)
HasRoom == Len(outbox) + acks + Len(refused) < QueueCapacity

(* The events of publish_connection for a log of k chunks. *)
ConnectionEvents(t, k) ==
    [i \in 1 .. k + 1 |-> IF i <= k THEN Chunk(t, i - 1) ELSE Complete(t, k)]

(* publish appends to the application buffer and runs drain_available. *)
Publish ==
    /\ todo # <<>> /\ drain = "idle"
    /\ pending' = Append(pending, Head(todo))
    /\ todo' = Tail(todo)
    /\ drain' = "poll"
    /\ UNCHANGED <<failures, outbox, written, acks, refused, rejections, topic>>

(* Mutant of Requeue: a failed delivery is noted and forgotten. *)
RequeueNothing ==
    /\ drain = "poll"
    /\ failures' = <<>> /\ acks' = 0 /\ refused' = <<>>
    /\ drain' = "produce"
    /\ UNCHANGED <<todo, pending, outbox, written, rejections, topic>>

(* The first poll of drain_available: failures are popped from the right  *)
(* and pushed on the left, so they keep their order before the rest.       *)
Requeue ==
    /\ drain = "poll"
    /\ pending' = failures \o refused \o pending
    /\ failures' = <<>> /\ acks' = 0 /\ refused' = <<>>
    /\ drain' = "produce"
    /\ UNCHANGED <<todo, outbox, written, rejections, topic>>

(* Mutant of Produce: the record leaves the buffer before produce refuses it. *)
ProducePoppingFirst ==
    /\ drain = "produce" /\ pending # <<>>
    /\ outbox' = IF HasRoom THEN Append(outbox, Head(pending)) ELSE outbox
    /\ pending' = Tail(pending)
    /\ Poll
    /\ UNCHANGED <<todo, drain, written, rejections, topic>>

(* produce accepts the first record, which then leaves the buffer. *)
Produce ==
    /\ drain = "produce" /\ pending # <<>> /\ HasRoom
    /\ outbox' = Append(outbox, Head(pending))
    /\ pending' = Tail(pending)
    /\ Poll
    /\ UNCHANGED <<todo, drain, written, rejections, topic>>

(* BufferError: the record stays first in the buffer. *)
QueueFull ==
    /\ drain = "produce" /\ pending # <<>> /\ ~HasRoom
    /\ drain' = "idle"
    /\ Poll
    /\ UNCHANGED <<todo, pending, outbox, written, rejections, topic>>

Drained ==
    /\ drain = "produce" /\ pending = <<>>
    /\ drain' = "idle"
    /\ UNCHANGED <<todo, pending, failures, outbox, written, acks, refused,
                   rejections, topic>>

(* The calls of the main thread into the publisher. *)
PublisherStep == Publish \/ Requeue \/ Produce \/ QueueFull \/ Drained

(***************************************************************************)
(* The library's thread and the broker.  With idempotence a retry neither  *)
(* duplicates nor reorders, and with message.timeout.ms = 0 an outage only *)
(* delays.  A record the broker refuses for good is reported as failed,    *)
(* and those behind it are sent all the same.                              *)
(***************************************************************************)
BrokerAppends ==
    /\ written < Len(outbox)
    /\ topic' = Append(topic, outbox[written + 1])
    /\ written' = written + 1
    /\ UNCHANGED <<todo, pending, failures, drain, outbox, acks, refused, rejections>>

BrokerAcknowledges ==
    /\ written > 0
    /\ acks' = acks + 1
    /\ outbox' = Tail(outbox)
    /\ written' = written - 1
    /\ UNCHANGED <<todo, pending, failures, drain, refused, rejections, topic>>

BrokerRejects ==
    /\ outbox # <<>> /\ written = 0
    /\ rejections < MaxRejections
    /\ rejections' = rejections + 1
    /\ refused' = Append(refused, Head(outbox))
    /\ outbox' = Tail(outbox)
    /\ UNCHANGED <<todo, pending, failures, drain, written, acks, topic>>

BrokerStep == BrokerAppends \/ BrokerAcknowledges \/ BrokerRejects

(* flush waits for the queue and serves the reports; drain_all returns once *)
(* nothing is undelivered and no delivery has failed.                       *)
AllDelivered ==
    /\ Idle /\ pending = <<>> /\ outbox = <<>>
    /\ failures = <<>> /\ refused = <<>>

(* Another turn of drain_all's loop does something. *)
DrainAgain ==
    /\ Idle
    /\ \/ pending # <<>> /\ (HasRoom \/ acks > 0)
       \/ failures # <<>> \/ refused # <<>>
    /\ drain' = "poll"
    /\ UNCHANGED <<todo, pending, failures, outbox, written, acks, refused,
                   rejections, topic>>

(* The process ends: its buffers are lost, but requests already sent may   *)
(* still be appended.                                                      *)
PublisherDies ==
    /\ \E k \in written .. Len(outbox) :
          topic' = topic \o SubSeq(outbox, written + 1, k)
    /\ todo' = <<>> /\ pending' = <<>> /\ failures' = <<>> /\ drain' = "idle"
    /\ outbox' = <<>> /\ written' = 0 /\ acks' = 0 /\ refused' = <<>>
    /\ UNCHANGED rejections
=============================================================================
