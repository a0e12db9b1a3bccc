---------------------------- MODULE StoreConsumer ----------------------------
(***************************************************************************)
(* The durable path: the telemetry.store queue, the consumer_store process *)
(* (its message handler inside run_consumer's life cycle) and the storage  *)
(* service, up to the acknowledgement or the dead-letter queue.            *)
(*                                                                         *)
(* The life cycle is ConsumerRunner's, instantiated over the same          *)
(* variables: each of its steps is taken here together with what it does   *)
(* to the deliveries.  Messages are numbered in the order they were        *)
(* published.  The queue itself is never deleted in this module.           *)
(***************************************************************************)
EXTENDS PayloadContract, Sequences, FiniteSets, FiniteSetsExt, Functions

CONSTANTS
    ConnectAttempts, DelayFloor, DelayMax, MaxSignals, MaxFaults, MaxKills,
    N,               \* messages published, at most (a bound of the model)
    Body,            \* the body of each
    Prefetch,        \* settings.consumer_prefetch_count
    WriteAttempts,   \* settings.influxdb_write_attempts
    RequeuePoison,   \* the --requeue-poison flag
    MaxOutages       \* times the storage service fails (a bound of the model)

ASSUME StoreConstants ==
    /\ N \in Nat
    /\ Body \in [1..N -> Bodies]
    /\ Prefetch \in Nat \ {0}
    /\ WriteAttempts \in Nat \ {0}
    /\ RequeuePoison \in BOOLEAN
    /\ MaxOutages \in Nat

VARIABLES
    pc, attempt, stopping, session, stopPosted, delay, connectedOnce, exitCode,
    broker, queueExists, subscribed, link, signals, faults, kills

VARIABLES
    \* The broker: external.
    sent,          \* messages 1..sent have been published
    ready,         \* in telemetry.store, waiting
    unacked,       \* delivered to this consumer, not settled
    redelivered,   \* messages whose next delivery carries `redelivered`
    acked,         \* acknowledged, gone from the queue
    dlq,           \* in telemetry.dlq
    \* The process: pika's pending deliveries and the on_message handler.
    prefetched,    \* deliveries not yet handed to the handler, oldest first
    cur,           \* the message in the handler, or NoMessage
    hpc,           \* where the handler is
    tries,         \* store()'s attempt number
    storageDown,   \* the closure's storage_down
    \* The storage service: external.
    storage,       \* "up", "refusing", or "silent": accepts, answers too late
    stored,        \* messages whose point it holds
    outages        \* how much of MaxOutages is used

process == <<pc, attempt, stopping, session, stopPosted, delay, connectedOnce,
             exitCode>>
network == <<broker, queueExists, subscribed, link>>
runner == <<process, network, signals, faults, kills>>
queues == <<sent, ready, unacked, redelivered, acked, dlq>>
handler == <<prefetched, cur, hpc, tries, storageDown>>
influx == <<storage, stored, outages>>
vars == <<runner, queues, handler, influx>>

Runner == INSTANCE ConsumerRunner

ASSUME RunnerAssumption == Runner!RunnerConstants

NoMessage == 0

\* Those the handler rejects, those it raises on, and those it would hand to
\* storage in vain.
Poison == {m \in 1..N : Parse(Body[m]) = "rejected"}
Raising == {m \in 1..N : Parse(Body[m]) = "raises"}
Unwritable == {m \in 1..N : /\ Parse(Body[m]) = "accepted"
                            /\ ~Writable(ToPoint(Body[m].payload))}

Init ==
    /\ Runner!Init
    /\ sent = 0
    /\ ready = {} /\ unacked = {} /\ redelivered = {}
    /\ acked = {} /\ dlq = {}
    /\ prefetched = <<>> /\ cur = NoMessage /\ hpc = "idle"
    /\ tries = 1
    /\ storageDown = FALSE
    /\ storage = "up" /\ stored = {} /\ outages = 0

QueuesOK ==
    /\ sent \in 0..N
    /\ ready \subseteq 1..N
    /\ unacked \subseteq 1..N
    /\ redelivered \subseteq 1..N
    /\ acked \subseteq 1..N
    /\ dlq \subseteq 1..N

HandlerOK ==
    /\ prefetched \in Seq(1..N)
    /\ cur \in 0..N
    /\ hpc \in {"idle", "poison", "good", "write", "failed", "unwritten",
                "written"}
    /\ tries \in 1..WriteAttempts

FlagOK == storageDown \in BOOLEAN

StorageOK ==
    /\ storage \in {"up", "refusing", "silent"}
    /\ stored \subseteq 1..N
    /\ outages \in 0..MaxOutages

TypeOK == Runner!TypeOK /\ QueuesOK /\ HandlerOK /\ FlagOK /\ StorageOK

-----------------------------------------------------------------------------
(* The broker's side of a delivery.                                        *)

\* Messages go back to where they were in the queue, marked redelivered.
Returned(S) ==
    /\ ready' = ready \cup S
    /\ unacked' = unacked \ S
    /\ redelivered' = redelivered \cup S

\* A reading reaches telemetry.store through the topic exchange.
Publish ==
    /\ sent < N /\ broker # "down"
    /\ sent' = sent + 1
    /\ ready' = ready \cup {sent + 1}
    /\ UNCHANGED <<runner, unacked, redelivered, acked, dlq, handler, influx>>

\* The oldest ready message is pushed to the consumer while its window is open.
Deliver ==
    /\ subscribed /\ link = "up"
    /\ ready # {} /\ Cardinality(unacked) < Prefetch
    /\ ready' = ready \ {Min(ready)}
    /\ unacked' = unacked \cup {Min(ready)}
    /\ prefetched' = Append(prefetched, Min(ready))
    /\ UNCHANGED <<runner, sent, redelivered, acked, dlq, cur, hpc, tries,
                   storageDown, influx>>

-----------------------------------------------------------------------------
(* on_message, store() and reject(), one step per call that blocks or       *)
(* changes state.  The handler runs on the thread that runs the life cycle, *)
(* inside start_consuming().                                                *)

\* The handler returns; the delivery may or may not have been settled.
Return ==
    /\ hpc' = "idle"
    /\ cur' = NoMessage
    /\ UNCHANGED <<prefetched, tries>>

\* A settlement reaches the broker only over a live link.  On a dead one that
\* nobody has noticed the frame goes nowhere and the handler returns the same.
Settled == IF link = "up" THEN {cur} ELSE {}

\* The next pending delivery is parsed.
Take ==
    /\ pc = "consuming" /\ hpc = "idle" /\ prefetched # <<>>
    /\ Head(prefetched) \notin Raising
    /\ cur' = Head(prefetched)
    /\ prefetched' = Tail(prefetched)
    /\ hpc' = IF Head(prefetched) \in Poison THEN "poison" ELSE "good"
    /\ UNCHANGED <<runner, queues, tries, storageDown, influx>>

\* Mutant: no return after reject(), and on to the acknowledgement.
RejectPoisonAndAck ==
    /\ hpc = "poison"
    /\ dlq' = dlq \cup Settled
    /\ acked' = acked \cup Settled
    /\ unacked' = unacked \ Settled
    /\ Return
    /\ UNCHANGED <<runner, sent, ready, redelivered, storageDown, influx>>

\* reject(): basic_reject(requeue=requeue_poison).
RejectPoison ==
    /\ hpc = "poison"
    /\ IF RequeuePoison
       THEN Returned(Settled) /\ UNCHANGED dlq
       ELSE /\ unacked' = unacked \ Settled
            /\ dlq' = dlq \cup Settled
            /\ UNCHANGED <<ready, redelivered>>
    /\ Return
    /\ UNCHANGED <<runner, sent, acked, storageDown, influx>>

\* Mutant: is_stopping() alone.
KnownBadWhenStopping == stopping

\* store()'s guard: shutting down, with storage known not to answer.
KnownBad == storageDown /\ stopping

\* store() returns False at its guard and the delivery is left unacknowledged.
SkipWrite ==
    /\ hpc = "good" /\ KnownBad
    /\ Return
    /\ UNCHANGED <<runner, queues, storageDown, influx>>

\* Past the guard, into the retry loop.
StartWrite ==
    /\ hpc = "good" /\ ~KnownBad
    /\ hpc' = "write"
    /\ tries' = 1
    /\ UNCHANGED <<runner, queues, prefetched, cur, storageDown, influx>>

\* storage.write() returns: the point is confirmed.
WriteOk ==
    /\ hpc = "write" /\ storage = "up" /\ cur \notin Unwritable
    /\ stored' = stored \cup {cur}
    /\ storageDown' = FALSE
    /\ hpc' = "written"
    /\ UNCHANGED <<runner, queues, prefetched, cur, tries, storage, outages>>

\* storage.write() raises one of WRITE_FAILURES, which a refusal of the point
\* itself is too.  A write that timed out may have been applied all the same.
WriteFails ==
    /\ hpc = "write" /\ (storage # "up" \/ cur \in Unwritable)
    /\ \/ stored' = stored
       \/ /\ storage = "silent" /\ cur \notin Unwritable
          /\ stored' = stored \cup {cur}
    /\ hpc' = "failed"
    /\ UNCHANGED <<runner, queues, prefetched, cur, tries, storageDown,
                   storage, outages>>

\* Mutant: one attempt too many.
RetryWriteOnceMore ==
    /\ hpc = "failed" /\ ~stopping /\ tries <= WriteAttempts
    /\ tries' = tries + 1
    /\ hpc' = "write"
    /\ UNCHANGED <<runner, queues, prefetched, cur, storageDown, influx>>

\* sleep_unless_stopping() slept in full, and an attempt is left.
RetryWrite ==
    /\ hpc = "failed" /\ ~stopping /\ tries < WriteAttempts
    /\ tries' = tries + 1
    /\ hpc' = "write"
    /\ UNCHANGED <<runner, queues, prefetched, cur, storageDown, influx>>

\* It slept in full after the last attempt: the budget is spent.
GiveUp ==
    /\ hpc = "failed" /\ ~stopping /\ tries = WriteAttempts
    /\ storageDown' = TRUE
    /\ hpc' = "unwritten"
    /\ UNCHANGED <<runner, queues, prefetched, cur, tries, influx>>

\* It was cut short by a shutdown: the delivery is left unacknowledged.
StopRetrying ==
    /\ hpc = "failed" /\ stopping
    /\ Return
    /\ UNCHANGED <<runner, queues, storageDown, influx>>

\* Mutant: requeue=False, an outage dead-letters.
DeadLetterUnwritten ==
    /\ hpc = "unwritten" /\ ~stopping
    /\ dlq' = dlq \cup Settled
    /\ unacked' = unacked \ Settled
    /\ Return
    /\ UNCHANGED <<runner, sent, ready, redelivered, acked, storageDown, influx>>

\* Mutant: a fresh copy published in place of the requeue.
RepublishUnwritten ==
    /\ hpc = "unwritten" /\ ~stopping
    /\ ready' = ready \cup Settled
    /\ unacked' = unacked \ Settled
    /\ Return
    /\ UNCHANGED <<runner, sent, redelivered, acked, dlq, storageDown, influx>>

\* Mutant: no requeue, shutting down or not.
NeverRequeueUnwritten ==
    /\ hpc = "unwritten" /\ ~stopping
    /\ Return
    /\ UNCHANGED <<runner, queues, storageDown, influx>>

\* The budget is spent and the process is not stopping: requeue.  A signal
\* between the test and basic_reject() changes neither's outcome: one step.
RequeueUnwritten ==
    /\ hpc = "unwritten" /\ ~stopping
    /\ Returned(Settled)
    /\ Return
    /\ UNCHANGED <<runner, sent, acked, dlq, storageDown, influx>>

\* The budget was spent just before the signal: left unacknowledged.
LeaveUnwritten ==
    /\ hpc = "unwritten" /\ stopping
    /\ Return
    /\ UNCHANGED <<runner, queues, storageDown, influx>>

\* Mutant: basic_ack(multiple=True).
AckMultiple ==
    /\ hpc = "written"
    /\ acked' = acked \cup {m \in unacked : cur \in Settled /\ m <= cur}
    /\ unacked' = unacked \ acked'
    /\ Return
    /\ UNCHANGED <<runner, sent, ready, redelivered, dlq, storageDown, influx>>

\* basic_ack, strictly after the confirmed write.
Ack ==
    /\ hpc = "written"
    /\ acked' = acked \cup Settled
    /\ unacked' = unacked \ Settled
    /\ Return
    /\ UNCHANGED <<runner, sent, ready, redelivered, dlq, storageDown, influx>>

-----------------------------------------------------------------------------
(* The life cycle, with what each step does to the deliveries.             *)

\* Mutant: pending deliveries outlive their connection.
ForgetNothingPending ==
    /\ cur' = NoMessage
    /\ hpc' = "idle"
    /\ UNCHANGED <<prefetched, tries>>

\* What the process held in memory for the connection is gone.
Forget ==
    /\ prefetched' = <<>>
    /\ cur' = NoMessage
    /\ hpc' = "idle"
    /\ UNCHANGED tries

\* Steps that find nothing delivered and leave it so.
Quiet ==
    /\ \/ Runner!LeaveLoop \/ Runner!EnterConnect
       \/ Runner!ConnectOk \/ Runner!ConnectRetry
       \/ Runner!ConnectUnreachable \/ Runner!ConnectRejected
       \/ Runner!OpenChannel \/ Runner!Subscribe
    /\ UNCHANGED <<queues, handler, influx>>

\* The loss surfaces at the handler's next call on the channel, or at rest;
\* the exception unwinds the handler, and pending deliveries are dropped.
ConnectionLost ==
    /\ Runner!ConnectionLost
    /\ hpc \in {"idle", "poison", "unwritten", "written"}
    /\ hpc = "unwritten" => ~stopping
    /\ Forget
    /\ UNCHANGED <<queues, storageDown, influx>>

\* Mutant: auto_ack=True, what is pending at a stop counts as acknowledged.
StopConsumingAutoAcked ==
    /\ Runner!StopConsuming
    /\ hpc = "idle"
    /\ acked' = acked \cup (Range(prefetched) \cap unacked)
    /\ unacked' = unacked \ Range(prefetched)
    /\ Forget
    /\ UNCHANGED <<sent, ready, redelivered, dlq, storageDown, influx>>

\* Mutant: a stop that waits until every delivery has been settled.
StopConsumingWhenSettled ==
    /\ Runner!StopConsuming
    /\ hpc = "idle" /\ unacked = {}
    /\ Forget
    /\ UNCHANGED <<queues, storageDown, influx>>

\* stop_consuming(), between two messages: pending deliveries are rejected.
StopConsuming ==
    /\ Runner!StopConsuming
    /\ hpc = "idle"
    /\ Returned(Range(prefetched) \cap unacked)
    /\ Forget
    /\ UNCHANGED <<sent, acked, dlq, storageDown, influx>>

\* connection.close(): the broker takes back whatever is still unacknowledged.
CloseSession ==
    /\ Runner!CloseSession
    /\ Returned(unacked)
    /\ Forget
    /\ UNCHANGED <<sent, acked, dlq, storageDown, influx>>

\* The finally clause after a wait does the same for a session that failed.
BackoffOver ==
    /\ Runner!BackoffOver
    /\ Returned(unacked)
    /\ Forget
    /\ UNCHANGED <<sent, acked, dlq, storageDown, influx>>

\* on_message catches JSONDecodeError and ContractViolation.  Anything else ends
\* the process, and what it held goes back to the queue.
ParseRaises ==
    /\ hpc = "idle" /\ prefetched # <<>> /\ Head(prefetched) \in Raising
    /\ Runner!HandlerRaises
    /\ Returned(unacked)
    /\ Forget
    /\ UNCHANGED <<sent, acked, dlq, storageDown, influx>>

Signal == Runner!Signal /\ UNCHANGED <<queues, handler, influx>>

Kill ==
    /\ Runner!Kill
    /\ Returned(unacked)
    /\ Forget
    /\ UNCHANGED <<sent, acked, dlq, storageDown, influx>>

\* A new process builds a new handler: storage_down starts out False.
Restart ==
    /\ Runner!Restart
    /\ storageDown' = FALSE
    /\ UNCHANGED <<queues, prefetched, cur, hpc, tries, influx>>

AutoRestart == ~stopping /\ Restart

-----------------------------------------------------------------------------
(* The world outside.                                                      *)

\* The broker takes back what it had delivered as soon as the link is gone;
\* the process goes on with what it holds until it notices.
LinkLost ==
    /\ Runner!LinkDrops \/ Runner!BrokerFails
    /\ Returned(unacked)
    /\ UNCHANGED <<sent, acked, dlq, handler, influx>>

BrokerDenies == Runner!BrokerDenies /\ UNCHANGED <<queues, handler, influx>>

BrokerRecovers ==
    Runner!BrokerRecovers /\ UNCHANGED <<queues, handler, influx>>

StorageFails ==
    /\ outages < MaxOutages /\ outages' = outages + 1
    /\ storage = "up" /\ storage' \in {"refusing", "silent"}
    /\ UNCHANGED <<runner, queues, handler, stored>>

StorageRecovers ==
    /\ storage # "up" /\ storage' = "up"
    /\ UNCHANGED <<runner, queues, handler, stored, outages>>

-----------------------------------------------------------------------------
HandlerStep ==
    \/ Take \/ RejectPoison \/ SkipWrite \/ StartWrite \/ WriteOk
    \/ WriteFails \/ RetryWrite \/ GiveUp \/ StopRetrying
    \/ RequeueUnwritten \/ LeaveUnwritten \/ Ack

LifeCycleStep ==
    \/ Quiet \/ ConnectionLost \/ StopConsuming \/ CloseSession \/ BackoffOver
    \/ ParseRaises

ProcessStep == HandlerStep \/ LifeCycleStep

ExternalStep ==
    \/ Publish \/ Deliver
    \/ LinkLost \/ BrokerDenies \/ BrokerRecovers
    \/ StorageFails \/ StorageRecovers

Next == ProcessStep \/ ExternalStep \/ Signal \/ Kill \/ Restart

Spec == Init /\ [][Next]_vars

\* As in ConsumerRunner, and storage is repaired.  The broker pushes while the
\* handler is at work, for seconds when a write is retried: a message that keeps
\* coming to the head of the queue with room in the window is delivered.
Fairness ==
    /\ WF_vars(ProcessStep)
    /\ \A m \in 1..N : SF_vars(m \in ready /\ Deliver /\ m \notin ready')
    /\ WF_vars(BrokerRecovers)
    /\ WF_vars(StorageRecovers)
    /\ WF_vars(AutoRestart)

FairSpec == Spec /\ Fairness

-----------------------------------------------------------------------------
(* Properties.                                                             *)

Published == 1..sent

\* Every published message is in exactly one place: waiting, delivered,
\* acknowledged or dead-lettered.  Nothing is lost and nothing settled twice.
NothingLost ==
    /\ ready \cup unacked \cup acked \cup dlq = Published
    /\ ready \cap unacked = {}
    /\ (ready \cup unacked) \cap (acked \cup dlq) = {}
    /\ acked \cap dlq = {}

\* A message is acknowledged only once storage holds its point, whatever
\* crashed, timed out or was redelivered in between.
AckedIsStored == acked \subseteq stored

\* The dead-letter queue holds what breaks the payload contract and nothing
\* else, and none of that ever reached storage: neither an outage, nor a refused
\* point, nor a check of parse() dead-letters a good reading.
OffContract == {m \in 1..N : ~OnContract(Body[m])}
PoisonIsApart == dlq \subseteq OffContract /\ stored \cap OffContract = {}

\* On a live link the process only holds deliveries the broker still counts as
\* its own, each once: no delivery tag is ever settled twice.
SettlesOnlyItsOwn ==
    link = "up" =>
        /\ Range(prefetched) \subseteq unacked
        /\ cur # NoMessage => cur \in unacked \ Range(prefetched)
        /\ IsInjective(prefetched)

\* Delivered, handled, and settled neither way: waiting for the session's end.
Abandoned == unacked \ (Range(prefetched) \cup {cur})

\* A shutdown with storage healthy all along writes and acknowledges what the
\* handler takes up: nothing is left unacknowledged.  A point storage refuses
\* counts as an outage: it sets storage_down for the messages after it too.
HealthyDrainSettles ==
    outages = 0 /\ Unwritable \cap Published = {} => Abandoned = {}

\* A point is written over only by a retry within one delivery, or by a
\* delivery marked redelivered.
OverwriteIsExplained ==
    [][WriteOk /\ cur \in stored => tries > 1 \/ cur \in redelivered]_vars

\* What is left unacknowledged goes back to the queue, unless the process is
\* Deaf: the signal came before its session could be woken.
AbandonedReturn == Abandoned # {} ~> (Abandoned = {} \/ Runner!Deaf)

\* Fewer unwritable points are ahead of m than the prefetch window holds.  One
\* that is requeued comes back to the head of the queue, so a window's worth of
\* them takes every delivery there is.
WindowLeftFor(m) == Cardinality({u \in Unwritable : u < m}) < Prefetch

\* Unless somebody stops the process for good, every published message that
\* storage can hold is in the end acknowledged or dead-lettered, with two
\* exceptions that are the code's own.  A body parse() fails on ends every
\* process it is delivered to, so nothing behind it settles; and a window full
\* of points storage refuses for ever starves everything behind them.
EveryMessageSettles ==
    <>[](~stopping) =>
        \A m \in (1..N) \ Unwritable :
            WindowLeftFor(m) /\ (\A r \in Raising : m < r) =>
                (m \in Published ~> m \in acked \cup dlq)

\* The detailed path keeps the abstract promise.
ALO == INSTANCE AtLeastOnce WITH
    Messages <- 1..N, Poison <- OffContract, pending <- ready \cup unacked, written <- stored,
    dead <- dlq, done <- acked

KeepsPromise == ALO!Spec

\* tests/test_consumers.py: "Once one message has proved storage is not
\* answering, the rest of the drained batch must not attempt a write at all."
DrainAttemptsNoWrite == stopping /\ Abandoned # {} => hpc # "write"
=============================================================================
