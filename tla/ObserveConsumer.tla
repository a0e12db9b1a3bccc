--------------------------- MODULE ObserveConsumer ---------------------------
(***************************************************************************)
(* The lossy path: the capped telemetry.observe queue and the              *)
(* consumer_observe process, run_consumer's life cycle with automatic      *)
(* acknowledgement.                                                        *)
(*                                                                         *)
(* The life cycle is ConsumerRunner's, as in StoreConsumer, here with the  *)
(* queue deleted and declared again under it.  The broker forgets a        *)
(* message the moment it writes it to the socket, so what the process      *)
(* holds when its session ends is gone.  on_message has no step at which   *)
(* it waits: it is one action.                                             *)
(***************************************************************************)
EXTENDS PayloadContract, FiniteSets, FiniteSetsExt

CONSTANTS
    ConnectAttempts, DelayFloor, DelayMax, MaxSignals, MaxFaults, MaxKills,
    N,               \* messages published, at most (a bound of the model)
    Body,            \* the body of each
    Cap              \* OBSERVE_MAX_LENGTH, the queue's x-max-length

ASSUME ObserveConstants ==
    /\ N \in Nat
    /\ Body \in [1..N -> Bodies]
    /\ Cap \in Nat \ {0}

VARIABLES
    pc, attempt, stopping, session, stopPosted, delay, connectedOnce, exitCode,
    broker, queueExists, subscribed, link, signals, faults, kills

VARIABLES
    sent,          \* messages 1..sent have been published
    ready,         \* in telemetry.observe, waiting
    received,      \* delivered, and for the broker done with; not yet handled
    observed,      \* logged as observed
    noted          \* logged as poison

process == <<pc, attempt, stopping, session, stopPosted, delay, connectedOnce,
             exitCode>>
network == <<broker, queueExists, subscribed, link>>
runner == <<process, network, signals, faults, kills>>
messages == <<sent, ready, received, observed, noted>>
vars == <<runner, messages>>

Runner == INSTANCE ConsumerRunner

ASSUME RunnerAssumption == Runner!RunnerConstants

\* Those the handler notes and those it raises on.
Poison == {m \in 1..N : Parse(Body[m]) = "rejected"}
Raising == {m \in 1..N : Parse(Body[m]) = "raises"}

Init ==
    /\ Runner!Init
    /\ sent = 0
    /\ ready = {} /\ received = {} /\ observed = {} /\ noted = {}

MessagesOK ==
    /\ sent \in 0..N
    /\ ready \subseteq 1..N /\ Cardinality(ready) <= Cap
    /\ received \subseteq 1..N
    /\ observed \subseteq 1..N
    /\ noted \subseteq 1..N

TypeOK == Runner!TypeOK /\ MessagesOK

-----------------------------------------------------------------------------
(* The queue.                                                              *)

\* Mutant: x-overflow of reject-publish, the newcomer is refused.
RejectPublish(S) == IF Cardinality(S) > Cap THEN S \ {Max(S)} ELSE S

\* Mutant: the cap is tested before the newcomer counts.
OverflowLate(S) == IF Cardinality(S) > Cap + 1 THEN S \ {Min(S)} ELSE S

\* x-overflow of drop-head: at the cap the oldest message makes room.
Overflow(S) == IF Cardinality(S) > Cap THEN S \ {Min(S)} ELSE S

\* A reading reaches the queue through the topic exchange, if there is a queue.
Publish ==
    /\ sent < N /\ broker # "down"
    /\ sent' = sent + 1
    /\ ready' = IF queueExists THEN Overflow(ready \cup {sent + 1}) ELSE ready
    /\ UNCHANGED <<runner, received, observed, noted>>

\* Mutant: auto_ack=False under a handler that never acknowledges.
DeliverUnacked ==
    /\ subscribed /\ link = "up" /\ ready # {}
    /\ received' = received \cup {Min(ready)}
    /\ UNCHANGED <<runner, sent, ready, observed, noted>>

\* The oldest is written to the socket, and with that acknowledged.  There is
\* no window: basic_qos is not called.
Deliver ==
    /\ subscribed /\ link = "up" /\ ready # {}
    /\ ready' = ready \ {Min(ready)}
    /\ received' = received \cup {Min(ready)}
    /\ UNCHANGED <<runner, sent, observed, noted>>

\* --recreate deletes the queue with all that is in it ...
QueueDeleted ==
    /\ Runner!QueueDeleted
    /\ ready' = {}
    /\ UNCHANGED <<sent, received, observed, noted>>

\* ... and declares it again, empty.
QueueDeclared == Runner!QueueDeclared /\ UNCHANGED messages

\* What the broker went on writing to a connection already dead is lost too.
LinkLost ==
    /\ Runner!LinkDrops \/ Runner!BrokerFails
    /\ \E k \in 0..N :
        ready' = IF subscribed THEN {m \in ready : m > k} ELSE ready
    /\ UNCHANGED <<sent, received, observed, noted>>

BrokerDenies == Runner!BrokerDenies /\ UNCHANGED messages
BrokerRecovers == Runner!BrokerRecovers /\ UNCHANGED messages

-----------------------------------------------------------------------------
(* on_message.                                                             *)

Handling(m) == pc = "consuming" /\ received # {} /\ m = Min(received)

\* parse() accepts it: logged, and that is all.
Observe ==
    /\ \E m \in received \ (Poison \cup Raising) :
        /\ Handling(m)
        /\ observed' = observed \cup {m}
        /\ received' = received \ {m}
    /\ UNCHANGED <<runner, sent, ready, noted>>

\* JSONDecodeError or ContractViolation: noted, and the handler returns.
NotePoison ==
    /\ \E m \in received \cap Poison :
        /\ Handling(m)
        /\ noted' = noted \cup {m}
        /\ received' = received \ {m}
    /\ UNCHANGED <<runner, sent, ready, observed>>

\* Mutant: what the process held goes back to the queue, as with manual
\* acknowledgement.
ParseRaisesRequeues ==
    /\ \E m \in received \cap Raising : Handling(m)
    /\ Runner!HandlerRaises
    /\ ready' = ready \cup received
    /\ received' = {}
    /\ UNCHANGED <<sent, observed, noted>>

\* Anything else ends the process, and the message is gone with the others.
ParseRaises ==
    /\ \E m \in received \cap Raising : Handling(m)
    /\ Runner!HandlerRaises
    /\ received' = {}
    /\ UNCHANGED <<sent, ready, observed, noted>>

-----------------------------------------------------------------------------
(* The life cycle, with what each step does to the messages.               *)

\* Steps that find nothing delivered.  pika dispatches in the order of
\* arrival: the broker's cancel comes after the deliveries that preceded it.
Quiet ==
    /\ \/ Runner!LeaveLoop \/ Runner!EnterConnect
       \/ Runner!ConnectOk \/ Runner!ConnectRetry
       \/ Runner!ConnectUnreachable \/ Runner!ConnectRejected
       \/ Runner!OpenChannel \/ Runner!Subscribe \/ Runner!SubscribeNotFound
       \/ Runner!CloseSession \/ Runner!BackoffOver
       \/ received = {} /\ Runner!BrokerCancel
    /\ UNCHANGED messages

\* The session ends in start_consuming(): pending deliveries are lost, to a
\* stop_consuming() of our own as much as to a dead connection.
SessionEnds ==
    /\ Runner!ConnectionLost \/ Runner!StopConsuming
    /\ received' = {}
    /\ UNCHANGED <<sent, ready, observed, noted>>

Kill ==
    /\ Runner!Kill
    /\ received' = {}
    /\ UNCHANGED <<sent, ready, observed, noted>>

Signal == Runner!Signal /\ UNCHANGED messages
Restart == Runner!Restart /\ UNCHANGED messages
AutoRestart == ~stopping /\ Restart

-----------------------------------------------------------------------------
ProcessStep ==
    \/ Observe \/ NotePoison \/ ParseRaises
    \/ Quiet \/ SessionEnds

ExternalStep ==
    \/ Publish \/ Deliver \/ QueueDeleted \/ QueueDeclared
    \/ LinkLost \/ BrokerDenies \/ BrokerRecovers

Next == ProcessStep \/ ExternalStep \/ Signal \/ Kill \/ Restart

Spec == Init /\ [][Next]_vars

\* As in ConsumerRunner, and the broker delivers.
Fairness ==
    /\ WF_vars(ProcessStep)
    /\ WF_vars(Deliver)
    /\ WF_vars(BrokerRecovers)
    /\ WF_vars(QueueDeclared)
    /\ WF_vars(AutoRestart)

FairSpec == Spec /\ Fairness

-----------------------------------------------------------------------------
(* Properties.                                                             *)

Published == 1..sent

\* What waits is the newest of what was published, without a gap: whatever the
\* cap, a dead socket or a recreated queue takes, it takes from the old end.
FreshestWait == \A m \in ready : m..sent \subseteq ready

\* The detailed path keeps the abstract promise.
AMO == INSTANCE AtMostOnce WITH
    Messages <- 1..N, OffContract <- {m \in 1..N : ~OnContract(Body[m])},
    open <- ready \cup received, seen <- observed

KeepsPromise == AMO!Spec

\* Unless somebody stops the process for good, no message waits for ever: one
\* that ends the process it is delivered to does so once, and the next process
\* goes on behind it.
EveryMessageLeaves ==
    <>[](~stopping) =>
        \A m \in 1..N : m \in Published ~> m \notin ready \cup received
=============================================================================
