--------------------------- MODULE ConsumerRunner ---------------------------
(***************************************************************************)
(* The connection life cycle every consumer process of the pipeline runs:  *)
(* telemetry/amqp.py, run_consumer() and what it calls.                    *)
(*                                                                         *)
(* One process, one broker.  The process connects (a bounded number of     *)
(* attempts), opens a channel, subscribes, and blocks in                   *)
(* start_consuming() until its own signal handler cancels the consumer,    *)
(* the broker does, or the link goes.  A signal may arrive between any two *)
(* steps, and what it does depends on how far the session has come: that   *)
(* race is what this module is about.                                      *)
(*                                                                         *)
(* Message handling is left to the modules that instantiate this one; here *)
(* a message handler is a delay inside "consuming".                        *)
(***************************************************************************)
EXTENDS Integers

CONSTANTS
    ConnectAttempts,  \* settings.rabbitmq_connect_attempts
    DelayFloor,       \* settings.rabbitmq_connect_retry_delay
    DelayMax,         \* RECONNECT_MAX_DELAY_SECONDS
    \* Bounds of the model, not of the program.
    MaxSignals,       \* SIGTERM / SIGINT received over the whole behaviour
    MaxFaults,        \* broker, link, queue and credential faults
    MaxKills          \* SIGKILL, out of memory, power

ASSUME RunnerConstants ==
    /\ ConnectAttempts \in Nat \ {0}
    /\ DelayFloor \in Nat \ {0}
    /\ DelayMax \in Nat
    /\ DelayFloor <= DelayMax
    /\ MaxSignals \in Nat
    /\ MaxFaults \in Nat
    /\ MaxKills \in Nat

VARIABLES
    pc,             \* where run_consumer() is
    attempt,        \* connect()'s attempt number; above ConnectAttempts once
                    \* BrokerUnreachable was raised
    stopping,       \* the module-level _stopping event
    session,        \* the _Session: which of its fields are set
    stopPosted,     \* channel.stop_consuming waits in the connection's queue
    delay,          \* the reconnect backoff
    connectedOnce,
    exitCode,
    \* The broker and the network, external to the process.
    broker,         \* "up", "down", or "denies": up, and refusing this user
    queueExists,    \* the queue is declared
    subscribed,     \* the broker holds a consumer for this connection
    link,           \* the TCP connection: "none", "up", or "lost" unnoticed
    signals, faults, kills   \* how much of each bound is used

process == <<pc, attempt, stopping, session, stopPosted, delay, connectedOnce,
             exitCode>>
network == <<broker, queueExists, subscribed, link>>
vars == <<process, network, signals, faults, kills>>

-----------------------------------------------------------------------------
SessionFields == {"connection", "channel", "cancelled"}

Running == pc \notin {"exited", "killed"}

\* Where a dead connection is noticed: by an error on its socket or, at rest in
\* start_consuming(), by a missed heartbeat.
AttachedNoHeartbeat == pc \in {"attaching", "subscribing"}  \* mutant
Attached == pc \in {"attaching", "subscribing", "consuming"}

\* delay = min(delay * 2, RECONNECT_MAX_DELAY_SECONDS)
DoubledUncapped(d) == 2 * d  \* mutant
Doubled(d) == IF 2 * d < DelayMax THEN 2 * d ELSE DelayMax

\* A process image with nothing done yet: run_consumer() up to its loop.
Fresh ==
    /\ pc = "top"
    /\ attempt = 1
    /\ stopping = FALSE
    /\ session = {}
    /\ stopPosted = FALSE
    /\ delay = DelayFloor
    /\ connectedOnce = FALSE
    /\ exitCode = "none"

Init ==
    /\ Fresh
    /\ broker \in {"up", "down"}
    /\ queueExists = TRUE
    /\ subscribed = FALSE
    /\ link = "none"
    /\ signals = 0 /\ faults = 0 /\ kills = 0

FlagsOK ==
    /\ stopping \in BOOLEAN
    /\ stopPosted \in BOOLEAN
    /\ connectedOnce \in BOOLEAN
    /\ queueExists \in BOOLEAN
    /\ subscribed \in BOOLEAN

ValuesOK ==
    /\ pc \in {"top", "connecting", "attaching", "subscribing", "consuming",
               "closing", "backoff", "exited", "killed"}
    /\ attempt \in 1..(ConnectAttempts + 1)
    /\ session \subseteq SessionFields
    /\ delay \in DelayFloor..DelayMax
    /\ exitCode \in {"none", "ok", "unreachable", "rejected", "raised"}
    /\ broker \in {"up", "down", "denies"}
    /\ link \in {"none", "up", "lost"}
    /\ signals \in 0..MaxSignals
    /\ faults \in 0..MaxFaults
    /\ kills \in 0..MaxKills

TypeOK == FlagsOK /\ ValuesOK

-----------------------------------------------------------------------------
(* The signal handler.  It runs on the main thread between any two         *)
(* bytecodes, so its action may fall between any two steps below.          *)

\* The wake-up is posted only to a session that has a connection AND a channel.
PostsToConnection(s) == "connection" \in s  \* mutant
Posts(s) == {"connection", "channel"} \subseteq s

\* pika refuses a callback on a closed connection: ConnectionWrongStateError.
Accepts == link # "none"

Signal ==
    /\ Running
    /\ signals < MaxSignals
    /\ signals' = signals + 1
    /\ stopping' = TRUE
    /\ stopPosted' = (stopPosted \/ (Posts(session) /\ Accepts))
    /\ UNCHANGED <<pc, attempt, session, delay, connectedOnce, exitCode,
                   network, faults, kills>>

-----------------------------------------------------------------------------
(* run_consumer() and connect().                                           *)

\* while not stopping.is_set()
LoopAgain == ~stopping

\* Only a process that never connected takes an unreachable broker as final.
UnreachableIsFatal == ~connectedOnce

\* A good connection resets the backoff to the bottom.
BackoffOnceConnected == DelayFloor

Exit(code) == pc' = "exited" /\ exitCode' = code

LeaveLoop ==
    /\ pc = "top" /\ ~LoopAgain
    /\ Exit("ok")
    /\ UNCHANGED <<attempt, stopping, session, stopPosted, delay,
                   connectedOnce, network, signals, faults, kills>>

\* Into the loop's body, and connect().
EnterConnect ==
    /\ pc = "top" /\ LoopAgain
    /\ pc' = "connecting"
    /\ attempt' = 1
    /\ UNCHANGED <<stopping, session, stopPosted, delay, connectedOnce,
                   exitCode, network, signals, faults, kills>>

\* An attempt succeeds.  connect() looks at `stopping` nowhere.
ConnectOk ==
    /\ pc = "connecting" /\ broker = "up"
    /\ pc' = "attaching"
    /\ session' = session \cup {"connection"}
    /\ link' = "up"
    /\ connectedOnce' = TRUE
    /\ delay' = BackoffOnceConnected
    /\ UNCHANGED <<attempt, stopping, stopPosted, exitCode, broker,
                   queueExists, subscribed, signals, faults, kills>>

\* An attempt fails with attempts left: sleep, uninterruptibly, and try again.
ConnectRetry ==
    /\ pc = "connecting" /\ broker = "down" /\ attempt < ConnectAttempts
    /\ attempt' = attempt + 1
    /\ UNCHANGED <<pc, stopping, session, stopPosted, delay, connectedOnce,
                   exitCode, network, signals, faults, kills>>

\* The last attempt fails: BrokerUnreachable.
ConnectUnreachable ==
    /\ pc = "connecting" /\ broker = "down" /\ attempt = ConnectAttempts
    /\ attempt' = ConnectAttempts + 1
    /\ IF UnreachableIsFatal THEN Exit("unreachable")
                             ELSE pc' = "backoff" /\ UNCHANGED exitCode
    /\ UNCHANGED <<stopping, session, stopPosted, delay, connectedOnce,
                   network, signals, faults, kills>>

\* Refused credentials end the process at once, whatever came before.
ConnectRejected ==
    /\ pc = "connecting" /\ broker = "denies"
    /\ Exit("rejected")
    /\ UNCHANGED <<attempt, stopping, session, stopPosted, delay,
                   connectedOnce, network, signals, faults, kills>>

-----------------------------------------------------------------------------
(* _consume(), and the finally clause that drops the session.              *)

\* The finally clause: both session fields go, the connection is closed, and a
\* callback still queued on it goes with it.
DropSession ==
    /\ session' = session \ {"connection", "channel"}
    /\ stopPosted' = FALSE
    /\ subscribed' = FALSE
    /\ link' = "none"

\* stopping.wait(delay), cut short or not, then the backoff doubles.  After an
\* exception the finally clause runs only now: a session that failed is still
\* there for the signal handler to find while the process waits.
BackoffOver ==
    /\ pc = "backoff"
    /\ pc' = "top"
    /\ delay' = Doubled(delay)
    /\ DropSession
    /\ UNCHANGED <<attempt, stopping, connectedOnce, exitCode, broker,
                   queueExists, signals, faults, kills>>

\* connection.channel(), from which on the signal handler can post.
OpenChannel ==
    /\ pc = "attaching" /\ link = "up"
    /\ pc' = "subscribing"
    /\ session' = (session \cup {"channel"}) \ {"cancelled"}
    /\ UNCHANGED <<attempt, stopping, stopPosted, delay, connectedOnce,
                   exitCode, network, signals, faults, kills>>

\* basic_qos, basic_consume, and into start_consuming().
Subscribe ==
    /\ pc = "subscribing" /\ link = "up" /\ queueExists
    /\ pc' = "consuming"
    /\ subscribed' = TRUE
    /\ UNCHANGED <<attempt, stopping, session, stopPosted, delay,
                   connectedOnce, exitCode, broker, queueExists, link,
                   signals, faults, kills>>

\* 404 NOT_FOUND on basic_consume: ChannelClosedByBroker, retried.
SubscribeNotFound ==
    /\ pc = "subscribing" /\ link = "up" /\ ~queueExists
    /\ pc' = "backoff"
    /\ UNCHANGED <<attempt, stopping, session, stopPosted, delay,
                   connectedOnce, exitCode, network, signals, faults, kills>>

\* AMQPConnectionError out of _consume(): the loss is noticed.
ConnectionLost ==
    /\ Attached /\ link = "lost"
    /\ link' = "none" /\ subscribed' = FALSE
    /\ IF stopping
       THEN DropSession /\ Exit("ok")
       ELSE pc' = "backoff" /\ UNCHANGED <<session, stopPosted, exitCode>>
    /\ UNCHANGED <<attempt, stopping, delay, connectedOnce, broker,
                   queueExists, signals, faults, kills>>

\* on_broker_cancel
CancelIgnored(s) == s  \* mutant
Cancelled(s) == s \cup {"cancelled"}

\* The queue was deleted under the consumer: Basic.Cancel from the broker.
BrokerCancel ==
    /\ pc = "consuming" /\ link = "up" /\ ~subscribed
    /\ pc' = "closing"
    /\ session' = Cancelled(session)
    /\ UNCHANGED <<attempt, stopping, stopPosted, delay, connectedOnce,
                   exitCode, network, signals, faults, kills>>

\* Mutant: the callback is queued, but nothing wakes the poll to dispatch it.
StopConsumingAsleep ==
    /\ pc = "consuming" /\ link = "up" /\ stopPosted
    /\ UNCHANGED vars

\* The posted callback is dispatched: channel.stop_consuming() cancels.
StopConsuming ==
    /\ pc = "consuming" /\ link = "up" /\ stopPosted
    /\ pc' = "closing"
    /\ subscribed' = FALSE
    /\ UNCHANGED <<attempt, stopping, session, stopPosted, delay,
                   connectedOnce, exitCode, broker, queueExists, link,
                   signals, faults, kills>>

\* start_consuming() returned: close, then tell a cancel from a stop.
CloseSession ==
    /\ pc = "closing"
    /\ DropSession
    /\ IF "cancelled" \in session THEN pc' = "backoff" /\ UNCHANGED exitCode
                            ELSE Exit("ok")
    /\ UNCHANGED <<attempt, stopping, delay, connectedOnce, broker,
                   queueExists, signals, faults, kills>>

\* The message handler raises what nobody catches: through the finally clause
\* and out of the process, with a traceback.  Whether it does is up to the handler.
HandlerRaises ==
    /\ pc = "consuming"
    /\ DropSession
    /\ Exit("raised")
    /\ UNCHANGED <<attempt, stopping, delay, connectedOnce, broker,
                   queueExists, signals, faults, kills>>

-----------------------------------------------------------------------------
(* The world outside the process.                                          *)

Fault == faults < MaxFaults /\ faults' = faults + 1

Severed == link' = (IF link = "up" THEN "lost" ELSE link)

BrokerFails ==
    /\ Fault
    /\ broker = "up" /\ broker' = "down"
    /\ Severed /\ subscribed' = FALSE
    /\ UNCHANGED <<process, queueExists, signals, kills>>

LinkDrops ==
    /\ Fault
    /\ link = "up" /\ link' = "lost" /\ subscribed' = FALSE
    /\ UNCHANGED <<process, broker, queueExists, signals, kills>>

BrokerDenies ==
    /\ Fault
    /\ broker = "up" /\ broker' = "denies"
    /\ UNCHANGED <<process, queueExists, subscribed, link, signals, kills>>

\* topology.py --recreate, its delete ...
QueueDeleted ==
    /\ Fault
    /\ queueExists /\ broker # "down"
    /\ queueExists' = FALSE /\ subscribed' = FALSE
    /\ UNCHANGED <<process, broker, link, signals, kills>>

\* ... and its declare.
QueueDeclared ==
    /\ ~queueExists /\ broker # "down"
    /\ queueExists' = TRUE
    /\ UNCHANGED <<process, broker, subscribed, link, signals, faults, kills>>

BrokerRecovers ==
    /\ broker # "up" /\ broker' = "up"
    /\ UNCHANGED <<process, queueExists, subscribed, link, signals, faults,
                   kills>>

\* The process dies with no handler run; the kernel closes its socket.  What
\* `stopping` was still tells whether the operator had asked for a stop.
Kill ==
    /\ Running
    /\ kills < MaxKills /\ kills' = kills + 1
    /\ pc' = "killed"
    /\ DropSession
    /\ UNCHANGED <<attempt, stopping, delay, connectedOnce, exitCode, broker,
                   queueExists, signals, faults>>

\* A new process, in the state Fresh describes.
Restart ==
    /\ ~Running
    /\ pc' = "top"
    /\ attempt' = 1
    /\ stopping' = FALSE
    /\ session' = {}
    /\ stopPosted' = FALSE
    /\ delay' = DelayFloor
    /\ connectedOnce' = FALSE
    /\ exitCode' = "none"
    /\ UNCHANGED <<network, signals, faults, kills>>

\* compose's `restart: unless-stopped`: not after a stop the operator asked for.
AutoRestart == ~stopping /\ Restart

-----------------------------------------------------------------------------
\* What the process does by itself, given time.
ProcessStep ==
    \/ LeaveLoop \/ EnterConnect
    \/ ConnectOk \/ ConnectRetry \/ ConnectUnreachable \/ ConnectRejected
    \/ BackoffOver
    \/ OpenChannel \/ Subscribe \/ SubscribeNotFound
    \/ ConnectionLost \/ BrokerCancel \/ StopConsuming \/ CloseSession

NetworkStep ==
    \/ BrokerFails \/ LinkDrops \/ BrokerDenies \/ QueueDeleted
    \/ QueueDeclared \/ BrokerRecovers

Next ==
    \/ ProcessStep
    \/ HandlerRaises
    \/ NetworkStep
    \/ Signal
    \/ Kill
    \/ Restart

Spec == Init /\ [][Next]_vars

\* The process is scheduled, somebody repairs what broke, and compose restarts
\* what was not stopped on purpose.  Faults, signals and kills owe nothing.
Fairness ==
    /\ WF_vars(ProcessStep)
    /\ WF_vars(BrokerRecovers)
    /\ WF_vars(QueueDeclared)
    /\ WF_vars(AutoRestart)

FairSpec == Spec /\ Fairness

-----------------------------------------------------------------------------
(* Properties.                                                             *)

\* Status 0 means the process was told to stop.  start_consuming() returns
\* normally for a broker cancel too, and only the flag tells the two apart.
OkOnlyWhenStopping == exitCode = "ok" => stopping

\* A process that has connected once never exits for an unreachable broker.
OnceConnectedNeverGivesUp == exitCode = "unreachable" => ~connectedOnce

\* The backoff grows only across rounds in which no connection was made: after
\* a lost link, a missing queue or a broker cancel the wait is the floor again.
EscalatesOnlyWhileUnreachable ==
    pc = "backoff" /\ attempt <= ConnectAttempts => delay = DelayFloor

\* A queued stop always belongs to the session in use and to a process that was
\* told to stop: it is never carried over a reconnect or a restart.
StopBelongsToSession ==
    stopPosted => stopping /\ {"connection", "channel"} \subseteq session

\* Once told to stop, the process begins no new round of connection attempts.
NoNewRoundWhenStopping ==
    [][stopping /\ pc # "connecting" => pc' # "connecting"]_vars

\* Told to stop, but nothing will wake start_consuming().
Deaf == pc = "consuming" /\ stopping /\ ~stopPosted

\* A signal ends the process, or leaves it Deaf: there is no third outcome.  A
\* stop that did reach the connection's queue ends it, and is never lost to a
\* reconnect or a cancel that comes before its dispatch.
StopsUnlessDeaf ==
    /\ stopping ~> (~Running \/ Deaf)
    /\ stopPosted ~> ~Running

\* run_consumer's docstring: "Consume `queue` until told to stop".
StopsWhenTold == stopping ~> ~Running

\* Unless somebody stops it, the process always gets back to a live
\* subscription, whatever the broker, the link, the queue, the credentials or
\* the process itself went through.
Reattaches ==
    <>[](~stopping) => []<>(pc = "consuming" /\ subscribed)
=============================================================================
