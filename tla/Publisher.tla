------------------------------ MODULE Publisher ------------------------------
(***************************************************************************)
(* The software publisher: src/telemetry/publisher.py.                     *)
(*                                                                         *)
(* Two threads share one ClientState without a lock: the main thread       *)
(* connects, publishes and exits; paho's network thread runs the callbacks *)
(* _on_connect, _on_disconnect and _on_publish.  A callback's assignments  *)
(* are steps of their own, and so are client.publish() and the assignment  *)
(* to state.pending after it.  paho (its reconnects, its queue of messages *)
(* not acknowledged and its resends) and the broker are external.          *)
(*                                                                         *)
(* A message is known by its seq: paho gives each its own mid.             *)
(***************************************************************************)
EXTENDS Naturals, Sequences

CONSTANTS
    Burst,          \* --burst N
    MaxSeq,         \* messages of a steady run (a bound of the model)
    MaxFaults       \* changes of the broker and lost links (a bound)

ASSUME PublisherConstants ==
    Burst \in Nat \ {0} /\ MaxSeq \in Nat /\ MaxFaults \in Nat

VARIABLES
    \* The main thread.
    mode,           \* "burst" or "steady": args.burst
    pc,             \* where main() is
    exitCode,       \* "none" while it runs
    stopEvent,      \* stop_event
    seq,            \* messages handed to client.publish()
    awaited,        \* how many of a burst have been waited for
    timedOut,       \* those counted as timed out
    unsent,         \* those whose info.rc is an error: no socket to send them on
    \* ClientState, shared by the threads.
    connected,      \* state.connected
    connectFailure, \* state.connect_failure # None
    pending,        \* the keys of state.pending
    \* paho's network thread.
    net,            \* "off", "connecting", "up", "refused" or "down"
    callback,       \* what is left of a callback's assignments
    outgoing,       \* messages paho holds: not acknowledged
    sent,           \* of those, the ones sent in this connection
    refusals,       \* messages _on_publish logged an error line about
    \* The broker.
    broker,         \* "accepts", "refuses" the credentials or is "down"
    routed,         \* messages that reached a queue
    acks,           \* PUBACKs on their way: [seq, ok]
    faults,         \* how much of MaxFaults is used
    \* History.
    lastConnack,    \* the broker's last answer: "none", "accepted", "refused"
    everAccepted    \* the broker has accepted the credentials once

burst == <<awaited, timedOut, unsent>>
main == <<mode, pc, exitCode, seq, burst>>
shared == <<connected, connectFailure, pending>>
network == <<net, callback, outgoing, sent, refusals>>
world == <<broker, routed, acks, faults>>
history == <<lastConnack, everAccepted>>
vars == <<main, stopEvent, shared, network, world, history>>

Seqs == 1..(IF mode = "burst" THEN Burst ELSE MaxSeq)

Init ==
    /\ mode \in {"burst", "steady"} /\ pc = "start" /\ exitCode = "none"
    /\ stopEvent = FALSE /\ seq = 0 /\ awaited = 0 /\ timedOut = {}
    /\ unsent = {}
    /\ connected = FALSE /\ connectFailure = FALSE /\ pending = {}
    /\ net = "off" /\ callback = <<>> /\ outgoing = {} /\ sent = {}
    /\ refusals = {}
    /\ broker \in {"accepts", "refuses", "down"} /\ routed = {} /\ acks = {}
    /\ faults = 0 /\ lastConnack = "none" /\ everAccepted = FALSE

TypeOK ==
    /\ mode \in {"burst", "steady"}
    /\ pc \in {"start", "wait", "waiting", "check", "publish", "record",
               "sleep", "await", "closing", "exited"}
    /\ exitCode \in {"none", "ok", "unreachable", "rejected", "traceback"}
    /\ stopEvent \in BOOLEAN
    /\ seq \in 0..(IF mode = "burst" THEN Burst ELSE MaxSeq)
    /\ awaited \in 0..Burst
    /\ timedOut \subseteq Seqs /\ unsent \subseteq Seqs
    /\ connected \in BOOLEAN /\ connectFailure \in BOOLEAN
    /\ pending \subseteq Seqs
    /\ net \in {"off", "connecting", "up", "refused", "down"}
    /\ callback \in Seq({"fail", "succeed", "set", "clear"})
    /\ Len(callback) <= 2
    /\ outgoing \subseteq Seqs /\ sent \subseteq outgoing
    /\ refusals \subseteq Seqs
    /\ broker \in {"accepts", "refuses", "down"}
    /\ routed \subseteq Seqs
    /\ acks \subseteq [seq : Seqs, ok : BOOLEAN]
    /\ faults \in 0..MaxFaults
    /\ lastConnack \in {"none", "accepted", "refused"}
    /\ everAccepted \in BOOLEAN

-----------------------------------------------------------------------------
(* connect().                                                              *)

Exit(code) ==
    /\ pc' = "exited" /\ exitCode' = code
    /\ net' = "off" /\ callback' = <<>>

\* client.connect() shakes hands with the listener; loop_start().
Connect ==
    /\ pc = "start" /\ broker # "down"
    /\ pc' = "wait" /\ net' = "connecting"
    /\ UNCHANGED <<mode, exitCode, stopEvent, seq, burst, shared, callback,
                   outgoing, sent, refusals, world, history>>

\* OSError: exit 2.
ConnectFails ==
    /\ pc = "start" /\ broker = "down"
    /\ Exit("unreachable")
    /\ UNCHANGED <<mode, stopEvent, seq, burst, shared, outgoing, sent,
                   refusals, world, history>>

\* state.connected.wait(): at once if the event is set.
Wait ==
    /\ pc = "wait"
    /\ pc' = IF connected THEN "check" ELSE "waiting"
    /\ UNCHANGED <<mode, exitCode, stopEvent, seq, burst, shared, network,
                   world, history>>

\* No CONNACK within CONNECT_TIMEOUT_SECONDS: loop_stop(), exit 2.
WaitTimesOut ==
    /\ pc = "waiting"
    /\ Exit("unreachable")
    /\ UNCHANGED <<mode, stopEvent, seq, burst, shared, outgoing, sent,
                   refusals, world, history>>

\* state.connect_failure is set: loop_stop(), exit 3.
Rejected ==
    /\ pc = "check" /\ connectFailure
    /\ Exit("rejected")
    /\ UNCHANGED <<mode, stopEvent, seq, burst, shared, outgoing, sent,
                   refusals, world, history>>

Accepted ==
    /\ pc = "check" /\ ~connectFailure
    /\ pc' = "publish"
    /\ UNCHANGED <<mode, exitCode, stopEvent, seq, burst, shared, network,
                   world, history>>

-----------------------------------------------------------------------------
(* publish_one(), run_steady() and run_burst().                            *)

\* Mutant: the steady loop never looks at stop_event.
LoopsWhateverTheSignal == IF mode = "burst" THEN seq < Burst ELSE TRUE

\* The loop goes round again.
Loops == IF mode = "burst" THEN seq < Burst ELSE ~stopEvent

\* client.publish(): the message is paho's from here on.  Without a connection
\* it is kept for the next one, and info.rc says so unless paho's own window had
\* held the message back anyway.
Publish ==
    /\ pc = "publish" /\ Loops /\ seq + 1 \in Seqs
    /\ seq' = seq + 1
    /\ outgoing' = outgoing \cup {seq'}
    /\ unsent' \in {unsent, IF net = "down" THEN unsent \cup {seq'} ELSE unsent}
    /\ pc' = "record"
    /\ UNCHANGED <<mode, exitCode, stopEvent, awaited, timedOut, shared, net,
                   callback, sent, refusals, world, history>>

\* Mutant: one entry is kept, for the message published last.
RecordLastOnly ==
    /\ pc = "record"
    /\ pending' = {seq}
    /\ pc' = IF mode = "burst" THEN "publish" ELSE "sleep"
    /\ UNCHANGED <<mode, exitCode, stopEvent, seq, burst, connected,
                   connectFailure, network, world, history>>

\* state.pending[info.mid] = seq
Record ==
    /\ pc = "record"
    /\ pending' = pending \cup {seq}
    /\ pc' = IF mode = "burst" THEN "publish" ELSE "sleep"
    /\ UNCHANGED <<mode, exitCode, stopEvent, seq, burst, connected,
                   connectFailure, network, world, history>>

\* stop_event.wait(interval): the interval passes, or a signal ends it.
Sleep ==
    /\ pc = "sleep" /\ pc' = "publish"
    /\ UNCHANGED <<mode, exitCode, stopEvent, seq, burst, shared, network,
                   world, history>>

\* The loop is over: a burst goes on to wait for its PUBACKs.
LeaveLoop ==
    /\ pc = "publish" /\ ~Loops
    /\ pc' = IF mode = "burst" THEN "await" ELSE "closing"
    /\ UNCHANGED <<mode, exitCode, stopEvent, seq, burst, shared, network,
                   world, history>>

\* Mutant: one message too many is waited for.
AwaitPublishedOnceMore ==
    /\ pc = "await" /\ awaited <= seq
    /\ awaited + 1 \notin outgoing
    /\ awaited' = awaited + 1
    /\ UNCHANGED <<mode, pc, exitCode, stopEvent, seq, timedOut, unsent,
                   shared, network, world, history>>

\* wait_for_publish() returns and is_published() is true ...
AwaitPublished ==
    /\ pc = "await" /\ awaited < seq
    /\ awaited + 1 \notin outgoing \cup unsent
    /\ awaited' = awaited + 1
    /\ UNCHANGED <<mode, pc, exitCode, stopEvent, seq, timedOut, unsent,
                   shared, network, world, history>>

\* ... or PUBLISH_WAIT_TIMEOUT_SECONDS pass and it is not.
AwaitTimesOut ==
    /\ pc = "await" /\ awaited < seq
    /\ awaited + 1 \in outgoing \ unsent
    /\ awaited' = awaited + 1
    /\ timedOut' = timedOut \cup {awaited'}
    /\ UNCHANGED <<mode, pc, exitCode, stopEvent, seq, unsent, shared, network,
                   world, history>>

\* For a message paho could not send at once wait_for_publish() raises
\* RuntimeError, sent meanwhile or not; nothing catches it but the finally clause.
AwaitRaises ==
    /\ pc = "await" /\ awaited < seq
    /\ awaited + 1 \in unsent
    /\ Exit("traceback")
    /\ UNCHANGED <<mode, stopEvent, seq, burst, shared, outgoing, sent,
                   refusals, world, history>>

BurstOver ==
    /\ pc = "await" /\ awaited = seq
    /\ pc' = "closing"
    /\ UNCHANGED <<mode, exitCode, stopEvent, seq, burst, shared, network,
                   world, history>>

\* The finally clause: client.disconnect(), loop_stop(); exit 0.
Close ==
    /\ pc = "closing"
    /\ Exit("ok")
    /\ UNCHANGED <<mode, stopEvent, seq, burst, shared, outgoing, sent,
                   refusals, world, history>>

\* handle_signal(): it sets the event and no more, whatever main() is doing.
Signal ==
    /\ pc # "exited" /\ ~stopEvent
    /\ stopEvent' = TRUE
    /\ UNCHANGED <<main, shared, network, world, history>>

-----------------------------------------------------------------------------
(* The callbacks, on the network thread.                                   *)

\* Mutant: the event is set before the failure is noted.
OnConnectSetFirst(refused) ==
    IF refused THEN <<"set", "fail">> ELSE <<"set", "succeed">>
\* Mutant: an accepted connection leaves an old failure in place.
OnConnectKeepsFailure(refused) == IF refused THEN <<"fail", "set">> ELSE <<"set">>

\* _on_connect(): the failure first, then the event.
OnConnect(refused) == IF refused THEN <<"fail", "set">> ELSE <<"succeed", "set">>

\* _on_disconnect().
OnDisconnect == <<"clear">>

\* One assignment.  Event.set() wakes the main thread if it waits, and the wait
\* has succeeded even if the event is cleared before that thread runs.
CallbackStep ==
    /\ callback # <<>>
    /\ callback' = Tail(callback)
    /\ CASE Head(callback) = "fail" ->
              connectFailure' = TRUE /\ UNCHANGED <<connected, pc>>
         [] Head(callback) = "succeed" ->
              connectFailure' = FALSE /\ UNCHANGED <<connected, pc>>
         [] Head(callback) = "set" ->
              /\ connected' = TRUE
              /\ pc' = IF pc = "waiting" THEN "check" ELSE pc
              /\ UNCHANGED connectFailure
         [] Head(callback) = "clear" ->
              connected' = FALSE /\ UNCHANGED <<connectFailure, pc>>
    /\ UNCHANGED <<mode, exitCode, stopEvent, seq, burst, pending, net,
                   outgoing, sent, refusals, world, history>>

\* Mutant: a PUBACK without an entry in pending is taken for none of ours.
OnPublishKnownOnly(a) ==
    refusals' = IF a.ok \/ a.seq \notin pending THEN refusals
                ELSE refusals \cup {a.seq}

\* _on_publish(): a reason code other than 0 is logged, under the seq its entry
\* gives or, where there is no entry, as None.
OnPublish(a) ==
    refusals' = IF a.ok THEN refusals ELSE refusals \cup {a.seq}

\* A PUBACK: the entry is popped, the message is no longer paho's.
PubAck ==
    /\ net = "up" /\ callback = <<>>
    /\ \E a \in acks :
        /\ acks' = acks \ {a}
        /\ OnPublish(a)
        /\ pending' = pending \ {a.seq}
        /\ outgoing' = outgoing \ {a.seq} /\ sent' = sent \ {a.seq}
    /\ UNCHANGED <<main, stopEvent, connected, connectFailure, net, callback,
                   broker, routed, faults, history>>

-----------------------------------------------------------------------------
(* paho and the broker.                                                    *)

\* The CONNACK, with the broker's answer.
Connack ==
    /\ net = "connecting" /\ callback = <<>> /\ broker # "down"
    /\ net' = IF broker = "refuses" THEN "refused" ELSE "up"
    /\ callback' = OnConnect(broker = "refuses")
    /\ lastConnack' = IF broker = "refuses" THEN "refused" ELSE "accepted"
    /\ everAccepted' = (everAccepted \/ broker = "accepts")
    /\ UNCHANGED <<main, stopEvent, shared, outgoing, sent, refusals, world>>

\* The connection ends and what was on its way with it: PUBACKs are lost, and
\* what was not acknowledged will be sent again.
Ends ==
    /\ net' = "down" /\ callback' = OnDisconnect
    /\ sent' = {} /\ acks' = {}
    /\ UNCHANGED <<main, stopEvent, shared, outgoing, refusals, broker, routed,
                   history>>

\* After a refusal the broker closes; no fault is needed for it.
RefusedEnds ==
    net = "refused" /\ callback = <<>> /\ Ends /\ UNCHANGED faults

LinkLost ==
    /\ net \in {"connecting", "up"} /\ callback = <<>>
    /\ broker = "down" \/ faults < MaxFaults
    /\ faults' = IF broker = "down" THEN faults ELSE faults + 1
    /\ Ends

\* paho reconnects by itself (reconnect_delay_set).
Reconnect ==
    /\ net = "down" /\ callback = <<>> /\ broker # "down"
    /\ net' = "connecting"
    /\ UNCHANGED <<main, stopEvent, shared, callback, outgoing, sent, refusals,
                   world, history>>

\* A message goes out.  The broker acknowledges it either way: routed to a
\* queue, or with a reason code that says it was not.
Send ==
    /\ net = "up" /\ broker # "down"
    /\ \E m \in outgoing \ sent, ok \in BOOLEAN :
        /\ sent' = sent \cup {m}
        /\ acks' = acks \cup {[seq |-> m, ok |-> ok]}
        /\ routed' = IF ok THEN routed \cup {m} ELSE routed
    /\ UNCHANGED <<main, stopEvent, shared, net, callback, outgoing, refusals,
                   broker, faults, history>>

BrokerChanges ==
    /\ pc # "exited" /\ faults < MaxFaults
    /\ faults' = faults + 1
    /\ broker' \in {"accepts", "refuses", "down"} \ {broker}
    /\ UNCHANGED <<main, stopEvent, shared, network, routed, acks, history>>

-----------------------------------------------------------------------------
MainStep ==
    \/ Connect \/ ConnectFails \/ Wait \/ WaitTimesOut \/ Rejected \/ Accepted
    \/ Publish \/ Record \/ Sleep \/ LeaveLoop
    \/ AwaitPublished \/ AwaitTimesOut \/ AwaitRaises \/ BurstOver \/ Close

NetworkStep ==
    \/ Connack \/ CallbackStep \/ PubAck \/ RefusedEnds \/ Reconnect \/ Send

Next == MainStep \/ NetworkStep \/ Signal \/ LinkLost \/ BrokerChanges

\* The main thread is scheduled, and each of its waits has a timeout.  Nothing
\* is asked of the network or the broker.
Spec == Init /\ [][Next]_vars /\ WF_vars(MainStep)

-----------------------------------------------------------------------------
(* Properties.                                                             *)

\* Nothing is published before the broker has accepted the credentials, though
\* the main thread learns of it through two fields another thread assigns.
OnlyWhenAccepted == seq > 0 => everAccepted

\* main() exits 3 for the answer in force: not for a refusal the broker has
\* since taken back, whatever reconnects fall between the wait and the test.
RejectedIsFresh ==
    [][exitCode' = "rejected" /\ exitCode = "none"
         => lastConnack = "refused" \/ callback # <<>>]_vars

\* "burst complete": each message of a burst that ran to its end reached a
\* queue, or is counted as timed out, or has an error line of its own from
\* _on_publish, even where its PUBACK came before its entry in pending.
BurstTellsTheTruth ==
    exitCode = "ok" /\ mode = "burst"
        => Seqs \subseteq routed \cup timedOut \cup refusals

\* Exit 0 on SIGTERM, 2 or 3 if connect() was under way: a publisher told to
\* stop exits, whatever the broker does.
StopsInTime == stopEvent ~> pc = "exited"

\* ClientState: "mid -> seq, so on_publish can name the seq of a failed publish".
\* main() makes the entry only after client.publish() has returned, so that a
\* fast PUBACK may find none: but that is one message, the newest, and only
\* between those two statements.
OnlyTheNewestIsUnnamed ==
    [][\A a \in acks \ acks' :
            net' = "up" /\ a.seq \notin pending
                => pc = "record" /\ a.seq = seq]_vars
=============================================================================
