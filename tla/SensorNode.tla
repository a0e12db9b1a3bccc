----------------------------- MODULE SensorNode -----------------------------
(***************************************************************************)
(* The sensor node's outage policy: firmware/main/mqtt_publisher.c, with   *)
(* the loop of sensor_node.c that calls it and the clock of time_sync.c.   *)
(*                                                                         *)
(* Two tasks share s_connected and s_offline_since_ms without a lock: the  *)
(* publish loop reads them once a second, the MQTT client's task writes    *)
(* them from its event handler.  The client itself (its session, its       *)
(* outbox and its resends) is external, as are the link and the broker.    *)
(*                                                                         *)
(* One pass of the loop is one second and one reading, so a reading's seq  *)
(* is also the time it was taken.  Time passes nowhere else.               *)
(***************************************************************************)
EXTENDS Integers, Sequences, FiniteSets, FiniteSetsExt, SequencesExt

CONSTANTS
    Gate,         \* OFFLINE_GATE_MS, in seconds
    Limit,        \* OUTBOX_LIMIT_BYTES, in messages
    InFlight,     \* the broker's Receive Maximum
    Fuse,         \* the outbox expiry, in seconds
    Lag,          \* the longest the driver takes to notice a dead link
    MapSize,      \* PENDING_MAP_SIZE
    Ids,          \* packet identifiers, 65535 of them; then they start over
    Oversized,    \* readings whose payload does not fit PAYLOAD_BUF_SIZE
    MaxSeq,       \* readings taken (a bound of the model)
    MaxDeaths,    \* times the link dies (a bound of the model)
    MaxRefusals   \* publishes the broker refuses (a bound of the model)

ASSUME NodeConstants ==
    /\ Gate \in Nat /\ Limit \in Nat /\ InFlight \in Nat
    /\ Fuse \in Nat /\ Lag \in Nat
    /\ MapSize \in Nat \ {0} /\ Ids \in Nat /\ Limit < Ids
    /\ Oversized \subseteq Nat
    /\ MaxSeq \in Nat /\ MaxDeaths \in Nat /\ MaxRefusals \in Nat

VARIABLES
    \* The publish loop.
    pc,             \* where sensor_mqtt_publish_reading() is
    seq,            \* s_seq
    lost,           \* the readings each kind of loss was logged for
    slots,          \* s_pending, locked: both tasks use it
    unnamed,        \* readings logged as not fitting there
    \* Shared, unlocked.
    synced,         \* s_synced
    connected,      \* s_connected
    offlineSince,   \* s_offline_since_ms
    \* The MQTT client's task.
    handling,       \* what is left of the event handler's assignments
    session,        \* the client has a session open
    outbox,         \* oldest first: [seq, id, sent]
    lastId,         \* the packet identifier given out last
    \* The link and the broker.
    link,           \* "up", "dead": nobody noticed yet, or "down"
    unnoticed,      \* seconds since the link died
    delivered,      \* readings the broker took
    acks,           \* PUBACKs on their way back: [seq, ok], ok for reason 0
    deaths,         \* how much of MaxDeaths is used
    refusals,       \* and of MaxRefusals
    \* History.
    lastUp,         \* when s_connected was last TRUE
    shut,           \* the gate has dropped a reading since the last session
    admitted,       \* readings enqueued since the link of a session died
    races           \* messages that left the outbox before their pending_put()

loop == <<pc, seq, lost>>
names == <<slots, unnamed>>
flags == <<connected, offlineSince>>
client == <<handling, session, outbox, lastId>>
world == <<link, unnoticed, delivered, acks, deaths, refusals>>
history == <<lastUp, shut, admitted, races>>
vars == <<loop, names, synced, flags, client, world, history>>

\* Lost before the reading was sent, and after it was enqueued.
Dropped == {"unsynced", "gate", "truncated", "limit", "inflight"}
Kinds == Dropped \cup {"refused", "expired"}

Free == [id |-> 0, seq |-> 0]

Init ==
    /\ pc = "idle" /\ seq = 0
    /\ slots = [i \in 1..MapSize |-> Free] /\ unnamed = {}
    /\ lost = [k \in Kinds |-> {}]
    /\ synced = FALSE
    /\ connected = FALSE
    /\ offlineSince = 0
    /\ handling = <<>> /\ session = FALSE /\ outbox = <<>> /\ lastId = 0
    /\ link \in {"up", "down"} /\ unnoticed = 0
    /\ delivered = {} /\ acks = {} /\ deaths = 0 /\ refusals = 0
    /\ lastUp = 0 /\ shut = FALSE /\ admitted = 0 /\ races = 0

TypeOK ==
    /\ pc \in {"idle", "clock", "offline", "admitted", "put"}
    /\ seq \in 0..MaxSeq
    /\ lost \in [Kinds -> SUBSET (1..MaxSeq)]
    /\ synced \in BOOLEAN /\ connected \in BOOLEAN
    /\ offlineSince \in 0..MaxSeq
    /\ handling \in {<<>>, <<"stamp", "clear">>, <<"clear">>}
    /\ session \in BOOLEAN
    /\ slots \in [1..MapSize -> [id : 0..Ids, seq : 0..MaxSeq]]
    /\ unnamed \subseteq 1..MaxSeq /\ lastId \in 0..Ids /\ races \in Nat
    /\ outbox \in Seq([seq : 1..MaxSeq, id : 1..Ids, sent : BOOLEAN])
    /\ Len(outbox) <= Limit
    /\ link \in {"up", "dead", "down"}
    /\ unnoticed \in 0..Lag
    /\ delivered \subseteq 1..MaxSeq
    /\ acks \subseteq [seq : 1..MaxSeq, ok : BOOLEAN]
    /\ deaths \in 0..MaxDeaths /\ refusals \in 0..MaxRefusals
    /\ lastUp \in 0..MaxSeq /\ shut \in BOOLEAN /\ admitted \in Nat

-----------------------------------------------------------------------------
(* The loop of app_main() and sensor_mqtt_publish_reading().               *)

\* A second passes and a reading is taken: seq advances whatever becomes of it.
\* A second is longer than the event handler takes, and than a live session
\* takes to empty the outbox; the driver notices a dead link within Lag of them.
Sample ==
    /\ pc = "idle" /\ seq < MaxSeq
    /\ handling = <<>>
    /\ session /\ link = "up" => outbox = <<>>
    /\ seq' = seq + 1
    /\ pc' = "clock"
    /\ IF link = "dead" THEN unnoticed < Lag /\ unnoticed' = unnoticed + 1
                        ELSE UNCHANGED unnoticed
    /\ lastUp' = IF connected THEN seq' ELSE lastUp
    /\ UNCHANGED <<lost, names, synced, flags, client, link, delivered, acks,
                   deaths, refusals, shut, admitted, races>>

Lose(kind) ==
    /\ lost' = [lost EXCEPT ![kind] = @ \cup {seq}]
    /\ pc' = "idle"
    /\ UNCHANGED seq

\* The clock is not set yet.
SkipUnsynced ==
    /\ pc = "clock" /\ ~synced
    /\ Lose("unsynced")
    /\ UNCHANGED <<names, synced, flags, client, world, history>>

\* s_connected is read, once ...
ReadConnected ==
    /\ pc = "clock" /\ synced
    /\ pc' = IF connected THEN "admitted" ELSE "offline"
    /\ UNCHANGED <<seq, lost, names, synced, flags, client, world, history>>

PastGate == seq - offlineSince > Gate

\* ... and s_offline_since_ms after it.  A drop decided before the session came
\* back belongs to the outage before it.
GateDrops ==
    /\ pc = "offline" /\ PastGate
    /\ Lose("gate")
    /\ shut' = (shut \/ ~connected)
    /\ UNCHANGED <<names, synced, flags, client, world, lastUp, admitted, races>>

GatePasses ==
    /\ pc = "offline" /\ ~PastGate
    /\ pc' = "admitted"
    /\ UNCHANGED <<seq, lost, names, synced, flags, client, world, history>>

\* snprintf() does not fit the payload into its buffer.
PayloadTruncated ==
    /\ pc = "admitted" /\ seq \in Oversized
    /\ Lose("truncated")
    /\ UNCHANGED <<names, synced, flags, client, world, history>>

Fits == pc = "admitted" /\ seq \notin Oversized

\* esp_mqtt_client_enqueue() returns -1: too many unacknowledged.
InFlightFull == Cardinality({i \in DOMAIN outbox : outbox[i].sent}) > InFlight

EnqueueRejected ==
    /\ Fits /\ InFlightFull
    /\ Lose("inflight")
    /\ UNCHANGED <<names, synced, flags, client, world, history>>

\* It returns -2: the outbox is at its limit.
OverLimit ==
    /\ Fits /\ ~InFlightFull /\ Len(outbox) = Limit
    /\ Lose("limit")
    /\ UNCHANGED <<names, synced, flags, client, world, history>>

\* The next packet identifier, for the message at the outbox's end.  No message
\* outlives a round of the 65535, which takes 18 hours.
EnqueueAt ==
    /\ lastId' = (lastId % Ids) + 1
    /\ \A i \in DOMAIN outbox : outbox[i].id # lastId'
    /\ outbox' = Append(outbox, [seq |-> seq, id |-> lastId', sent |-> FALSE])
    /\ pc' = "put"
    /\ admitted' = admitted + 1
    /\ UNCHANGED <<seq, lost, names, synced, flags, handling, session, world,
                   lastUp, shut, races>>

\* Mutant: no outbox.limit.
EnqueueUnlimited == Fits /\ ~InFlightFull /\ EnqueueAt

Enqueue ==
    /\ Fits /\ ~InFlightFull /\ Len(outbox) < Limit
    /\ EnqueueAt

\* pending_put(), in the first free slot if there is one.
PendingPut ==
    /\ pc = "put" /\ pc' = "idle"
    /\ LET free == {i \in DOMAIN slots : slots[i] = Free}
       IN IF free = {}
          THEN unnamed' = unnamed \cup {seq} /\ UNCHANGED slots
          ELSE /\ slots' = [slots EXCEPT ![Min(free)] =
                               [id |-> lastId, seq |-> seq]]
               /\ UNCHANGED unnamed
    /\ UNCHANGED <<seq, lost, synced, flags, client, world, history>>

-----------------------------------------------------------------------------
(* mqtt_event_handler(), on the client's task, and on_time_synced().       *)

\* on_time_synced(): one way.
ClockSet ==
    /\ ~synced /\ synced' = TRUE
    /\ UNCHANGED <<loop, names, flags, client, world, history>>

\* MQTT_EVENT_CONNECTED.  A new session resends what was not acknowledged.
Connected ==
    /\ ~session /\ handling = <<>> /\ link = "up"
    /\ session' = TRUE
    /\ connected' = TRUE
    /\ outbox' = [i \in DOMAIN outbox |-> [outbox[i] EXCEPT !.sent = FALSE]]
    /\ lastUp' = seq /\ shut' = FALSE
    /\ UNCHANGED <<loop, names, synced, offlineSince, handling, lastId, world,
                   admitted, races>>

\* Mutant: the flag is cleared before it is tested and the clock stamped.
DisconnectedClearsFirst == <<"clear", "stamp">>

\* The assignments of MQTT_EVENT_DISCONNECTED, in their order.
Disconnected == <<"stamp", "clear">>

\* Mutant: every disconnect event restarts the gate's clock.
StampAlways == seq

\* if (s_connected) s_offline_since_ms = now_ms()
Stamp == IF connected THEN seq ELSE offlineSince

HandlerStep ==
    /\ handling # <<>>
    /\ handling' = Tail(handling)
    /\ IF Head(handling) = "stamp"
       THEN offlineSince' = Stamp /\ UNCHANGED connected
       ELSE connected' = FALSE /\ UNCHANGED offlineSince
    /\ lastUp' = IF connected THEN seq ELSE lastUp
    /\ UNCHANGED <<loop, names, synced, session, outbox, lastId, world, shut,
                   admitted, races>>

-----------------------------------------------------------------------------
(* The client's session and outbox, the link and the broker.               *)

\* The dead link is noticed: the session ends, PUBACKs under way are lost.
SessionEnds ==
    /\ session /\ link = "dead" /\ handling = <<>>
    /\ session' = FALSE
    /\ handling' = Disconnected
    /\ link' = "down" /\ unnoticed' = 0 /\ acks' = {}
    /\ UNCHANGED <<loop, names, synced, flags, outbox, lastId, delivered, deaths,
                   refusals, history>>

\* A reconnect attempt fails, with a disconnect event of its own.
AttemptFails ==
    /\ ~session /\ link = "down" /\ handling = <<>>
    /\ handling' = Disconnected
    /\ UNCHANGED <<loop, names, synced, flags, session, outbox, lastId, world,
                   history>>

SentTo(i) == [outbox EXCEPT ![i].sent = TRUE]

\* The broker takes a publish, or refuses it: 16 when it could route it to no
\* queue, 131 for an error of its own.
Answered(s, ok) ==
    /\ IF ok THEN delivered' = delivered \cup {s} /\ UNCHANGED refusals
             ELSE /\ refusals < MaxRefusals /\ refusals' = refusals + 1
                  /\ UNCHANGED delivered
    /\ acks' = acks \cup {[seq |-> s, ok |-> ok]}

\* The oldest unsent message goes out; over a dead link it gets nowhere.
Send ==
    /\ session
    /\ \E i \in DOMAIN outbox :
        /\ ~outbox[i].sent /\ \A j \in 1..(i - 1) : outbox[j].sent
        /\ outbox' = SentTo(i)
        /\ IF link = "up" THEN \E ok \in BOOLEAN : Answered(outbox[i].seq, ok)
                          ELSE UNCHANGED <<delivered, acks, refusals>>
    /\ UNCHANGED <<loop, names, synced, flags, handling, session, lastId, link,
                   unnoticed, deaths, history>>

\* Where pending_take() finds an identifier: the first slot, if any.
Slot(id) == {i \in DOMAIN slots : slots[i].id = id}
Name(id) == IF Slot(id) = {} THEN 0 ELSE slots[Min(Slot(id))].seq

\* Mutant: the name is read and the slot stays taken.
TakenNotFreed(id) == slots

Taken(id) == IF Slot(id) = {} THEN slots ELSE [slots EXCEPT ![Min(Slot(id))] = Free]

\* The message at i leaves the outbox, and the event for it takes its name
\* from the map.
Leaves(i) ==
    /\ outbox' = RemoveAt(outbox, i)
    /\ slots' = Taken(outbox[i].id)
    /\ races' = IF pc = "put" /\ outbox[i].seq = seq THEN races + 1 ELSE races
    /\ acks' = {a \in acks : a.seq # outbox[i].seq}
    /\ UNCHANGED <<pc, seq, unnamed, synced, flags, handling, session, lastId,
                   link, unnoticed, delivered, deaths, refusals, lastUp, shut,
                   admitted>>

\* Mutant: the reason code is not read, and a refusal is logged as an ack.
PubAckCodeUnread ==
    /\ session /\ link = "up"
    /\ \E i \in DOMAIN outbox, ok \in BOOLEAN :
        [seq |-> outbox[i].seq, ok |-> ok] \in acks /\ Leaves(i)
    /\ UNCHANGED lost

\* handle_published(): the event comes whatever the reason code says, and the
\* message leaves the outbox; one that was refused is logged as an error.
PubAck ==
    /\ session /\ link = "up"
    /\ \E i \in DOMAIN outbox, ok \in BOOLEAN :
        /\ [seq |-> outbox[i].seq, ok |-> ok] \in acks
        /\ Leaves(i)
        /\ lost' = IF ok THEN lost
                   ELSE [lost EXCEPT !["refused"] = @ \cup {outbox[i].seq}]

\* MQTT_EVENT_DELETED: a message is older than the fuse, sent or not.
Expire ==
    /\ outbox # <<>> /\ seq - outbox[1].seq > Fuse
    /\ Leaves(1)
    /\ lost' = [lost EXCEPT !["expired"] = @ \cup {outbox[1].seq}]

LinkDies ==
    /\ link = "up" /\ deaths < MaxDeaths
    /\ deaths' = deaths + 1
    /\ IF session THEN link' = "dead" /\ admitted' = 0
                  ELSE link' = "down" /\ UNCHANGED admitted
    /\ UNCHANGED <<loop, names, synced, flags, client, unnoticed, delivered,
                   acks, refusals, lastUp, shut, races>>

LinkReturns ==
    /\ link = "down" /\ link' = "up"
    /\ UNCHANGED <<loop, names, synced, flags, client, unnoticed, delivered,
                   acks, deaths, refusals, history>>

-----------------------------------------------------------------------------
PublishStep ==
    \/ SkipUnsynced \/ ReadConnected \/ GateDrops \/ GatePasses
    \/ PayloadTruncated \/ EnqueueRejected \/ OverLimit \/ Enqueue \/ PendingPut

ClientStep == SessionEnds \/ AttemptFails \/ Send \/ PubAck \/ Expire

Next ==
    \/ Sample \/ PublishStep
    \/ ClockSet \/ Connected \/ HandlerStep \/ ClientStep
    \/ LinkDies \/ LinkReturns

Spec == Init /\ [][Next]_vars

-----------------------------------------------------------------------------
(* Properties.                                                             *)

InOutbox == {outbox[i].seq : i \in DOMAIN outbox}

\* "A hole in the published series is exactly the set of readings that were
\* lost": a reading is under way, in the outbox, taken by the broker, or logged
\* as lost, and what was dropped before it was sent never shows up.  One refused
\* or expired may be with the broker all the same: its PUBACK was lost or late.
\* Whether the log line for one of those names it rightly is NamesItsOwn's matter.
HolesAreLosses ==
    LET settled == IF pc \in {"idle", "put"} THEN 1..seq ELSE 1..(seq - 1)
        never == UNION {lost[k] : k \in Dropped}
    IN /\ settled = InOutbox \cup delivered \cup UNION {lost[k] : k \in Kinds}
       /\ never \cap (InOutbox \cup delivered \cup lost["refused"]
                        \cup lost["expired"]) = {}

\* The gate never drops a reading within Gate seconds of a live session,
\* however its two unlocked reads fall among the handler's two writes; only a
\* session that comes back between the reads finds one last reading dropped.
GateIsPatient ==
    [][lost'["gate"] # lost["gate"] => seq - lastUp > Gate \/ connected]_vars

\* What is kept of an outage is its first minute: after the gate's first drop no
\* reading gets in until the broker is back, and one outage puts at most Gate
\* readings in the outbox, with those taken before it was noticed and the one
\* under way.
KeepsTheFirstMinute ==
    /\ pc = "admitted" => ~shut
    /\ ~session => admitted <= Gate + Lag + 1

Stands(i, j) == slots[i] = [id |-> outbox[j].id, seq |-> outbox[j].seq]

\* Slots taken for no message of the outbox: nothing frees them on purpose.
Leaked == {i \in DOMAIN slots :
             slots[i] # Free /\ \A j \in DOMAIN outbox : ~Stands(i, j)}

\* The map leaks no more slots than there were PUBACKs or expiries that overtook
\* their pending_put(), and a message of the outbox is found there under its own
\* seq, unless the map was full, the put is still to come, or a leaked slot has
\* its identifier: through any resends, expiries and identifiers used again.
NamesItsOwn ==
    /\ Cardinality(Leaked) <= races
    /\ \A j \in DOMAIN outbox :
        \/ Name(outbox[j].id) = outbox[j].seq
        \/ outbox[j].seq \in unnamed
        \/ pc = "put" /\ outbox[j].seq = seq
        \/ \E i \in Leaked : slots[i].id = outbox[j].id

\* mqtt_publisher.c: "ONE bound decides what is lost -- this file's 60 s offline
\* gate.  ... nothing the gate admitted is ever dropped by the outbox."
OneBoundDecides == lost["limit"] = {}
=============================================================================
