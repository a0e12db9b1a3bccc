# thermo-warren in TLA+

A sensor node publishes one temperature reading a second over MQTT to RabbitMQ.
The broker fans each reading out to two queues: `telemetry.store`, whose consumer
writes it to InfluxDB and acknowledges it afterwards, and `telemetry.observe`,
bounded and lossy, whose consumer only logs. Readings that break the payload
contract leave `telemetry.store` for `telemetry.dlq`. A one-shot declarer creates
the queues before anything else starts.

This directory models the parts of that pipeline in which order, failure and
concurrency decide the outcome, checks them with TLC on small instances, and
proves with TLAPS, for every instance, each safety property the passing runs check.

Paths below are relative to the repository root.

## 1. Inventory

| Component | State | Operations | Talks to | What is hard |
|---|---|---|---|---|
| Consumer life cycle, `src/telemetry/amqp.py` | the `_stopping` event, `_Session` (connection, channel, cancelled flag), the backoff, `connected_once` | `connect`, `_consume`, `run_consumer`, the signal handler, `on_broker_cancel` | the broker; the handlers of both consumers | the signal handler runs between any two bytecodes; three ways `start_consuming()` ends; reconnects |
| Store consumer, `consumer_store.py` | `storage_down`; pika's pending deliveries; the delivery in the handler | `on_message`, `store`, `reject` | life cycle, storage, the broker's queue | write before acknowledge across crashes, timeouts, dead links, shutdown in mid-retry |
| Storage client, `storage.py` | none of its own | `write`, `to_point` | InfluxDB | a timed-out write may have been applied |
| Observation consumer, `consumer_observe.py` | none; the capped queue | `on_message` | life cycle, the broker's queue | automatic acknowledgement: loss by design, by five ways at once, and still newest-first and in order |
| Payload contract, `payload.py` | none | `build_payload`, `parse`, its three checks | publisher, both consumers, `to_point` | which exception comes first; those the consumers do not catch; `true` and `29` |
| Topology declarer, `topology.py`, `topology_spec.py` | none; the broker's queues | `drop`, `declare`, exit codes | the broker; compose's start gate | partial runs, overlapping runs, `--recreate` |
| Publisher, `publisher.py` | `ClientState`: connected event, failure, `pending` map | `connect`, `publish_one`, `run_steady`, `run_burst`, paho callbacks | the broker | the network thread's PUBACK against the main thread's bookkeeping |
| Sensor node: outage policy, `firmware/main/mqtt_publisher.c`, `sensor_node.c`, `time_sync.c` | `s_seq`, `s_connected`, `s_offline_since_ms`, `s_synced`, `s_started`, the pending map; esp-mqtt's outbox | `sensor_mqtt_publish_reading`, `pending_put`/`pending_take`, `mqtt_event_handler`, `on_time_synced` | the broker; the Wi-Fi station's events | two tasks without a lock; four bounds that lose readings; outages in sequence; a PUBACK that overtakes its bookkeeping |
| Sensor node: Wi-Fi, `firmware/main/wifi_station.c`, the `on_got_ip` of `time_sync.c` and `mqtt_publisher.c` | the reconnect task's notification, delay and attempt count; `s_sntp_initialised`, `s_started` | `sensor_wifi_start`, `reconnect_task`, the handlers of the Wi-Fi and address events | SNTP, the MQTT client | a retry that depends on an event arriving; handlers registered after the station starts |
| Compose, `compose.yaml` | which services run | start order, restart policy | all | the gate opens on an exit status |

Configuration, logging, the display driver and the provisioning of RabbitMQ,
InfluxDB and Grafana have no behaviour of their own that interacts with the rest
and are not modelled. `PROJECT.json` lists every component with its status, and
under `hazards` each place in the code where a test would hardly reach, with the
properties that watch it.

What makes each component correct, in a sentence:

* life cycle: a stop ends the process and nothing else does with status 0; no
  outage of the broker ends a process that was once connected; unless stopped it
  always gets back to its queue.
* store consumer: nothing is lost, nothing is acknowledged before it is stored,
  nothing but a contract violation is dead-lettered, and what can be stored or
  rejected is settled in the end, unless a body no handler catches or a whole
  window of points storage refuses is ahead of it.
* observation consumer: a reading is seen at most once and in order; what waits
  is the newest; a message it fails on costs one process, not the path.
* payload contract: `parse` draws the line where the contract does, and what it
  lets through becomes a point of the schema's types.
* declarer: dead letters always have somewhere to go and are never deleted; an
  exit with 0 means what the edition of `topology_spec.py` says is in place.
* sensor node: a hole in the series is a logged loss, the gate alone decides
  what is lost, what is kept of an outage is its beginning, and an acknowledgement
  is logged under its own number.
* Wi-Fi station: whenever it is down a retry is on its way; once the access point
  stays, so does the station, with its clock and its session.
* publisher: it publishes only to a broker that accepted it, a burst's report is
  true, a signal ends it, and only the newest message can be acknowledged without
  its number.

## 2. Modules

| Module | Models | Extends / instantiates |
|---|---|---|
| `ConsumerRunner` | the consumer life cycle | |
| `ConsumerRunnerProofs` | its safety, proved | `ConsumerRunner` |
| `AtLeastOnce` | what the durable path promises, abstractly | |
| `PayloadContract` | what `parse` and `to_point` make of a message body | |
| `PayloadContractProofs` | that they agree with the contract, proved | `PayloadContract` |
| `StoreConsumer` | the durable path: queue, handler, storage | `PayloadContract`; instance of `ConsumerRunner` over the same variables; refines `AtLeastOnce` |
| `StoreConsumerProofs` | its safety and the refinement, proved | `StoreConsumer`, `PayloadContractProofs`, instance of `ConsumerRunnerProofs` |
| `AtMostOnce` | what the lossy path promises, abstractly | |
| `ObserveConsumer` | the lossy path: capped queue, automatic acknowledgement | `PayloadContract`; instance of `ConsumerRunner`; refines `AtMostOnce` |
| `ObserveConsumerProofs` | its safety and the refinement, proved | `ObserveConsumer`, `PayloadContractProofs`, instance of `ConsumerRunnerProofs` |
| `MCBodies`, `MCStoreConsumer`, `MCObserveConsumer` | the message bodies TLC tries | the two consumers |
| `Topology`, `MCTopology` | the declarer against the broker's queues; the editions TLC tries | |
| `TopologyProofs` | its safety, proved | `Topology` |
| `SensorNode` | the firmware's offline gate and pending map against esp-mqtt's outbox | |
| `SensorNodeProofs` | its safety, proved | `SensorNode` |
| `WifiStation` | the firmware's boot, reconnect task and address event | |
| `WifiStationProofs` | its safety, proved | `WifiStation` |
| `Publisher` | the software publisher's main thread against paho's callbacks | |
| `PublisherProofs` | its safety, proved | `Publisher` |

### ConsumerRunner

`pc` is the place in `run_consumer()`: `top` (the loop's test), `connecting`
(inside `connect()`), `attaching` and `subscribing` (inside `_consume()`, before
and after `session.channel` is set), `consuming` (inside `start_consuming()`),
`closing` (it returned), `backoff` (`stopping.wait(delay)`), `exited`, `killed`.
`session` is the set of `_Session` fields that are set. `stopPosted` says that
the signal handler put `channel.stop_consuming` on the connection's callback
queue. After an exception the `finally` clause runs after the wait, so a failed
session is still there for the handler during `backoff` (`BackoffOver` drops it);
after a broker's cancel it runs before the wait (`CloseSession`).

The broker, the link and the queue are external: `broker` up, down or refusing
the user; `link` none, up, or lost with nobody noticing yet. `Signal` may fall
between any two steps. `Kill` and `Restart` are SIGKILL and a new process;
`AutoRestart` is compose's `restart: unless-stopped`. `HandlerRaises` is an
exception of the message handler's that `run_consumer()` does not catch: the
`finally` clause runs and the process ends.

Delays are numbers only where they are compared (the backoff); elsewhere a wait
is a step that may take any time. A second signal is allowed: the handler
posts again.

### StoreConsumer

Every step of the life cycle is taken together with what it does to the
deliveries. `ready`, `unacked`, `acked`, `dlq` are the broker's; `prefetched`,
`cur`, `hpc`, `tries`, `storageDown` are the process's: pika's pending
deliveries, the one in the handler, the place in `on_message()`/`store()`, the
attempt, and the closure's flag. A lost link returns what was unacknowledged to
the queue at once, while the process goes on with what it holds until it
notices: a settlement on a dead link goes nowhere (`Settled`). A write that
times out (`storage = "silent"`) may or may not have been applied.

The test of `is_stopping()` and the `basic_reject` after it (consumer_store.py
204-226) are one step: a signal between them only sets the flag and queues a
callback, which commutes with the reject.

Each message has a body, and what becomes of it is what `PayloadContract` makes
of that body: rejected (`Poison`), an exception that ends the process
(`Raising`), or a point that storage refuses for good (`Unwritable`: the contract
bounds no integer, the storage schema does).

Such a point goes back to the head of the queue each time it is requeued and takes
one place of the prefetch window for good: as many of them as the window holds
starve everything behind them.

Left out: the queue's deletion under this consumer (in `ConsumerRunner` and
`ObserveConsumer`); two messages that share a point.

### PayloadContract

A body is the form of its bytes and, for an object, a kind for each of the five
fields: what `isinstance`, `isfinite` and the storage schema tell apart, and no
more. `Parse` goes through `CONTRACT` in order, and the first check that fails
decides whether the body is rejected or raises. `OnContract` is the contract as
the module's docstring states it, to compare with. Extra fields are ignored by
`parse` and left out.

### ObserveConsumer and AtMostOnce

As in `StoreConsumer` each step of the life cycle is taken with what it does to
the messages, here including a queue deleted and declared again. The queue
forgets a message as it is written to the socket; `received` is what the process
has been sent and not handled, lost with its session. The abstract promise has
four actions: accepted, lost, seen, noted as poison; a message is accepted only
behind all others and handled only in front of them, so that no message is seen
twice or out of order. The mapping is `open <- ready \cup received`,
`seen <- observed`, `noted <- noted`.

### AtLeastOnce

Four actions on a message: accepted, written, finished with, buried. The mapping
is `pending <- ready \cup unacked`, `written <- stored`, `dead <- dlq`,
`done <- acked`.

### Topology

A run's `todo` is the rest of the calls it will make, in `declare()`'s order,
with the deletions before them under `--recreate`. `args` are the arguments each
object exists with: a declare with other arguments is the 406 that closes the
channel, a bind to a deleted queue the 404. Editions of `topology_spec.py` are
functions from objects to numbers; only equality of arguments matters. A run
without all of its calls done may die at any point. A reading is routed to the
bound data queues; a dead-lettered one falls through if the dead-letter exchange
is missing or unbound (`fallen`). Queues and bindings are durable, so the broker
going down changes none of them. `disturbed` is a history variable.
A channel closed by the broker for any other reason than 406 also exits 4
(topology.py 180-181), which the model's `BindNotFound` shows for 404.

### SensorNode

One pass of the publish loop is one second and one reading; `seq` is therefore
also the clock the gate reads. `ReadConnected` and `GateDrops`/`GatePasses` are
the loop's two unlocked reads, `HandlerStep` the event handler's two writes in
their order (`handling` holds those still to come). esp-mqtt is external: a FIFO
outbox, resent from the start on a new session, -1 over the in-flight cap, -2
over the byte limit, expiry by age; a dead link is noticed within `Lag` seconds
(the 8.4 s the file's header measured). Two assumptions on time: a second is
longer than the event handler takes, and than a live session takes to drain the
outbox. Time passes only in `Sample`.

`slots` is the pending map, `MapSize` of them. `Enqueue` and `PendingPut` are two
steps, as in the code, with the client's task free to send the message and take
its PUBACK between them; `Leaves` is `pending_take()` with the event that calls
it. `PubAck` is `handle_published()`: the broker takes a publish or refuses it
(reasons 16 and 131, `Answered`), the message leaves the outbox either way, and
only the reason code tells the two apart. `lost` holds the readings of each kind
of loss that is logged: not synced, gate, payload too long for its buffer
(`Oversized` names the readings), outbox limit, in-flight cap, refused, expired.
Packet identifiers start over after `Ids` of them.

### WifiStation

`boot` is how far `app_main()` has come; `task` and `notified` are the reconnect
task and its notification value; `events` the default event loop's queue, in
which the driver's events wait for their handlers. `GotIp` is the address event
as all three modules handle it, one after the other, for those that have
registered by then; starting a service may fail. `mqtt` is the client's state as
`on_got_ip` sees it: a session that died with nobody noticing (`stale`) gets no
nudge. The driver posts one disconnect for every association that fails or is
lost; a call to `esp_wifi_connect()` that itself returns an error starts none and
is followed by no event (`refused`). `missed` lists the services the last address
event did nothing for. Errors that abort the boot (`ESP_ERROR_CHECK`) and the
reading of credentials from flash are left out.

### Publisher

`pc` is the main thread: `start`, `wait`/`waiting` (before and inside
`connected.wait()`), `check` (the wait succeeded, `connect_failure` not yet read),
`publish` (the loop's head), `record` (between `client.publish()` and the
assignment to `pending`), `sleep`, `await` (the burst's PUBACKs), `closing`,
`exited`. `callback` holds the assignments of `_on_connect` or `_on_disconnect`
still to come, so that the main thread runs between them. Setting the event
wakes a waiting main thread for good, as `threading.Event` does: clearing it
afterwards changes nothing for that wait. paho is external: `outgoing` is what it
holds unacknowledged, `sent` what of it this connection has sent, all of it sent
again by the next one. The broker answers every message, with or without
having routed it, and its PUBACK is lost if the connection ends first.

A message published while paho has no socket carries an error code (`unsent`),
unless paho's in-flight window would have held it back anyway, and
`wait_for_publish()` raises `RuntimeError` for it, sent meanwhile or not
(`AwaitRaises`): `run_burst()` ends without its report, the `finally` clause of
`main()` runs and the process exits with a traceback. This is taken from paho 2's
documented behaviour; paho is not part of the repository.

A message's mid is its seq: the reuse of message ids after 65,535 is left out, as
are paho's in-flight limit, which only delays `Send`, and what `loop_stop()` still
flushes, which is a `Send` before `Close`.

## 3. Runs

| Run | Instance | States | Shows |
|---|---|---|---|
| `ConsumerRunner` | 2 attempts, backoff 1..3, 3 faults, 2 signals, 1 kill | ~10,000 | exit codes and stop safety; a posted stop ends the process; a signal ends the process or leaves it `Deaf`; unstopped, it reattaches for ever |
| `LostSignal` | 1 signal, no fault | 52 | **violation** of `StopsWhenTold` |
| `StoreConsumer` | 3 messages (`true` for a number; readings written as integers; the simulator's own), window 2, 2 write attempts, 1 fault, 1 outage, 1 signal, 1 kill | ~178,000 | the safety of the durable path and `AtLeastOnce` |
| `StoreLiveness` | the same, fair, with a point storage refuses, a good message, one `parse` fails on | ~93,000 | abandoned deliveries return; every message is settled that has no body `parse` fails on ahead of it, and fewer unwritable points than the window holds |
| `DrainWrites` | 2 messages, 1 outage, 1 signal | about 1,000 until the violation | **violation** of `DrainAttemptsNoWrite` |
| `Topology` | 2 runs, 3 editions, 1 reading | ~1,854,000 | the declarer's guarantees under overlap, death and `--recreate` |
| `Recreate` | 1 run, 3 editions | small | **violation** of `RecreateSettlesAnyChange` |
| `ObserveConsumer` | 4 messages (one `true`, one `parse` fails on), cap 2, 2 faults, 1 signal, 1 kill | ~52,000 | the newest wait, `AtMostOnce`, no message waits for ever |
| `SensorNode` | gate 1 s, outbox 4, map of 3, 5 identifiers, 6 readings (one too long), 2 outages, 1 refusal | ~3,590,000 | the outage policy and the names of acknowledgements over two outages |
| `Flapping` | gate 2 s, outbox 5, 10 readings, 2 outages | large, until the violation | **violation** of `OneBoundDecides` |
| `Publisher` | burst of 3, steady run of 2, 2 faults | ~812,000 | what the CONNACK tells the main thread, what a burst reports, that a signal ends it, which PUBACK finds no entry |
| `WifiStation` | backoff 1..3, 3 outages, 2 failing calls | ~3,200 | one way back from every outage, the first wait the shortest, rejoining for good |

Why the bounds are enough. In `ConsumerRunner` the interesting cases are two
steps of the process against one signal or one fault; three faults allow an
outage, a deleted queue and a dropped link in one behaviour, two signals a
second one after a lost first, and the backoff's cap (3) is not a power of two
times its floor, so that `min` matters. In `StoreConsumer` a window of two over
three messages gives a delivery in the handler, one pending behind it and one
still in the queue; two attempts are the fewest with a retry. `ObserveConsumer`
needs one message more than cap and handler hold, for one to be pushed out behind
another. The bodies are one of each fate; every other body has the fate of one of
them, which the proofs about `PayloadContract` cover. `StoreLiveness` has one
unwritable point in a window of two; with two of them and two good messages
between and behind (`N = 4`) the property holds as well, and the last message
starves as `WindowLeftFor` says, without any fault. `Topology` needs
two runs for every overlap and one reading to show where it goes; three editions
cover a change on either side of `RECREATABLE`. `SensorNode` needs two outages
for anything one of them leaves behind, and its gate, fuse and limit are apart
from each other as in the firmware: the limit exceeds what one outage admits
(gate + lag + 1), the fuse exceeds the gate, the map has room for one outage and
not for the outbox, and its identifiers start over within the run. One refusal and one
payload too long show what becomes of either.
`WifiStation` needs one outage while booting, one while up and one while an
attempt is under way. `Publisher` needs one fault for a
refusal taken back and a second for a connection lost afterwards; a burst of
three has a PUBACK waited for, one after it and one outstanding.

`CHECK_DEADLOCK FALSE` is set where the system really stops: a process that was
told to stop exits and no one restarts it (or it is Deaf and waits for ever), and
the sensor node's readings are bounded by `MaxSeq`; the publisher exits.

### Fairness

`ProcessStep` is weakly fair: the process is one thread that the operating
system runs, and each of its waits ends (connect attempts, `stopping.wait`, the
write timeout). The broker's deliveries to the observation consumer are weakly
fair. Those to the store consumer are strongly fair for each message: the handler
holds the window shut for the length of a write and opens it again, and a broker
that pushes as soon as there is room delivers what keeps coming to the head of
the queue.
`BrokerRecovers`, `QueueDeclared` and `StorageRecovers` are weakly fair: somebody
repairs what broke, without which no consumer could be asked to progress.
`AutoRestart` is weakly fair because compose restarts a process that was not
stopped. In `Publisher` only the main thread is fair (every one of its waits has a
timeout, or is the sleep between readings), so `StopsInTime` holds whatever paho
and the broker do. In `WifiStation` each task runs, the driver settles each
association and the client's timer fires; the access point owes nothing, and
`Rejoins` is about runs in which it stays. Nothing is assumed of faults, signals,
kills, or a restart after a stop.
`--requeue-poison` is off in all runs: its endless loop is the flag's purpose.

## 4. What the violations show

* `LostSignal`. SIGTERM while `connect()` runs: the flag is set, there is no
  channel to post to, and neither `connect()` nor `_consume()` looks at the flag
  again. The process subscribes and consumes, told to stop and not stopping
  (`Deaf`), until a second signal, a fault or compose's SIGKILL.
  `StopsUnlessDeaf` shows that this is the only way a signal is lost.
* `DrainWrites`. SIGTERM during the write backoff leaves `storage_down` False,
  so the next prefetched delivery does attempt a write.
* `Recreate`. A changed dead-letter queue is not settled by `--recreate`, which
  deletes both data queues first and then exits 4.
  `RecreateClearsDataQueues` shows that nothing else can be in its way.
* `Flapping`. "One bound decides what is lost" holds of one outage
  (`KeepsTheFirstMinute`); with two outages and a session between them too short to
  drain, the outbox limit drops readings the gate let in.

Three more places where code and comment part are stated as what does hold, with
the exception spelled out:

* `publisher.py:94-95`, "QoS 1 guarantees exactly one PUBACK per publish": it may
  come between `client.publish()` and the assignment to `state.pending`, and then
  finds no entry. `OnlyTheNewestIsUnnamed` shows that it is that one message only;
  `NamesItsOwn` is the same of the firmware's map, where each such race leaves one
  slot taken, until its identifier comes round and misnames one message.
* `wifi_station.c:38-40`, "retried indefinitely": unless `esp_wifi_connect()` itself
  returned an error (`OneWayBack`). `Rejoins` makes the same exception, and one for
  an address that arrives before the clock or the client has registered for it
  (`sensor_node.c:89-91`): neither is repaired by the code until the next address.
* A body that `json.loads` cannot decode ends every process it is delivered to.
  On the durable path it returns to the head of the queue and nothing behind it
  settles (`EveryMessageSettles`); on the lossy path it costs one process
  (`EveryMessageLeaves`).

Some properties look past a failure that something outside the process repairs.
`Reattaches` does not notice a process that exits wrongly, since compose starts it
again: `OkOnlyWhenStopping` and the theorem `NeverGivesUp` are about the exit.
`RecreateClearsDataQueues` and `OkMeansComplete` leave out runs under which another
run deleted a queue; what holds then is `GateMeansRouted`.

## 5. Proofs

Every invariant and action property of a passing run, each refinement included, is
a theorem; liveness is not. Everything is for arbitrary constants under the
modules' assumptions, which say no more than that counts are natural numbers and,
where the code needs it, not zero:

| Assumption | Beyond the types of the constants |
|---|---|
| `RunnerConstants` | at least one attempt; the backoff's floor is positive and at most its cap |
| `StoreConstants`, `ObserveConstants` | a window of at least one, at least one write attempt; a queue cap of at least one |
| `StationConstants` | as the backoff of `RunnerConstants` |
| `PublisherConstants` | a burst of at least one |
| `TopologyConstants` | an edition gives each object a positive number (0 is "not there") |
| `NodeConstants` | a map of at least one slot, and more packet identifiers than the outbox has room for |

The last holds of the firmware by a wide margin: identifiers are 16 bits wide and
the outbox is limited to 16 KB, so it can never hold 65,535 messages.

Each `IInv` was checked by TLC, as an invariant of the run named in section 3,
before it was proved.

`ConsumerRunnerProofs`: none of the invariants is inductive alone. `IInv` adds
that a running process has decided on no exit code, that a session in use
started from the floor of the backoff, that a link exists in a session and
otherwise only during the wait after one, that the broker holds a consumer only
while the process consumes, and that `start_consuming()` returned for a cancel
or a stop. Proved: `TypeOK`, `OkOnlyWhenStopping`, `OnceConnectedNeverGivesUp`,
`EscalatesOnlyWhileUnreachable`, `StopBelongsToSession`, and the action property
`NoNewRoundWhenStopping`.

`StoreConsumerProofs`: `KeepsLifeCycle` shows that the path takes only steps of
the life cycle, so that the life cycle's invariant holds here (the instances
`Runner` and `RP` agree by `SameInit` and `SameNext`). `Deliveries` then relates
the two sides of a delivery: on a live link what the process holds is
unacknowledged at the broker; on a dead one the broker has taken everything back
and what the process still holds is among `ready`; a message at the
acknowledgement is stored, and one past the parse is not poison. Each of the
five safety properties is a conjunct of it or follows from it, and each
needs the others: `AckedIsStored` rests on `Handled`, `NothingLost` on `Held`.
`ImplementsAtLeastOnce` maps every step to a step of `AtLeastOnce` or a stutter.
`History` is a second invariant, proved on top of the first. `OverwriteIsExplained`
speaks of a message that is stored and in the handler a second time; it needs to
know of every stored message that is still pending where its past is kept
(`StoredRepeats`): in the broker's `redelivered` mark, or in the handler's own
position if it is still the delivery that wrote it. A message held over a dead
link has its mark already (`MarkedOnDeadLink`). `HealthyDrainSettles` needs that
without an outage no write fails, so that `storage_down` is never set and the
shortcut of a stopping process never taken (`CalmSettles`).

`PayloadContractProofs`: for every body. `ParseDecides` says of each outcome of
`parse` exactly which bodies have it: it raises for those of `Unparsable`, accepts
the rest of what is `OnContract`, and rejects everything else; the proof goes by
which check fails first. `AcceptedIsTyped` shows that an accepted body makes a
point of the schema's types, so that a reading written `29` never fixes its column
to integers; `BuiltIsStored` that what the publisher builds is accepted and can be
stored. `StoreConsumerProofs` uses the first where a message leaves `Take`.

`ObserveConsumerProofs`: `KeepsLifeCycle` as above. The order of messages is
carried by one chain: what is observed or noted is older than what is received,
and that older than what is ready; with the broker pushing only its oldest and
the process handling only its oldest, each step of the path is one of
`AtMostOnce` or a stutter. `NewestAreKept` needs only the queue's side of it.
`TypeCorrect` takes the life cycle's invariant, carried over as above, and
includes the queue's cap.

`WifiStationProofs`: `OneWayBack` is not inductive; it becomes so with `Place`,
which lists every combination of radio, event queue, notification and task. One
token goes round: from the radio, which loses its association, to the queue, to
the notification, to the task's delay and back to the radio. `BackoffRestarts`
needs in addition `Heard`: an address leased since the last attempt either has
its event at the head of the queue, or has reset the delay.

`TopologyProofs`: a run's remaining calls are always the end of one script, so the
number of calls left says which they are (`InScript`), and what a run has
declared, bound and dropped so far is a function of that number. `DeadLetterSide`
is the heart of `NothingFallsThrough`: the store queue exists only over a
dead-letter exchange that exists and is bound, because every run binds it before
it declares the store, and no run deletes either. `PathsBound` does
`GateMeansRouted`: a data queue that is not bound is one nobody has promised yet,
or is owed by a `--recreate` run, under way or broken off, that deleted it and has
not bound it since (`Owed`, `Unpromised`); a run that exits 0 owes nothing.
`Undeleted` and `Dropped` tie `args` to what a run has done, up to what others
have done meanwhile (`disturbed`), for `OkMeansComplete` and
`RecreateClearsDataQueues`.

`SensorNodeProofs`: `Sessions` says by which assignments `s_connected` still
trails the session. `Ledger` makes `HolesAreLosses` inductive with the
acknowledgements under way. `KeepsTheFirstMinute` needs the three phases of an
outage (`FirstMinute`): not noticed by the client, noticed and not yet stamped by
the handler, and timed by the gate; what the outbox may have taken in is bounded
in each by `unnoticed`, `Lag` and the gate's own clock, which never runs ahead of the
outage (`GateClock`). `NamesItsOwn` needs that no two messages of the outbox share
an identifier, which is where `Limit < Ids` comes in, and that only the reading
whose `pending_put()` is still to come, or one that found the map full, may be
without a slot. Its other half counts: a race leaves a debt of one
slot (`Owed`) that its `pending_put()` turns into a leaked one, and no other step
makes `Leaked` larger: where a leaked slot has the identifier of a message that
leaves, it is freed in place of that message's own (`LeaksCounted`).
`GateIsPatient` follows from `GateClock`.

`PublisherProofs`: the invariant says what each of the two threads may rely on
between two assignments of the other. The `connected` event is set only after
the failure field was (`Answered`), and that field is the latest answer or a
callback that will overwrite it is under way (`LatestNoted`), which give
`OnlyWhenAccepted` and `RejectedIsFresh`. `InFlight` follows a message through
paho, the broker and its PUBACK, and says that it has its entry in
`state.pending` at each stage, all but the newest at `record`; `Accounted` says
where it can be once paho no longer holds it, which is what a burst's report
adds up.

Only model-checked, because the proof system has no rule for fairness and
`ENABLED`: the liveness properties `StopsUnlessDeaf`, `Reattaches`,
`AbandonedReturn`, `EveryMessageSettles`, `EveryMessageLeaves`, `Rejoins` and
`StopsInTime`. `OnceConnectedNeverGivesUp`, `EscalatesOnlyWhileUnreachable` and
`NoNewRoundWhenStopping` are proved and no longer run. The four violations are
TLC's alone.

## 6. Plan

Done, in this order: the life cycle, the durable path over it, its abstract
promise, the declarer, the outage policy, the software publisher; the payload
contract and the bodies no handler catches, the lossy path and its abstract
promise, the Wi-Fi station with the boot order, the firmware's pending map.

Proofs followed in the same order: the life cycle, the durable path and its
refinement, the contract, the lossy path and its refinement, the station; then the
publisher, the declarer, the outage policy, and the history of the durable path.

Next:

1. The safety half of the liveness properties as theorems: that a process which
   is told to stop and not `Deaf` has its stop posted or is on a path that reads
   the flag, and that an abandoned delivery is held only while its session is.
2. Points that share a millisecond: two readings of a burst may overwrite each
   other in storage, both acknowledged (`docs/verification-log.md:455` measures
   it and leaves it so).

## 7. Not modelled

* Configuration, logging, the display, and the provisioning of third-party
  services: constants, formatting and static files.
* The drift of the simulated readings, `--corrupt-every` and
  `--message-expiry`, which only change a payload.
* The torn read of `s_offline_since_ms` on a 32-bit core: its high word changes
  once in 49 days.
* A reset of `s_reconnect_delay_ms` that falls between the read and the write of
  its doubling in another task: `Attempt` is one step.
