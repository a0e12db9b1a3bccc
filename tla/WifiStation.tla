----------------------------- MODULE WifiStation -----------------------------
(***************************************************************************)
(* The sensor node's way onto the network: wifi_station.c, and what the    *)
(* address event starts in time_sync.c and mqtt_publisher.c.               *)
(*                                                                         *)
(* Three tasks.  app_main() boots the parts in sensor_node.c's order, the  *)
(* default event loop dispatches the driver's events one at a time, and    *)
(* the reconnect task calls esp_wifi_connect(), once for each notification *)
(* it takes.  Nothing else ever calls it: a station that is down gets back *)
(* only by an event still to be dispatched, a notification still to be     *)
(* taken, or a task still in its delay.  The driver, the access point and  *)
(* the MQTT client's own task are external.                                *)
(***************************************************************************)
EXTENDS Integers, Sequences

CONSTANTS
    DelayMin,     \* RECONNECT_DELAY_MIN_MS
    DelayMax,     \* RECONNECT_DELAY_MAX_MS
    \* Bounds of the model, not of the program.
    MaxOutages,   \* times the access point goes away
    MaxErrors     \* calls into esp-idf that return an error

ASSUME StationConstants ==
    /\ DelayMin \in Nat \ {0} /\ DelayMax \in Nat /\ DelayMin <= DelayMax
    /\ MaxOutages \in Nat /\ MaxErrors \in Nat

VARIABLES
    boot,       \* what app_main() starts next: "wifi", "time", "mqtt", or "done"
    task,       \* the reconnect task: "blocked" or "delaying"
    notified,   \* its notification value, which ulTaskNotifyTake(pdTRUE) clears
    tried,      \* s_attempts > 0
    delay,      \* s_reconnect_delay_ms
    events,     \* the default event loop's queue, oldest first
    sntp,       \* s_sntp_initialised
    mqtt,       \* the client: "stopped" (~s_started), "trying", "waiting" for
                \* its own timer, "live", or "stale": dead and not noticed
    \* External.
    radio,      \* "off", "idle", "associating", "associated", "addressed"
    ap,         \* "up": in range and accepting this station; or "down"
    outages, errors,   \* how much of each bound is used
    \* History.
    refused,    \* esp_wifi_connect() itself has returned an error
    missed,     \* services the last address event came to nothing for
    fresh       \* an address was leased since the last attempt

reconnect == <<task, notified, tried, delay>>
services == <<sntp, mqtt>>
world == <<ap, outages, errors>>
history == <<refused, missed, fresh>>
vars == <<boot, reconnect, events, services, radio, world, history>>

Init ==
    /\ boot = "wifi"
    /\ task = "blocked" /\ notified = FALSE /\ tried = FALSE
    /\ delay = DelayMin
    /\ events = <<>>
    /\ sntp = FALSE /\ mqtt = "stopped"
    /\ radio = "off" /\ ap \in {"up", "down"} /\ outages = 0 /\ errors = 0
    /\ refused = FALSE /\ missed = {} /\ fresh = FALSE

Events == {"start", "disconnected", "gotip"}

FlagsOK ==
    /\ notified \in BOOLEAN /\ tried \in BOOLEAN /\ sntp \in BOOLEAN
    /\ refused \in BOOLEAN /\ fresh \in BOOLEAN

ValuesOK ==
    /\ boot \in {"wifi", "time", "mqtt", "done"}
    /\ task \in {"blocked", "delaying"}
    /\ delay \in DelayMin..DelayMax
    /\ mqtt \in {"stopped", "trying", "waiting", "live", "stale"}
    /\ radio \in {"off", "idle", "associating", "associated", "addressed"}
    /\ ap \in {"up", "down"}
    /\ outages \in 0..MaxOutages /\ errors \in 0..MaxErrors
    /\ missed \subseteq {"sntp", "mqtt"}

TypeOK == FlagsOK /\ ValuesOK /\ events \in Seq(Events)

Error == errors < MaxErrors /\ errors' = errors + 1

-----------------------------------------------------------------------------
(* app_main(): a registration waits for a dispatch that is under way.      *)

\* sensor_wifi_start(): both handlers and the task are there before the driver.
StartWifi ==
    /\ boot = "wifi" /\ boot' = "time"
    /\ radio' = "idle"
    /\ events' = Append(events, "start")
    /\ UNCHANGED <<reconnect, services, world, history>>

\* time_sync_start(), then sensor_mqtt_start(), register for the address event.
Register ==
    /\ boot \in {"time", "mqtt"}
    /\ boot' = IF boot = "time" THEN "mqtt" ELSE "done"
    /\ UNCHANGED <<reconnect, events, services, radio, world, history>>

-----------------------------------------------------------------------------
(* reconnect_task().                                                       *)

\* Mutant: the ceiling is forgotten.
DoubledUncapped == 2 * delay

Doubled == IF 2 * delay < DelayMax THEN 2 * delay ELSE DelayMax

\* esp_wifi_connect() and the doubling after it.  An association and a DHCP
\* lease take longer than those few instructions, so that no address event falls
\* between the two writers of s_reconnect_delay_ms.
Attempt ==
    /\ task' = "blocked" /\ tried' = TRUE
    /\ delay' = Doubled
    /\ fresh' = FALSE
    /\ \/ radio' = "associating" /\ UNCHANGED <<errors, refused>>
       \/ Error /\ refused' = TRUE /\ UNCHANGED radio
    /\ UNCHANGED <<boot, events, services, ap, outages, missed>>

\* The notification is taken; only the first attempt of all goes unpaced.
FirstAttempt ==
    /\ task = "blocked" /\ notified /\ ~tried
    /\ notified' = FALSE
    /\ Attempt

StartDelay ==
    /\ task = "blocked" /\ notified /\ tried
    /\ notified' = FALSE
    /\ task' = "delaying"
    /\ UNCHANGED <<boot, tried, delay, events, services, radio, world, history>>

DelayOver ==
    /\ task = "delaying"
    /\ Attempt
    /\ UNCHANGED notified

-----------------------------------------------------------------------------
(* The default event loop.  Every handler of an event runs before the next *)
(* event is looked at, and an event no handler is registered for is gone.  *)

Dispatch(e) == events # <<>> /\ Head(events) = e /\ events' = Tail(events)

\* Mutant: only a station that had an address asks for another attempt.
WifiEventIfHadAddress ==
    /\ \/ Dispatch("start") /\ notified' = TRUE
       \/ Dispatch("disconnected") /\ notified' = fresh
    /\ UNCHANGED <<boot, task, tried, delay, services, radio, world, history>>

\* wifi_event_handler: xTaskNotifyGive() for either event.
WifiEvent ==
    /\ Dispatch("start") \/ Dispatch("disconnected")
    /\ notified' = TRUE
    /\ UNCHANGED <<boot, task, tried, delay, services, radio, world, history>>

\* Whose on_got_ip is registered, and who has been started by it.
Services == {"sntp", "mqtt"}
Registered ==
    {s \in Services : boot = "done" \/ (boot = "mqtt" /\ s = "sntp")}
Started == {s \in Services : IF s = "sntp" THEN sntp ELSE mqtt # "stopped"}

\* Mutant: the backoff goes on from wherever the last outage left it.
BackoffKept == delay

\* ip_event_handler: the next outage starts from the bottom again.
BackoffAfterAddress == DelayMin

\* Mutant: s_started is set whether or not esp_mqtt_client_start() succeeded,
\* and a later address event only nudges.
MqttNudgedOnly(failed) ==
    IF /\ "mqtt" \in Registered \ failed
       /\ mqtt = "waiting" \/ (mqtt = "stopped" /\ "mqtt" \notin missed)
    THEN "trying" ELSE mqtt

\* esp_mqtt_client_start(), or the nudge out of the client's own timer.  A stale
\* session still has s_connected TRUE and gets no nudge; a client in the middle
\* of an attempt refuses it.
MqttAfter(failed) ==
    IF "mqtt" \in Registered \ failed /\ mqtt \in {"stopped", "waiting"}
    THEN "trying" ELSE mqtt

\* IP_EVENT_STA_GOT_IP, for the three modules in the order they registered in.
\* Starting a service may fail; the next address event will try again.
GotIp ==
    /\ Dispatch("gotip")
    /\ delay' = BackoffAfterAddress
    /\ \E failed \in SUBSET (Registered \ Started) :
        /\ IF failed = {} THEN UNCHANGED errors ELSE Error
        /\ sntp' = (sntp \/ "sntp" \in Registered \ failed)
        /\ mqtt' = MqttAfter(failed)
        /\ missed' = (Services \ Registered) \cup failed
    /\ UNCHANGED <<boot, task, notified, tried, radio, ap, outages, refused,
                   fresh>>

-----------------------------------------------------------------------------
(* The driver and the access point: every failed or lost association posts *)
(* one disconnect, every lease one address event.                          *)

Associate ==
    /\ radio = "associating" /\ ap = "up"
    /\ radio' = "associated"
    /\ UNCHANGED <<boot, reconnect, events, services, world, history>>

GetAddress ==
    /\ radio = "associated" /\ ap = "up"
    /\ radio' = "addressed"
    /\ events' = Append(events, "gotip")
    /\ fresh' = TRUE
    /\ UNCHANGED <<boot, reconnect, services, world, refused, missed>>

Disconnect ==
    /\ radio \in {"associating", "associated", "addressed"} /\ ap = "down"
    /\ radio' = "idle"
    /\ events' = Append(events, "disconnected")
    /\ UNCHANGED <<boot, reconnect, services, world, history>>

ApFails ==
    /\ ap = "up" /\ ap' = "down"
    /\ outages < MaxOutages /\ outages' = outages + 1
    /\ UNCHANGED <<boot, reconnect, events, services, radio, errors, history>>

ApReturns ==
    /\ ap = "down" /\ ap' = "up"
    /\ UNCHANGED <<boot, reconnect, events, services, radio, outages, errors,
                   history>>

-----------------------------------------------------------------------------
(* The MQTT client's task, over a broker that is there.                    *)

\* A session survives an outage, or dies of it with nobody noticing yet.
MqttMoves(from, to) ==
    /\ mqtt = from /\ mqtt' = to
    /\ UNCHANGED <<boot, reconnect, events, sntp, radio, world, history>>

MqttConnects == radio = "addressed" /\ MqttMoves("trying", "live")
MqttFails == radio # "addressed" /\ MqttMoves("trying", "waiting")
MqttTimer == MqttMoves("waiting", "trying")
SessionDies == radio # "addressed" /\ MqttMoves("live", "stale")
SessionNoticed == MqttMoves("stale", "waiting")

-----------------------------------------------------------------------------
Boot == StartWifi \/ Register
ReconnectTask == FirstAttempt \/ StartDelay \/ DelayOver
EventLoop == WifiEvent \/ GotIp
Driver == Associate \/ GetAddress \/ Disconnect
MqttTask ==
    MqttConnects \/ MqttFails \/ MqttTimer \/ SessionDies \/ SessionNoticed

Next ==
    \/ Boot \/ ReconnectTask \/ EventLoop
    \/ Driver \/ MqttTask \/ ApFails \/ ApReturns

Spec == Init /\ [][Next]_vars

\* Every task runs, the driver settles every association one way or the other,
\* and the client's timer fires.  The access point owes nothing.
Fairness ==
    /\ WF_vars(Boot) /\ WF_vars(ReconnectTask) /\ WF_vars(EventLoop)
    /\ WF_vars(Driver)
    /\ WF_vars(MqttConnects \/ MqttFails \/ MqttTimer \/ SessionNoticed)

FairSpec == Spec /\ Fairness

-----------------------------------------------------------------------------
(* Properties.                                                             *)

\* Somebody has yet to call esp_wifi_connect().
RequestPending ==
    \/ \E i \in DOMAIN events : events[i] # "gotip"
    \/ notified
    \/ task = "delaying"

\* A station that is down always has a retry on its way, unless
\* esp_wifi_connect() itself once returned an error, after which nothing asks
\* again; and no retry is on its way while it is up or coming up, so that
\* esp_wifi_connect() never disturbs an association.
OneWayBack ==
    /\ RequestPending => radio = "idle"
    /\ radio = "idle" => RequestPending \/ refused

\* The first wait of an outage is the shortest, however long the one before
\* took, wherever the address event and the disconnect met in the queue.
BackoffRestarts == fresh /\ task = "delaying" => delay = DelayMin

\* Once the access point stays, the station is back for good with its clock and
\* its session, whatever it went through before.  What it may lack: a service
\* the last address event found unregistered or failed to start, and everything
\* after a refused call.
Rejoins ==
    <>[](ap = "up") =>
        <>[](\/ radio = "idle" /\ refused
             \/ /\ radio = "addressed"
                /\ sntp \/ "sntp" \in missed
                /\ mqtt = "live" \/ "mqtt" \in missed)
=============================================================================
