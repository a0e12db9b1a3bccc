-------------------------- MODULE WifiStationProofs --------------------------
(***************************************************************************)
(* The station's safety, for any backoff range and any number of outages   *)
(* and failing calls.                                                      *)
(*                                                                         *)
(* OneWayBack is not inductive: it does not say that a retry is on its way *)
(* only once, nor what may wait in the queue beside it.  Place lists every *)
(* combination of radio, queue, notification and task that can arise: one  *)
(* token goes round from the radio through the queue to the notification,  *)
(* the task's delay and back to the radio.                                 *)
(***************************************************************************)
EXTENDS WifiStation, SequenceTheorems, TLAPS

TaskAtRest == task = "blocked" /\ ~notified

\* The queue while the station is down and the task not yet told.
LeaseThenLoss == Append(<<"gotip">>, "disconnected")
Queued == {<<"start">>, <<"disconnected">>, LeaseThenLoss}

Off == radio = "off" /\ boot = "wifi" /\ events = <<>> /\ TaskAtRest
Down == radio = "idle" /\ boot # "wifi"
Up == radio \in {"associating", "associated", "addressed"} /\ boot # "wifi"

Place ==
    \/ Off
    \/ Down /\ events \in Queued /\ TaskAtRest
    \/ Down /\ events = <<>> /\ notified /\ task = "blocked"
    \/ Down /\ events = <<>> /\ ~notified /\ task = "delaying"
    \/ Down /\ events = <<>> /\ TaskAtRest /\ refused
    \/ Up /\ events = <<>> /\ TaskAtRest
    \/ Up /\ radio = "addressed" /\ events = <<"gotip">> /\ TaskAtRest

\* A lease the event loop has not heard of yet is still in its queue.
Heard ==
    fresh => \/ delay = DelayMin
             \/ events # <<>> /\ Head(events) = "gotip"

IInv == TypeOK /\ Place /\ Heard

\* What the event loop's and the driver's operations come to on these queues.
LEMMA OneEvent ==
    /\ \A e : Append(<<>>, e) = <<e>>
    /\ \A e : <<e>> # <<>> /\ Head(<<e>>) = e /\ Tail(<<e>>) = <<>>
    /\ \A e \in Events : <<e>> \in Seq(Events)
  OBVIOUS

LEMMA TwoEvents ==
    /\ LeaseThenLoss \in Seq(Events) /\ LeaseThenLoss # <<>>
    /\ Head(LeaseThenLoss) = "gotip"
    /\ Tail(LeaseThenLoss) = <<"disconnected">>
  <1>1. <<"gotip">> \in Seq(Events) /\ "disconnected" \in Events
    BY OneEvent DEF Events
  <1>2. LeaseThenLoss \in Seq(Events) /\ LeaseThenLoss # <<>>
    BY <1>1, AppendProperties DEF LeaseThenLoss
  <1>3. /\ Head(LeaseThenLoss) = Head(<<"gotip">>)
        /\ Tail(LeaseThenLoss) = Append(Tail(<<"gotip">>), "disconnected")
    BY <1>1, OneEvent, HeadTailAppend DEF LeaseThenLoss
  <1> QED
    BY <1>2, <1>3, OneEvent

\* The queues of Place are queues of events.
LEMMA QueuesTyped ==
    /\ <<>> \in Seq(Events) /\ <<"gotip">> \in Seq(Events)
    /\ \A q \in Queued : q \in Seq(Events)
  BY OneEvent, TwoEvents DEF Queued, Events

\* The initial state is in the invariant: nothing has been started.
LEMMA InitInv == Init => IInv
  <1> SUFFICES ASSUME Init PROVE IInv
    OBVIOUS
  <1>1. FlagsOK
    BY DEF Init, FlagsOK
  <1>2. ValuesOK
    BY StationConstants DEF Init, ValuesOK, StationConstants
  <1>3. events \in Seq(Events)
    BY QueuesTyped DEF Init
  <1>4. Place
    BY DEF Init, Place, Off, TaskAtRest
  <1>5. Heard
    BY DEF Init, Heard
  <1> QED
    BY <1>1, <1>2, <1>3, <1>4, <1>5 DEF IInv, TypeOK

\* A backoff in its range doubles within it.
LEMMA DoubledInRange ==
    ASSUME delay \in DelayMin..DelayMax
    PROVE  Doubled \in DelayMin..DelayMax
  BY StationConstants DEF Doubled, StationConstants

\* An attempt, from whichever of the two places it is made, hands the token to
\* the radio, or loses it to a call that returned an error.
LEMMA AttemptKeeps ==
    ASSUME IInv, Attempt, notified' = FALSE,
           task = "delaying" \/ notified
    PROVE  IInv'
  <1>1. Down /\ events = <<>>
    BY DEF IInv, Place, TaskAtRest, Off
  <1>2. FlagsOK'
    BY DEF IInv, TypeOK, FlagsOK, Attempt, Error, services
  <1>3. ValuesOK'
    BY DoubledInRange, StationConstants
    DEF IInv, TypeOK, ValuesOK, Attempt, Error, services, StationConstants
  <1>4. events' \in Seq(Events)
    BY DEF IInv, TypeOK, Attempt
  <1>5. Place'
    BY <1>1 DEF Attempt, Place, Down, Up, TaskAtRest
  <1>6. Heard'
    BY DEF Attempt, Heard
  <1> QED
    BY <1>2, <1>3, <1>4, <1>5, <1>6 DEF IInv, TypeOK

\* The boot's first step wakes the driver; the others change nothing here.
LEMMA BootKeeps == ASSUME IInv, Boot PROVE IInv'
  <1>1. CASE StartWifi
    <2>1. Off
      BY <1>1 DEF IInv, Place, Down, Up, StartWifi
    <2>2. events' = <<"start">>
      BY <1>1, <2>1, OneEvent DEF StartWifi, Off
    <2>3. FlagsOK'
      BY <1>1 DEF IInv, TypeOK, FlagsOK, StartWifi, reconnect, services, history
    <2>4. ValuesOK'
      BY <1>1 DEF IInv, TypeOK, ValuesOK, StartWifi, reconnect, services, world,
                  history
    <2>5. Place'
      BY <1>1, <2>1, <2>2
      DEF Place, Down, Off, TaskAtRest, StartWifi, reconnect, Queued
    <2>6. Heard'
      BY <1>1, <2>1 DEF IInv, Heard, Off, StartWifi, reconnect, history
    <2> QED
      BY <2>2, <2>3, <2>4, <2>5, <2>6, QueuesTyped DEF IInv, TypeOK, Queued
  <1>2. CASE Register
    <2>1. FlagsOK'
      BY <1>2 DEF IInv, TypeOK, FlagsOK, Register, reconnect, services, history
    <2>2. ValuesOK'
      BY <1>2 DEF IInv, TypeOK, ValuesOK, Register, reconnect, services, world,
                  history
    <2>3. Place'
      BY <1>2 DEF IInv, Place, Down, Up, Off, TaskAtRest, Register, reconnect,
                  history
    <2>4. Heard' /\ events' \in Seq(Events)
      BY <1>2 DEF IInv, TypeOK, Heard, Register, reconnect, history
    <2> QED
      BY <2>1, <2>2, <2>3, <2>4 DEF IInv, TypeOK
  <1> QED
    BY <1>1, <1>2 DEF Boot

\* The task takes a notification only where it is the token.
LEMMA TaskKeeps == ASSUME IInv, ReconnectTask PROVE IInv'
  <1>1. CASE FirstAttempt
    BY <1>1, AttemptKeeps DEF FirstAttempt
  <1>2. CASE StartDelay
    <2>1. Down /\ events = <<>>
      BY <1>2 DEF StartDelay, IInv, Place, TaskAtRest, Off
    <2>2. FlagsOK'
      BY <1>2 DEF IInv, TypeOK, FlagsOK, StartDelay, services, history
    <2>3. ValuesOK'
      BY <1>2 DEF IInv, TypeOK, ValuesOK, StartDelay, services, world, history
    <2>4. Place'
      BY <1>2, <2>1 DEF Place, Down, StartDelay
    <2>5. Heard' /\ events' \in Seq(Events)
      BY <1>2 DEF IInv, TypeOK, Heard, StartDelay, history
    <2> QED
      BY <2>2, <2>3, <2>4, <2>5 DEF IInv, TypeOK
  <1>3. CASE DelayOver
    <2>1. ~notified
      BY <1>3 DEF DelayOver, IInv, Place, TaskAtRest, Off
    <2>2. notified' = FALSE
      BY <1>3, <2>1 DEF DelayOver, IInv, TypeOK, FlagsOK
    <2> QED
      BY <1>3, <2>2, AttemptKeeps DEF DelayOver
  <1> QED
    BY <1>1, <1>2, <1>3 DEF ReconnectTask

\* A start or a disconnect is alone in the queue once it is at its head, and
\* becomes the notification.
LEMMA WifiEventKeeps == ASSUME IInv, WifiEvent PROVE IInv'
  <1>1. /\ Down /\ TaskAtRest
        /\ events \in {<<"start">>, <<"disconnected">>}
    BY OneEvent, TwoEvents DEF WifiEvent, Dispatch, IInv, Place, Off, Queued
  <1>2. events' = <<>>
    BY <1>1, OneEvent DEF WifiEvent, Dispatch
  <1>3. FlagsOK'
    BY DEF IInv, TypeOK, FlagsOK, WifiEvent, services, history
  <1>4. ValuesOK'
    BY DEF IInv, TypeOK, ValuesOK, WifiEvent, services, world, history
  <1>5. Place'
    BY <1>1, <1>2 DEF Place, Down, TaskAtRest, WifiEvent
  <1>6. Heard'
    BY <1>1, OneEvent DEF IInv, Heard, WifiEvent, history
  <1> QED
    BY <1>2, <1>3, <1>4, <1>5, <1>6, QueuesTyped DEF IInv, TypeOK

\* An address event is first in the queue, with or without the loss after it.
LEMMA GotIpKeeps == ASSUME IInv, GotIp PROVE IInv'
  <1>1. /\ TaskAtRest
        /\ \/ Down /\ events = LeaseThenLoss
           \/ Up /\ radio = "addressed" /\ events = <<"gotip">>
    BY OneEvent, TwoEvents DEF GotIp, Dispatch, IInv, Place, Off, Queued
  <1>2. /\ events = LeaseThenLoss => events' = <<"disconnected">>
        /\ events = <<"gotip">> => events' = <<>>
    BY OneEvent, TwoEvents DEF GotIp, Dispatch
  <1>3. PICK failed \in SUBSET (Registered \ Started) :
          /\ IF failed = {} THEN UNCHANGED errors ELSE Error
          /\ sntp' = (sntp \/ "sntp" \in Registered \ failed)
          /\ mqtt' = MqttAfter(failed)
          /\ missed' = (Services \ Registered) \cup failed
    BY DEF GotIp
  <1>4. FlagsOK'
    BY <1>3 DEF IInv, TypeOK, FlagsOK, GotIp
  <1>5. ValuesOK'
    <2>1. delay' \in DelayMin..DelayMax
      BY StationConstants DEF GotIp, BackoffAfterAddress, StationConstants
    <2>2. mqtt' \in {"stopped", "trying", "waiting", "live", "stale"}
      BY <1>3 DEF IInv, TypeOK, ValuesOK, MqttAfter
    <2>3. missed' \subseteq {"sntp", "mqtt"}
      BY <1>3 DEF Services, Registered
    <2>4. errors' \in 0..MaxErrors
      BY <1>3, StationConstants
      DEF IInv, TypeOK, ValuesOK, Error, StationConstants
    <2> QED
      BY <2>1, <2>2, <2>3, <2>4 DEF IInv, TypeOK, ValuesOK, GotIp
  <1>6. Place'
    BY <1>1, <1>2 DEF Place, Down, Up, TaskAtRest, GotIp, Queued
  <1>7. Heard'
    BY DEF Heard, GotIp, BackoffAfterAddress
  <1>8. events' \in Seq(Events)
    BY <1>1, <1>2, QueuesTyped DEF Queued
  <1> QED
    BY <1>4, <1>5, <1>6, <1>7, <1>8 DEF IInv, TypeOK

\* The radio passes the token on with an event.
LEMMA DriverKeeps == ASSUME IInv, Driver PROVE IInv'
  <1>1. Up /\ TaskAtRest
    BY DEF Driver, Associate, GetAddress, Disconnect, IInv, Place, Off, Down
  <1>2. FlagsOK'
    BY DEF IInv, TypeOK, FlagsOK, Driver, Associate, GetAddress, Disconnect,
           reconnect, services, history
  <1>3. ValuesOK'
    BY DEF IInv, TypeOK, ValuesOK, Driver, Associate, GetAddress, Disconnect,
           reconnect, services, world, history
  <1>4. CASE Associate
    <2>1. events = <<>>
      BY <1>1, <1>4 DEF Associate, IInv, Place, Off, Down
    <2>2. Place'
      BY <1>1, <1>4, <2>1 DEF Place, Up, TaskAtRest, Associate, reconnect
    <2>3. Heard' /\ events' \in Seq(Events)
      BY <1>4 DEF IInv, TypeOK, Heard, Associate, reconnect, history
    <2> QED
      BY <1>2, <1>3, <2>2, <2>3 DEF IInv, TypeOK
  <1>5. CASE GetAddress
    <2>1. events' = <<"gotip">>
      BY <1>1, <1>5, OneEvent DEF GetAddress, IInv, Place, Off, Down
    <2>2. Place'
      BY <1>1, <1>5, <2>1 DEF Place, Up, TaskAtRest, GetAddress, reconnect
    <2>3. Heard'
      BY <2>1, OneEvent DEF Heard
    <2> QED
      BY <1>2, <1>3, <2>1, <2>2, <2>3, QueuesTyped DEF IInv, TypeOK
  <1>6. CASE Disconnect
    <2>1. \/ events = <<>> /\ events' = <<"disconnected">>
          \/ events = <<"gotip">> /\ events' = LeaseThenLoss
      BY <1>1, <1>6, OneEvent
      DEF Disconnect, IInv, Place, Off, Down, Up, LeaseThenLoss
    <2>2. Place'
      BY <1>1, <1>6, <2>1
      DEF Place, Up, Down, TaskAtRest, Disconnect, reconnect, Queued
    <2>3. Heard'
      BY <1>6, <2>1, TwoEvents, OneEvent
      DEF IInv, Heard, Disconnect, reconnect, history
    <2> QED
      BY <1>2, <1>3, <2>1, <2>2, <2>3, QueuesTyped DEF IInv, TypeOK, Queued
  <1> QED
    BY <1>4, <1>5, <1>6 DEF Driver

\* The access point and the client's task touch none of it.
LEMMA RestKeeps ==
    ASSUME IInv, MqttTask \/ ApFails \/ ApReturns \/ UNCHANGED vars
    PROVE  IInv'
  <1> DEFINE Same == UNCHANGED <<boot, reconnect, events, sntp, radio, errors,
                                 history>>
  <1>1. Same
    BY DEF MqttTask, MqttConnects, MqttFails, MqttTimer, SessionDies,
           SessionNoticed, MqttMoves, ApFails, ApReturns, vars, services, world
  <1>2. FlagsOK'
    BY <1>1 DEF IInv, TypeOK, FlagsOK, reconnect, history
  <1>3. ValuesOK'
    <2>1. mqtt' \in {"stopped", "trying", "waiting", "live", "stale"}
      BY DEF IInv, TypeOK, ValuesOK, MqttTask, MqttConnects, MqttFails,
             MqttTimer, SessionDies, SessionNoticed, MqttMoves, ApFails,
             ApReturns, vars, services
    <2>2. ap' \in {"up", "down"} /\ outages' \in 0..MaxOutages
      BY StationConstants
      DEF IInv, TypeOK, ValuesOK, MqttTask, MqttConnects, MqttFails,
          MqttTimer, SessionDies, SessionNoticed, MqttMoves, ApFails,
          ApReturns, vars, world, StationConstants
    <2> QED
      BY <1>1, <2>1, <2>2 DEF IInv, TypeOK, ValuesOK, reconnect, history
  <1>4. Place'
    BY <1>1 DEF IInv, Place, Off, Down, Up, TaskAtRest, reconnect, history
  <1>5. Heard' /\ events' \in Seq(Events)
    BY <1>1 DEF IInv, TypeOK, Heard, reconnect, history
  <1> QED
    BY <1>2, <1>3, <1>4, <1>5 DEF IInv, TypeOK

\* The invariant, for every step of every task.
LEMMA Inductive == Spec => []IInv
  <1>1. IInv /\ [Next]_vars => IInv'
    BY BootKeeps, TaskKeeps, WifiEventKeeps, GotIpKeeps, DriverKeeps, RestKeeps
    DEF Next, EventLoop
  <1> QED
    BY InitInv, <1>1, PTL DEF Spec

\* Every variable stays in its range, the backoff between its two ends.
THEOREM TypeCorrect == Spec => []TypeOK
  <1>1. IInv => TypeOK
    BY DEF IInv
  <1> QED
    BY Inductive, <1>1, PTL

\* There is always exactly one way back for a station that is down, and none
\* on its way while it is up: only a refused esp_wifi_connect() loses it.
THEOREM AlwaysOneWayBack == Spec => []OneWayBack
  <1>1. ASSUME IInv PROVE OneWayBack
    <2>1. events = <<>> => ~\E i \in DOMAIN events : events[i] # "gotip"
      OBVIOUS
    <2>2. \A e : DOMAIN <<e>> = {1} /\ <<e>>[1] = e
      OBVIOUS
    <2>3. \E i \in DOMAIN LeaseThenLoss : LeaseThenLoss[i] # "gotip"
      <3>1. <<"gotip">> \in Seq(Events) /\ Len(<<"gotip">>) = 1
        BY OneEvent DEF Events
      <3>2. /\ Len(LeaseThenLoss) = 2 /\ LeaseThenLoss[2] = "disconnected"
            /\ LeaseThenLoss \in Seq(Events)
        BY <3>1, AppendProperties DEF LeaseThenLoss, Events
      <3> QED
        BY <3>2
    <2>4. RequestPending => radio = "idle"
      BY <1>1, <2>1, <2>2
      DEF IInv, Place, RequestPending, Off, Down, Up, TaskAtRest
    <2>5. radio = "idle" => RequestPending \/ refused
      BY <1>1, <2>2, <2>3
      DEF IInv, Place, RequestPending, Queued, Off, Up
    <2> QED
      BY <2>4, <2>5 DEF OneWayBack
  <1> QED
    BY Inductive, <1>1, PTL

\* The address event is dispatched before the loss that follows it, so that the
\* first wait of an outage is always the shortest.
THEOREM OutageStartsAtTheBottom == Spec => []BackoffRestarts
  <1>1. ASSUME IInv PROVE BackoffRestarts
    BY <1>1 DEF IInv, Place, Heard, BackoffRestarts, Off, TaskAtRest
  <1> QED
    BY Inductive, <1>1, PTL
=============================================================================
