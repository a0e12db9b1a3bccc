------------------------ MODULE ConsumerRunnerProofs ------------------------
(***************************************************************************)
(* Safety of the consumer life cycle, for every number of connection       *)
(* attempts, every backoff range and every bound on signals and faults.    *)
(*                                                                         *)
(* None of the invariants the model checker runs is inductive by itself.   *)
(* IInv adds what each of them rests on: a process still running has       *)
(* decided on no exit code; a session in use starts from the floor of the  *)
(* backoff; start_consuming() only returns for a cancel or a stop.         *)
(***************************************************************************)
EXTENDS ConsumerRunner, TLAPS

InSession == pc \in {"attaching", "subscribing", "consuming", "closing"}

UndecidedWhileRunning == Running => exitCode = "none"
SessionStartsAtFloor == InSession => delay = DelayFloor
LinkFollowsSession ==
    /\ InSession => link # "none"
    /\ link # "none" => InSession \/ pc = "backoff"
SubscribedWhileConsuming == subscribed => pc = "consuming"
ReturnsForAReason == pc = "closing" => "cancelled" \in session \/ stopping

IInv ==
    /\ TypeOK
    /\ UndecidedWhileRunning
    /\ SessionStartsAtFloor
    /\ LinkFollowsSession
    /\ SubscribedWhileConsuming
    /\ ReturnsForAReason
    /\ StopBelongsToSession
    /\ OkOnlyWhenStopping
    /\ OnceConnectedNeverGivesUp
    /\ EscalatesOnlyWhileUnreachable

-----------------------------------------------------------------------------
\* The backoff stays between its floor and its cap.
LEMMA DoubledInRange ==
    ASSUME NEW d \in DelayFloor..DelayMax
    PROVE  Doubled(d) \in DelayFloor..DelayMax
  BY RunnerConstants DEF RunnerConstants, Doubled

LEMMA InitInvariant == Init => IInv
  <1> SUFFICES ASSUME Init PROVE IInv
    OBVIOUS
  <1> USE DEF Init, Fresh
  <1>1. FlagsOK
    BY DEF FlagsOK
  <1>2. ValuesOK
    BY RunnerConstants DEF RunnerConstants, ValuesOK, SessionFields
  <1>3. QED
    BY <1>1, <1>2
    DEF IInv, TypeOK, UndecidedWhileRunning, SessionStartsAtFloor,
        LinkFollowsSession, SubscribedWhileConsuming, ReturnsForAReason,
        StopBelongsToSession, OkOnlyWhenStopping,
        OnceConnectedNeverGivesUp, EscalatesOnlyWhileUnreachable, Running,
        InSession

\* The flags stay Booleans ...
LEMMA FlagsStep == FlagsOK /\ [Next]_vars => FlagsOK'
  <1> SUFFICES ASSUME FlagsOK, [Next]_vars PROVE FlagsOK'
    OBVIOUS
  <1> USE DEF FlagsOK
  <1>1. CASE ProcessStep
    BY <1>1 DEF ProcessStep, LeaveLoop, EnterConnect, ConnectOk, ConnectRetry,
                ConnectUnreachable, ConnectRejected, BackoffOver, OpenChannel,
                Subscribe, SubscribeNotFound, ConnectionLost, BrokerCancel,
                StopConsuming, CloseSession, DropSession, Exit, network
  <1>2. CASE NetworkStep
    BY <1>2 DEF NetworkStep, BrokerFails, LinkDrops, BrokerDenies,
                QueueDeleted, QueueDeclared, BrokerRecovers, process
  <1>3. CASE Signal
    BY <1>3 DEF Signal, Posts, Accepts, network
  <1>4. CASE Kill
    BY <1>4 DEF Kill, DropSession
  <1>5. CASE Restart
    BY <1>5 DEF Restart, network
  <1>6. CASE HandlerRaises
    BY <1>6 DEF HandlerRaises, DropSession, Exit
  <1>7. CASE UNCHANGED vars
    BY <1>7 DEF vars, process, network
  <1>8. QED
    BY <1>1, <1>2, <1>3, <1>4, <1>5, <1>6, <1>7 DEF Next

\* ... and every other variable stays in its set.
LEMMA ValuesStep == ValuesOK /\ [Next]_vars => ValuesOK'
  <1> SUFFICES ASSUME ValuesOK, [Next]_vars PROVE ValuesOK'
    OBVIOUS
  <1> USE RunnerConstants DEF RunnerConstants, ValuesOK, SessionFields
  <1>1. CASE Signal
    BY <1>1 DEF Signal, process, network
  <1>2. CASE LeaveLoop
    BY <1>2 DEF LeaveLoop, network, Exit
  <1>3. CASE EnterConnect
    BY <1>3 DEF EnterConnect, network
  <1>4. CASE ConnectOk
    BY <1>4 DEF ConnectOk, network, BackoffOnceConnected
  <1>5. CASE ConnectRetry
    BY <1>5 DEF ConnectRetry, network
  <1>6. CASE ConnectUnreachable
    BY <1>6 DEF ConnectUnreachable, network, UnreachableIsFatal, Exit
  <1>7. CASE ConnectRejected
    BY <1>7 DEF ConnectRejected, network, Exit
  <1>8. CASE OpenChannel
    BY <1>8 DEF OpenChannel, network
  <1>9. CASE Subscribe
    BY <1>9 DEF Subscribe, network
  <1>10. CASE SubscribeNotFound
    BY <1>10 DEF SubscribeNotFound, network, DropSession
  <1>11. CASE ConnectionLost
    BY <1>11 DEF ConnectionLost, network, DropSession, Exit
  <1>12. CASE BrokerCancel
    BY <1>12 DEF BrokerCancel, network, Cancelled
  <1>13. CASE StopConsuming
    BY <1>13 DEF StopConsuming, network
  <1>14. CASE CloseSession
    BY <1>14 DEF CloseSession, network, DropSession, Exit
  <1>15. CASE BackoffOver
    BY <1>15, DoubledInRange DEF BackoffOver, DropSession, network
  <1>16. CASE NetworkStep
    <2>1. CASE BrokerFails
      BY <2>1 DEF BrokerFails, Fault, Severed, process
    <2>2. CASE LinkDrops
      BY <2>2 DEF LinkDrops, Fault, process
    <2>3. CASE BrokerDenies
      BY <2>3 DEF BrokerDenies, Fault, process
    <2>4. CASE QueueDeleted
      BY <2>4 DEF QueueDeleted, Fault, process
    <2>5. CASE QueueDeclared
      BY <2>5 DEF QueueDeclared, process
    <2>6. CASE BrokerRecovers
      BY <2>6 DEF BrokerRecovers, process
    <2>7. QED
      BY <1>16, <2>1, <2>2, <2>3, <2>4, <2>5, <2>6 DEF NetworkStep
  <1>17. CASE Kill
    BY <1>17 DEF Kill, DropSession
  <1>18. CASE Restart
    BY <1>18 DEF Restart, network
  <1>19. CASE HandlerRaises
    BY <1>19 DEF HandlerRaises, DropSession, Exit
  <1>20. CASE UNCHANGED vars
    BY <1>20 DEF vars, process, network
  <1>21. QED
    BY <1>1, <1>2, <1>3, <1>4, <1>5, <1>6, <1>7, <1>8, <1>9, <1>10, <1>11,
       <1>12, <1>13, <1>14, <1>15, <1>16, <1>17, <1>18, <1>19, <1>20
    DEF Next, ProcessStep

LEMMA StepInvariant == IInv /\ [Next]_vars => IInv'
  <1> SUFFICES ASSUME IInv, [Next]_vars PROVE IInv'
    OBVIOUS
  <1>1. TypeOK'
    BY FlagsStep, ValuesStep DEF IInv, TypeOK
  <1> DEFINE Rest == /\ UndecidedWhileRunning
                     /\ SessionStartsAtFloor
                     /\ LinkFollowsSession
                     /\ SubscribedWhileConsuming
                     /\ ReturnsForAReason
                     /\ StopBelongsToSession
                     /\ OkOnlyWhenStopping
                     /\ OnceConnectedNeverGivesUp
                     /\ EscalatesOnlyWhileUnreachable
  <1> USE RunnerConstants
      DEF RunnerConstants, SessionFields, IInv, TypeOK, FlagsOK, ValuesOK,
          UndecidedWhileRunning, SessionStartsAtFloor,
          LinkFollowsSession, SubscribedWhileConsuming, ReturnsForAReason,
        StopBelongsToSession, OkOnlyWhenStopping,
          OnceConnectedNeverGivesUp, EscalatesOnlyWhileUnreachable, Running,
          InSession
  <1>2. CASE Signal
    <2>1. Rest'
      BY <1>2 DEF Signal, network, Posts, Accepts
    <2>2. QED
      BY <1>1, <2>1
  <1>3. CASE LeaveLoop \/ EnterConnect
    <2>1. Rest'
      BY <1>3 DEF LeaveLoop, EnterConnect, LoopAgain, Exit, network
    <2>2. QED
      BY <1>1, <2>1
  <1>4. CASE ConnectOk \/ ConnectRetry
    <2>1. Rest'
      BY <1>4 DEF ConnectOk, ConnectRetry, BackoffOnceConnected, network
    <2>2. QED
      BY <1>1, <2>1
  <1>5. CASE ConnectUnreachable \/ ConnectRejected
    <2>1. Rest'
      BY <1>5 DEF ConnectUnreachable, ConnectRejected, UnreachableIsFatal,
                  Exit, network
    <2>2. QED
      BY <1>1, <2>1
  <1>6. CASE BackoffOver
    <2>1. Rest'
      BY <1>6 DEF BackoffOver, DropSession, network
    <2>2. QED
      BY <1>1, <2>1
  <1>7. CASE OpenChannel \/ Subscribe \/ SubscribeNotFound
    <2>1. Rest'
      BY <1>7 DEF OpenChannel, Subscribe, SubscribeNotFound, DropSession,
                  network
    <2>2. QED
      BY <1>1, <2>1
  <1>8. CASE ConnectionLost \/ BrokerCancel
    <2>1. Rest'
      BY <1>8 DEF ConnectionLost, BrokerCancel, Cancelled, Attached,
                  DropSession, Exit, network
    <2>2. QED
      BY <1>1, <2>1
  <1>9. CASE StopConsuming \/ CloseSession
    <2>1. Rest'
      BY <1>9 DEF StopConsuming, CloseSession, DropSession, Exit, network
    <2>2. QED
      BY <1>1, <2>1
  <1>10. CASE NetworkStep
    <2>1. /\ UNCHANGED process
          /\ link' = link \/ (link = "up" /\ link' = "lost")
          /\ subscribed' = subscribed \/ subscribed' = FALSE
      BY <1>10 DEF NetworkStep, BrokerFails, LinkDrops, BrokerDenies,
                   QueueDeleted, QueueDeclared, BrokerRecovers, Severed
    <2>2. Rest'
      BY <2>1 DEF process
    <2>3. QED
      BY <1>1, <2>2
  <1>11. CASE Kill
    <2>1. Rest'
      BY <1>11 DEF Kill, DropSession
    <2>2. QED
      BY <1>1, <2>1
  <1>12. CASE Restart
    <2>1. Rest'
      BY <1>12 DEF Restart, network
    <2>2. QED
      BY <1>1, <2>1
  <1>13. CASE HandlerRaises
    <2>1. Rest'
      BY <1>13 DEF HandlerRaises, DropSession, Exit
    <2>2. QED
      BY <1>1, <2>1
  <1>14. CASE UNCHANGED vars
    <2>1. Rest'
      BY <1>14 DEF vars, process, network
    <2>2. QED
      BY <1>1, <2>1
  <1>15. QED
    BY <1>2, <1>3, <1>4, <1>5, <1>6, <1>7, <1>8, <1>9, <1>10, <1>11, <1>12,
       <1>13, <1>14
    DEF Next, ProcessStep

-----------------------------------------------------------------------------
LEMMA Invariance == Spec => []IInv
  BY InitInvariant, StepInvariant, PTL DEF Spec

\* Every variable of the life cycle keeps to its set; in particular the backoff
\* never leaves the range from its floor to RECONNECT_MAX_DELAY_SECONDS.
THEOREM TypeCorrect == Spec => []TypeOK
  <1>1. IInv => TypeOK
    BY DEF IInv
  <1>2. QED
    BY <1>1, Invariance, PTL

\* run_consumer returns EXIT_OK only in a process that was told to stop.
THEOREM OkMeansStopping == Spec => []OkOnlyWhenStopping
  <1>1. IInv => OkOnlyWhenStopping
    BY DEF IInv
  <1>2. QED
    BY <1>1, Invariance, PTL

\* A process that connected once never returns EXIT_UNREACHABLE.
THEOREM NeverGivesUp == Spec => []OnceConnectedNeverGivesUp
  <1>1. IInv => OnceConnectedNeverGivesUp
    BY DEF IInv
  <1>2. QED
    BY <1>1, Invariance, PTL

\* The wait after anything but an unreachable broker is the floor.
THEOREM EscalationIsForOutages == Spec => []EscalatesOnlyWhileUnreachable
  <1>1. IInv => EscalatesOnlyWhileUnreachable
    BY DEF IInv
  <1>2. QED
    BY <1>1, Invariance, PTL

\* A queued stop_consuming belongs to the session in use.
THEOREM StopIsCurrent == Spec => []StopBelongsToSession
  <1>1. IInv => StopBelongsToSession
    BY DEF IInv
  <1>2. QED
    BY <1>1, Invariance, PTL

\* After a signal the process starts no new round of connection attempts.
THEOREM StoppingStartsNoRound == Spec => NoNewRoundWhenStopping
  <1>1. [Next]_vars => [stopping /\ pc # "connecting" => pc' # "connecting"]_vars
    <2> SUFFICES ASSUME Next, stopping, pc # "connecting"
                 PROVE  pc' # "connecting"
      BY DEF vars
    <2>1. CASE ProcessStep
      BY <2>1 DEF ProcessStep, LeaveLoop, EnterConnect, LoopAgain, ConnectOk,
                  ConnectRetry, ConnectUnreachable, ConnectRejected,
                  BackoffOver, OpenChannel, Subscribe, SubscribeNotFound,
                  ConnectionLost, BrokerCancel, StopConsuming, CloseSession,
                  Exit, UnreachableIsFatal
    <2>2. CASE NetworkStep
      BY <2>2 DEF NetworkStep, BrokerFails, LinkDrops, BrokerDenies,
                  QueueDeleted, QueueDeclared, BrokerRecovers, process
    <2>3. CASE HandlerRaises \/ Signal \/ Kill \/ Restart
      BY <2>3 DEF HandlerRaises, Exit, Signal, Kill, Restart
    <2>4. QED
      BY <2>1, <2>2, <2>3 DEF Next
  <1>2. QED
    BY <1>1, PTL DEF Spec, NoNewRoundWhenStopping
=============================================================================
