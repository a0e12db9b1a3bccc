------------------------- MODULE StoreConsumerProofs -------------------------
(***************************************************************************)
(* Safety of the durable path, for any number of messages, any bodies, any *)
(* prefetch window, any write budget, with or without --requeue-poison,    *)
(* and any number of signals, faults and kills.                            *)
(*                                                                         *)
(*  - Every step of the path is a step of the consumer life cycle, so what *)
(*    is proved of ConsumerRunner holds here too.                          *)
(*  - Held says what the process may have in its hands: on a live link     *)
(*    deliveries the broker counts as its own, each once; on a dead link   *)
(*    nobody noticed, messages the broker has already taken back; outside  *)
(*    start_consuming(), nothing.                                          *)
(*  - Handled ties the handler's position to its message.                  *)
(*  - What parse() decides is what the contract says (of the bodies it    *)
(*    does not raise on): PayloadContractProofs.                           *)
(*  - From these: nothing is lost, an acknowledged message is stored, the  *)
(*    dead-letter queue holds off-contract messages only, and the path     *)
(*    implements the abstract AtLeastOnce.                                 *)
(*  - History, a second invariant proved on top of the first, says what    *)
(*    the past leaves behind: a pending message that is already stored is  *)
(*    redelivered or past its write, so every overwrite is explained; and  *)
(*    while storage answers, a shutdown abandons nothing.                  *)
(***************************************************************************)
EXTENDS StoreConsumer, PayloadContractProofs, SequenceTheorems,
        WellFoundedInduction, TLAPS

RP == INSTANCE ConsumerRunnerProofs

-----------------------------------------------------------------------------
(* The life cycle inside the path.                                         *)

LEMMA RunnerStep == [Next]_vars => [Runner!Next]_(Runner!vars)
  <1> SUFFICES ASSUME [Next]_vars
               PROVE  Runner!Next \/ UNCHANGED runner
    BY DEF runner, process, network, Runner!vars, Runner!process,
           Runner!network
  <1>1. CASE HandlerStep
    BY <1>1 DEF HandlerStep, Take, RejectPoison, SkipWrite, StartWrite,
                WriteOk, WriteFails, RetryWrite, GiveUp, StopRetrying,
                RequeueUnwritten, LeaveUnwritten, Ack
  <1>2. CASE LifeCycleStep
    BY <1>2 DEF LifeCycleStep, Quiet, ConnectionLost, StopConsuming,
                CloseSession, BackoffOver, ParseRaises, Runner!Next,
                Runner!ProcessStep
  <1>3. CASE ExternalStep
    BY <1>3 DEF ExternalStep, Publish, Deliver, LinkLost, BrokerDenies,
                BrokerRecovers, StorageFails, StorageRecovers, Runner!Next,
                Runner!NetworkStep
  <1>4. CASE Signal \/ Kill \/ Restart
    BY <1>4 DEF Signal, Kill, Restart, Runner!Next
  <1>5. CASE UNCHANGED vars
    BY <1>5 DEF vars
  <1>6. QED
    BY <1>1, <1>2, <1>3, <1>4, <1>5 DEF Next, ProcessStep

\* The consumer_store process keeps to the life cycle of run_consumer.
THEOREM KeepsLifeCycle == Spec => Runner!Spec
  <1>1. Init => Runner!Init
    BY DEF Init
  <1>2. QED
    BY <1>1, RunnerStep, PTL DEF Spec, Runner!Spec

\* ConsumerRunnerProofs is an instance of its own: the two instances agree.
LEMMA SameInit == Runner!Init <=> RP!Init
  BY DEF Runner!Init, RP!Init, Runner!Fresh, RP!Fresh

LEMMA SameNext == Runner!Next <=> RP!Next
  BY DEF
    Runner!Next, RP!Next, Runner!ProcessStep, RP!ProcessStep,
    Runner!NetworkStep, RP!NetworkStep, Runner!LeaveLoop, RP!LeaveLoop,
    Runner!EnterConnect, RP!EnterConnect, Runner!ConnectOk, RP!ConnectOk,
    Runner!ConnectRetry, RP!ConnectRetry, Runner!ConnectUnreachable,
    RP!ConnectUnreachable, Runner!ConnectRejected, RP!ConnectRejected,
    Runner!BackoffOver, RP!BackoffOver, Runner!OpenChannel, RP!OpenChannel,
    Runner!Subscribe, RP!Subscribe, Runner!SubscribeNotFound,
    RP!SubscribeNotFound, Runner!ConnectionLost, RP!ConnectionLost,
    Runner!BrokerCancel, RP!BrokerCancel, Runner!StopConsuming,
    RP!StopConsuming, Runner!CloseSession, RP!CloseSession,
    Runner!HandlerRaises, RP!HandlerRaises,
    Runner!BrokerFails, RP!BrokerFails, Runner!LinkDrops, RP!LinkDrops,
    Runner!BrokerDenies, RP!BrokerDenies, Runner!QueueDeleted,
    RP!QueueDeleted, Runner!QueueDeclared, RP!QueueDeclared,
    Runner!BrokerRecovers, RP!BrokerRecovers, Runner!Signal, RP!Signal,
    Runner!Kill, RP!Kill, Runner!Restart, RP!Restart, Runner!LoopAgain,
    RP!LoopAgain, Runner!BackoffOnceConnected, RP!BackoffOnceConnected,
    Runner!UnreachableIsFatal, RP!UnreachableIsFatal, Runner!Exit, RP!Exit,
    Runner!Doubled, RP!Doubled, Runner!Posts, RP!Posts, Runner!Accepts, RP!Accepts, Runner!DropSession,
    RP!DropSession, Runner!Attached, RP!Attached, Runner!Cancelled,
    RP!Cancelled, Runner!Fault, RP!Fault, Runner!Severed, RP!Severed,
    Runner!Running, RP!Running, Runner!process, RP!process, Runner!network,
    RP!network

LEMMA RunnerInitInvariant == Init => RP!IInv
  BY SameInit, RP!InitInvariant, RunnerAssumption
  DEF Init, Runner!RunnerConstants, RP!RunnerConstants

LEMMA RunnerStepInvariant == RP!IInv /\ [Next]_vars => RP!IInv'
  <1> SUFFICES ASSUME RP!IInv, [Next]_vars PROVE RP!IInv'
    OBVIOUS
  <1>1. [RP!Next]_(RP!vars)
    BY RunnerStep, SameNext
    DEF Runner!vars, RP!vars, Runner!process, RP!process, Runner!network,
        RP!network
  <1>2. QED
    BY <1>1, RP!StepInvariant, RunnerAssumption
    DEF Runner!RunnerConstants, RP!RunnerConstants

-----------------------------------------------------------------------------
(* The invariant of the deliveries.                                        *)

InHand == Range(prefetched) \cup ({cur} \ {NoMessage})

Held ==
    /\ pc # "consuming" => prefetched = <<>> /\ cur = NoMessage
    /\ link # "up" => unacked = {}
    /\ link = "up" => InHand \subseteq unacked
    /\ link = "lost" => InHand \subseteq ready
    /\ IsInjective(prefetched)
    /\ cur \notin Range(prefetched)

Handled ==
    /\ hpc = "idle" <=> cur = NoMessage
    /\ hpc = "poison" => cur \in OffContract
    /\ hpc \notin {"idle", "poison"} => cur \notin OffContract
    /\ hpc = "written" => cur \in stored

Deliveries ==
    /\ QueuesOK
    /\ HandlerOK
    /\ StorageOK
    /\ Held
    /\ Handled
    /\ NothingLost
    /\ AckedIsStored
    /\ PoisonIsApart

IInv == RP!IInv /\ FlagOK /\ Deliveries

-----------------------------------------------------------------------------
(* About the operators of the model.                                       *)

LEMMA EmptySequence == Range(<<>>) = {} /\ IsInjective(<<>>)
  BY DEF Range, IsInjective

\* Taking the oldest delivery splits it off the others.
LEMMA TakeSplits ==
    ASSUME NEW S, NEW s \in Seq(S), s # <<>>
    PROVE  /\ Head(s) \in S
           /\ Tail(s) \in Seq(S)
           /\ Range(s) = {Head(s)} \cup Range(Tail(s))
           /\ IsInjective(s) => /\ IsInjective(Tail(s))
                                /\ Head(s) \notin Range(Tail(s))
  <1>1. /\ Head(s) \in S /\ Tail(s) \in Seq(S)
        /\ Len(Tail(s)) = Len(s) - 1
        /\ \A i \in 1..Len(Tail(s)) : Tail(s)[i] = s[i + 1]
        /\ Len(s) \in Nat \ {0}
        /\ Head(s) = s[1]
    BY HeadTailProperties
  <1>2. DOMAIN s = 1..Len(s) /\ DOMAIN Tail(s) = 1..(Len(s) - 1)
    BY <1>1
  <1>3. Range(s) = {Head(s)} \cup Range(Tail(s))
    <2>1. ASSUME NEW i \in DOMAIN s PROVE s[i] \in {Head(s)} \cup Range(Tail(s))
      <3>1. CASE i = 1
        BY <3>1, <1>1
      <3>2. CASE i # 1
        <4>1. i - 1 \in 1..Len(Tail(s)) /\ Tail(s)[i - 1] = s[i]
          BY <3>2, <1>1, <1>2
        <4>2. QED
          BY <4>1, <1>1, <1>2 DEF Range
      <3>3. QED
        BY <3>1, <3>2
    <2>2. ASSUME NEW i \in DOMAIN Tail(s) PROVE Tail(s)[i] \in Range(s)
      <3>1. i + 1 \in DOMAIN s /\ Tail(s)[i] = s[i + 1]
        BY <1>1, <1>2
      <3>2. QED
        BY <3>1 DEF Range
    <2>3. Head(s) \in Range(s)
      BY <1>1, <1>2 DEF Range
    <2>4. QED
      BY <2>1, <2>2, <2>3 DEF Range
  <1>4. ASSUME IsInjective(s)
        PROVE  IsInjective(Tail(s)) /\ Head(s) \notin Range(Tail(s))
    <2>1. IsInjective(Tail(s))
      <3> SUFFICES ASSUME NEW i \in DOMAIN Tail(s), NEW j \in DOMAIN Tail(s),
                          Tail(s)[i] = Tail(s)[j]
                   PROVE  i = j
        BY DEF IsInjective
      <3>1. i + 1 \in DOMAIN s /\ j + 1 \in DOMAIN s /\ s[i + 1] = s[j + 1]
        BY <1>1, <1>2
      <3>2. i + 1 = j + 1
        BY <3>1, <1>4 DEF IsInjective
      <3>3. QED
        BY <3>2, <1>1, <1>2
    <2>2. ASSUME NEW i \in DOMAIN Tail(s) PROVE Tail(s)[i] # Head(s)
      <3>1. i + 1 \in DOMAIN s /\ 1 \in DOMAIN s /\ i + 1 # 1
        BY <1>1, <1>2
      <3>2. s[i + 1] # s[1]
        BY <3>1, <1>4 DEF IsInjective
      <3>3. QED
        BY <3>2, <1>1, <1>2
    <2>3. QED
      BY <2>1, <2>2 DEF Range
  <1>5. QED
    BY <1>1, <1>3, <1>4

\* A delivery joins the pending ones at their end.
LEMMA AppendJoins ==
    ASSUME NEW S, NEW s \in Seq(S), NEW x \in S
    PROVE  /\ Append(s, x) \in Seq(S)
           /\ Range(Append(s, x)) = Range(s) \cup {x}
           /\ IsInjective(s) /\ x \notin Range(s) => IsInjective(Append(s, x))
  <1> DEFINE t == Append(s, x)
  <1>1. /\ t \in Seq(S)
        /\ Len(t) = Len(s) + 1
        /\ \A i \in 1..Len(s) : t[i] = s[i]
        /\ t[Len(s) + 1] = x
    BY AppendProperties
  <1>2. DOMAIN s = 1..Len(s) /\ DOMAIN t = 1..(Len(s) + 1) /\ Len(s) \in Nat
    BY <1>1
  <1> HIDE DEF t
  <1>3. Range(t) = Range(s) \cup {x}
    BY <1>1, <1>2 DEF Range
  <1>4. ASSUME IsInjective(s), x \notin Range(s) PROVE IsInjective(t)
    <2> SUFFICES ASSUME NEW i \in DOMAIN t, NEW j \in DOMAIN t, t[i] = t[j]
                 PROVE  i = j
      BY DEF IsInjective
    <2>1. CASE i \in DOMAIN s /\ j \in DOMAIN s
      BY <2>1, <1>1, <1>2, <1>4 DEF IsInjective
    <2>2. CASE i \in DOMAIN s /\ j \notin DOMAIN s
      BY <2>2, <1>1, <1>2, <1>4 DEF Range
    <2>3. CASE i \notin DOMAIN s /\ j \in DOMAIN s
      BY <2>3, <1>1, <1>2, <1>4 DEF Range
    <2>4. CASE i \notin DOMAIN s /\ j \notin DOMAIN s
      BY <2>4, <1>2
    <2>5. QED
      BY <2>1, <2>2, <2>3, <2>4
  <1>5. QED
    BY <1>1, <1>3, <1>4 DEF t

\* The queue has a head: the oldest of its messages.
LEMMA MinIsMember ==
    ASSUME NEW S \in SUBSET Nat, S # {}
    PROVE  Min(S) \in S
  <1>1. PICK x \in S : \A y \in S : ~(<<y, x>> \in OpToRel(<, Nat))
    BY NatLessThanWellFounded, WFMin
  <1>2. ASSUME NEW y \in S PROVE x <= y
    <2>1. x \in Nat /\ y \in Nat
      OBVIOUS
    <2>2. ~(<<y, x>> \in {ss \in Nat \X Nat : ss[1] < ss[2]})
      BY <1>1 DEF OpToRel
    <2>3. ~(y < x)
      BY <2>1, <2>2
    <2>4. QED
      BY <2>1, <2>3
  <1>3. QED
    BY <1>2 DEF Min

-----------------------------------------------------------------------------
(* The invariant holds at first, and every step keeps it.                  *)

\* What the deliveries need to know of the life cycle.
LifeFacts ==
    /\ link \in {"none", "up", "lost"}
    /\ subscribed => pc = "consuming"
    /\ pc = "consuming" => link # "none"

LEMMA LifeFactsHold == RP!IInv => LifeFacts
  BY DEF LifeFacts, RP!IInv, RP!TypeOK, RP!ValuesOK, RP!LinkFollowsSession,
         RP!SubscribedWhileConsuming, RP!InSession

LEMMA InitDeliveries == Init => FlagOK /\ Deliveries
  <1> SUFFICES ASSUME Init PROVE FlagOK /\ Deliveries
    OBVIOUS
  <1> USE DEF Init
  <1>1. FlagOK
    BY DEF FlagOK
  <1>2. QueuesOK /\ HandlerOK /\ StorageOK
    BY StoreConstants
    DEF StoreConstants, QueuesOK, HandlerOK, StorageOK, NoMessage
  <1>3. Held /\ Handled
    BY EmptySequence DEF Held, Handled, InHand, NoMessage
  <1>4. NothingLost /\ AckedIsStored /\ PoisonIsApart
    BY DEF NothingLost, Published, AckedIsStored, PoisonIsApart
  <1>5. QED
    BY <1>1, <1>2, <1>3, <1>4 DEF Deliveries

\* storage_down stays a flag.
LEMMA FlagStep == FlagOK /\ [Next]_vars => FlagOK'
  <1> SUFFICES ASSUME FlagOK, [Next]_vars PROVE FlagOK'
    OBVIOUS
  <1> USE DEF FlagOK, handler
  <1>1. CASE HandlerStep
    BY <1>1 DEF HandlerStep, Take, RejectPoison, SkipWrite, StartWrite,
                WriteOk, WriteFails, RetryWrite, GiveUp, StopRetrying,
                RequeueUnwritten, LeaveUnwritten, Ack
  <1>2. CASE LifeCycleStep
    BY <1>2 DEF LifeCycleStep, Quiet, ConnectionLost, StopConsuming,
                CloseSession, BackoffOver, ParseRaises
  <1>3. CASE ExternalStep
    BY <1>3 DEF ExternalStep, Publish, Deliver, LinkLost, BrokerDenies,
                BrokerRecovers, StorageFails, StorageRecovers
  <1>4. CASE Signal \/ Kill \/ Restart
    BY <1>4 DEF Signal, Kill, Restart
  <1>5. CASE UNCHANGED vars
    BY <1>5 DEF vars
  <1>6. QED
    BY <1>1, <1>2, <1>3, <1>4, <1>5 DEF Next, ProcessStep

LEMMA NoMessageIsNotDelivered ==
    ASSUME Deliveries PROVE NoMessage \notin Range(prefetched)
  <1>1. prefetched \in Seq(1..N)
    BY DEF Deliveries, HandlerOK
  <1>2. Range(prefetched) \in SUBSET (1..N)
    BY <1>1, RangeOfSeq
  <1>3. QED
    BY <1>2 DEF NoMessage

\* A message in the handler is a message, and one the process may have.
LEMMA HandlerHasMessage ==
    ASSUME Deliveries, hpc # "idle"
    PROVE  /\ cur \in 1..N /\ cur # NoMessage
           /\ cur \in InHand
           /\ pc = "consuming"
  BY DEF Deliveries, Handled, HandlerOK, Held, InHand, NoMessage

\* Held after a step of the handler that keeps the message or returns.
LEMMA HeldByHandler ==
    ASSUME Deliveries,
           UNCHANGED <<pc, link, prefetched>>,
           cur' \in {cur, NoMessage},
           link # "up" => unacked' = {},
           link = "up" => InHand' \subseteq unacked',
           link = "lost" => ready \subseteq ready'
    PROVE  Held'
  <1>1. /\ Range(prefetched)' = Range(prefetched)
        /\ IsInjective(prefetched)' <=> IsInjective(prefetched)
    OBVIOUS
  <1>2. InHand' \subseteq InHand
    BY <1>1 DEF InHand
  <1>3. NoMessage \notin Range(prefetched)
    BY NoMessageIsNotDelivered
  <1>4. QED
    BY <1>1, <1>2, <1>3 DEF Held, Deliveries

\* A step that leaves the queues alone and settles nothing.
LEMMA HandlerKeepsQueues ==
    ASSUME Deliveries,
           UNCHANGED <<pc, link, prefetched, queues>>,
           cur' \in {cur, NoMessage},
           stored' = stored \/ (stored' = stored \cup {cur} /\ cur \notin OffContract)
    PROVE  /\ QueuesOK' /\ Held'
           /\ NothingLost' /\ AckedIsStored' /\ PoisonIsApart'
  <1>1. QueuesOK' /\ NothingLost'
    BY DEF Deliveries, QueuesOK, NothingLost, Published, queues
  <1>2. AckedIsStored' /\ PoisonIsApart'
    BY DEF Deliveries, AckedIsStored, PoisonIsApart, queues
  <1>3. Range(prefetched)' = Range(prefetched)
    OBVIOUS
  <1>4. InHand' \subseteq InHand
    BY <1>3 DEF InHand
  <1>5. Held'
    BY <1>4, HeldByHandler DEF Deliveries, Held, queues
  <1>6. QED
    BY <1>1, <1>2, <1>5

\* A settlement: over a live link the message leaves `unacked`.
LEMMA SettlingHolds ==
    ASSUME Deliveries, hpc # "idle",
           UNCHANGED <<pc, link, prefetched>>,
           cur' = NoMessage,
           unacked' = unacked \ Settled,
           ready' = ready \/ ready' = ready \cup Settled
    PROVE  Held'
  <1>1. Range(prefetched)' = Range(prefetched)
    OBVIOUS
  <1>2. InHand' = Range(prefetched) \ {NoMessage}
    <2>1. NoMessage \notin Range(prefetched)
      BY NoMessageIsNotDelivered
    <2>2. QED
      BY <1>1, <2>1 DEF InHand
  <1>3. link = "up" => InHand' \subseteq unacked'
    BY <1>2 DEF Deliveries, Held, InHand, Settled
  <1>4. link # "up" => unacked' = {}
    BY DEF Deliveries, Held
  <1>5. ready \subseteq ready'
    OBVIOUS
  <1>6. QED
    BY <1>3, <1>4, <1>5, HeldByHandler

\* What the handler rejects breaks the contract, what it writes keeps it.
LEMMA HandlerJudges ==
    ASSUME NEW m \in 1..N, m \notin Raising
    PROVE  m \in Poison <=> m \in OffContract
  <1>1. Body[m] \in Bodies
    BY StoreConstants DEF StoreConstants
  <1>2. Parse(Body[m]) \in {"accepted", "rejected"}
    BY DEF Raising, Parse, Verdict
  <1>3. QED
    BY <1>1, <1>2, ParseDecides DEF Poison, OffContract

\* The oldest pending delivery becomes the message in the handler.
LEMMA TakeHolds == ASSUME Deliveries, Take PROVE Deliveries'
  <1> USE DEF Take
  <1> DEFINE m == Head(prefetched)
  <1>1. /\ m \in 1..N
        /\ Tail(prefetched) \in Seq(1..N)
        /\ Range(prefetched) = {m} \cup Range(Tail(prefetched))
        /\ IsInjective(Tail(prefetched))
        /\ m \notin Range(Tail(prefetched))
    BY TakeSplits DEF Deliveries, HandlerOK, Held
  <1>2. /\ prefetched' = Tail(prefetched) /\ cur' = m
        /\ Range(prefetched)' = Range(Tail(prefetched))
        /\ IsInjective(prefetched)' <=> IsInjective(Tail(prefetched))
        /\ UNCHANGED <<pc, link, queues, influx>>
    BY DEF runner, process, network
  <1> HIDE DEF m
  <1>3. m # NoMessage /\ cur = NoMessage
    BY <1>1 DEF NoMessage, Deliveries, Handled
  <1>4. InHand' = InHand
    BY <1>1, <1>2, <1>3 DEF InHand
  <1>5. Held'
    BY <1>1, <1>2, <1>4 DEF Deliveries, Held, queues
  <1>6. QueuesOK' /\ StorageOK'
    BY <1>2 DEF Deliveries, QueuesOK, StorageOK, queues, influx
  <1>7. HandlerOK'
    BY <1>1, <1>2 DEF Deliveries, HandlerOK
  <1>8. Handled'
    <2>1. m \notin Raising
      BY DEF m
    <2>2. hpc' = IF m \in Poison THEN "poison" ELSE "good"
      BY DEF m
    <2>3. QED
      BY <1>1, <1>2, <1>3, <2>1, <2>2, HandlerJudges DEF Handled
  <1>9. NothingLost' /\ AckedIsStored' /\ PoisonIsApart'
    BY <1>2 DEF Deliveries, NothingLost, Published, AckedIsStored,
                PoisonIsApart, queues, influx
  <1>10. QED
    BY <1>5, <1>6, <1>7, <1>8, <1>9 DEF Deliveries

\* The handler's own steps, one by one.
LEMMA HandlerKeeps == ASSUME Deliveries, HandlerStep PROVE Deliveries'
  <1>1. CASE Take
    BY <1>1, TakeHolds
  <1>2. CASE SkipWrite
    <2> USE <1>2 DEF SkipWrite, Return
    <2>1. cur \in 1..N /\ cur # NoMessage
      BY HandlerHasMessage
    <2>2. /\ QueuesOK' /\ Held'
          /\ NothingLost' /\ AckedIsStored' /\ PoisonIsApart'
      BY HandlerKeepsQueues
      DEF Deliveries, Handled, runner, process, network, influx
    <2>3. HandlerOK' /\ StorageOK'
      BY <2>1, StoreConstants
      DEF StoreConstants, Deliveries, HandlerOK, StorageOK, NoMessage, influx
    <2>4. Handled'
      BY <2>1 DEF Deliveries, Handled, NoMessage, influx
    <2>5. QED
      BY <2>2, <2>3, <2>4 DEF Deliveries
  <1>3. CASE StartWrite
    <2> USE <1>3 DEF StartWrite
    <2>1. cur \in 1..N /\ cur # NoMessage
      BY HandlerHasMessage
    <2>2. /\ QueuesOK' /\ Held'
          /\ NothingLost' /\ AckedIsStored' /\ PoisonIsApart'
      BY HandlerKeepsQueues
      DEF Deliveries, Handled, runner, process, network, influx
    <2>3. HandlerOK' /\ StorageOK'
      BY <2>1, StoreConstants
      DEF StoreConstants, Deliveries, HandlerOK, StorageOK, NoMessage, influx
    <2>4. Handled'
      BY <2>1 DEF Deliveries, Handled, NoMessage, influx
    <2>5. QED
      BY <2>2, <2>3, <2>4 DEF Deliveries
  <1>4. CASE WriteOk
    <2> USE <1>4 DEF WriteOk
    <2>1. cur \in 1..N /\ cur # NoMessage
      BY HandlerHasMessage
    <2>2. /\ QueuesOK' /\ Held'
          /\ NothingLost' /\ AckedIsStored' /\ PoisonIsApart'
      BY HandlerKeepsQueues
      DEF Deliveries, Handled, runner, process, network, influx
    <2>3. HandlerOK' /\ StorageOK'
      BY <2>1, StoreConstants
      DEF StoreConstants, Deliveries, HandlerOK, StorageOK, NoMessage, influx
    <2>4. Handled'
      BY <2>1 DEF Deliveries, Handled, NoMessage, influx
    <2>5. QED
      BY <2>2, <2>3, <2>4 DEF Deliveries
  <1>5. CASE WriteFails
    <2> USE <1>5 DEF WriteFails
    <2>1. cur \in 1..N /\ cur # NoMessage
      BY HandlerHasMessage
    <2>2. /\ QueuesOK' /\ Held'
          /\ NothingLost' /\ AckedIsStored' /\ PoisonIsApart'
      BY HandlerKeepsQueues
      DEF Deliveries, Handled, runner, process, network, influx
    <2>3. HandlerOK' /\ StorageOK'
      BY <2>1, StoreConstants
      DEF StoreConstants, Deliveries, HandlerOK, StorageOK, NoMessage, influx
    <2>4. Handled'
      BY <2>1 DEF Deliveries, Handled, NoMessage, influx
    <2>5. QED
      BY <2>2, <2>3, <2>4 DEF Deliveries
  <1>6. CASE RetryWrite
    <2> USE <1>6 DEF RetryWrite
    <2>1. cur \in 1..N /\ cur # NoMessage
      BY HandlerHasMessage
    <2>2. /\ QueuesOK' /\ Held'
          /\ NothingLost' /\ AckedIsStored' /\ PoisonIsApart'
      BY HandlerKeepsQueues
      DEF Deliveries, Handled, runner, process, network, influx
    <2>3. HandlerOK' /\ StorageOK'
      BY <2>1, StoreConstants
      DEF StoreConstants, Deliveries, HandlerOK, StorageOK, NoMessage, influx
    <2>4. Handled'
      BY <2>1 DEF Deliveries, Handled, NoMessage, influx
    <2>5. QED
      BY <2>2, <2>3, <2>4 DEF Deliveries
  <1>7. CASE GiveUp
    <2> USE <1>7 DEF GiveUp
    <2>1. cur \in 1..N /\ cur # NoMessage
      BY HandlerHasMessage
    <2>2. /\ QueuesOK' /\ Held'
          /\ NothingLost' /\ AckedIsStored' /\ PoisonIsApart'
      BY HandlerKeepsQueues
      DEF Deliveries, Handled, runner, process, network, influx
    <2>3. HandlerOK' /\ StorageOK'
      BY <2>1, StoreConstants
      DEF StoreConstants, Deliveries, HandlerOK, StorageOK, NoMessage, influx
    <2>4. Handled'
      BY <2>1 DEF Deliveries, Handled, NoMessage, influx
    <2>5. QED
      BY <2>2, <2>3, <2>4 DEF Deliveries
  <1>8. CASE StopRetrying
    <2> USE <1>8 DEF StopRetrying, Return
    <2>1. cur \in 1..N /\ cur # NoMessage
      BY HandlerHasMessage
    <2>2. /\ QueuesOK' /\ Held'
          /\ NothingLost' /\ AckedIsStored' /\ PoisonIsApart'
      BY HandlerKeepsQueues
      DEF Deliveries, Handled, runner, process, network, influx
    <2>3. HandlerOK' /\ StorageOK'
      BY <2>1, StoreConstants
      DEF StoreConstants, Deliveries, HandlerOK, StorageOK, NoMessage, influx
    <2>4. Handled'
      BY <2>1 DEF Deliveries, Handled, NoMessage, influx
    <2>5. QED
      BY <2>2, <2>3, <2>4 DEF Deliveries
  <1>9. CASE LeaveUnwritten
    <2> USE <1>9 DEF LeaveUnwritten, Return
    <2>1. cur \in 1..N /\ cur # NoMessage
      BY HandlerHasMessage
    <2>2. /\ QueuesOK' /\ Held'
          /\ NothingLost' /\ AckedIsStored' /\ PoisonIsApart'
      BY HandlerKeepsQueues
      DEF Deliveries, Handled, runner, process, network, influx
    <2>3. HandlerOK' /\ StorageOK'
      BY <2>1, StoreConstants
      DEF StoreConstants, Deliveries, HandlerOK, StorageOK, NoMessage, influx
    <2>4. Handled'
      BY <2>1 DEF Deliveries, Handled, NoMessage, influx
    <2>5. QED
      BY <2>2, <2>3, <2>4 DEF Deliveries
  <1>10. CASE RejectPoison
    <2> USE <1>10 DEF RejectPoison, Returned, Settled, Return
    <2>1. /\ cur \in 1..N /\ cur # NoMessage
          /\ link = "up" => cur \in unacked
      BY HandlerHasMessage DEF Deliveries, Held
    <2>2. Held'
      BY SettlingHolds DEF runner, process, network
    <2>3. QueuesOK'
      BY <2>1 DEF Deliveries, QueuesOK
    <2>4. HandlerOK' /\ StorageOK'
      BY StoreConstants
      DEF StoreConstants, Deliveries, HandlerOK, StorageOK, NoMessage, influx
    <2>5. Handled'
      BY DEF Handled
    <2>6. NothingLost'
      BY <2>1 DEF Deliveries, NothingLost, Published
    <2>7. AckedIsStored' /\ PoisonIsApart'
      BY DEF Deliveries, Handled, AckedIsStored, PoisonIsApart, influx
    <2>8. QED
      BY <2>2, <2>3, <2>4, <2>5, <2>6, <2>7 DEF Deliveries
  <1>11. CASE RequeueUnwritten
    <2> USE <1>11 DEF RequeueUnwritten, Returned, Settled, Return
    <2>1. /\ cur \in 1..N /\ cur # NoMessage
          /\ link = "up" => cur \in unacked
      BY HandlerHasMessage DEF Deliveries, Held
    <2>2. Held'
      BY SettlingHolds DEF runner, process, network
    <2>3. QueuesOK'
      BY <2>1 DEF Deliveries, QueuesOK
    <2>4. HandlerOK' /\ StorageOK'
      BY StoreConstants
      DEF StoreConstants, Deliveries, HandlerOK, StorageOK, NoMessage, influx
    <2>5. Handled'
      BY DEF Handled
    <2>6. NothingLost'
      BY <2>1 DEF Deliveries, NothingLost, Published
    <2>7. AckedIsStored' /\ PoisonIsApart'
      BY DEF Deliveries, Handled, AckedIsStored, PoisonIsApart, influx
    <2>8. QED
      BY <2>2, <2>3, <2>4, <2>5, <2>6, <2>7 DEF Deliveries
  <1>12. CASE Ack
    <2> USE <1>12 DEF Ack, Settled, Return
    <2>1. /\ cur \in 1..N /\ cur # NoMessage
          /\ link = "up" => cur \in unacked
      BY HandlerHasMessage DEF Deliveries, Held
    <2>2. Held'
      BY SettlingHolds DEF runner, process, network
    <2>3. QueuesOK'
      BY <2>1 DEF Deliveries, QueuesOK
    <2>4. HandlerOK' /\ StorageOK'
      BY StoreConstants
      DEF StoreConstants, Deliveries, HandlerOK, StorageOK, NoMessage, influx
    <2>5. Handled'
      BY DEF Handled
    <2>6. NothingLost'
      BY <2>1 DEF Deliveries, NothingLost, Published
    <2>7. AckedIsStored' /\ PoisonIsApart'
      BY DEF Deliveries, Handled, AckedIsStored, PoisonIsApart, influx
    <2>8. QED
      BY <2>2, <2>3, <2>4, <2>5, <2>6, <2>7 DEF Deliveries
  <1>13. QED
    BY <1>1, <1>2, <1>3, <1>4, <1>5, <1>6, <1>7, <1>8, <1>9, <1>10, <1>11,
       <1>12
    DEF HandlerStep

\* Moving deliveries back to ready keeps the account.
LEMMA ReturnedKeepsAccount ==
    ASSUME Deliveries, NEW S \in SUBSET unacked, Returned(S),
           UNCHANGED <<sent, acked, dlq, influx>>
    PROVE  /\ QueuesOK' /\ StorageOK'
           /\ NothingLost' /\ AckedIsStored' /\ PoisonIsApart'
  BY DEF Deliveries, Returned, QueuesOK, StorageOK, NothingLost, Published,
         AckedIsStored, PoisonIsApart, influx

\* The process has nothing in its hands after a session, and outside one.
LEMMA ForgetHolds ==
    ASSUME Deliveries, Forget, link' # "up" => unacked' = {}
    PROVE  HandlerOK' /\ Held' /\ Handled'
  <1>1. /\ prefetched' = <<>> /\ cur' = NoMessage /\ hpc' = "idle"
        /\ tries' = tries
    BY DEF Forget
  <1>2. Range(prefetched)' = {} /\ IsInjective(prefetched)'
    BY <1>1, EmptySequence
  <1>3. HandlerOK'
    BY <1>1, StoreConstants
    DEF StoreConstants, Deliveries, HandlerOK, NoMessage
  <1>4. InHand' = {}
    BY <1>1, <1>2 DEF InHand
  <1>5. Held'
    BY <1>1, <1>2, <1>4 DEF Held
  <1>6. Handled'
    BY <1>1 DEF Handled
  <1>7. QED
    BY <1>3, <1>5, <1>6

\* A step that touches only the life cycle, outside start_consuming().
LEMMA OutsideConsuming ==
    ASSUME Deliveries, pc # "consuming", link' \in {link, "up"},
           UNCHANGED <<queues, prefetched, cur, hpc, tries, influx>>
    PROVE  Deliveries'
  <1>1. prefetched = <<>> /\ cur = NoMessage
    BY DEF Deliveries, Held
  <1>2. Range(prefetched)' = {} /\ IsInjective(prefetched)'
    BY <1>1, EmptySequence
  <1>3. InHand' = {}
    BY <1>1, <1>2 DEF InHand
  <1>4. Held'
    BY <1>1, <1>2, <1>3 DEF Deliveries, Held, queues
  <1>5. QueuesOK' /\ HandlerOK' /\ StorageOK' /\ Handled'
    BY DEF Deliveries, QueuesOK, HandlerOK, StorageOK, Handled, queues, influx
  <1>6. NothingLost' /\ AckedIsStored' /\ PoisonIsApart'
    BY DEF Deliveries, NothingLost, Published, AckedIsStored, PoisonIsApart,
           queues, influx
  <1>7. QED
    BY <1>4, <1>5, <1>6 DEF Deliveries

\* A step that leaves all of it alone.
LEMMA NothingDelivered ==
    ASSUME Deliveries, UNCHANGED <<pc, link, queues, prefetched, cur, hpc,
                                   tries, stored>>,
           StorageOK'
    PROVE  Deliveries'
  <1>1. Range(prefetched)' = Range(prefetched)
        /\ (IsInjective(prefetched)' <=> IsInjective(prefetched))
    OBVIOUS
  <1>2. Held'
    BY <1>1 DEF Deliveries, Held, InHand, queues
  <1>3. QueuesOK' /\ HandlerOK' /\ Handled'
    BY DEF Deliveries, QueuesOK, HandlerOK, Handled, queues
  <1>4. NothingLost' /\ AckedIsStored' /\ PoisonIsApart'
    BY DEF Deliveries, NothingLost, Published, AckedIsStored, PoisonIsApart,
           queues
  <1>5. QED
    BY <1>2, <1>3, <1>4 DEF Deliveries

LEMMA LifeCycleKeeps ==
    ASSUME Deliveries, LifeCycleStep PROVE Deliveries'
  <1>1. CASE Quiet
    <2>1. /\ pc # "consuming" /\ link' \in {link, "up"}
          /\ UNCHANGED <<queues, prefetched, cur, hpc, tries, influx>>
      BY <1>1
      DEF Quiet, handler, Runner!LeaveLoop, Runner!EnterConnect,
          Runner!ConnectOk, Runner!ConnectRetry, Runner!ConnectUnreachable,
          Runner!ConnectRejected, Runner!OpenChannel,
          Runner!Subscribe, Runner!network
    <2>2. QED
      BY <2>1, OutsideConsuming
  <1>2. CASE ConnectionLost
    <2>1. link = "lost" /\ link' = "none" /\ unacked = {}
      BY <1>2 DEF ConnectionLost, Runner!ConnectionLost, Runner!DropSession,
                  Deliveries, Held
    <2>2. HandlerOK' /\ Held' /\ Handled'
      BY <1>2, <2>1, ForgetHolds DEF ConnectionLost, queues
    <2>3. /\ QueuesOK' /\ StorageOK'
          /\ NothingLost' /\ AckedIsStored' /\ PoisonIsApart'
      BY <1>2 DEF ConnectionLost, Deliveries, QueuesOK, StorageOK,
                  NothingLost, Published, AckedIsStored, PoisonIsApart,
                  queues, influx
    <2>4. QED
      BY <2>2, <2>3 DEF Deliveries
  <1>3. CASE StopConsuming
    <2>1. link' = "up"
      BY <1>3 DEF StopConsuming, Runner!StopConsuming
    <2>2. HandlerOK' /\ Held' /\ Handled'
      BY <1>3, <2>1, ForgetHolds DEF StopConsuming
    <2>3. QED
      BY <1>3, <2>2, ReturnedKeepsAccount DEF StopConsuming, Deliveries
  <1>4. CASE CloseSession \/ BackoffOver
    <2>1. unacked' = {}
      BY <1>4 DEF CloseSession, BackoffOver, Returned
    <2>2. HandlerOK' /\ Held' /\ Handled'
      BY <1>4, <2>1, ForgetHolds DEF CloseSession, BackoffOver
    <2>3. QED
      BY <1>4, <2>2, ReturnedKeepsAccount
      DEF CloseSession, BackoffOver, Deliveries
  <1>5. CASE ParseRaises
    <2>1. unacked' = {}
      BY <1>5 DEF ParseRaises, Returned
    <2>2. HandlerOK' /\ Held' /\ Handled'
      BY <1>5, <2>1, ForgetHolds DEF ParseRaises
    <2>3. QED
      BY <1>5, <2>2, ReturnedKeepsAccount DEF ParseRaises, Deliveries
  <1>6. QED
    BY <1>1, <1>2, <1>3, <1>4, <1>5 DEF LifeCycleStep

LEMMA PublishKeeps == ASSUME Deliveries, Publish PROVE Deliveries'
  <1> USE DEF Publish
  <1>1. /\ UNCHANGED <<pc, link, prefetched, cur, hpc, tries, unacked, acked,
                       dlq, stored, redelivered>>
        /\ ready \subseteq ready'
    BY DEF runner, process, network, handler, influx
  <1>2. Range(prefetched)' = Range(prefetched)
        /\ (IsInjective(prefetched)' <=> IsInjective(prefetched))
    BY <1>1
  <1>3. Held'
    BY <1>1, <1>2 DEF Deliveries, Held, InHand
  <1>4. QueuesOK'
    BY StoreConstants DEF StoreConstants, Deliveries, QueuesOK
  <1>5. NothingLost'
    <2>1. sent \in Nat /\ sent + 1 \notin 1..sent
          /\ 1..(sent + 1) = (1..sent) \cup {sent + 1}
      BY StoreConstants DEF StoreConstants, Deliveries, QueuesOK
    <2>2. QED
      BY <1>1, <2>1 DEF Deliveries, NothingLost, Published
  <1>6. HandlerOK' /\ StorageOK' /\ Handled' /\ AckedIsStored' /\ PoisonIsApart'
    BY <1>1 DEF Deliveries, HandlerOK, StorageOK, Handled, AckedIsStored,
                PoisonIsApart, influx
  <1>7. QED
    BY <1>3, <1>4, <1>5, <1>6 DEF Deliveries

LEMMA DeliverKeeps == ASSUME Deliveries, LifeFacts, Deliver PROVE Deliveries'
  <1> USE DEF Deliver
  <1> DEFINE m == Min(ready)
  <1>1. m \in ready /\ m \in 1..N /\ ready \subseteq 1..N
    <2>1. ready \subseteq 1..N /\ ready # {}
      BY DEF Deliveries, QueuesOK
    <2>2. ready \in SUBSET Nat
      BY <2>1
    <2>3. m \in ready
      BY <2>1, <2>2, MinIsMember
    <2>4. QED
      BY <2>1, <2>3
  <1>2. /\ ready' = ready \ {m} /\ unacked' = unacked \cup {m}
        /\ prefetched' = Append(prefetched, m)
        /\ UNCHANGED <<pc, link, cur, hpc, tries, sent, acked, dlq,
                       redelivered, influx>>
    BY DEF runner, process, network
  <1> HIDE DEF m
  <1>3. link = "up" /\ pc = "consuming"
    BY DEF LifeFacts
  <1>4. m \notin InHand
    BY <1>1, <1>3 DEF Deliveries, Held, NothingLost
  <1>5. /\ prefetched' \in Seq(1..N)
        /\ Range(prefetched') = Range(prefetched) \cup {m}
        /\ IsInjective(prefetched')
    <2>1. prefetched \in Seq(1..N) /\ IsInjective(prefetched)
      BY DEF Deliveries, HandlerOK, Held
    <2>2. m \notin Range(prefetched)
      BY <1>4 DEF InHand
    <2>3. /\ Append(prefetched, m) \in Seq(1..N)
          /\ Range(Append(prefetched, m)) = Range(prefetched) \cup {m}
          /\ IsInjective(Append(prefetched, m))
      <3> HIDE DEF Deliver, m
      <3>1. m \in 1..N
        BY <1>1
      <3>2. \A q \in Seq(1..N), x \in 1..N :
              /\ Append(q, x) \in Seq(1..N)
              /\ Range(Append(q, x)) = Range(q) \cup {x}
              /\ IsInjective(q) /\ x \notin Range(q)
                    => IsInjective(Append(q, x))
        BY ONLY AppendJoins
      <3>3. QED
        BY ONLY <2>1, <2>2, <3>1, <3>2, Zenon
    <2>4. QED
      BY <1>2, <2>3
  <1>6. cur \notin Range(prefetched')
    <2>1. cur # m
      BY <1>1, <1>4 DEF InHand, NoMessage
    <2>2. QED
      BY <1>5, <2>1 DEF Deliveries, Held
  <1>7. InHand' = InHand \cup {m}
    BY <1>1, <1>2, <1>5 DEF InHand, NoMessage
  <1>8. Held'
    BY <1>2, <1>3, <1>5, <1>6, <1>7 DEF Deliveries, Held
  <1>9. QueuesOK' /\ HandlerOK'
    BY <1>1, <1>2, <1>5 DEF Deliveries, QueuesOK, HandlerOK
  <1>10. NothingLost'
    BY <1>1, <1>2 DEF Deliveries, NothingLost, Published
  <1>11. StorageOK' /\ Handled' /\ AckedIsStored' /\ PoisonIsApart'
    BY <1>2 DEF Deliveries, StorageOK, Handled, AckedIsStored, PoisonIsApart,
                influx
  <1>12. QED
    BY <1>8, <1>9, <1>10, <1>11 DEF Deliveries

LEMMA LinkLostKeeps == ASSUME Deliveries, LinkLost PROVE Deliveries'
  <1> USE DEF LinkLost
  <1>1. /\ unacked' = {} /\ ready' = ready \cup unacked
        /\ link' # "up"
        /\ link' = "lost" => link \in {"up", "lost"}
        /\ UNCHANGED <<pc, prefetched, cur, hpc, tries>>
    BY DEF Returned, Runner!LinkDrops, Runner!BrokerFails, Runner!Severed,
           Runner!process, handler
  <1>2. Range(prefetched)' = Range(prefetched)
        /\ (IsInjective(prefetched)' <=> IsInjective(prefetched))
    BY <1>1
  <1>3. InHand' = InHand
    BY <1>1, <1>2 DEF InHand
  <1>4. Held'
    BY <1>1, <1>2, <1>3 DEF Deliveries, Held
  <1>5. /\ QueuesOK' /\ StorageOK'
        /\ NothingLost' /\ AckedIsStored' /\ PoisonIsApart'
    BY ReturnedKeepsAccount
  <1>6. HandlerOK' /\ Handled'
    BY <1>1 DEF Deliveries, HandlerOK, Handled, influx
  <1>7. QED
    BY <1>4, <1>5, <1>6 DEF Deliveries

LEMMA ExternalKeeps ==
    ASSUME Deliveries, LifeFacts, ExternalStep PROVE Deliveries'
  <1>1. CASE Publish
    BY <1>1, PublishKeeps
  <1>2. CASE Deliver
    BY <1>2, DeliverKeeps
  <1>3. CASE LinkLost
    BY <1>3, LinkLostKeeps
  <1>4. CASE BrokerDenies \/ BrokerRecovers
    <2>1. /\ UNCHANGED <<pc, link, queues, prefetched, cur, hpc, tries, stored>>
          /\ UNCHANGED influx
      BY <1>4 DEF BrokerDenies, BrokerRecovers, Runner!BrokerDenies,
                  Runner!BrokerRecovers, Runner!process, handler, influx
    <2>2. StorageOK'
      BY <2>1 DEF Deliveries, StorageOK, influx
    <2>3. QED
      BY <2>1, <2>2, NothingDelivered
  <1>5. CASE StorageFails \/ StorageRecovers
    <2>1. UNCHANGED <<pc, link, queues, prefetched, cur, hpc, tries, stored>>
      BY <1>5 DEF StorageFails, StorageRecovers, runner, process, network,
                  handler
    <2>2. StorageOK /\ MaxOutages \in Nat
      BY StoreConstants DEF StoreConstants, Deliveries
    <2>3. ASSUME StorageFails PROVE StorageOK'
      <3>1. outages' \in 0..MaxOutages
        BY <2>2, <2>3 DEF StorageFails, StorageOK
      <3>2. storage' \in {"up", "refusing", "silent"} /\ stored' = stored
        BY <2>3 DEF StorageFails
      <3>3. QED
        BY <2>2, <3>1, <3>2 DEF StorageOK
    <2>4. ASSUME StorageRecovers PROVE StorageOK'
      <3>1. storage' = "up" /\ stored' = stored /\ outages' = outages
        BY <2>4 DEF StorageRecovers
      <3>2. QED
        BY <2>2, <3>1 DEF StorageOK
    <2>5. QED
      BY <1>5, <2>1, <2>3, <2>4, NothingDelivered
  <1>6. QED
    BY <1>1, <1>2, <1>3, <1>4, <1>5 DEF ExternalStep

LEMMA StepInvariant == IInv /\ [Next]_vars => IInv'
  <1> SUFFICES ASSUME IInv, [Next]_vars PROVE IInv'
    OBVIOUS
  <1>1. RP!IInv' /\ FlagOK'
    BY RunnerStepInvariant, FlagStep DEF IInv
  <1>2. LifeFacts /\ Deliveries
    BY LifeFactsHold DEF IInv
  <1>3. Deliveries'
    <2>1. CASE HandlerStep
      BY <1>2, <2>1, HandlerKeeps
    <2>2. CASE LifeCycleStep
      BY <1>2, <2>2, LifeCycleKeeps
    <2>3. CASE ExternalStep
      BY <1>2, <2>3, ExternalKeeps
    <2>4. CASE Signal
      <3>1. /\ UNCHANGED <<pc, link, queues, prefetched, cur, hpc, tries,
                           stored>>
            /\ UNCHANGED influx
        BY <2>4 DEF Signal, Runner!Signal, Runner!network, handler, influx
      <3>2. StorageOK'
        BY <1>2, <3>1 DEF Deliveries, StorageOK, influx
      <3>3. QED
        BY <1>2, <3>1, <3>2, NothingDelivered
    <2>5. CASE Kill
      <3>1. unacked' = {}
        BY <2>5 DEF Kill, Returned
      <3>2. HandlerOK' /\ Held' /\ Handled'
        BY <1>2, <2>5, <3>1, ForgetHolds DEF Kill
      <3>3. QED
        BY <1>2, <2>5, <3>2, ReturnedKeepsAccount DEF Kill, Deliveries
    <2>6. CASE Restart
      <3>1. /\ pc # "consuming" /\ link' = link
            /\ UNCHANGED <<queues, prefetched, cur, hpc, tries, influx>>
        BY <2>6 DEF Restart, Runner!Restart, Runner!Running, Runner!network
      <3>2. QED
        BY <1>2, <3>1, OutsideConsuming
    <2>7. CASE UNCHANGED vars
      <3>1. /\ UNCHANGED <<pc, link, queues, prefetched, cur, hpc, tries,
                           stored>>
            /\ UNCHANGED influx
        BY <2>7 DEF vars, runner, process, network, handler, influx
      <3>2. StorageOK'
        BY <1>2, <3>1 DEF Deliveries, StorageOK, influx
      <3>3. QED
        BY <1>2, <3>1, <3>2, NothingDelivered
    <2>8. QED
      BY <2>1, <2>2, <2>3, <2>4, <2>5, <2>6, <2>7 DEF Next, ProcessStep
  <1>4. QED
    BY <1>1, <1>3 DEF IInv

LEMMA Invariance == Spec => []IInv
  <1>1. Init => IInv
    BY RunnerInitInvariant, InitDeliveries DEF IInv
  <1>2. QED
    BY <1>1, StepInvariant, PTL DEF Spec

-----------------------------------------------------------------------------
(* What follows.                                                           *)

\* Every variable of the durable path, the life cycle's included, keeps to its
\* set.
THEOREM TypeCorrect == Spec => []TypeOK
  <1>1. IInv => TypeOK
    BY DEF IInv, Deliveries, TypeOK, RP!IInv, RP!TypeOK, RP!FlagsOK,
           RP!ValuesOK, RP!SessionFields, Runner!TypeOK, Runner!FlagsOK,
           Runner!ValuesOK, Runner!SessionFields
  <1>2. QED
    BY <1>1, Invariance, PTL

\* No crash, reconnect, shutdown, outage or requeue loses a message the broker
\* accepted, or settles one twice.
THEOREM NothingIsLost == Spec => []NothingLost
  <1>1. IInv => NothingLost
    BY DEF IInv, Deliveries
  <1>2. QED
    BY <1>1, Invariance, PTL

\* The acknowledgement comes strictly after the confirmed write.
THEOREM AckAfterWrite == Spec => []AckedIsStored
  <1>1. IInv => AckedIsStored
    BY DEF IInv, Deliveries
  <1>2. QED
    BY <1>1, Invariance, PTL

\* telemetry.dlq means "this message failed the payload contract".
THEOREM DeadLettersArePoison == Spec => []PoisonIsApart
  <1>1. IInv => PoisonIsApart
    BY DEF IInv, Deliveries
  <1>2. QED
    BY <1>1, Invariance, PTL

\* What the process holds on a live link is the broker's to it, each once.
THEOREM HoldsItsOwn == Spec => []SettlesOnlyItsOwn
  <1>1. IInv => SettlesOnlyItsOwn
    <2> SUFFICES ASSUME IInv, link = "up"
                 PROVE  /\ Range(prefetched) \subseteq unacked
                        /\ cur # NoMessage => cur \in unacked \ Range(prefetched)
                        /\ IsInjective(prefetched)
      BY DEF SettlesOnlyItsOwn
    <2>1. QED
      BY DEF IInv, Deliveries, Held, InHand
  <1>2. QED
    BY <1>1, Invariance, PTL

-----------------------------------------------------------------------------
(* The path implements AtLeastOnce.                                        *)

\* What the process holds is, on either kind of link, still pending.
LEMMA HandledIsPending ==
    ASSUME Deliveries, LifeFacts, hpc # "idle"
    PROVE  cur \in 1..N /\ cur \in ready \cup unacked
  <1>1. cur \in 1..N /\ cur \in InHand /\ pc = "consuming"
    BY HandlerHasMessage
  <1>2. link \in {"up", "lost"}
    BY <1>1 DEF LifeFacts
  <1>3. QED
    BY <1>1, <1>2 DEF Deliveries, Held

\* Giving deliveries back changes nothing of what is promised.
LEMMA ReturnedIsStutter ==
    ASSUME Deliveries, NEW S \in SUBSET unacked, Returned(S),
           UNCHANGED <<acked, dlq, stored>>
    PROVE  UNCHANGED ALO!vars
  BY DEF Deliveries, Returned, ALO!vars

LEMMA WriteIsWrite ==
    ASSUME Deliveries, LifeFacts, WriteOk \/ WriteFails
    PROVE  ALO!Next \/ UNCHANGED ALO!vars
  <1>1. hpc = "write" /\ UNCHANGED queues
    BY DEF WriteOk, WriteFails
  <1>2. cur \in 1..N /\ cur \in (ready \cup unacked) \ OffContract
    BY <1>1, HandledIsPending DEF Deliveries, Handled
  <1>3. stored' = stored \/ stored' = stored \cup {cur}
    BY DEF WriteOk, WriteFails
  <1>4. CASE stored' = stored
    BY <1>1, <1>4 DEF queues, ALO!vars
  <1>5. CASE stored' = stored \cup {cur}
    <2>1. ALO!Write(cur)
      BY <1>1, <1>2, <1>5 DEF queues, ALO!Write
    <2>2. QED
      BY <1>2, <2>1 DEF ALO!Next
  <1>6. QED
    BY <1>3, <1>4, <1>5

\* On a live link the acknowledgement finishes its message; on a dead one it
\* goes nowhere.
LEMMA AckIsFinish ==
    ASSUME Deliveries, LifeFacts, Ack
    PROVE  ALO!Next \/ UNCHANGED ALO!vars
  <1>1. /\ hpc = "written"
        /\ acked' = acked \cup Settled /\ unacked' = unacked \ Settled
        /\ ready' = ready /\ dlq' = dlq /\ stored' = stored
    BY DEF Ack, influx
  <1>2. CASE link # "up"
    BY <1>1, <1>2 DEF Settled, ALO!vars
  <1>3. CASE link = "up"
    <2>1. cur \in 1..N /\ cur \in unacked /\ cur \in stored
      BY <1>1, <1>3, HandlerHasMessage DEF Deliveries, Held, Handled
    <2>2. (ready \cup unacked)' = (ready \cup unacked) \ {cur}
      BY <1>1, <1>3, <2>1 DEF Settled, Deliveries, NothingLost
    <2>3. ALO!Finish(cur)
      BY <1>1, <1>3, <2>1, <2>2 DEF Settled, ALO!Finish
    <2>4. QED
      BY <2>1, <2>3 DEF ALO!Next
  <1>4. QED
    BY <1>2, <1>3

LEMMA RejectIsBury ==
    ASSUME Deliveries, LifeFacts, RejectPoison
    PROVE  ALO!Next \/ UNCHANGED ALO!vars
  <1>1. hpc = "poison" /\ acked' = acked /\ stored' = stored
    BY DEF RejectPoison, influx
  <1>2. Settled \subseteq unacked
    BY <1>1, HandlerHasMessage DEF Deliveries, Held, Settled
  <1>3. CASE RequeuePoison
    <2>1. Returned(Settled) /\ dlq' = dlq
      BY <1>3 DEF RejectPoison
    <2>2. QED
      BY <1>1, <1>2, <2>1, ReturnedIsStutter
  <1>4. CASE ~RequeuePoison /\ link # "up"
    <2>1. ready' = ready /\ unacked' = unacked /\ dlq' = dlq
      BY <1>4 DEF RejectPoison, Settled
    <2>2. QED
      BY <1>1, <2>1 DEF ALO!vars
  <1>5. CASE ~RequeuePoison /\ link = "up"
    <2>1. /\ ready' = ready /\ unacked' = unacked \ {cur}
          /\ dlq' = dlq \cup {cur}
      BY <1>5 DEF RejectPoison, Settled
    <2>2. cur \in 1..N /\ cur \in unacked /\ cur \in OffContract
      BY <1>1, <1>2, <1>5, HandlerHasMessage
      DEF Settled, Deliveries, Handled
    <2>3. (ready \cup unacked)' = (ready \cup unacked) \ {cur}
      BY <2>1, <2>2 DEF Deliveries, NothingLost
    <2>4. ALO!Bury(cur)
      BY <1>1, <2>1, <2>2, <2>3 DEF ALO!Bury
    <2>5. QED
      BY <2>2, <2>4 DEF ALO!Next
  <1>6. QED
    BY <1>3, <1>4, <1>5

LEMMA PublishIsAccept ==
    ASSUME Deliveries, Publish
    PROVE  ALO!Next
  <1>1. sent \in Nat /\ sent + 1 \in 1..N /\ sent + 1 \notin 1..sent
    BY StoreConstants DEF StoreConstants, Publish, Deliveries, QueuesOK
  <1>2. ALO!Accept(sent + 1)
    BY <1>1 DEF Publish, Deliveries, NothingLost, Published, influx,
                ALO!Accept
  <1>3. QED
    BY <1>1, <1>2 DEF ALO!Next

LEMMA DeliverIsStutter ==
    ASSUME Deliveries, Deliver
    PROVE  UNCHANGED ALO!vars
  <1>1. ready \in SUBSET Nat /\ ready # {}
    BY DEF Deliveries, QueuesOK, Deliver
  <1>2. Min(ready) \in ready
    BY <1>1, MinIsMember
  <1>3. QED
    BY <1>2 DEF Deliver, influx, ALO!vars

LEMMA StepImplements ==
    ASSUME Deliveries, LifeFacts, [Next]_vars
    PROVE  ALO!Next \/ UNCHANGED ALO!vars
  <1>1. CASE WriteOk \/ WriteFails
    BY <1>1, WriteIsWrite
  <1>2. CASE Ack
    BY <1>2, AckIsFinish
  <1>3. CASE RejectPoison
    BY <1>3, RejectIsBury
  <1>4. CASE RequeueUnwritten
    <2>1. Settled \subseteq unacked
      BY <1>4, HandlerHasMessage
      DEF RequeueUnwritten, Deliveries, Held, Settled
    <2>2. QED
      BY <1>4, <2>1, ReturnedIsStutter DEF RequeueUnwritten, influx
  <1>5. CASE \/ Take \/ SkipWrite \/ StartWrite \/ RetryWrite \/ GiveUp
             \/ StopRetrying \/ LeaveUnwritten
    <2>1. UNCHANGED <<queues, stored>>
      BY <1>5 DEF Take, SkipWrite, StartWrite, RetryWrite, GiveUp,
                  StopRetrying, LeaveUnwritten, influx
    <2>2. QED
      BY <2>1 DEF queues, ALO!vars
  <1>6. CASE \/ Quiet \/ ConnectionLost \/ Signal \/ Restart
             \/ BrokerDenies \/ BrokerRecovers \/ StorageFails
             \/ StorageRecovers
    <2>1. UNCHANGED <<queues, stored>>
      BY <1>6 DEF Quiet, ConnectionLost, Signal, Restart, BrokerDenies,
                  BrokerRecovers, StorageFails, StorageRecovers, influx
    <2>2. QED
      BY <2>1 DEF queues, ALO!vars
  <1>7. CASE StopConsuming
    BY <1>7, ReturnedIsStutter DEF StopConsuming, influx
  <1>8. CASE CloseSession \/ BackoffOver \/ ParseRaises \/ Kill \/ LinkLost
    BY <1>8, ReturnedIsStutter
    DEF CloseSession, BackoffOver, ParseRaises, Kill, LinkLost, influx
  <1>9. CASE Publish
    BY <1>9, PublishIsAccept
  <1>10. CASE Deliver
    BY <1>10, DeliverIsStutter
  <1>11. CASE UNCHANGED vars
    BY <1>11 DEF vars, queues, influx, ALO!vars
  <1>12. QED
    BY <1>1, <1>2, <1>3, <1>4, <1>5, <1>6, <1>7, <1>8, <1>9, <1>10, <1>11
    DEF Next, ProcessStep, HandlerStep, LifeCycleStep, ExternalStep

\* The store path is at least once, end to end: whatever happens to the
\* process, the broker and the storage, it behaves as AtLeastOnce promises.
THEOREM ImplementsAtLeastOnce == Spec => KeepsPromise
  <1>1. Init => ALO!Init
    BY DEF Init, ALO!Init
  <1>2. IInv /\ [Next]_vars => [ALO!Next]_(ALO!vars)
    <2> SUFFICES ASSUME IInv, [Next]_vars
                 PROVE  ALO!Next \/ UNCHANGED ALO!vars
      OBVIOUS
    <2>1. LifeFacts /\ Deliveries
      BY LifeFactsHold DEF IInv
    <2>2. QED
      BY <2>1, StepImplements
  <1>3. QED
    BY <1>1, <1>2, Invariance, PTL DEF Spec, ALO!Spec, KeepsPromise
-----------------------------------------------------------------------------
(* What the past leaves behind: a second invariant, on top of IInv.        *)

\* A message still pending whose point storage holds: it comes back marked
\* redelivered, or it is past its write in this very delivery, in the handler
\* or abandoned by it.
Repeated(m) ==
    \/ m \in redelivered
    \/ /\ m \in unacked \ Range(prefetched)
       /\ m = cur => \/ hpc \in {"failed", "unwritten", "written"}
                     \/ hpc = "write" /\ tries > 1

StoredRepeats == \A m \in stored \cap (ready \cup unacked) : Repeated(m)

\* What the process still holds of a dead link, the broker has marked already.
MarkedOnDeadLink == link = "lost" => InHand \subseteq redelivered

StoredIsPublished == stored \subseteq Published

\* Storage has answered every write so far.
Calm == outages = 0 /\ Unwritable \cap Published = {}

CalmSettles ==
    /\ outages = 0 => storage = "up"
    /\ Calm => /\ ~storageDown
               /\ hpc \notin {"failed", "unwritten"}
               /\ Abandoned = {}

History ==
    /\ StoredIsPublished /\ MarkedOnDeadLink /\ StoredRepeats
    /\ CalmSettles

\* Where the point in question can come from.
LEMMA OnlyWritesStore ==
    ASSUME [Next]_vars
    PROVE  \/ stored' = stored
           \/ (WriteOk \/ WriteFails) /\ stored' = stored \cup {cur}
  <1>1. CASE HandlerStep
    BY <1>1 DEF HandlerStep, Take, RejectPoison, SkipWrite, StartWrite,
                WriteOk, WriteFails, RetryWrite, GiveUp, StopRetrying,
                RequeueUnwritten, LeaveUnwritten, Ack, influx
  <1>2. CASE LifeCycleStep
    BY <1>2 DEF LifeCycleStep, Quiet, ConnectionLost, StopConsuming,
                CloseSession, BackoffOver, ParseRaises, influx
  <1>3. CASE ExternalStep
    BY <1>3 DEF ExternalStep, Publish, Deliver, LinkLost, BrokerDenies,
                BrokerRecovers, StorageFails, StorageRecovers, influx
  <1>4. CASE Signal \/ Kill \/ Restart
    BY <1>4 DEF Signal, Kill, Restart, influx
  <1>5. CASE UNCHANGED vars
    BY <1>5 DEF vars, influx
  <1>6. QED
    BY <1>1, <1>2, <1>3, <1>4, <1>5 DEF Next, ProcessStep

\* The broker never takes a mark back, and publishes one message at a time.
LEMMA QueueGrows ==
    ASSUME [Next]_vars
    PROVE  /\ redelivered \subseteq redelivered'
           /\ sent' = sent \/ (Publish /\ sent' = sent + 1)
  <1>1. CASE HandlerStep
    BY <1>1 DEF HandlerStep, Take, RejectPoison, SkipWrite, StartWrite,
                WriteOk, WriteFails, RetryWrite, GiveUp, StopRetrying,
                RequeueUnwritten, LeaveUnwritten, Ack, queues, Returned
  <1>2. CASE LifeCycleStep
    BY <1>2 DEF LifeCycleStep, Quiet, ConnectionLost, StopConsuming,
                CloseSession, BackoffOver, ParseRaises, queues, Returned
  <1>3. CASE ExternalStep
    BY <1>3 DEF ExternalStep, Publish, Deliver, LinkLost, BrokerDenies,
                BrokerRecovers, StorageFails, StorageRecovers, queues, Returned
  <1>4. CASE Signal \/ Kill \/ Restart
    BY <1>4 DEF Signal, Kill, Restart, queues, Returned
  <1>5. CASE UNCHANGED vars
    BY <1>5 DEF vars, queues
  <1>6. QED
    BY <1>1, <1>2, <1>3, <1>4, <1>5 DEF Next, ProcessStep

LEMMA PublishedGrows ==
    ASSUME Deliveries, [Next]_vars
    PROVE  Published \subseteq Published'
  <1>1. sent \in Nat
    BY StoreConstants DEF StoreConstants, Deliveries, QueuesOK
  <1>2. sent' = sent \/ sent' = sent + 1
    BY QueueGrows
  <1>3. QED
    BY <1>1, <1>2 DEF Published

LEMMA StoredIsPublishedStep ==
    ASSUME Deliveries, LifeFacts, StoredIsPublished, [Next]_vars
    PROVE  StoredIsPublished'
  <1>1. CASE stored' = stored
    BY <1>1, PublishedGrows DEF StoredIsPublished
  <1>2. CASE (WriteOk \/ WriteFails) /\ stored' = stored \cup {cur}
    <2>1. hpc # "idle"
      BY <1>2 DEF WriteOk, WriteFails
    <2>2. cur \in Published
      BY <2>1, HandledIsPending DEF Deliveries, NothingLost
    <2>3. QED
      BY <1>2, <2>2, PublishedGrows DEF StoredIsPublished
  <1>3. QED
    BY <1>1, <1>2, OnlyWritesStore

\* Only a delivery over a live link puts anything more in the process's hands.
LEMMA HandsOnlyEmpty ==
    ASSUME Deliveries, [Next]_vars, ~Deliver
    PROVE  InHand' \subseteq InHand
  <1>1. ASSUME prefetched' = prefetched, cur' \in {cur, NoMessage}
        PROVE  InHand' \subseteq InHand
    <2>1. Range(prefetched)' = Range(prefetched)
      BY <1>1
    <2>2. QED
      BY <1>1, <2>1 DEF InHand
  <1>2. ASSUME prefetched' = <<>>, cur' = NoMessage
        PROVE  InHand' \subseteq InHand
    <2>1. Range(prefetched)' = {}
      BY <1>2, EmptySequence
    <2>2. QED
      BY <1>2, <2>1 DEF InHand
  <1>3. CASE Take
    <2>1. /\ prefetched \in Seq(1..N) /\ prefetched # <<>>
          /\ prefetched' = Tail(prefetched) /\ cur' = Head(prefetched)
      BY <1>3 DEF Take, Deliveries, HandlerOK
    <2>2. Range(prefetched) = {Head(prefetched)} \cup Range(Tail(prefetched))
      BY <2>1, TakeSplits
    <2>3. Range(prefetched)' = Range(Tail(prefetched))
      BY <2>1
    <2>4. NoMessage \notin Range(prefetched)
      BY NoMessageIsNotDelivered
    <2>5. QED
      BY <2>1, <2>2, <2>3, <2>4 DEF InHand
  <1>4. CASE \/ RejectPoison \/ SkipWrite \/ StartWrite \/ WriteOk
             \/ WriteFails \/ RetryWrite \/ GiveUp \/ StopRetrying
             \/ RequeueUnwritten \/ LeaveUnwritten \/ Ack
    BY <1>1, <1>4
    DEF RejectPoison, SkipWrite, StartWrite, WriteOk, WriteFails, RetryWrite,
        GiveUp, StopRetrying, RequeueUnwritten, LeaveUnwritten, Ack, Return
  <1>5. CASE \/ ConnectionLost \/ StopConsuming \/ CloseSession \/ BackoffOver
             \/ ParseRaises \/ Kill
    BY <1>2, <1>5
    DEF ConnectionLost, StopConsuming, CloseSession, BackoffOver, ParseRaises,
        Kill, Forget
  <1>6. CASE \/ Quiet \/ Signal \/ Restart \/ Publish \/ LinkLost
             \/ BrokerDenies \/ BrokerRecovers \/ StorageFails
             \/ StorageRecovers \/ UNCHANGED vars
    BY <1>1, <1>6
    DEF Quiet, Signal, Restart, Publish, LinkLost, BrokerDenies,
        BrokerRecovers, StorageFails, StorageRecovers, vars, handler
  <1>7. QED
    BY <1>3, <1>4, <1>5, <1>6
    DEF Next, ProcessStep, HandlerStep, LifeCycleStep, ExternalStep

\* A link is lost, unnoticed, in one way.
LEMMA LinkLostOnlyThere ==
    ASSUME [Next]_vars, link' = "lost", link # "lost"
    PROVE  LinkLost /\ link = "up"
  <1>1. CASE HandlerStep
    BY <1>1 DEF HandlerStep, Take, RejectPoison, SkipWrite, StartWrite,
                WriteOk, WriteFails, RetryWrite, GiveUp, StopRetrying,
                RequeueUnwritten, LeaveUnwritten, Ack, runner, network
  <1>2. CASE LifeCycleStep
    BY <1>2 DEF LifeCycleStep, Quiet, ConnectionLost, StopConsuming,
                CloseSession, BackoffOver, ParseRaises, Runner!LeaveLoop,
                Runner!EnterConnect, Runner!ConnectOk, Runner!ConnectRetry,
                Runner!ConnectUnreachable, Runner!ConnectRejected,
                Runner!OpenChannel, Runner!Subscribe, Runner!ConnectionLost,
                Runner!StopConsuming, Runner!CloseSession,
                Runner!BackoffOver, Runner!HandlerRaises, Runner!DropSession,
                Runner!network
  <1>3. CASE ExternalStep
    BY <1>3 DEF ExternalStep, Publish, Deliver, LinkLost, BrokerDenies,
                BrokerRecovers, StorageFails, StorageRecovers, runner, network,
                Runner!BrokerFails, Runner!LinkDrops, Runner!BrokerDenies,
                Runner!BrokerRecovers, Runner!Severed
  <1>4. CASE Signal \/ Kill \/ Restart
    BY <1>4 DEF Signal, Kill, Restart, Runner!Signal, Runner!Kill,
                Runner!Restart, Runner!DropSession, Runner!network
  <1>5. CASE UNCHANGED vars
    BY <1>5 DEF vars, runner, network
  <1>6. QED
    BY <1>1, <1>2, <1>3, <1>4, <1>5 DEF Next, ProcessStep

LEMMA MarkedOnDeadLinkStep ==
    ASSUME Deliveries, MarkedOnDeadLink, [Next]_vars
    PROVE  MarkedOnDeadLink'
  <1> SUFFICES ASSUME link' = "lost" PROVE InHand' \subseteq redelivered'
    BY DEF MarkedOnDeadLink
  <1>1. CASE link = "lost"
    <2>1. InHand \subseteq redelivered /\ ~Deliver
      BY <1>1 DEF MarkedOnDeadLink, Deliver
    <2>2. QED
      BY <2>1, HandsOnlyEmpty, QueueGrows
  <1>2. CASE link # "lost"
    <2>1. LinkLost /\ link = "up"
      BY <1>2, LinkLostOnlyThere
    <2>2. InHand \subseteq unacked
      BY <2>1 DEF Deliveries, Held
    <2>3. redelivered' = redelivered \cup unacked /\ InHand' = InHand
      <3>1. UNCHANGED <<prefetched, cur>>
        BY <2>1 DEF LinkLost, handler
      <3>2. Range(prefetched)' = Range(prefetched)
        BY <3>1
      <3>3. QED
        BY <2>1, <3>1, <3>2 DEF LinkLost, Returned, InHand
    <2>4. QED
      BY <2>2, <2>3
  <1>3. QED
    BY <1>1, <1>2

\* A delivery moves one message from the queue into the process's hands.
LEMMA DeliverHands ==
    ASSUME Deliveries, Deliver
    PROVE  \E d \in ready :
               /\ ready' = ready \ {d} /\ unacked' = unacked \cup {d}
               /\ Range(prefetched)' = Range(prefetched) \cup {d}
  <1> DEFINE d == Min(ready)
  <1>1. ready \in SUBSET (1..N) /\ ready # {} /\ 1..N \subseteq Nat
    BY DEF Deliver, Deliveries, QueuesOK
  <1>2. ready \in SUBSET Nat
    BY <1>1
  <1>3. d \in ready
    BY <1>1, <1>2, MinIsMember
  <1>4. /\ ready' = ready \ {d} /\ unacked' = unacked \cup {d}
        /\ prefetched' = Append(prefetched, d)
    BY DEF Deliver
  <1>5. prefetched \in Seq(1..N)
    BY DEF Deliveries, HandlerOK
  <1> HIDE DEF d
  <1>6. d \in 1..N
    BY <1>1, <1>3
  <1>7. Range(Append(prefetched, d)) = Range(prefetched) \cup {d}
    <2>1. \A q \in Seq(1..N), x \in 1..N :
              /\ Append(q, x) \in Seq(1..N)
              /\ Range(Append(q, x)) = Range(q) \cup {x}
              /\ IsInjective(q) /\ x \notin Range(q)
                    => IsInjective(Append(q, x))
      BY ONLY AppendJoins
    <2>2. QED
      BY ONLY <1>5, <1>6, <2>1, Zenon
  <1>8. Range(prefetched)' = Range(Append(prefetched, d))
    BY <1>4
  <1>9. QED
    BY <1>3, <1>4, <1>7, <1>8

\* A point is still explained when nothing about its message changes.
LEMMA RepeatedStands ==
    ASSUME StoredRepeats,
           UNCHANGED <<ready, unacked, redelivered, stored, prefetched, cur,
                       hpc, tries>>
    PROVE  StoredRepeats'
  <1>1. Range(prefetched)' = Range(prefetched)
    OBVIOUS
  <1>2. QED
    BY <1>1 DEF StoredRepeats, Repeated

\* All that was delivered comes back marked.
LEMMA RepeatedReturns ==
    ASSUME Deliveries, StoredRepeats, Returned(unacked), stored' = stored
    PROVE  StoredRepeats'
  BY DEF Deliveries, QueuesOK, Returned, StoredRepeats, Repeated

\* The handler returns and its message stays delivered, or stops being pending.
LEMMA RepeatedLeft ==
    ASSUME Deliveries, StoredRepeats, cur' = NoMessage,
           UNCHANGED <<ready, redelivered, prefetched, stored>>,
           unacked' \subseteq unacked
    PROVE  StoredRepeats'
  <1> SUFFICES ASSUME NEW m \in stored, m \in ready \cup unacked'
               PROVE  Repeated(m)'
    BY DEF StoredRepeats
  <1>1. Range(prefetched)' = Range(prefetched)
    OBVIOUS
  <1>2. m \in redelivered \/ m \in unacked \ Range(prefetched)
    BY DEF StoredRepeats, Repeated
  <1>3. m # NoMessage
    BY DEF Deliveries, QueuesOK, NoMessage
  <1>4. ready \cap unacked = {}
    BY DEF Deliveries, NothingLost
  <1>5. QED
    BY <1>1, <1>2, <1>3, <1>4 DEF Repeated

\* A settlement that returns the message returns it marked.
LEMMA RepeatedSettled ==
    ASSUME Deliveries, StoredRepeats, Returned(Settled), hpc # "idle",
           cur' = NoMessage, UNCHANGED <<prefetched, stored>>
    PROVE  StoredRepeats'
  <1> SUFFICES ASSUME NEW m \in stored, m \in ready' \cup unacked'
               PROVE  Repeated(m)'
    BY DEF StoredRepeats
  <1>1. Range(prefetched)' = Range(prefetched)
    OBVIOUS
  <1>2. /\ ready' = ready \cup Settled /\ unacked' = unacked \ Settled
        /\ redelivered' = redelivered \cup Settled
    BY DEF Returned
  <1>3. CASE m \in Settled
    BY <1>2, <1>3 DEF Repeated
  <1>4. CASE m \notin Settled
    <2>1. m \in redelivered \/ m \in unacked \ Range(prefetched)
      BY <1>2, <1>4 DEF StoredRepeats, Repeated
    <2>2. m # NoMessage
      BY <1>2, <1>4 DEF Deliveries, QueuesOK, NoMessage
    <2>3. QED
      BY <1>1, <1>2, <1>4, <2>1, <2>2 DEF Repeated
  <1>5. QED
    BY <1>3, <1>4

LEMMA StoredRepeatsStep ==
    ASSUME Deliveries, LifeFacts, MarkedOnDeadLink, StoredIsPublished,
           StoredRepeats, [Next]_vars
    PROVE  StoredRepeats'
  <1>1. CASE Take
    <2> SUFFICES ASSUME NEW m \in stored, m \in ready \cup unacked
                 PROVE  Repeated(m)'
      BY <1>1 DEF Take, queues, influx, StoredRepeats
    <2>1. /\ prefetched \in Seq(1..N) /\ prefetched # <<>>
          /\ prefetched' = Tail(prefetched) /\ cur' = Head(prefetched)
          /\ UNCHANGED <<unacked, redelivered>>
          /\ cur = NoMessage
      BY <1>1 DEF Take, queues, Deliveries, HandlerOK, Handled
    <2>2. Range(prefetched) = {Head(prefetched)} \cup Range(Tail(prefetched))
      BY <2>1, TakeSplits
    <2>3. Range(prefetched)' = Range(Tail(prefetched))
      BY <2>1
    <2>4. Repeated(m)
      BY DEF StoredRepeats
    <2>5. QED
      BY <2>1, <2>2, <2>3, <2>4 DEF Repeated
  <1>2. CASE WriteOk \/ WriteFails
    <2>1. /\ stored' \subseteq stored \cup {cur}
          /\ hpc = "write" /\ hpc' \in {"written", "failed"}
          /\ UNCHANGED <<ready, unacked, redelivered, prefetched, cur>>
      BY <1>2 DEF WriteOk, WriteFails, queues
    <2>2. Range(prefetched)' = Range(prefetched)
      BY <2>1
    <2>3. pc = "consuming" /\ cur \in InHand /\ cur \in 1..N
      BY <2>1, HandlerHasMessage
    <2>4. cur \in redelivered \/ cur \in unacked \ Range(prefetched)
      <3>1. link \in {"up", "lost"}
        BY <2>3 DEF LifeFacts
      <3>2. QED
        BY <2>3, <3>1 DEF MarkedOnDeadLink, Deliveries, Held
    <2> SUFFICES ASSUME NEW m \in stored \cup {cur}, m \in ready \cup unacked
                 PROVE  Repeated(m)'
      BY <2>1 DEF StoredRepeats
    <2>5. CASE m = cur
      BY <2>1, <2>2, <2>4, <2>5 DEF Repeated
    <2>6. CASE m # cur
      BY <2>1, <2>2, <2>6 DEF StoredRepeats, Repeated
    <2>7. QED
      BY <2>5, <2>6
  <1>3. CASE StartWrite \/ RetryWrite \/ GiveUp
    <2> SUFFICES ASSUME NEW m \in stored, m \in ready \cup unacked
                 PROVE  Repeated(m)'
      BY <1>3 DEF StartWrite, RetryWrite, GiveUp, queues, influx,
                  StoredRepeats
    <2>1. UNCHANGED <<unacked, redelivered, prefetched, cur>>
      BY <1>3 DEF StartWrite, RetryWrite, GiveUp, queues
    <2>2. Range(prefetched)' = Range(prefetched)
      BY <2>1
    <2>3. \/ hpc = "good"
          \/ hpc = "failed" /\ hpc' = "write" /\ tries' = tries + 1
          \/ hpc = "failed" /\ hpc' = "unwritten"
      BY <1>3 DEF StartWrite, RetryWrite, GiveUp
    <2>4. tries \in Nat \ {0}
      BY StoreConstants DEF StoreConstants, Deliveries, HandlerOK
    <2>5. Repeated(m)
      BY DEF StoredRepeats
    <2>6. CASE m \in redelivered
      BY <2>1, <2>6 DEF Repeated
    <2>7. CASE m \notin redelivered
      <3>1. m = cur => hpc # "good"
        BY <2>5, <2>7 DEF Repeated
      <3>2. m = cur => \/ hpc' = "unwritten"
                       \/ hpc' = "write" /\ tries' > 1
        BY <2>3, <2>4, <3>1
      <3>3. QED
        BY <2>1, <2>2, <2>5, <2>7, <3>2 DEF Repeated
    <2>8. QED
      BY <2>6, <2>7
  <1>4. CASE SkipWrite \/ StopRetrying \/ LeaveUnwritten \/ Ack
    BY <1>4, RepeatedLeft
    DEF SkipWrite, StopRetrying, LeaveUnwritten, Ack, Return, queues, influx
  <1>5. CASE RejectPoison
    <2>1. /\ hpc = "poison" /\ cur' = NoMessage
          /\ UNCHANGED <<prefetched, stored>>
      BY <1>5 DEF RejectPoison, Return, influx
    <2>2. CASE RequeuePoison
      BY <1>5, <2>1, <2>2, RepeatedSettled DEF RejectPoison
    <2>3. CASE ~RequeuePoison
      <3>1. unacked' \subseteq unacked /\ UNCHANGED <<ready, redelivered>>
        BY <1>5, <2>3 DEF RejectPoison
      <3>2. QED
        BY <2>1, <3>1, RepeatedLeft
    <2>4. QED
      BY <2>2, <2>3
  <1>6. CASE RequeueUnwritten
    BY <1>6, RepeatedSettled DEF RequeueUnwritten, Return, influx
  <1>7. CASE StopConsuming
    <2> SUFFICES ASSUME NEW m \in stored, m \in ready' \cup unacked'
                 PROVE  Repeated(m)'
      BY <1>7 DEF StopConsuming, influx, StoredRepeats
    <2> DEFINE S == Range(prefetched) \cap unacked
    <2>1. /\ ready' = ready \cup S /\ unacked' = unacked \ S
          /\ redelivered' = redelivered \cup S
          /\ prefetched' = <<>> /\ cur' = NoMessage
      BY <1>7 DEF StopConsuming, Returned, Forget
    <2>2. Range(prefetched)' = {}
      BY <2>1, EmptySequence
    <2>3. m \in redelivered \/ m \in unacked
      BY <2>1 DEF StoredRepeats, Repeated
    <2>4. m # NoMessage
      BY <2>1 DEF Deliveries, QueuesOK, NoMessage
    <2>5. QED
      BY <2>1, <2>2, <2>3, <2>4 DEF Repeated
  <1>8. CASE CloseSession \/ BackoffOver \/ ParseRaises \/ Kill \/ LinkLost
    BY <1>8, RepeatedReturns
    DEF CloseSession, BackoffOver, ParseRaises, Kill, LinkLost, influx
  <1>9. CASE ConnectionLost
    <2>1. unacked = {} /\ UNCHANGED <<ready, unacked, redelivered, stored>>
      BY <1>9 DEF ConnectionLost, Runner!ConnectionLost, Deliveries, Held,
                  queues, influx
    <2>2. QED
      BY <2>1 DEF StoredRepeats, Repeated
  <1>10. CASE Publish
    <2>1. sent \in Nat /\ ready' = ready \cup {sent + 1}
      BY <1>10, StoreConstants
      DEF Publish, StoreConstants, Deliveries, QueuesOK
    <2>2. sent + 1 \notin stored
      BY <2>1 DEF StoredIsPublished, Published
    <2>3. UNCHANGED <<unacked, redelivered, stored, prefetched, cur, hpc,
                      tries>>
      BY <1>10 DEF Publish, handler, influx
    <2>4. Range(prefetched)' = Range(prefetched)
      BY <2>3
    <2>5. QED
      BY <2>1, <2>2, <2>3, <2>4 DEF StoredRepeats, Repeated
  <1>11. CASE Deliver
    <2> SUFFICES ASSUME NEW m \in stored, m \in ready' \cup unacked'
                 PROVE  Repeated(m)'
      BY <1>11 DEF Deliver, influx, StoredRepeats
    <2>1. PICK d \in ready :
              /\ ready' = ready \ {d} /\ unacked' = unacked \cup {d}
              /\ Range(prefetched)' = Range(prefetched) \cup {d}
      BY <1>11, DeliverHands
    <2>2. UNCHANGED <<redelivered, cur, hpc, tries>>
      BY <1>11 DEF Deliver
    <2>3. Repeated(m)
      BY <2>1 DEF StoredRepeats
    <2>4. d \notin unacked
      BY <2>1 DEF Deliveries, NothingLost
    <2>5. QED
      BY <2>1, <2>2, <2>3, <2>4 DEF Repeated
  <1>12. CASE \/ Quiet \/ Signal \/ Restart \/ BrokerDenies \/ BrokerRecovers
              \/ StorageFails \/ StorageRecovers \/ UNCHANGED vars
    BY <1>12, RepeatedStands
    DEF Quiet, Signal, Restart, BrokerDenies, BrokerRecovers, StorageFails,
        StorageRecovers, vars, queues, handler, influx
  <1>13. QED
    BY <1>1, <1>2, <1>3, <1>4, <1>5, <1>6, <1>7, <1>8, <1>9, <1>10, <1>11,
       <1>12
    DEF Next, ProcessStep, HandlerStep, LifeCycleStep, ExternalStep

\* What is abandoned is unacknowledged: with nothing unacknowledged there is
\* none.
LEMMA CalmReturned ==
    ASSUME CalmSettles, Calm, unacked' = {}, storageDown' = storageDown,
           hpc' = "idle" \/ hpc' = hpc
    PROVE  /\ ~storageDown' /\ hpc' \notin {"failed", "unwritten"}
           /\ Abandoned' = {}
  BY DEF CalmSettles, Abandoned

\* The set in hand decides what is abandoned.
LEMMA CalmHeld ==
    ASSUME CalmSettles, Calm, unacked' = unacked, storageDown' = storageDown,
           hpc' \notin {"failed", "unwritten"},
           UNCHANGED <<prefetched, cur>>
    PROVE  /\ ~storageDown' /\ hpc' \notin {"failed", "unwritten"}
           /\ Abandoned' = {}
  <1>1. Range(prefetched)' = Range(prefetched)
    OBVIOUS
  <1>2. QED
    BY <1>1 DEF CalmSettles, Abandoned

\* Over a live link a settlement leaves nothing abandoned; on a dead one there
\* is nothing to abandon.
LEMMA CalmSettled ==
    ASSUME CalmSettles, Calm, Deliveries, unacked' = unacked \ Settled,
           storageDown' = storageDown, hpc' = "idle", cur' = NoMessage,
           prefetched' = prefetched
    PROVE  /\ ~storageDown' /\ hpc' \notin {"failed", "unwritten"}
           /\ Abandoned' = {}
  <1>1. Range(prefetched)' = Range(prefetched)
    OBVIOUS
  <1>2. Abandoned' = {}
    <2>1. CASE link = "up"
      BY <1>1, <2>1 DEF CalmSettles, Abandoned, Settled
    <2>2. CASE link # "up"
      BY <2>2 DEF Deliveries, Held, Abandoned
    <2>3. QED
      BY <2>1, <2>2
  <1>3. QED
    BY <1>2 DEF CalmSettles

\* Storage that never failed is up.
LEMMA OutagesCounted ==
    ASSUME Deliveries, CalmSettles, [Next]_vars
    PROVE  /\ outages' = 0 => outages = 0 /\ storage' = "up"
  <1>1. outages \in Nat
    BY StoreConstants DEF StoreConstants, Deliveries, StorageOK
  <1>2. CASE HandlerStep
    BY <1>2 DEF CalmSettles, HandlerStep, Take, RejectPoison, SkipWrite,
                StartWrite, WriteOk, WriteFails, RetryWrite, GiveUp,
                StopRetrying, RequeueUnwritten, LeaveUnwritten, Ack, influx
  <1>3. CASE LifeCycleStep
    BY <1>3 DEF CalmSettles, LifeCycleStep, Quiet, ConnectionLost,
                StopConsuming, CloseSession, BackoffOver, ParseRaises, influx
  <1>4. CASE StorageFails \/ StorageRecovers
    BY <1>1, <1>4 DEF StorageFails, StorageRecovers
  <1>5. CASE \/ Publish \/ Deliver \/ LinkLost \/ BrokerDenies
             \/ BrokerRecovers
    BY <1>5 DEF CalmSettles, Publish, Deliver, LinkLost, BrokerDenies,
                BrokerRecovers, influx
  <1>6. CASE Signal \/ Kill \/ Restart \/ UNCHANGED vars
    BY <1>6 DEF CalmSettles, Signal, Kill, Restart, vars, influx
  <1>7. QED
    BY <1>2, <1>3, <1>4, <1>5, <1>6 DEF Next, ProcessStep, ExternalStep

LEMMA CalmSettlesStep ==
    ASSUME Deliveries, LifeFacts, CalmSettles, [Next]_vars
    PROVE  CalmSettles'
  <1>1. outages' = 0 => outages = 0 /\ storage' = "up"
    BY OutagesCounted
  <1> SUFFICES ASSUME Calm'
               PROVE  /\ ~storageDown' /\ hpc' \notin {"failed", "unwritten"}
                      /\ Abandoned' = {}
    BY <1>1 DEF CalmSettles
  <1>2. Calm
    BY <1>1, PublishedGrows DEF Calm
  <1>3. /\ ~storageDown /\ hpc \notin {"failed", "unwritten"}
        /\ Abandoned = {} /\ storage = "up"
    BY <1>2 DEF CalmSettles, Calm
  <1>4. CASE Take
    <2>1. /\ prefetched \in Seq(1..N) /\ prefetched # <<>>
          /\ prefetched' = Tail(prefetched) /\ cur' = Head(prefetched)
          /\ unacked' = unacked /\ storageDown' = storageDown
          /\ hpc' \in {"poison", "good"} /\ cur = NoMessage
      BY <1>4 DEF Take, queues, Deliveries, HandlerOK, Handled
    <2>2. Range(prefetched) = {Head(prefetched)} \cup Range(Tail(prefetched))
      BY <2>1, TakeSplits
    <2>3. Range(prefetched)' = Range(Tail(prefetched))
      BY <2>1
    <2>4. NoMessage \notin unacked
      BY DEF Deliveries, QueuesOK, NoMessage
    <2>5. Abandoned' = {}
      BY <1>3, <2>1, <2>2, <2>3, <2>4 DEF Abandoned
    <2>6. QED
      BY <1>3, <2>1, <2>5
  <1>5. CASE StartWrite
    BY <1>2, <1>5, CalmHeld DEF StartWrite, queues
  <1>6. CASE WriteOk
    <2>1. storageDown' = FALSE /\ hpc' = "written"
          /\ UNCHANGED <<unacked, prefetched, cur>>
      BY <1>6 DEF WriteOk, queues
    <2>2. Range(prefetched)' = Range(prefetched)
      BY <2>1
    <2>3. QED
      BY <1>3, <2>1, <2>2 DEF Abandoned
  <1>7. CASE WriteFails
    <2>1. hpc # "idle" /\ cur \in Unwritable
      BY <1>3, <1>7 DEF WriteFails
    <2>2. cur \in Published
      BY <2>1, HandledIsPending DEF Deliveries, NothingLost
    <2>3. QED
      BY <1>2, <2>1, <2>2 DEF Calm
  <1>8. CASE \/ SkipWrite \/ RetryWrite \/ GiveUp \/ StopRetrying
             \/ RequeueUnwritten \/ LeaveUnwritten
    BY <1>3, <1>8
    DEF SkipWrite, KnownBad, RetryWrite, GiveUp, StopRetrying,
        RequeueUnwritten, LeaveUnwritten
  <1>9. CASE RejectPoison \/ Ack
    BY <1>2, <1>9, CalmSettled DEF RejectPoison, Ack, Returned, Return
  <1>10. CASE StopConsuming
    <2>1. /\ unacked' = unacked \ (Range(prefetched) \cap unacked)
          /\ hpc = "idle" /\ hpc' = "idle" /\ storageDown' = storageDown
      BY <1>10 DEF StopConsuming, Returned, Forget
    <2>2. cur = NoMessage /\ NoMessage \notin unacked
      BY <2>1 DEF Deliveries, Handled, QueuesOK, NoMessage
    <2>3. unacked' = {}
      BY <1>3, <2>1, <2>2 DEF Abandoned
    <2>4. QED
      BY <1>2, <2>1, <2>3, CalmReturned
  <1>11. CASE CloseSession \/ BackoffOver \/ ParseRaises \/ Kill
    BY <1>2, <1>11, CalmReturned
    DEF CloseSession, BackoffOver, ParseRaises, Kill, Returned, Forget
  <1>12. CASE LinkLost
    BY <1>2, <1>12, CalmReturned DEF LinkLost, Returned, handler
  <1>13. CASE ConnectionLost
    <2>1. unacked' = {}
      BY <1>13 DEF ConnectionLost, Runner!ConnectionLost, Deliveries, Held,
                   queues
    <2>2. QED
      BY <1>2, <1>13, <2>1, CalmReturned DEF ConnectionLost, Forget
  <1>14. CASE Deliver
    <2>1. PICK d \in ready :
              /\ unacked' = unacked \cup {d}
              /\ Range(prefetched)' = Range(prefetched) \cup {d}
      BY <1>14, DeliverHands
    <2>2. UNCHANGED <<cur, hpc, storageDown>>
      BY <1>14 DEF Deliver
    <2>3. Abandoned' = {}
      BY <1>3, <2>1, <2>2 DEF Abandoned
    <2>4. QED
      BY <1>3, <2>2, <2>3
  <1>15. CASE Restart
    <2>1. storageDown' = FALSE /\ UNCHANGED <<unacked, prefetched, cur, hpc>>
      BY <1>15 DEF Restart, queues
    <2>2. Range(prefetched)' = Range(prefetched)
      BY <2>1
    <2>3. QED
      BY <1>3, <2>1, <2>2 DEF Abandoned
  <1>16. CASE \/ Quiet \/ Signal \/ Publish \/ BrokerDenies \/ BrokerRecovers
              \/ StorageFails \/ StorageRecovers \/ UNCHANGED vars
    BY <1>2, <1>3, <1>16, CalmHeld
    DEF Quiet, Signal, Publish, BrokerDenies, BrokerRecovers, StorageFails,
        StorageRecovers, vars, queues, handler
  <1>17. QED
    BY <1>4, <1>5, <1>6, <1>7, <1>8, <1>9, <1>10, <1>11, <1>12, <1>13, <1>14,
       <1>15, <1>16
    DEF Next, ProcessStep, HandlerStep, LifeCycleStep, ExternalStep

LEMMA InitHistory == Init => History
  <1> SUFFICES ASSUME Init PROVE History
    OBVIOUS
  <1>1. StoredIsPublished /\ MarkedOnDeadLink /\ StoredRepeats
    BY DEF Init, Runner!Init, StoredIsPublished, MarkedOnDeadLink,
           StoredRepeats
  <1>2. CalmSettles
    BY DEF Init, CalmSettles, Abandoned
  <1>3. QED
    BY <1>1, <1>2 DEF History

LEMMA HistoryInvariance == Spec => []History
  <1>1. IInv /\ History /\ [Next]_vars => History'
    <2> SUFFICES ASSUME IInv, History, [Next]_vars PROVE History'
      OBVIOUS
    <2>1. Deliveries /\ LifeFacts
      BY LifeFactsHold DEF IInv
    <2>2. QED
      BY <2>1, StoredIsPublishedStep, MarkedOnDeadLinkStep,
         StoredRepeatsStep, CalmSettlesStep
      DEF History
  <1>2. QED
    BY <1>1, InitHistory, Invariance, PTL DEF Spec

\* Without an outage and without a point storage refuses, the handler settles
\* all it takes up, through every shutdown and every lost link: storage_down is
\* never set on account of anything else.
THEOREM HealthyShutdownSettles == Spec => []HealthyDrainSettles
  <1>1. History => HealthyDrainSettles
    BY DEF History, CalmSettles, Calm, HealthyDrainSettles
  <1>2. QED
    BY <1>1, HistoryInvariance, PTL

\* No point is written a second time unseen: whoever counts redelivered and
\* attempt has seen every one.
THEOREM OverwritesAreExplained == Spec => OverwriteIsExplained
  <1>1. IInv /\ History
        => (WriteOk /\ cur \in stored => tries > 1 \/ cur \in redelivered)
    <2> SUFFICES ASSUME IInv, History, WriteOk, cur \in stored
                 PROVE  tries > 1 \/ cur \in redelivered
      OBVIOUS
    <2>1. hpc = "write" /\ cur \in ready \cup unacked
      BY LifeFactsHold, HandledIsPending DEF IInv, WriteOk
    <2>2. QED
      BY <2>1 DEF History, StoredRepeats, Repeated
  <1>2. QED
    BY <1>1, Invariance, HistoryInvariance, PTL DEF OverwriteIsExplained
=============================================================================
