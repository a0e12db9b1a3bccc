------------------------ MODULE ObserveConsumerProofs ------------------------
(***************************************************************************)
(* The lossy path, for any number of messages, any bodies, any cap, and    *)
(* any number of signals, faults and kills.                                *)
(*                                                                         *)
(*  - Every step is a step of the consumer life cycle or leaves it alone.  *)
(*  - Ordered: what was handled is older than what the process holds, and  *)
(*    that is older than what waits.                                       *)
(*  - FreshestWait is inductive once it is known that a queue that does    *)
(*    not exist holds nothing.                                             *)
(*  - From these: the path implements the abstract AtMostOnce.             *)
(***************************************************************************)
EXTENDS ObserveConsumer, PayloadContractProofs, FiniteSetTheorems,
        WellFoundedInduction, TLAPS

RP == INSTANCE ConsumerRunnerProofs

Ordered ==
    /\ ready \cup received \cup observed \cup noted \subseteq 1..sent
    /\ \A r \in received, q \in ready : r < q
    /\ \A h \in observed \cup noted, o \in ready \cup received : h < o

IInv ==
    /\ MessagesOK
    /\ Ordered
    /\ FreshestWait
    /\ ~queueExists => ready = {}

-----------------------------------------------------------------------------
(* About the operators of the model.                                       *)

\* The oldest of some messages is one of them, and older than the others.
LEMMA MinIsOldest ==
    ASSUME NEW S \in SUBSET Nat, S # {}
    PROVE  Min(S) \in S /\ \A y \in S : Min(S) <= y
  <1>1. PICK x \in S : \A y \in S : ~(<<y, x>> \in OpToRel(<, Nat))
    BY NatLessThanWellFounded, WFMin
  <1>2. ASSUME NEW y \in S PROVE x <= y
    <2>1. x \in Nat /\ y \in Nat
      OBVIOUS
    <2>2. ~(<<y, x>> \in {ss \in Nat \X Nat : ss[1] < ss[2]})
      BY <1>1 DEF OpToRel
    <2>3. ~(y < x)
      BY <2>1, <2>2
    <2>4. QED
      BY <2>1, <2>3
  <1>3. QED
    BY <1>2 DEF Min

\* Some of the messages are finitely many, and no more than the others.
LEMMA FewerMessages ==
    ASSUME NEW S \in SUBSET (1..N), NEW T \in SUBSET S
    PROVE  /\ IsFiniteSet(S) /\ Cardinality(S) \in Nat
           /\ Cardinality(T) <= Cardinality(S)
  <1>1. IsFiniteSet(1..N)
    BY ObserveConstants, FS_Interval DEF ObserveConstants
  <1>2. IsFiniteSet(S)
    BY <1>1, FS_Subset
  <1>3. QED
    BY <1>2, FS_Subset, FS_CardinalityType

\* At the cap the newcomer costs the oldest message its place, and no other.
LEMMA OverflowDropsHead ==
    ASSUME NEW S \in SUBSET (1..N), NEW x \in (1..N) \ S,
           \A y \in S : y < x,
           Cardinality(S) <= Cap
    PROVE  /\ Overflow(S \cup {x}) \subseteq S \cup {x}
           /\ \A m \in Overflow(S \cup {x}), k \in S \cup {x} :
                m <= k => k \in Overflow(S \cup {x})
           /\ Cardinality(Overflow(S \cup {x})) <= Cap
  <1> DEFINE T == S \cup {x}
  <1>1. /\ IsFiniteSet(S) /\ Cardinality(S) \in Nat
        /\ IsFiniteSet(T) /\ T \in SUBSET Nat /\ T # {}
        /\ Cardinality(T) = Cardinality(S) + 1
    BY FewerMessages, FS_AddElement
  <1>2. Min(T) \in T /\ \A y \in T : Min(T) <= y
    BY <1>1, MinIsOldest
  <1>3. Cardinality(T \ {Min(T)}) = Cardinality(T) - 1
    BY <1>1, <1>2, FS_RemoveElement
  <1>4. Cap \in Nat
    BY ObserveConstants DEF ObserveConstants
  <1> HIDE DEF T
  <1>5. CASE Cardinality(T) > Cap
    <2>1. Overflow(T) = T \ {Min(T)}
      BY <1>5 DEF Overflow
    <2>2. \A m \in T \ {Min(T)}, k \in T : m <= k => k # Min(T)
      BY <1>1, <1>2
    <2>3. Cardinality(T \ {Min(T)}) <= Cap
      BY <1>1, <1>3
    <2>4. QED
      BY <2>1, <2>2, <2>3 DEF T
  <1>6. CASE ~(Cardinality(T) > Cap)
    <2>1. Overflow(T) = T
      BY <1>6 DEF Overflow
    <2>2. Cardinality(T) <= Cap
      BY <1>1, <1>4, <1>6
    <2>3. QED
      BY <2>1, <2>2 DEF T
  <1>7. QED
    BY <1>5, <1>6

\* What the handler notes breaks the contract, what it observes keeps it.
LEMMA HandlerJudges ==
    ASSUME NEW m \in 1..N, m \notin Raising
    PROVE  m \in Poison <=> ~OnContract(Body[m])
  <1>1. Body[m] \in Bodies
    BY ObserveConstants DEF ObserveConstants
  <1>2. Parse(Body[m]) \in {"accepted", "rejected"}
    BY DEF Raising, Parse, Verdict
  <1>3. QED
    BY <1>1, <1>2, ParseDecides DEF Poison

-----------------------------------------------------------------------------
(* The life cycle inside the path.                                         *)

LEMMA RunnerStep == [Next]_vars => [Runner!Next]_(Runner!vars)
  <1> SUFFICES ASSUME [Next]_vars
               PROVE  Runner!Next \/ UNCHANGED runner
    BY DEF runner, process, network, Runner!vars, Runner!process,
           Runner!network
  <1>1. CASE ProcessStep
    BY <1>1 DEF ProcessStep, Observe, NotePoison, ParseRaises, Quiet,
                SessionEnds, Runner!Next, Runner!ProcessStep
  <1>2. CASE ExternalStep
    BY <1>2 DEF ExternalStep, Publish, Deliver, QueueDeleted, QueueDeclared,
                LinkLost, BrokerDenies, BrokerRecovers, Runner!Next,
                Runner!NetworkStep
  <1>3. CASE Signal \/ Kill \/ Restart
    BY <1>3 DEF Signal, Kill, Restart, Runner!Next
  <1>4. CASE UNCHANGED vars
    BY <1>4 DEF vars
  <1>5. QED
    BY <1>1, <1>2, <1>3, <1>4 DEF Next

\* The consumer_observe process keeps to the life cycle of run_consumer.
THEOREM KeepsLifeCycle == Spec => Runner!Spec
  <1>1. Init => Runner!Init
    BY DEF Init
  <1>2. QED
    BY <1>1, RunnerStep, PTL DEF Spec, Runner!Spec

\* ConsumerRunnerProofs is an instance of its own: the two instances agree.
LEMMA SameInit == Runner!Init <=> RP!Init
  BY DEF Runner!Init, RP!Init, Runner!Fresh, RP!Fresh

LEMMA SameNext == Runner!Next <=> RP!Next
  BY DEF
    Runner!Next, RP!Next, Runner!ProcessStep, RP!ProcessStep,
    Runner!NetworkStep, RP!NetworkStep, Runner!LeaveLoop, RP!LeaveLoop,
    Runner!EnterConnect, RP!EnterConnect, Runner!ConnectOk, RP!ConnectOk,
    Runner!ConnectRetry, RP!ConnectRetry, Runner!ConnectUnreachable,
    RP!ConnectUnreachable, Runner!ConnectRejected, RP!ConnectRejected,
    Runner!BackoffOver, RP!BackoffOver, Runner!OpenChannel, RP!OpenChannel,
    Runner!Subscribe, RP!Subscribe, Runner!SubscribeNotFound,
    RP!SubscribeNotFound, Runner!ConnectionLost, RP!ConnectionLost,
    Runner!BrokerCancel, RP!BrokerCancel, Runner!StopConsuming,
    RP!StopConsuming, Runner!CloseSession, RP!CloseSession,
    Runner!HandlerRaises, RP!HandlerRaises,
    Runner!BrokerFails, RP!BrokerFails, Runner!LinkDrops, RP!LinkDrops,
    Runner!BrokerDenies, RP!BrokerDenies, Runner!QueueDeleted,
    RP!QueueDeleted, Runner!QueueDeclared, RP!QueueDeclared,
    Runner!BrokerRecovers, RP!BrokerRecovers, Runner!Signal, RP!Signal,
    Runner!Kill, RP!Kill, Runner!Restart, RP!Restart, Runner!LoopAgain,
    RP!LoopAgain, Runner!BackoffOnceConnected, RP!BackoffOnceConnected,
    Runner!UnreachableIsFatal, RP!UnreachableIsFatal, Runner!Exit, RP!Exit,
    Runner!Doubled, RP!Doubled, Runner!Posts, RP!Posts, Runner!Accepts, RP!Accepts, Runner!DropSession,
    RP!DropSession, Runner!Attached, RP!Attached, Runner!Cancelled,
    RP!Cancelled, Runner!Fault, RP!Fault, Runner!Severed, RP!Severed,
    Runner!Running, RP!Running, Runner!process, RP!process, Runner!network,
    RP!network

LEMMA RunnerInitInvariant == Init => RP!IInv
  BY SameInit, RP!InitInvariant, RunnerAssumption
  DEF Init, Runner!RunnerConstants, RP!RunnerConstants

LEMMA RunnerStepInvariant == RP!IInv /\ [Next]_vars => RP!IInv'
  <1> SUFFICES ASSUME RP!IInv, [Next]_vars PROVE RP!IInv'
    OBVIOUS
  <1>1. [RP!Next]_(RP!vars)
    BY RunnerStep, SameNext
    DEF Runner!vars, RP!vars, Runner!process, RP!process, Runner!network,
        RP!network
  <1>2. QED
    BY <1>1, RP!StepInvariant, RunnerAssumption
    DEF Runner!RunnerConstants, RP!RunnerConstants

-----------------------------------------------------------------------------
(* The invariant holds at first, and every step keeps it.                  *)

LEMMA InitInvariant == Init => IInv
  <1> SUFFICES ASSUME Init PROVE IInv
    OBVIOUS
  <1>1. /\ sent = 0 /\ ready = {} /\ received = {} /\ observed = {}
        /\ noted = {}
    BY DEF Init
  <1>2. MessagesOK /\ Ordered
    BY <1>1, FS_EmptySet, ObserveConstants
    DEF ObserveConstants, MessagesOK, Ordered
  <1>3. FreshestWait
    BY <1>1 DEF FreshestWait
  <1>4. QED
    BY <1>1, <1>2, <1>3 DEF IInv

\* What is left of what the queue held fits under the cap.
LEMMA FewerFit ==
    ASSUME IInv, ready' \subseteq ready
    PROVE  Cardinality(ready') <= Cap
  <1>1. ready \in SUBSET (1..N) /\ ready' \in SUBSET ready
    BY DEF IInv, MessagesOK
  <1>2. ready' \in SUBSET (1..N)
    BY <1>1
  <1>3. /\ Cardinality(ready') <= Cardinality(ready)
        /\ Cardinality(ready) \in Nat /\ Cardinality(ready') \in Nat
    BY <1>1, <1>2, FewerMessages
  <1>4. QED
    BY <1>3, ObserveConstants DEF ObserveConstants, IInv, MessagesOK

\* Messages may leave the process, and the queue from its old end.
LEMMA LosingKeeps ==
    ASSUME IInv,
           UNCHANGED <<sent, observed, noted>>,
           received' \subseteq received,
           ready' \subseteq ready,
           \A m \in ready', k \in ready : m <= k => k \in ready',
           ~queueExists' => ready' = {}
    PROVE  IInv'
  <1>1. MessagesOK' /\ Ordered'
    BY FewerFit DEF IInv, MessagesOK, Ordered
  <1>2. ASSUME NEW m \in ready' PROVE m..sent \subseteq ready'
    BY <1>2 DEF IInv, MessagesOK, FreshestWait
  <1>3. QED
    BY <1>1, <1>2 DEF IInv, FreshestWait

\* A newcomer is newer than all there is.
LEMMA ArrivalKeepsOrder ==
    ASSUME IInv,
           sent + 1 \in 1..N, sent' = sent + 1,
           UNCHANGED <<received, observed, noted>>,
           ready' \subseteq ready \cup {sent + 1},
           Cardinality(ready') <= Cap
    PROVE  MessagesOK' /\ Ordered'
  <1>1. sent \in Nat /\ 1..sent \subseteq 1..sent' /\ sent' \in 1..sent'
    BY DEF IInv, MessagesOK
  <1>2. MessagesOK'
    BY <1>1 DEF IInv, MessagesOK
  <1>3. ready' \cup received' \cup observed' \cup noted' \subseteq 1..sent'
    BY <1>1 DEF IInv, Ordered
  <1>4. \A m \in ready \cup received \cup observed \cup noted : m < sent + 1
    BY <1>1 DEF IInv, Ordered
  <1>5. \A r \in received', q \in ready' : r < q
    BY <1>4 DEF IInv, Ordered
  <1>6. \A h \in observed' \cup noted', o \in ready' \cup received' : h < o
    BY <1>4 DEF IInv, Ordered
  <1>7. QED
    BY <1>2, <1>3, <1>5, <1>6 DEF Ordered

LEMMA PublishKeeps == ASSUME IInv, Publish PROVE IInv'
  <1> USE DEF Publish
  <1> DEFINE x == sent + 1
  <1>1. /\ sent \in Nat /\ x \in 1..N /\ sent' = x
        /\ ready \subseteq 1..sent
        /\ UNCHANGED <<queueExists, received, observed, noted>>
    BY ObserveConstants
    DEF ObserveConstants, IInv, MessagesOK, Ordered, runner, network
  <1>2. CASE ~queueExists
    <2>1. ready = {} /\ ready' = {}
      BY <1>2 DEF IInv
    <2>2. MessagesOK' /\ Ordered'
      BY <1>1, <2>1, ArrivalKeepsOrder, FewerFit
    <2>3. FreshestWait'
      BY <2>1 DEF IInv, FreshestWait
    <2>4. QED
      BY <2>1, <2>2, <2>3 DEF IInv
  <1>3. CASE queueExists
    <2>1. ready' = Overflow(ready \cup {x})
      BY <1>3
    <2>2. /\ ready \in SUBSET (1..N) /\ x \in (1..N) \ ready
          /\ \A y \in ready : y < x
          /\ Cardinality(ready) <= Cap
      BY <1>1 DEF IInv, MessagesOK
    <2>3. /\ ready' \subseteq ready \cup {x}
          /\ \A m \in ready', k \in ready \cup {x} : m <= k => k \in ready'
          /\ Cardinality(ready') <= Cap
      BY <2>1, <2>2, OverflowDropsHead
    <2> HIDE DEF x
    <2>4. MessagesOK' /\ Ordered'
      BY <1>1, <2>3, ArrivalKeepsOrder DEF x
    <2>5. ASSUME NEW m \in ready' PROVE m..x \subseteq ready'
      <3>1. m \in 1..N /\ m <= x
        BY <1>1, <2>2, <2>3
      <3>2. ASSUME NEW k \in m..x PROVE k \in ready \cup {x}
        <4>1. CASE m = x
          BY <3>1, <4>1
        <4>2. CASE m # x
          <5>1. m \in ready
            BY <2>3, <4>2
          <5>2. m..sent \subseteq ready
            BY <5>1 DEF IInv, FreshestWait
          <5>3. QED
            BY <1>1, <3>1, <5>2 DEF x
        <4>3. QED
          BY <4>1, <4>2
      <3>3. QED
        BY <2>3, <3>1, <3>2
    <2>6. QED
      BY <1>1, <1>3, <2>3, <2>4, <2>5 DEF IInv, FreshestWait
  <1>4. QED
    BY <1>2, <1>3

\* The queue's head becomes the newest message the process holds.
LEMMA DeliverKeeps == ASSUME IInv, Deliver PROVE IInv'
  <1> USE DEF Deliver
  <1> DEFINE m == Min(ready)
  <1>1. ready \in SUBSET Nat /\ ready # {}
    BY DEF IInv, MessagesOK
  <1>2. m \in ready /\ \A y \in ready : m <= y
    BY <1>1, MinIsOldest
  <1>3. /\ ready' = ready \ {m} /\ received' = received \cup {m}
        /\ UNCHANGED <<queueExists, sent, observed, noted>>
    BY DEF runner, network
  <1> HIDE DEF m
  <1>4. MessagesOK'
    BY <1>2, <1>3, FewerFit DEF IInv, MessagesOK
  <1>5. Ordered'
    <2>1. \A q \in ready' : m < q
      BY <1>1, <1>2, <1>3
    <2>2. QED
      BY <1>2, <1>3, <2>1 DEF IInv, Ordered
  <1>6. ASSUME NEW k \in ready' PROVE k..sent \subseteq ready'
    <2>1. k..sent \subseteq ready /\ m < k
      BY <1>1, <1>2, <1>3, <1>6 DEF IInv, FreshestWait
    <2>2. QED
      BY <1>1, <1>2, <1>3, <2>1
  <1>7. ~queueExists' => ready' = {}
    BY <1>3 DEF IInv
  <1>8. QED
    BY <1>3, <1>4, <1>5, <1>6, <1>7 DEF IInv, FreshestWait

\* The handler takes the oldest message the process holds, and no other.
LEMMA HandlingOldest ==
    ASSUME IInv, NEW m \in received, Handling(m)
    PROVE  /\ m \in 1..N
           /\ \A o \in (ready \cup received) \ {m} : m < o
  <1>1. received \in SUBSET Nat /\ received # {} /\ m = Min(received)
    BY DEF IInv, MessagesOK, Handling
  <1>2. \A y \in received : m <= y
    BY <1>1, MinIsOldest
  <1>3. QED
    BY <1>1, <1>2 DEF IInv, MessagesOK, Ordered

LEMMA HandlerKeeps == ASSUME IInv, Observe \/ NotePoison PROVE IInv'
  <1>1. PICK m \in received :
            /\ Handling(m)
            /\ received' = received \ {m}
            /\ \/ observed' = observed \cup {m} /\ noted' = noted
               \/ noted' = noted \cup {m} /\ observed' = observed
            /\ UNCHANGED <<queueExists, sent, ready>>
    BY DEF Observe, NotePoison, runner, network
  <1>2. m \in 1..N /\ \A o \in (ready \cup received) \ {m} : m < o
    BY <1>1, HandlingOldest
  <1>3. m \in 1..sent /\ m \notin ready
    BY <1>1 DEF IInv, MessagesOK, Ordered
  <1>4. MessagesOK' /\ Ordered'
    BY <1>1, <1>2, <1>3 DEF IInv, MessagesOK, Ordered
  <1>5. FreshestWait' /\ (~queueExists' => ready' = {})
    BY <1>1 DEF IInv, FreshestWait
  <1>6. QED
    BY <1>4, <1>5 DEF IInv

\* No step of the life cycle but QueueDeleted makes the queue disappear.
LEMMA StepInvariant == IInv /\ [Next]_vars => IInv'
  <1> SUFFICES ASSUME IInv, [Next]_vars PROVE IInv'
    OBVIOUS
  <1>1. CASE Observe \/ NotePoison
    BY <1>1, HandlerKeeps
  <1>2. CASE Publish
    BY <1>2, PublishKeeps
  <1>3. CASE Deliver
    BY <1>3, DeliverKeeps
  <1>4. CASE ParseRaises \/ SessionEnds \/ Kill
    <2>1. /\ queueExists' = queueExists
          /\ received' = {} /\ UNCHANGED <<sent, ready, observed, noted>>
      BY <1>4 DEF ParseRaises, SessionEnds, Kill, Runner!HandlerRaises,
                  Runner!ConnectionLost, Runner!StopConsuming, Runner!Kill
    <2>2. QED
      BY <2>1, LosingKeeps DEF IInv
  <1>5. CASE LinkLost
    <2>1. /\ queueExists' = queueExists
          /\ UNCHANGED <<sent, received, observed, noted>>
      BY <1>5 DEF LinkLost, Runner!LinkDrops, Runner!BrokerFails
    <2>2. ready' = ready \/ \E k \in 0..N : ready' = {m \in ready : m > k}
      BY <1>5 DEF LinkLost
    <2>3. /\ ready' \subseteq ready
          /\ \A m \in ready', k \in ready : m <= k => k \in ready'
      <3>1. CASE ready' = ready
        BY <3>1
      <3>2. CASE \E k \in 0..N : ready' = {m \in ready : m > k}
        <4>1. PICK n \in 0..N : ready' = {m \in ready : m > n}
          BY <3>2
        <4>2. ready \subseteq Nat
          BY DEF IInv, MessagesOK
        <4>3. QED
          BY <4>1, <4>2
      <3>3. QED
        BY <2>2, <3>1, <3>2
    <2>4. QED
      BY <2>1, <2>3, LosingKeeps DEF IInv
  <1>6. CASE QueueDeleted
    <2>1. ready' = {} /\ UNCHANGED <<sent, received, observed, noted>>
      BY <1>6 DEF QueueDeleted
    <2>2. QED
      BY <2>1, LosingKeeps
  <1>7. CASE \/ Quiet \/ QueueDeclared \/ BrokerDenies \/ BrokerRecovers
             \/ Signal \/ Restart \/ UNCHANGED vars
    <2>1. /\ UNCHANGED <<sent, ready, received, observed, noted>>
          /\ queueExists' \in {queueExists, TRUE}
      BY <1>7
      DEF Quiet, QueueDeclared, BrokerDenies, BrokerRecovers, Signal, Restart,
          vars, runner, network, messages, Runner!network,
          Runner!LeaveLoop, Runner!EnterConnect, Runner!ConnectOk,
          Runner!ConnectRetry, Runner!ConnectUnreachable,
          Runner!ConnectRejected, Runner!OpenChannel, Runner!Subscribe,
          Runner!SubscribeNotFound, Runner!CloseSession, Runner!BackoffOver,
          Runner!BrokerCancel, Runner!QueueDeclared, Runner!BrokerDenies,
          Runner!BrokerRecovers, Runner!Signal, Runner!Restart
    <2>2. QED
      BY <2>1, LosingKeeps DEF IInv
  <1>8. QED
    BY <1>1, <1>2, <1>3, <1>4, <1>5, <1>6, <1>7
    DEF Next, ProcessStep, ExternalStep

LEMMA Invariance == Spec => []IInv
  BY InitInvariant, StepInvariant, PTL DEF Spec

-----------------------------------------------------------------------------
(* What follows.                                                           *)

\* Every variable of the lossy path, the life cycle's included, keeps to its
\* set.
THEOREM TypeCorrect == Spec => []TypeOK
  <1>1. Spec => []RP!IInv
    BY RunnerInitInvariant, RunnerStepInvariant, PTL DEF Spec
  <1>2. RP!IInv /\ IInv => TypeOK
    BY DEF IInv, TypeOK, RP!IInv, RP!TypeOK, RP!FlagsOK, RP!ValuesOK,
           RP!SessionFields, Runner!TypeOK, Runner!FlagsOK, Runner!ValuesOK,
           Runner!SessionFields
  <1>3. QED
    BY <1>1, <1>2, Invariance, PTL

\* Whatever the cap, and whoever deletes the queue or cuts the connection, the
\* queue holds the newest messages published, without a gap.
THEOREM NewestAreKept == Spec => []FreshestWait
  <1>1. IInv => FreshestWait
    BY DEF IInv
  <1>2. QED
    BY <1>1, Invariance, PTL

\* A handled message is seen, or noted, in its turn.
LEMMA HandledInTurn ==
    ASSUME IInv, Observe \/ NotePoison
    PROVE  AMO!Next
  <1>1. PICK m \in received :
            /\ Handling(m) /\ m \notin Raising
            /\ received' = received \ {m} /\ ready' = ready
            /\ \/ /\ m \notin Poison
                  /\ observed' = observed \cup {m} /\ noted' = noted
               \/ /\ m \in Poison
                  /\ noted' = noted \cup {m} /\ observed' = observed
    BY DEF Observe, NotePoison, Poison, Raising
  <1>2. m \in 1..N /\ m \notin ready
    BY <1>1 DEF IInv, MessagesOK, Ordered
  <1>3. m \in Poison <=> ~OnContract(Body[m])
    BY <1>1, <1>2, HandlerJudges
  <1>4. AMO!InOrder(m)
    BY DEF AMO!InOrder, IInv, Ordered
  <1>5. /\ m \in ready \cup received
        /\ (ready \cup received)' = (ready \cup received) \ {m}
    BY <1>1, <1>2
  <1>6. AMO!See(m) \/ AMO!Note(m)
    BY <1>1, <1>2, <1>3, <1>4, <1>5 DEF AMO!See, AMO!Note
  <1>7. QED
    BY <1>2, <1>6 DEF AMO!Next

LEMMA PublishedIsAccepted ==
    ASSUME IInv, Publish
    PROVE  AMO!Next
  <1>1. /\ sent + 1 \in 1..N
        /\ UNCHANGED <<received, observed, noted>>
    BY ObserveConstants DEF ObserveConstants, Publish, IInv, MessagesOK
  <1>2. AMO!Newest(sent + 1)
    BY DEF AMO!Newest, IInv, MessagesOK, Ordered
  <1>3. ready' \subseteq ready \cup {sent + 1}
    BY DEF Publish, Overflow
  <1>4. AMO!Accept(sent + 1)
    BY <1>1, <1>2, <1>3 DEF AMO!Accept
  <1>5. QED
    BY <1>1, <1>4 DEF AMO!Next

\* The lossy path is at most once and in order: whatever happens to the
\* process, the queue and the connection, it behaves as AtMostOnce promises.
THEOREM ImplementsAtMostOnce == Spec => KeepsPromise
  <1>1. Init => AMO!Init
    BY DEF Init, AMO!Init
  <1>2. IInv /\ [Next]_vars => [AMO!Next]_(AMO!vars)
    <2> SUFFICES ASSUME IInv, [Next]_vars
                 PROVE  AMO!Next \/ UNCHANGED AMO!vars
      OBVIOUS
    <2>1. CASE Observe \/ NotePoison
      BY <2>1, HandledInTurn
    <2>2. CASE Publish
      BY <2>2, PublishedIsAccepted
    <2>3. CASE Deliver
      <3>1. ready \in SUBSET Nat /\ ready # {}
        BY <2>3 DEF Deliver, IInv, MessagesOK
      <3>2. Min(ready) \in ready
        BY <3>1, MinIsOldest
      <3>3. (ready \cup received)' = ready \cup received
        BY <2>3, <3>2 DEF Deliver
      <3>4. QED
        BY <2>3, <3>3 DEF Deliver, AMO!vars
    <2>4. CASE ParseRaises \/ SessionEnds \/ Kill \/ QueueDeleted \/ LinkLost
      <3>1. AMO!Lose
        BY <2>4 DEF ParseRaises, SessionEnds, Kill, QueueDeleted, LinkLost,
                    AMO!Lose
      <3>2. QED
        BY <3>1 DEF AMO!Next
    <2>5. CASE \/ Quiet \/ QueueDeclared \/ BrokerDenies \/ BrokerRecovers
               \/ Signal \/ Restart \/ UNCHANGED vars
      BY <2>5 DEF Quiet, QueueDeclared, BrokerDenies, BrokerRecovers, Signal,
                  Restart, vars, messages, AMO!vars
    <2>6. QED
      BY <2>1, <2>2, <2>3, <2>4, <2>5 DEF Next, ProcessStep, ExternalStep
  <1>3. QED
    BY <1>1, <1>2, Invariance, PTL DEF Spec, AMO!Spec, KeepsPromise
=============================================================================
