--------------------------- MODULE PublisherProofs ---------------------------
(***************************************************************************)
(* Safety of the software publisher, for any burst, any steady run and any *)
(* number of faults.                                                       *)
(*                                                                         *)
(* The main thread and paho's callbacks share ClientState without a lock.  *)
(* The invariant says what each thread may rely on between two of the      *)
(* other's assignments:                                                    *)
(*  - Answered: once the event is set, or a wait on it is over, the broker *)
(*    has accepted, or the failure is noted.                               *)
(*  - LatestNoted: the failure field is the latest answer, or a callback   *)
(*    that will overwrite it is under way.                                 *)
(*  - InFlight: what of a message is with paho, with the broker or on its  *)
(*    way back, and that it has its entry in state.pending.                *)
(*  - Accounted: where a message may be that paho no longer holds.         *)
(***************************************************************************)
EXTENDS Publisher, SequenceTheorems, TLAPS

\* What can be left of a callback.
Callbacks == {<<>>, <<"fail", "set">>, <<"succeed", "set">>, <<"set">>,
              <<"clear">>}

Before == {"start", "wait", "waiting", "check"}

Positions ==
    /\ callback \in Callbacks
    /\ pc \in Before => seq = 0
    /\ pc = "record" => seq > 0
    /\ pc = "await" => mode = "burst" /\ seq = Burst
    /\ awaited > 0 => pc \in {"await", "closing", "exited"}
    /\ awaited <= seq
    /\ exitCode = "none" <=> pc # "exited"
    /\ mode = "burst" /\ (pc = "closing" \/ exitCode = "ok") =>
        awaited = seq /\ seq = Burst

Noted == everAccepted \/ connectFailure

Answered ==
    /\ connected \/ pc = "check" => Noted
    /\ callback = <<"succeed", "set">> => everAccepted
    /\ callback = <<"set">> => Noted
    /\ pc \notin Before /\ exitCode \in {"none", "ok"} => everAccepted
    /\ seq > 0 => everAccepted

LatestNoted ==
    /\ callback = <<"fail", "set">> => lastConnack = "refused"
    /\ connectFailure /\ callback # <<"succeed", "set">> /\ pc # "exited"
        => lastConnack = "refused"

InFlight ==
    /\ outgoing \subseteq 1..seq
    /\ \A m \in outgoing : m \notin pending => pc = "record" /\ m = seq
    /\ sent \subseteq outgoing
    /\ \A a \in acks : a.seq \in sent
    /\ \A a, b \in acks : a.seq = b.seq => a = b

Told == routed \cup refusals

Accounted ==
    /\ \A a \in acks : a.ok => a.seq \in routed
    /\ 1..seq \subseteq outgoing \cup Told
    /\ 1..awaited \subseteq Told \cup timedOut

IInv == TypeOK /\ Positions /\ Answered /\ LatestNoted /\ InFlight /\ Accounted

-----------------------------------------------------------------------------
\* What is left of a callback is a sequence of at most two assignments.
LEMMA CallbacksTyped ==
    ASSUME NEW c \in Callbacks
    PROVE  c \in Seq({"fail", "succeed", "set", "clear"}) /\ Len(c) <= 2
  <1> DEFINE S == {"fail", "succeed", "set", "clear"}
  <1> SUFFICES c \in Seq(S) /\ Len(c) <= 2
    OBVIOUS
  <1>1. <<>> \in Seq(S) /\ Len(<<>>) = 0
    OBVIOUS
  <1>2. <<"fail", "set">> \in Seq(S) /\ Len(<<"fail", "set">>) = 2
    OBVIOUS
  <1>3. <<"succeed", "set">> \in Seq(S) /\ Len(<<"succeed", "set">>) = 2
    OBVIOUS
  <1>4. <<"set">> \in Seq(S) /\ Len(<<"set">>) = 1
    OBVIOUS
  <1>5. <<"clear">> \in Seq(S) /\ Len(<<"clear">>) = 1
    OBVIOUS
  <1> HIDE DEF S
  <1>6. \/ c = <<>> \/ c = <<"fail", "set">> \/ c = <<"succeed", "set">>
        \/ c = <<"set">> \/ c = <<"clear">>
    BY DEF Callbacks
  <1>7. CASE c = <<>>
    BY <1>1, <1>7
  <1>8. CASE c = <<"fail", "set">>
    BY <1>2, <1>8
  <1>9. CASE c = <<"succeed", "set">>
    BY <1>3, <1>9
  <1>10. CASE c = <<"set">>
    BY <1>4, <1>10
  <1>11. CASE c = <<"clear">>
    BY <1>5, <1>11
  <1>12. QED
    BY <1>6, <1>7, <1>8, <1>9, <1>10, <1>11

\* The callbacks are told apart by what is left of them.
LEMMA CallbacksDiffer ==
    /\ \A c \in {<<>>, <<"set">>, <<"clear">>, <<"fail", "set">>} :
            c # <<"succeed", "set">>
    /\ \A c \in {<<>>, <<"clear">>, <<"fail", "set">>, <<"succeed", "set">>} :
            c # <<"set">>
  OBVIOUS

LEMMA InitInvariant == Init => IInv
  <1> SUFFICES ASSUME Init PROVE IInv
    OBVIOUS
  <1>1. TypeOK
    <2>1. callback \in Callbacks
      BY DEF Init, Callbacks
    <2>2. /\ seq \in 0..(IF mode = "burst" THEN Burst ELSE MaxSeq)
          /\ awaited \in 0..Burst /\ faults \in 0..MaxFaults
      BY PublisherConstants DEF PublisherConstants, Init
    <2>3. QED
      BY <2>1, <2>2, CallbacksTyped DEF Init, TypeOK
  <1>2. Positions
    BY PublisherConstants
    DEF PublisherConstants, Init, Positions, Callbacks, Before
  <1>3. Answered /\ LatestNoted
    BY DEF Init, Answered, LatestNoted, Before
  <1>4. InFlight /\ Accounted
    BY DEF Init, InFlight, Accounted
  <1>5. QED
    BY <1>1, <1>2, <1>3, <1>4 DEF IInv

-----------------------------------------------------------------------------
(* The main thread.                                                        *)

\* connect() touches no message: it only waits, and draws its conclusion.
LEMMA ConnectingKeeps ==
    ASSUME IInv,
           \/ Connect \/ ConnectFails \/ Wait \/ WaitTimesOut
           \/ Rejected \/ Accepted
    PROVE  IInv'
  <1> USE DEF Connect, ConnectFails, Wait, WaitTimesOut, Rejected, Accepted,
              Exit, burst, shared, network, world, history
  <1>1. TypeOK'
    <2>1. CASE Connect
      BY <2>1, PublisherConstants
      DEF PublisherConstants, IInv, TypeOK, Seqs
    <2>2. CASE ConnectFails
      BY <2>2, PublisherConstants
      DEF PublisherConstants, IInv, TypeOK, Seqs
    <2>3. CASE Wait
      BY <2>3, PublisherConstants
      DEF PublisherConstants, IInv, TypeOK, Seqs
    <2>4. CASE WaitTimesOut
      BY <2>4, PublisherConstants
      DEF PublisherConstants, IInv, TypeOK, Seqs
    <2>5. CASE Rejected
      BY <2>5, PublisherConstants
      DEF PublisherConstants, IInv, TypeOK, Seqs
    <2>6. CASE Accepted
      BY <2>6, PublisherConstants
      DEF PublisherConstants, IInv, TypeOK, Seqs
    <2>7. QED
      BY <2>1, <2>2, <2>3, <2>4, <2>5, <2>6
  <1>2. Positions'
    BY DEF IInv, Positions, Callbacks, Before
  <1>3. Answered'
    BY DEF IInv, Positions, Answered, Noted, Before
  <1>4. LatestNoted'
    BY DEF IInv, LatestNoted
  <1>5. InFlight' /\ Accounted'
    BY DEF IInv, InFlight, Accounted, Told
  <1>6. QED
    BY <1>1, <1>2, <1>3, <1>4, <1>5 DEF IInv

\* A message is paho's before it has its entry.
LEMMA PublishingKeeps ==
    ASSUME IInv, Publish \/ Record \/ Sleep \/ LeaveLoop
    PROVE  IInv'
  <1> USE DEF Publish, Record, Sleep, LeaveLoop, Loops, burst, shared,
              network, world, history
  <1>1. TypeOK'
    <2>1. CASE Publish
      BY <2>1, PublisherConstants
      DEF PublisherConstants, IInv, TypeOK, Seqs
    <2>2. CASE Record
      BY <2>2, PublisherConstants
      DEF PublisherConstants, IInv, TypeOK, Positions, Seqs
    <2>3. CASE Sleep
      BY <2>3, PublisherConstants
      DEF PublisherConstants, IInv, TypeOK, Seqs
    <2>4. CASE LeaveLoop
      BY <2>4, PublisherConstants
      DEF PublisherConstants, IInv, TypeOK, Seqs
    <2>5. QED
      BY <2>1, <2>2, <2>3, <2>4
  <1>2. Positions'
    BY PublisherConstants
    DEF PublisherConstants, IInv, TypeOK, Positions, Before
  <1>3. Answered' /\ LatestNoted'
    BY DEF IInv, TypeOK, Positions, Answered, LatestNoted, Noted, Before
  <1>4. InFlight'
    <2>1. CASE Publish
      BY <2>1, PublisherConstants
      DEF PublisherConstants, IInv, TypeOK, InFlight
    <2>2. CASE Record
      BY <2>2, PublisherConstants
      DEF PublisherConstants, IInv, TypeOK, InFlight
    <2>3. CASE Sleep
      BY <2>3, PublisherConstants
      DEF PublisherConstants, IInv, TypeOK, InFlight
    <2>4. CASE LeaveLoop
      BY <2>4, PublisherConstants
      DEF PublisherConstants, IInv, TypeOK, InFlight
    <2>5. QED
      BY <2>1, <2>2, <2>3, <2>4
  <1>5. Accounted'
    BY DEF IInv, TypeOK, Positions, Accounted, Told
  <1>6. QED
    BY <1>1, <1>2, <1>3, <1>4, <1>5 DEF IInv

\* A message waited for and no longer paho's is accounted for.
LEMMA AwaitingKeeps ==
    ASSUME IInv,
           AwaitPublished \/ AwaitTimesOut \/ AwaitRaises \/ BurstOver \/ Close
    PROVE  IInv'
  <1> USE DEF AwaitPublished, AwaitTimesOut, AwaitRaises, BurstOver, Close,
              Exit, burst, shared, network, world, history
  <1>1. TypeOK'
    <2>1. CASE AwaitPublished
      BY <2>1, PublisherConstants
      DEF PublisherConstants, IInv, TypeOK, Positions, Seqs
    <2>2. CASE AwaitTimesOut
      BY <2>2, PublisherConstants
      DEF PublisherConstants, IInv, TypeOK, Positions, Seqs
    <2>3. CASE BurstOver
      BY <2>3, PublisherConstants
      DEF PublisherConstants, IInv, TypeOK, Positions, Seqs
    <2>4. CASE Close
      BY <2>4, PublisherConstants
      DEF PublisherConstants, IInv, TypeOK, Positions, Seqs
    <2>5. CASE AwaitRaises
      BY <2>5, PublisherConstants
      DEF PublisherConstants, IInv, TypeOK, Positions, Seqs
    <2>6. QED
      BY <2>1, <2>2, <2>3, <2>4, <2>5
  <1>2. Positions'
    BY PublisherConstants
    DEF PublisherConstants, IInv, TypeOK, Positions, Callbacks, Before
  <1>3. Answered' /\ LatestNoted'
    BY DEF IInv, Positions, Answered, LatestNoted, Noted, Before, Callbacks
  <1>4. InFlight'
    BY DEF IInv, InFlight
  <1>5. Accounted'
    BY DEF IInv, TypeOK, Positions, Accounted, Told
  <1>6. QED
    BY <1>1, <1>2, <1>3, <1>4, <1>5 DEF IInv

-----------------------------------------------------------------------------
(* The network thread, paho and the broker.                                *)

\* One assignment of a callback: the failure comes before the event.
LEMMA CallbackStepKeeps == ASSUME IInv, CallbackStep PROVE IInv'
  <1>1. /\ \/ /\ callback = <<"fail", "set">> /\ callback' = <<"set">>
              /\ connectFailure' = TRUE /\ UNCHANGED <<connected, pc>>
           \/ /\ callback = <<"succeed", "set">> /\ callback' = <<"set">>
              /\ connectFailure' = FALSE /\ UNCHANGED <<connected, pc>>
           \/ /\ callback = <<"set">> /\ callback' = <<>>
              /\ connected' = TRUE /\ UNCHANGED connectFailure
              /\ pc' = IF pc = "waiting" THEN "check" ELSE pc
           \/ /\ callback = <<"clear">> /\ callback' = <<>>
              /\ connected' = FALSE /\ UNCHANGED <<connectFailure, pc>>
        /\ UNCHANGED <<mode, exitCode, stopEvent, seq, awaited, timedOut, unsent,
                       pending, net, outgoing, sent, refusals, broker, routed,
                       acks, faults, lastConnack, everAccepted>>
    <2>1. callback \in Callbacks \ {<<>>}
      BY DEF IInv, Positions, CallbackStep
    <2>2. CASE callback = <<"fail", "set">>
      BY <2>2 DEF CallbackStep, burst, world, history
    <2>3. CASE callback = <<"succeed", "set">>
      BY <2>3 DEF CallbackStep, burst, world, history
    <2>4. CASE callback = <<"set">>
      BY <2>4 DEF CallbackStep, burst, world, history
    <2>5. CASE callback = <<"clear">>
      BY <2>5 DEF CallbackStep, burst, world, history
    <2>6. QED
      BY <2>1, <2>2, <2>3, <2>4, <2>5 DEF Callbacks
  <1>2. callback' \in Callbacks
    BY <1>1 DEF Callbacks
  <1>3. TypeOK'
    <2>1. /\ connected' \in BOOLEAN /\ connectFailure' \in BOOLEAN
          /\ pc' \in {pc, "check"} /\ Seqs' = Seqs
      BY <1>1 DEF IInv, TypeOK, Seqs
    <2>2. QED
      BY <1>1, <1>2, <2>1, CallbacksTyped DEF IInv, TypeOK
  <1>4. Positions'
    BY <1>1, <1>2 DEF IInv, Positions, Before
  <1>5. Answered'
    BY <1>1 DEF IInv, Answered, Noted, Before
  <1>6. LatestNoted'
    <2>1. connectFailure' => \/ callback # <<"succeed", "set">>
                             \/ connectFailure' = FALSE
      BY <1>1, CallbacksDiffer
    <2>2. QED
      BY <1>1, <2>1 DEF IInv, LatestNoted
  <1>7. InFlight' /\ Accounted'
    BY <1>1 DEF IInv, InFlight, Accounted, Told
  <1>8. QED
    BY <1>3, <1>4, <1>5, <1>6, <1>7 DEF IInv

\* A PUBACK takes the message off paho's hands: it is in a queue, or its
\* refusal is logged.
LEMMA PubAckKeeps == ASSUME IInv, PubAck PROVE IInv'
  <1>1. PICK a \in acks :
            /\ acks' = acks \ {a}
            /\ OnPublish(a)
            /\ pending' = pending \ {a.seq}
            /\ outgoing' = outgoing \ {a.seq} /\ sent' = sent \ {a.seq}
    BY DEF PubAck
  <1> USE DEF PubAck, OnPublish, main, burst, history
  <1>2. a \in [seq : Seqs, ok : BOOLEAN]
    BY DEF IInv, TypeOK
  <1>3. TypeOK'
    <2>1. /\ Seqs' = Seqs /\ refusals' \subseteq Seqs
          /\ pending' \subseteq Seqs /\ outgoing' \subseteq Seqs
          /\ sent' \subseteq outgoing'
          /\ acks' \subseteq [seq : Seqs, ok : BOOLEAN]
      BY <1>1, <1>2 DEF IInv, TypeOK, Seqs
    <2>2. QED
      BY <2>1 DEF IInv, TypeOK
  <1>4. Positions' /\ Answered' /\ LatestNoted'
    BY DEF IInv, Positions, Answered, LatestNoted, Noted, Before
  <1>5. InFlight'
    BY <1>1 DEF IInv, InFlight
  <1>6. Accounted'
    BY <1>1, <1>2 DEF IInv, InFlight, Accounted, Told
  <1>7. QED
    BY <1>3, <1>4, <1>5, <1>6 DEF IInv

\* A message goes out once in a connection.
LEMMA SendKeeps == ASSUME IInv, Send PROVE IInv'
  <1> USE DEF Send, main, burst, shared, history
  <1>1. TypeOK'
    BY PublisherConstants DEF PublisherConstants, IInv, TypeOK, Seqs
  <1>2. Positions' /\ Answered' /\ LatestNoted'
    BY DEF IInv, Positions, Answered, LatestNoted, Noted, Before
  <1>3. InFlight'
    BY DEF IInv, TypeOK, InFlight
  <1>4. Accounted'
    BY DEF IInv, TypeOK, Accounted, Told
  <1>5. QED
    BY <1>1, <1>2, <1>3, <1>4 DEF IInv

\* The broker answers, or the connection goes: a callback begins.
LEMMA ConnectionKeeps ==
    ASSUME IInv, Connack \/ RefusedEnds \/ LinkLost \/ Reconnect
    PROVE  IInv'
  <1> USE DEF Connack, RefusedEnds, LinkLost, Reconnect, Ends, OnConnect,
              OnDisconnect, main, burst, shared, world, history
  <1>1. callback' \in Callbacks
    BY DEF IInv, Positions, Callbacks
  <1>2. TypeOK'
    <2>1. CASE Connack
      BY <2>1, <1>1, CallbacksTyped, PublisherConstants
      DEF PublisherConstants, IInv, TypeOK, Seqs
    <2>2. CASE RefusedEnds
      BY <2>2, <1>1, CallbacksTyped, PublisherConstants
      DEF PublisherConstants, IInv, TypeOK, Seqs
    <2>3. CASE LinkLost
      BY <2>3, <1>1, CallbacksTyped, PublisherConstants
      DEF PublisherConstants, IInv, TypeOK, Seqs
    <2>4. CASE Reconnect
      BY <2>4, <1>1, CallbacksTyped, PublisherConstants
      DEF PublisherConstants, IInv, TypeOK, Seqs
    <2>5. QED
      BY <2>1, <2>2, <2>3, <2>4
  <1>3. Positions'
    BY <1>1 DEF IInv, Positions, Before
  <1>4. Answered'
    <2>1. CASE Connack
      BY <2>1, CallbacksDiffer
      DEF IInv, TypeOK, Answered, Noted, Before
    <2>2. CASE RefusedEnds
      BY <2>2, CallbacksDiffer
      DEF IInv, TypeOK, Answered, Noted, Before
    <2>3. CASE LinkLost
      BY <2>3, CallbacksDiffer
      DEF IInv, TypeOK, Answered, Noted, Before
    <2>4. CASE Reconnect
      BY <2>4, CallbacksDiffer
      DEF IInv, TypeOK, Answered, Noted, Before
    <2>5. QED
      BY <2>1, <2>2, <2>3, <2>4
  <1>5. LatestNoted'
    BY CallbacksDiffer DEF IInv, LatestNoted
  <1>6. InFlight' /\ Accounted'
    BY DEF IInv, InFlight, Accounted, Told
  <1>7. QED
    BY <1>2, <1>3, <1>4, <1>5, <1>6 DEF IInv

\* A signal, and the broker's changes of mind, reach none of it.
LEMMA WorldKeeps ==
    ASSUME IInv, Signal \/ BrokerChanges \/ UNCHANGED vars
    PROVE  IInv'
  <1> USE DEF Signal, BrokerChanges, vars, main, burst, shared, network, world,
              history
  <1>1. TypeOK'
    <2>1. CASE Signal
      BY <2>1, PublisherConstants
      DEF PublisherConstants, IInv, TypeOK, Seqs
    <2>2. CASE BrokerChanges
      BY <2>2, PublisherConstants
      DEF PublisherConstants, IInv, TypeOK, Seqs
    <2>3. CASE UNCHANGED vars
      BY <2>3, PublisherConstants
      DEF PublisherConstants, IInv, TypeOK, Seqs
    <2>4. QED
      BY <2>1, <2>2, <2>3
  <1>2. Positions' /\ Answered' /\ LatestNoted'
    BY DEF IInv, Positions, Answered, LatestNoted, Noted, Before
  <1>3. InFlight' /\ Accounted'
    BY DEF IInv, InFlight, Accounted, Told
  <1>4. QED
    BY <1>1, <1>2, <1>3 DEF IInv

LEMMA StepInvariant == IInv /\ [Next]_vars => IInv'
  BY ConnectingKeeps, PublishingKeeps, AwaitingKeeps, CallbackStepKeeps,
     PubAckKeeps, SendKeeps, ConnectionKeeps, WorldKeeps
  DEF Next, MainStep, NetworkStep

LEMMA Invariance == Spec => []IInv
  BY InitInvariant, StepInvariant, PTL DEF Spec

-----------------------------------------------------------------------------
(* What follows.                                                           *)

\* Every variable of the publisher, of paho and of the broker keeps to its set.
THEOREM TypeCorrect == Spec => []TypeOK
  <1>1. IInv => TypeOK
    BY DEF IInv
  <1>2. QED
    BY <1>1, Invariance, PTL

\* Nothing is published to a broker that never accepted the credentials.
THEOREM PublishesWhenAccepted == Spec => []OnlyWhenAccepted
  <1>1. IInv => OnlyWhenAccepted
    BY DEF IInv, Answered, OnlyWhenAccepted
  <1>2. QED
    BY <1>1, Invariance, PTL

\* "burst complete" leaves no message out, whatever the broker did meanwhile and
\* however its PUBACKs fell between client.publish() and the entry in pending.
THEOREM BurstIsAccountedFor == Spec => []BurstTellsTheTruth
  <1>1. IInv => BurstTellsTheTruth
    BY DEF IInv, Positions, Accounted, Told, BurstTellsTheTruth, Seqs
  <1>2. QED
    BY <1>1, Invariance, PTL

\* Exit 3 reports the answer in force.
THEOREM RejectionIsFresh == Spec => RejectedIsFresh
  <1>1. ASSUME IInv, [Next]_vars, exitCode' = "rejected", exitCode = "none"
        PROVE  lastConnack = "refused" \/ callback # <<>>
    <2>1. Rejected
      BY <1>1
      DEF Next, MainStep, NetworkStep, vars, main, Exit, Connect, ConnectFails,
          Wait, WaitTimesOut, Accepted, Publish, Record, Sleep, LeaveLoop,
          AwaitPublished, AwaitTimesOut, AwaitRaises, BurstOver, Close, Signal,
          CallbackStep, PubAck, Connack, Ends, RefusedEnds, LinkLost,
          Reconnect, Send, BrokerChanges
    <2>2. QED
      BY <1>1, <2>1 DEF Rejected, IInv, LatestNoted
  <1>2. QED
    BY <1>1, Invariance, PTL DEF Spec, RejectedIsFresh

\* The one acknowledgement without a name overtook the assignment that gives
\* it one.
THEOREM NewestIsUnnamed == Spec => OnlyTheNewestIsUnnamed
  <1>1. IInv /\ [Next]_vars =>
          \A a \in acks \ acks' :
            net' = "up" /\ a.seq \notin pending
                => pc = "record" /\ a.seq = seq
    BY DEF IInv, InFlight
  <1>2. QED
    BY <1>1, Invariance, PTL DEF Spec, OnlyTheNewestIsUnnamed
=============================================================================
