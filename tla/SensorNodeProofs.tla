-------------------------- MODULE SensorNodeProofs --------------------------
(***************************************************************************)
(* Safety of the sensor node's outage policy, for any gate, limit, fuse    *)
(* and map, any number of readings and of outages.                         *)
(*                                                                         *)
(* IInv relates what the two tasks share and what they keep apart:         *)
(*  - Sessions: s_connected trails the client's session by the assignments *)
(*    the event handler has still to make.                                 *)
(*  - Ledger: every reading is accounted for, and only what the broker     *)
(*    took is acknowledged as such.                                        *)
(*  - GateClock: the clock of the gate never runs ahead of the outage.     *)
(*  - FirstMinute: what an outage has put in the outbox, by how long it    *)
(*    has lasted, in its three phases: not noticed, not stamped, timed.    *)
(*  - Names: the slots of the map against the messages of the outbox, and  *)
(*    the slots leaked against the pending_put()s overtaken.               *)
(***************************************************************************)
EXTENDS SensorNode, SequenceTheorems, FiniteSetTheorems, TLAPS

\* A reading is taken and its fate not decided.
Undecided == pc \in {"clock", "offline", "admitted"}
Pending == IF Undecided THEN 1 ELSE 0

\* The handler has still to stamp the end of a session.
Unstamped == connected /\ handling = Disconnected

Sessions ==
    /\ session => connected /\ handling = <<>> /\ link # "down"
    /\ ~session /\ handling = <<>> => ~connected
    /\ link = "dead" => session
    /\ link # "dead" => unnoticed = 0
    /\ pc # "idle" => seq >= 1

AcksTrue == \A a \in acks : a.ok => a.seq \in delivered
Ledger == HolesAreLosses /\ AcksTrue

GateClock ==
    /\ ~connected => lastUp <= offlineSince
    /\ handling = <<"clear">> /\ connected => offlineSince = seq

FirstMinute ==
    /\ shut => ~connected /\ PastGate
    /\ pc = "admitted" => ~shut
    /\ link = "dead" => admitted + Pending <= unnoticed + 1
    /\ ~session /\ Unstamped => admitted + Pending <= Lag + 1
    /\ ~session /\ ~Unstamped =>
        /\ pc = "admitted" => ~PastGate
        /\ PastGate => admitted <= Gate + Lag + 1
        /\ ~PastGate => admitted + Pending <= seq - offlineSince + Lag + 1

\* No two messages of the outbox have an identifier or a reading in common.
DistinctMessages ==
    \A i, j \in DOMAIN outbox : i # j =>
        outbox[i].id # outbox[j].id /\ outbox[i].seq # outbox[j].seq

\* The readings the map stands for are older than the one under way, and no
\* two slots stand for the same.
SlotSeqs ==
    /\ \A i \in DOMAIN slots : /\ slots[i].seq <= seq
                               /\ pc # "idle" => slots[i].seq < seq
                               /\ slots[i] # Free => slots[i].seq >= 1
    /\ \A i, k \in DOMAIN slots :
        slots[i] # Free /\ slots[i].seq = slots[k].seq => i = k

\* What pending_put() is about to note is in the outbox, or was overtaken.
PutKnown ==
    pc = "put" =>
        /\ lastId \in 1..Ids
        /\ \A j \in DOMAIN outbox : outbox[j].seq = seq => outbox[j].id = lastId

\* Every message of the outbox has its slot, unless the map was full or the
\* put is still to come.
Held(j) ==
    \/ \E i \in DOMAIN slots : Stands(i, j)
    \/ outbox[j].seq \in unnamed
    \/ pc = "put" /\ outbox[j].seq = seq
MessagesHeld == \A j \in DOMAIN outbox : Held(j)

\* A pending_put() that was overtaken and is still to come will leak a slot.
Overtaken == pc = "put" /\ \A j \in DOMAIN outbox : outbox[j].seq # seq
Owed == IF Overtaken THEN 1 ELSE 0
LeaksCounted == Cardinality(Leaked) + Owed <= races

Names ==
    /\ DistinctMessages /\ SlotSeqs /\ PutKnown
    /\ MessagesHeld /\ LeaksCounted

IInv == TypeOK /\ Sessions /\ Ledger /\ GateClock /\ FirstMinute /\ Names

-----------------------------------------------------------------------------
(* Data.                                                                   *)

Message == [seq : 1..MaxSeq, id : 1..Ids, sent : BOOLEAN]

\* The places of a sequence from which one was removed, in the one before.
Before(i, k) == IF k < i THEN k ELSE k + 1

LEMMA RemoveAtFacts ==
    ASSUME NEW S, NEW s \in Seq(S), NEW i \in 1..Len(s)
    PROVE  /\ RemoveAt(s, i) \in Seq(S)
           /\ Len(RemoveAt(s, i)) = Len(s) - 1
           /\ \A k \in 1..(Len(s) - 1) :
                /\ Before(i, k) \in 1..Len(s)
                /\ RemoveAt(s, i)[k] = s[Before(i, k)]
  <1>. DEFINE front == SubSeq(s, 1, i - 1)
              back == SubSeq(s, i + 1, Len(s))
  <1>1. Len(s) \in Nat
    OBVIOUS
  <1>2. /\ front \in Seq(S) /\ Len(front) = i - 1
        /\ \A k \in 1..(i - 1) : front[k] = s[k]
    <2>1. /\ Len(front) = i - 1
          /\ \A k \in 1..(i - 1) : front[k] = s[k]
      BY <1>1, SubSeqProperties
    <2>2. \A k \in 1..(i - 1) : s[k] \in S
      BY <1>1, ElementOfSeq
    <2>3. QED
      BY <1>1, <2>1, <2>2, SubSeqProperties
  <1>3. /\ back \in Seq(S) /\ Len(back) = Len(s) - i
        /\ \A k \in 1..(Len(s) - i) : back[k] = s[i + k]
    BY <1>1, SubSeqProperties
  <1>4. RemoveAt(s, i) = front \o back
    BY DEF RemoveAt
  <1>. HIDE DEF front, back
  <1>5. /\ front \o back \in Seq(S)
        /\ Len(front \o back) = Len(front) + Len(back)
        /\ \A k \in 1..(Len(front) + Len(back)) :
             (front \o back)[k] =
               IF k <= Len(front) THEN front[k] ELSE back[k - Len(front)]
    BY <1>2, <1>3, ConcatProperties
  <1>. DEFINE t == RemoveAt(s, i)
  <1>6. /\ t \in Seq(S) /\ Len(t) = Len(front) + Len(back)
        /\ \A k \in 1..(Len(front) + Len(back)) :
             t[k] = IF k <= Len(front) THEN front[k] ELSE back[k - Len(front)]
    BY <1>4, <1>5
  <1>. HIDE DEF t
  <1>7. Len(front) + Len(back) = Len(s) - 1
    BY <1>1, <1>2, <1>3
  <1>8. ASSUME NEW k \in 1..(Len(s) - 1)
        PROVE  Before(i, k) \in 1..Len(s) /\ t[k] = s[Before(i, k)]
    <2>1. CASE k < i
      <3>1. k \in 1..(i - 1) /\ k <= Len(front)
        BY <1>2, <2>1
      <3>2. t[k] = front[k]
        BY <1>6, <1>7, <3>1
      <3>3. QED
        BY <1>1, <1>2, <2>1, <3>1, <3>2 DEF Before
    <2>2. CASE ~(k < i)
      <3>1. /\ k - Len(front) = k - i + 1 /\ ~(k <= Len(front))
            /\ k - i + 1 \in 1..(Len(s) - i) /\ i + (k - i + 1) = k + 1
        BY <1>1, <1>2, <2>2
      <3>2. t[k] = back[k - i + 1]
        BY <1>6, <1>7, <3>1
      <3>3. t[k] = s[k + 1]
        BY <1>3, <3>1, <3>2
      <3>4. QED
        BY <1>1, <2>2, <3>3 DEF Before
    <2>3. QED
      BY <2>1, <2>2
  <1>9. QED
    BY <1>6, <1>7, <1>8 DEF t

\* Before() is one to one onto the other places.
LEMMA BeforeFacts ==
    ASSUME NEW n \in Nat, NEW i \in 1..n
    PROVE  /\ \A k \in 1..(n - 1) : Before(i, k) # i
           /\ \A k, l \in 1..(n - 1) : Before(i, k) = Before(i, l) => k = l
           /\ \A j \in 1..n : j # i =>
                \E k \in 1..(n - 1) : Before(i, k) = j
  <1>1. ASSUME NEW j \in 1..n, j # i
        PROVE  \E k \in 1..(n - 1) : Before(i, k) = j
    <2>1. CASE j < i
      BY <2>1 DEF Before
    <2>2. CASE i < j
      <3>1. j - 1 \in 1..(n - 1) /\ Before(i, j - 1) = j
        BY <2>2 DEF Before
      <3>2. QED
        BY <3>1
    <2>3. QED
      BY <1>1, <2>1, <2>2
  <1>2. QED
    BY <1>1 DEF Before

LEMMA MinFacts ==
    ASSUME NEW S \in SUBSET Nat, S # {}
    PROVE  Min(S) \in S
  <1>1. PICK x \in S : \A y \in S : ~(<<y, x>> \in OpToRel(<, Nat))
    BY NatLessThanWellFounded, WFMin
  <1>2. ASSUME NEW y \in S PROVE x <= y
    <2>1. x \in Nat /\ y \in Nat
      OBVIOUS
    <2>2. ~(y < x)
      BY <1>1, <2>1 DEF OpToRel
    <2>3. QED
      BY <2>1, <2>2
  <1>3. QED
    BY <1>2 DEF Min

LEMMA HandlingFacts ==
    /\ Disconnected # <<>> /\ Disconnected # <<"clear">>
    /\ <<"clear">> # <<>>
    /\ Head(Disconnected) = "stamp" /\ Tail(Disconnected) = <<"clear">>
    /\ Head(<<"clear">>) = "clear" /\ Tail(<<"clear">>) = <<>>
  BY DEF Disconnected

\* The handler's two assignments, one by one.
LEMMA HandlerSteps ==
    ASSUME TypeOK, HandlerStep
    PROVE  \/ /\ handling = Disconnected /\ handling' = <<"clear">>
              /\ offlineSince' = Stamp /\ connected' = connected
           \/ /\ handling = <<"clear">> /\ handling' = <<>>
              /\ connected' = FALSE /\ offlineSince' = offlineSince
  <1>1. CASE handling = Disconnected
    BY <1>1, HandlingFacts DEF HandlerStep
  <1>2. CASE handling = <<"clear">>
    BY <1>2, HandlingFacts DEF HandlerStep
  <1>3. QED
    BY <1>1, <1>2 DEF TypeOK, HandlerStep, Disconnected

-----------------------------------------------------------------------------
(* What the steps do to the outbox and the map.                            *)

LEMMA OutboxFacts ==
    ASSUME TypeOK
    PROVE  /\ outbox \in Seq(Message) /\ DOMAIN outbox = 1..Len(outbox)
           /\ Len(outbox) \in Nat /\ Len(outbox) <= Limit
           /\ \A i \in DOMAIN outbox :
                /\ outbox[i] \in Message
                /\ outbox[i].seq \in 1..MaxSeq /\ outbox[i].id \in 1..Ids
           /\ outbox # <<>> => 1 \in DOMAIN outbox
  <1>1. outbox \in Seq(Message) /\ Len(outbox) <= Limit
    BY DEF TypeOK, Message
  <1>2. DOMAIN outbox = 1..Len(outbox) /\ Len(outbox) \in Nat
    BY <1>1
  <1>3. \A i \in DOMAIN outbox : outbox[i] \in Message
    BY <1>1, <1>2, ElementOfSeq
  <1>4. \A m \in Message : m.seq \in 1..MaxSeq /\ m.id \in 1..Ids
    BY DEF Message
  <1>5. outbox # <<>> => 1 \in DOMAIN outbox
    BY <1>1, <1>2, EmptySeq
  <1>6. QED
    BY <1>1, <1>2, <1>3, <1>4, <1>5

LEMMA LeavesFacts ==
    ASSUME TypeOK, NEW i \in DOMAIN outbox, Leaves(i)
    PROVE  /\ outbox' \in Seq(Message) /\ Len(outbox') = Len(outbox) - 1
           /\ DOMAIN outbox' = 1..(Len(outbox) - 1)
           /\ \A k \in DOMAIN outbox' :
                Before(i, k) \in DOMAIN outbox /\ outbox'[k] = outbox[Before(i, k)]
           /\ \A j \in DOMAIN outbox : j # i =>
                \E k \in DOMAIN outbox' : Before(i, k) = j
           /\ \A k \in DOMAIN outbox' : Before(i, k) # i
           /\ \A k, l \in DOMAIN outbox' : Before(i, k) = Before(i, l) => k = l
  <1>1. outbox \in Seq(Message) /\ DOMAIN outbox = 1..Len(outbox)
        /\ Len(outbox) \in Nat
    BY DEF TypeOK, Message
  <1>2. /\ outbox' \in Seq(Message) /\ Len(outbox') = Len(outbox) - 1
        /\ \A k \in 1..(Len(outbox) - 1) :
             Before(i, k) \in 1..Len(outbox) /\ outbox'[k] = outbox[Before(i, k)]
    BY <1>1, RemoveAtFacts DEF Leaves
  <1>3. DOMAIN outbox' = 1..(Len(outbox) - 1)
    BY <1>2
  <1>. DEFINE n == Len(outbox)
  <1>4. n \in Nat /\ i \in 1..n
    BY <1>1
  <1>. HIDE DEF n
  <1>5. /\ \A k \in 1..(n - 1) : Before(i, k) # i
        /\ \A k, l \in 1..(n - 1) : Before(i, k) = Before(i, l) => k = l
        /\ \A j \in 1..n : j # i => \E k \in 1..(n - 1) : Before(i, k) = j
    BY <1>4, BeforeFacts
  <1>6. QED
    BY <1>1, <1>2, <1>3, <1>5 DEF n

LEMMA TakenFacts ==
    ASSUME TypeOK, NEW id
    PROVE  \/ Slot(id) = {} /\ Taken(id) = slots
           \/ \E i \in Slot(id) : /\ i \in DOMAIN slots /\ Min(Slot(id)) = i
                                  /\ Taken(id) = [slots EXCEPT ![i] = Free]
  <1>1. Slot(id) \in SUBSET Nat /\ Slot(id) \subseteq DOMAIN slots
    BY NodeConstants DEF NodeConstants, TypeOK, Slot
  <1>2. QED
    BY <1>1, MinFacts DEF Taken

LEMMA EnqueueFacts ==
    ASSUME TypeOK, Sessions, Enqueue
    PROVE  /\ lastId' \in 1..Ids
           /\ outbox' \in Seq(Message) /\ Len(outbox') = Len(outbox) + 1
           /\ DOMAIN outbox' = 1..(Len(outbox) + 1)
           /\ DOMAIN outbox = 1..Len(outbox) /\ Len(outbox) \in Nat
           /\ \A i \in DOMAIN outbox : outbox'[i] = outbox[i]
           /\ outbox'[Len(outbox) + 1] = [seq |-> seq, id |-> lastId', sent |-> FALSE]
  <1>1. outbox \in Seq(Message) /\ DOMAIN outbox = 1..Len(outbox)
        /\ Len(outbox) \in Nat
    BY DEF TypeOK, Message
  <1>2. Ids \in Nat \ {0} /\ lastId \in Nat
    BY NodeConstants DEF NodeConstants, Enqueue, TypeOK
  <1>3. lastId' \in 1..Ids
    BY <1>2 DEF Enqueue, EnqueueAt
  <1>4. seq \in 1..MaxSeq
    BY NodeConstants DEF NodeConstants, TypeOK, Sessions, Enqueue, Fits
  <1>. DEFINE m == [seq |-> seq, id |-> lastId', sent |-> FALSE]
  <1>5. m \in Message
    BY <1>3, <1>4 DEF Message
  <1>6. outbox' = Append(outbox, m)
    BY DEF Enqueue, EnqueueAt
  <1>. HIDE DEF m
  <1>7. /\ outbox' \in Seq(Message) /\ Len(outbox') = Len(outbox) + 1
        /\ \A i \in 1..Len(outbox) : outbox'[i] = outbox[i]
        /\ outbox'[Len(outbox) + 1] = m
    BY <1>1, <1>5, <1>6, AppendProperties
  <1>8. QED
    BY <1>1, <1>3, <1>7 DEF m

\* Connected and Send only change whether a message was sent.
LEMMA SameMessages ==
    ASSUME TypeOK, Connected \/ Send
    PROVE  /\ outbox' \in Seq(Message) /\ DOMAIN outbox' = DOMAIN outbox
           /\ Len(outbox') = Len(outbox)
           /\ \A i \in DOMAIN outbox : /\ outbox'[i].seq = outbox[i].seq
                                       /\ outbox'[i].id = outbox[i].id
  <1>1. /\ outbox \in Seq(Message) /\ DOMAIN outbox = 1..Len(outbox)
        /\ Len(outbox) \in Nat
        /\ \A i \in DOMAIN outbox : outbox[i] \in Message
    BY OutboxFacts
  <1>2. CASE Connected
    <2>1. outbox' = [i \in DOMAIN outbox |-> [outbox[i] EXCEPT !.sent = FALSE]]
      BY <1>2 DEF Connected
    <2>2. \A i \in DOMAIN outbox :
            /\ [outbox[i] EXCEPT !.sent = FALSE] \in Message
            /\ [outbox[i] EXCEPT !.sent = FALSE].seq = outbox[i].seq
            /\ [outbox[i] EXCEPT !.sent = FALSE].id = outbox[i].id
      BY <1>1 DEF Message
    <2>3. outbox' \in [1..Len(outbox) -> Message]
      BY <1>1, <2>1, <2>2
    <2>4. outbox' \in Seq(Message) /\ Len(outbox') = Len(outbox)
      BY <1>1, <2>3
    <2>5. QED
      BY <1>1, <2>1, <2>2, <2>3, <2>4
  <1>3. CASE Send
    <2>1. PICK i \in DOMAIN outbox : outbox' = [outbox EXCEPT ![i].sent = TRUE]
      BY <1>3 DEF Send, SentTo
    <2>2. \A k \in DOMAIN outbox :
            /\ outbox'[k] \in Message
            /\ outbox'[k].seq = outbox[k].seq /\ outbox'[k].id = outbox[k].id
      BY <1>1, <2>1 DEF Message
    <2>3. outbox' \in [1..Len(outbox) -> Message]
      BY <1>1, <2>1, <2>2
    <2>4. QED
      BY <1>1, <2>1, <2>2, <2>3
  <1>4. QED
    BY <1>2, <1>3

\* The steps that leave the outbox and the map alone.
LEMMA OutboxStands ==
    ASSUME \/ Sample \/ SkipUnsynced \/ ReadConnected \/ GateDrops \/ GatePasses
           \/ PayloadTruncated \/ EnqueueRejected \/ OverLimit \/ ClockSet \/ HandlerStep
           \/ SessionEnds \/ AttemptFails \/ LinkDies \/ LinkReturns
           \/ UNCHANGED vars
    PROVE  /\ outbox' = outbox /\ slots' = slots /\ lastId' = lastId
           /\ unnamed' = unnamed /\ races' = races
  BY DEF Sample, SkipUnsynced, ReadConnected, GateDrops, GatePasses,
         PayloadTruncated, EnqueueRejected, OverLimit, ClockSet, HandlerStep,
         SessionEnds, AttemptFails, LinkDies, LinkReturns, vars, names, client, history, Lose

-----------------------------------------------------------------------------
(* Every step preserves the invariant, part by part.                       *)

LEMMA InitIInv == Init => IInv
  <1>. SUFFICES ASSUME Init PROVE IInv
    OBVIOUS
  <1>1. outbox = <<>> /\ DOMAIN outbox = {} /\ Len(outbox) = 0
    BY DEF Init
  <1>2. TypeOK
    <2>1. /\ outbox \in Seq([seq : 1..MaxSeq, id : 1..Ids, sent : BOOLEAN])
          /\ Len(outbox) <= Limit
      BY <1>1, NodeConstants DEF NodeConstants
    <2>2. slots \in [1..MapSize -> [id : 0..Ids, seq : 0..MaxSeq]]
      BY NodeConstants DEF NodeConstants, Init, Free
    <2>3. lost \in [Kinds -> SUBSET (1..MaxSeq)]
      BY DEF Init
    <2>4. handling \in {<<>>, <<"stamp", "clear">>, <<"clear">>}
      BY DEF Init
    <2>5. /\ synced \in BOOLEAN /\ connected \in BOOLEAN /\ session \in BOOLEAN
          /\ shut \in BOOLEAN
      BY Zenon DEF Init
    <2>6. /\ pc \in {"idle", "clock", "offline", "admitted", "put"}
          /\ seq \in 0..MaxSeq /\ offlineSince \in 0..MaxSeq
          /\ unnamed \subseteq 1..MaxSeq /\ lastId \in 0..Ids
      BY NodeConstants DEF NodeConstants, Init
    <2>7. /\ link \in {"up", "dead", "down"} /\ unnoticed \in 0..Lag
          /\ delivered \subseteq 1..MaxSeq
          /\ acks \subseteq [seq : 1..MaxSeq, ok : BOOLEAN]
          /\ deaths \in 0..MaxDeaths /\ refusals \in 0..MaxRefusals
          /\ lastUp \in 0..MaxSeq /\ admitted \in Nat /\ races \in Nat
      BY NodeConstants DEF NodeConstants, Init
    <2>8. QED
      BY <2>1, <2>2, <2>3, <2>4, <2>5, <2>6, <2>7 DEF TypeOK
  <1>3. Sessions /\ GateClock /\ FirstMinute
    BY NodeConstants
       DEF NodeConstants, Init, Sessions, GateClock, FirstMinute, Unstamped,
           Pending, Undecided, PastGate
  <1>4. Ledger
    BY <1>1 DEF Init, Ledger, HolesAreLosses, AcksTrue, InOutbox, Kinds, Dropped
  <1>5. Names
    <2>1. Leaked = {} /\ races = 0 /\ ~Overtaken
      BY DEF Init, Leaked, Overtaken
    <2>2. LeaksCounted
      BY <2>1, FS_EmptySet DEF LeaksCounted, Owed
    <2>3. QED
      BY <1>1, <2>2 DEF Init, Names, DistinctMessages, SlotSeqs, PutKnown,
                        MessagesHeld, Free
  <1>6. QED
    BY <1>2, <1>3, <1>4, <1>5 DEF IInv

\* A reading that is lost, whichever way.
LEMMA LoseType ==
    ASSUME TypeOK, Sessions, NEW kind \in Kinds, Lose(kind), pc # "idle"
    PROVE  lost' \in [Kinds -> SUBSET (1..MaxSeq)] /\ pc' = "idle" /\ seq' = seq
  BY NodeConstants DEF NodeConstants, TypeOK, Sessions, Lose

LEMMA TypePreserved == IInv /\ [Next]_vars => TypeOK'
  <1>. SUFFICES ASSUME IInv, [Next]_vars PROVE TypeOK'
    OBVIOUS
  <1>. USE NodeConstants DEF NodeConstants, loop, names, flags, client, world, history
  <1>t. TypeOK /\ Sessions
    BY DEF IInv
  <1>1. CASE Sample
    <2>1. seq' \in 0..MaxSeq /\ unnoticed' \in 0..Lag
      BY <1>t, <1>1 DEF TypeOK, Sample
    <2>2. lastUp' \in 0..MaxSeq
      BY <1>t, <1>1, <2>1 DEF TypeOK, Sample
    <2>3. QED
      BY <1>t, <1>1, <2>1, <2>2 DEF TypeOK, Sample
  <1>2. CASE SkipUnsynced
    BY <1>t, <1>2, LoseType DEF TypeOK, SkipUnsynced, Kinds, Dropped
  <1>3. CASE ReadConnected
    BY <1>t, <1>3 DEF TypeOK, ReadConnected
  <1>4. CASE GateDrops
    BY <1>t, <1>4, LoseType DEF TypeOK, GateDrops, Kinds, Dropped
  <1>5. CASE GatePasses
    BY <1>t, <1>5 DEF TypeOK, GatePasses
  <1>6. CASE EnqueueRejected
    BY <1>t, <1>6, LoseType DEF TypeOK, EnqueueRejected, Fits, Kinds, Dropped
  <1>22. CASE PayloadTruncated
    BY <1>t, <1>22, LoseType DEF TypeOK, PayloadTruncated, Kinds, Dropped
  <1>7. CASE OverLimit
    BY <1>t, <1>7, LoseType DEF TypeOK, OverLimit, Fits, Kinds, Dropped
  <1>8. CASE Enqueue
    <2>1. /\ lastId' \in 1..Ids /\ outbox' \in Seq(Message)
          /\ Len(outbox') = Len(outbox) + 1 /\ Len(outbox) \in Nat
      BY <1>t, <1>8, EnqueueFacts
    <2>2. Len(outbox') <= Limit
      BY <1>8, <2>1 DEF Enqueue
    <2>3. QED
      BY <1>t, <1>8, <2>1, <2>2 DEF TypeOK, Enqueue, EnqueueAt, Message
  <1>9. CASE PendingPut
    <2>1. slots' \in [1..MapSize -> [id : 0..Ids, seq : 0..MaxSeq]]
      <3>1. [id |-> lastId, seq |-> seq] \in [id : 0..Ids, seq : 0..MaxSeq]
        BY <1>t DEF TypeOK
      <3>2. slots \in [1..MapSize -> [id : 0..Ids, seq : 0..MaxSeq]]
        BY <1>t DEF TypeOK
      <3>3. \/ slots' = slots
            \/ \E k : slots' = [slots EXCEPT ![k] = [id |-> lastId, seq |-> seq]]
        BY <1>9 DEF PendingPut
      <3>4. QED
        BY <3>1, <3>2, <3>3
    <2>2. unnamed' \subseteq 1..MaxSeq
      <3>1. seq \in 1..MaxSeq /\ unnamed \subseteq 1..MaxSeq
        BY <1>t, <1>9 DEF TypeOK, PendingPut, Sessions
      <3>2. unnamed' \subseteq unnamed \cup {seq}
        BY <1>9 DEF PendingPut
      <3>3. QED
        BY <3>1, <3>2
    <2>3. QED
      BY <1>t, <1>9, <2>1, <2>2 DEF TypeOK, PendingPut
  <1>10. CASE ClockSet
    BY <1>t, <1>10 DEF TypeOK, ClockSet
  <1>11. CASE Connected
    <2>1. outbox' \in Seq(Message) /\ Len(outbox') = Len(outbox)
      BY <1>t, <1>11, SameMessages
    <2>2. QED
      BY <1>t, <1>11, <2>1 DEF TypeOK, Connected, Message
  <1>12. CASE HandlerStep
    <2>1. /\ handling' \in {<<>>, <<"stamp", "clear">>, <<"clear">>}
          /\ connected' \in BOOLEAN /\ offlineSince' \in 0..MaxSeq
      BY <1>t, <1>12, HandlerSteps DEF TypeOK, Stamp
    <2>2. QED
      BY <1>t, <1>12, <2>1 DEF TypeOK, HandlerStep
  <1>13. CASE SessionEnds
    <2>1. handling' \in {<<>>, <<"stamp", "clear">>, <<"clear">>}
      BY <1>13 DEF SessionEnds, Disconnected
    <2>2. session' \in BOOLEAN
      BY <1>13, Zenon DEF SessionEnds
    <2>3. /\ link' = "down" /\ unnoticed' = 0 /\ acks' = {}
          /\ UNCHANGED <<loop, names, synced, flags, outbox, lastId, delivered,
                         deaths, refusals, history>>
      BY <1>13 DEF SessionEnds
    <2>4. QED
      BY <1>t, <2>1, <2>2, <2>3 DEF TypeOK
  <1>14. CASE AttemptFails
    <2>1. handling' \in {<<>>, <<"stamp", "clear">>, <<"clear">>}
      BY <1>14 DEF AttemptFails, Disconnected
    <2>2. QED
      BY <1>t, <1>14, <2>1 DEF TypeOK, AttemptFails
  <1>15. CASE Send
    <2>1. outbox' \in Seq(Message) /\ Len(outbox') = Len(outbox)
      BY <1>t, <1>15, SameMessages
    <2>2. /\ delivered' \subseteq 1..MaxSeq /\ refusals' \in 0..MaxRefusals
          /\ acks' \subseteq [seq : 1..MaxSeq, ok : BOOLEAN]
      <3>1. PICK i \in DOMAIN outbox :
                \/ \E ok \in BOOLEAN : Answered(outbox[i].seq, ok)
                \/ UNCHANGED <<delivered, acks, refusals>>
        BY <1>15 DEF Send
      <3>2. outbox[i].seq \in 1..MaxSeq
        BY <1>t, <3>1, OutboxFacts
      <3>3. CASE \E ok \in BOOLEAN : Answered(outbox[i].seq, ok)
        <4>1. PICK ok \in BOOLEAN : Answered(outbox[i].seq, ok)
          BY <3>3
        <4>2. acks' = acks \cup {[seq |-> outbox[i].seq, ok |-> ok]}
          BY <4>1 DEF Answered
        <4>3. [seq |-> outbox[i].seq, ok |-> ok] \in [seq : 1..MaxSeq, ok : BOOLEAN]
          BY <3>2
        <4>4. delivered' \subseteq delivered \cup {outbox[i].seq}
          BY <4>1 DEF Answered
        <4>5. refusals' \in 0..MaxRefusals
          <5>1. refusals \in 0..MaxRefusals /\ MaxRefusals \in Nat
            BY <1>t, NodeConstants DEF TypeOK
          <5>2. \/ refusals' = refusals
                \/ refusals < MaxRefusals /\ refusals' = refusals + 1
            BY <4>1 DEF Answered
          <5>3. QED
            BY <5>1, <5>2
        <4>6. QED
          BY <1>t, <3>2, <4>2, <4>3, <4>4, <4>5 DEF TypeOK
      <3>4. QED
        BY <1>t, <3>1, <3>3 DEF TypeOK
    <2>3. QED
      BY <1>t, <1>15, <2>1, <2>2 DEF TypeOK, Send, Message
  <1>16. ASSUME NEW i \in DOMAIN outbox, Leaves(i),
                lost' \in [Kinds -> SUBSET (1..MaxSeq)]
         PROVE  TypeOK'
    <2>1. outbox' \in Seq(Message) /\ Len(outbox') <= Limit
      <3>1. /\ outbox' \in Seq(Message) /\ Len(outbox') = Len(outbox) - 1
            /\ Len(outbox) \in Nat /\ Len(outbox) <= Limit
        BY <1>t, <1>16, LeavesFacts, OutboxFacts
      <3>2. QED
        BY <3>1
    <2>2. slots' \in [1..MapSize -> [id : 0..Ids, seq : 0..MaxSeq]]
      <3>1. Free \in [id : 0..Ids, seq : 0..MaxSeq]
        BY DEF Free
      <3>2. slots \in [1..MapSize -> [id : 0..Ids, seq : 0..MaxSeq]]
        BY <1>t DEF TypeOK
      <3>3. slots' = slots \/ \E k : slots' = [slots EXCEPT ![k] = Free]
        BY <1>t, <1>16, TakenFacts DEF Leaves
      <3>4. CASE slots' = slots
        BY <3>2, <3>4
      <3>5. ASSUME NEW k, slots' = [slots EXCEPT ![k] = Free]
            PROVE  slots' \in [1..MapSize -> [id : 0..Ids, seq : 0..MaxSeq]]
        <4> DEFINE Values == [id : 0..Ids, seq : 0..MaxSeq]
        <4>1. Free \in Values /\ slots \in [1..MapSize -> Values]
          BY <3>1, <3>2
        <4> HIDE DEF Values
        <4>2. slots' \in [1..MapSize -> Values]
          BY <3>5, <4>1
        <4>3. QED
          BY <4>2 DEF Values
      <3>6. QED
        BY <3>3, <3>4, <3>5
    <2>3. /\ acks' \subseteq [seq : 1..MaxSeq, ok : BOOLEAN]
          /\ races' \in Nat
      <3>1. acks \subseteq [seq : 1..MaxSeq, ok : BOOLEAN] /\ races \in Nat
        BY <1>t DEF TypeOK
      <3>2. acks' \subseteq acks
        BY <1>16 DEF Leaves
      <3>3. races' \in {races, races + 1}
        BY <1>16 DEF Leaves
      <3>4. QED
        BY <3>1, <3>2, <3>3
    <2>4. /\ UNCHANGED <<pc, seq, unnamed, synced, flags, handling, session,
                         lastId, link, unnoticed, delivered, deaths, refusals,
                         lastUp, shut, admitted>>
      BY <1>16 DEF Leaves
    <2>5. QED
      BY <1>t, <1>16, <2>1, <2>2, <2>3, <2>4 DEF TypeOK, Message
  <1>17. CASE PubAck
    <2>1. PICK i \in DOMAIN outbox :
            /\ Leaves(i)
            /\ \/ lost' = lost
               \/ lost' = [lost EXCEPT !["refused"] = @ \cup {outbox[i].seq}]
      BY <1>17 DEF PubAck
    <2>2. outbox[i].seq \in 1..MaxSeq
      BY <1>t, <2>1, OutboxFacts
    <2>3. lost \in [Kinds -> SUBSET (1..MaxSeq)]
      BY <1>t DEF TypeOK
    <2>5. [lost EXCEPT !["refused"] = @ \cup {outbox[i].seq}]
            \in [Kinds -> SUBSET (1..MaxSeq)]
      BY <2>2, <2>3
    <2>6. lost' \in [Kinds -> SUBSET (1..MaxSeq)]
      BY <2>1, <2>3, <2>5
    <2>4. QED
      BY <1>16, <2>1, <2>6
  <1>18. CASE Expire
    <2>1. 1 \in DOMAIN outbox /\ outbox[1].seq \in 1..MaxSeq
      BY <1>t, <1>18, OutboxFacts DEF Expire
    <2>2. lost' \in [Kinds -> SUBSET (1..MaxSeq)]
      BY <1>t, <1>18, <2>1 DEF TypeOK, Expire
    <2>3. QED
      BY <1>16, <1>18, <2>1, <2>2 DEF Expire
  <1>19. CASE LinkDies
    BY <1>t, <1>19 DEF TypeOK, LinkDies
  <1>20. CASE LinkReturns
    BY <1>t, <1>20 DEF TypeOK, LinkReturns
  <1>21. CASE UNCHANGED vars
    BY <1>t, <1>21 DEF TypeOK, vars
  <1>23. QED
    BY <1>1, <1>2, <1>3, <1>4, <1>5, <1>6, <1>7, <1>8, <1>9, <1>10, <1>11,
       <1>12, <1>13, <1>14, <1>15, <1>17, <1>18, <1>19, <1>20, <1>21, <1>22
       DEF Next, PublishStep, ClientStep

\* The steps of the publish loop and the clock leave these alone.
LEMMA Stamping ==
    ASSUME TypeOK, HandlerStep, handling = Disconnected
    PROVE  /\ handling' = <<"clear">> /\ connected' = connected
           /\ connected => offlineSince' = seq
           /\ ~connected => offlineSince' = offlineSince
  BY HandlerSteps, HandlingFacts DEF Stamp

LEMMA Clearing ==
    ASSUME TypeOK, HandlerStep, handling = <<"clear">>
    PROVE  /\ handling' = <<>> /\ ~connected'
           /\ offlineSince' = offlineSince
  BY HandlerSteps, HandlingFacts

LEMMA LoopOnly ==
    ASSUME PublishStep \/ ClockSet
    PROVE  UNCHANGED <<seq, flags, handling, session, world, lastUp>>
  BY DEF PublishStep, SkipUnsynced, ReadConnected, GateDrops, GatePasses,
         PayloadTruncated, EnqueueRejected, OverLimit, Enqueue, EnqueueAt, PendingPut, ClockSet,
         Lose, loop, client, history

LEMMA SessionsPreserved == IInv /\ [Next]_vars => Sessions'
  <1>. SUFFICES ASSUME IInv, [Next]_vars PROVE Sessions'
    OBVIOUS
  <1>t. /\ TypeOK /\ Sessions
        /\ handling \in {<<>>, Disconnected, <<"clear">>} /\ seq \in Nat
    BY NodeConstants DEF NodeConstants, IInv, TypeOK, Disconnected
  <1>1. CASE Sample
    BY <1>t, <1>1 DEF Sessions, Sample, flags, client
  <1>2. CASE PublishStep \/ ClockSet
    <2>1. pc # "idle" \/ pc' = pc
      BY <1>2 DEF PublishStep, SkipUnsynced, ReadConnected, GateDrops,
              GatePasses, PayloadTruncated, EnqueueRejected, OverLimit,
              Enqueue, Fits, PendingPut, ClockSet, loop
    <2>2. UNCHANGED <<seq, flags, handling, session, world, lastUp>>
      BY <1>2, LoopOnly
    <2>3. QED
      BY <1>t, <2>1, <2>2 DEF Sessions, flags, world
  <1>3. CASE Connected
    BY <1>t, <1>3 DEF Sessions, Connected, loop, world
  <1>4. CASE HandlerStep
    BY <1>t, <1>4, HandlerSteps, HandlingFacts
       DEF Sessions, HandlerStep, loop, world
  <1>5. CASE SessionEnds
    BY <1>t, <1>5, HandlingFacts DEF Sessions, SessionEnds, flags, loop
  <1>6. CASE AttemptFails
    BY <1>t, <1>6, HandlingFacts DEF Sessions, AttemptFails, flags, loop, world
  <1>7. CASE Send
    BY <1>t, <1>7 DEF Sessions, Send, flags, loop
  <1>8. CASE PubAck
    BY <1>t, <1>8 DEF Sessions, PubAck, Leaves, flags
  <1>9. CASE Expire
    BY <1>t, <1>9 DEF Sessions, Expire, Leaves, flags
  <1>10. CASE LinkDies
    BY <1>t, <1>10 DEF Sessions, LinkDies, loop, flags, client
  <1>11. CASE LinkReturns
    BY <1>t, <1>11 DEF Sessions, LinkReturns, loop, flags, client
  <1>12. CASE UNCHANGED vars
    BY <1>t, <1>12 DEF Sessions, vars, loop, flags, client, world
  <1>13. QED
    BY <1>1, <1>2, <1>3, <1>4, <1>5, <1>6, <1>7, <1>8, <1>9, <1>10, <1>11,
       <1>12 DEF Next, ClientStep

LEMMA GateClockPreserved == IInv /\ [Next]_vars => GateClock'
  <1>. SUFFICES ASSUME IInv, [Next]_vars PROVE GateClock'
    OBVIOUS
  <1>t. /\ TypeOK /\ Sessions /\ GateClock
        /\ handling \in {<<>>, Disconnected, <<"clear">>}
        /\ seq \in Nat /\ offlineSince \in Nat /\ lastUp \in Nat
    BY NodeConstants DEF NodeConstants, IInv, TypeOK, Disconnected
  <1>1. CASE Sample
    BY <1>t, <1>1, HandlingFacts DEF GateClock, Sample, flags, client
  <1>2. CASE PublishStep \/ ClockSet
    BY <1>t, <1>2, LoopOnly DEF GateClock, flags
  <1>3. CASE Connected
    BY <1>t, <1>3, HandlingFacts DEF GateClock, Connected, loop
  <1>4. CASE HandlerStep
    <2>1. lastUp' = IF connected THEN seq ELSE lastUp
      BY <1>4 DEF HandlerStep
    <2>2. seq' = seq
      BY <1>4 DEF HandlerStep, loop
    <2>3. CASE handling = Disconnected
      <3>1. CASE connected
        BY <1>t, <1>4, <2>1, <2>2, <2>3, <3>1, Stamping DEF GateClock
      <3>2. CASE ~connected
        BY <1>t, <1>4, <2>1, <2>2, <2>3, <3>2, Stamping DEF GateClock
      <3>3. QED
        BY <3>1, <3>2
    <2>4. CASE handling = <<"clear">>
      BY <1>t, <1>4, <2>1, <2>2, <2>4, Clearing, HandlingFacts DEF GateClock
    <2>5. QED
      BY <1>t, <1>4, <2>3, <2>4 DEF HandlerStep
  <1>5. CASE SessionEnds
    BY <1>t, <1>5, HandlingFacts DEF GateClock, SessionEnds, flags, loop, history
  <1>6. CASE AttemptFails
    BY <1>t, <1>6, HandlingFacts DEF GateClock, AttemptFails, flags, loop, history
  <1>7. CASE Send
    BY <1>t, <1>7 DEF GateClock, Send, flags, loop, history
  <1>8. CASE PubAck
    BY <1>t, <1>8 DEF GateClock, PubAck, Leaves, flags
  <1>9. CASE Expire
    BY <1>t, <1>9 DEF GateClock, Expire, Leaves, flags
  <1>10. CASE LinkDies
    BY <1>t, <1>10 DEF GateClock, LinkDies, loop, flags, client
  <1>11. CASE LinkReturns
    BY <1>t, <1>11 DEF GateClock, LinkReturns, loop, flags, client, history
  <1>12. CASE UNCHANGED vars
    BY <1>t, <1>12 DEF GateClock, vars, loop, flags, client, history
  <1>13. QED
    BY <1>1, <1>2, <1>3, <1>4, <1>5, <1>6, <1>7, <1>8, <1>9, <1>10, <1>11,
       <1>12 DEF Next, ClientStep

LEMMA FirstMinutePreserved == IInv /\ [Next]_vars => FirstMinute'
  <1>. SUFFICES ASSUME IInv, [Next]_vars PROVE FirstMinute'
    OBVIOUS
  <1>t. /\ TypeOK /\ Sessions /\ GateClock /\ FirstMinute
        /\ handling \in {<<>>, Disconnected, <<"clear">>}
        /\ seq \in Nat /\ offlineSince \in Nat /\ lastUp \in Nat
        /\ admitted \in Nat /\ unnoticed \in 0..Lag
        /\ Gate \in Nat /\ Lag \in Nat
    BY NodeConstants DEF NodeConstants, IInv, TypeOK, Disconnected
  <1>. USE DEF FirstMinute, Unstamped, Pending, Undecided, PastGate
  <1>1. CASE Sample
    BY <1>t, <1>1, HandlingFacts DEF Sample, Sessions, flags, client
  <1>2. CASE SkipUnsynced
    BY <1>t, <1>2 DEF SkipUnsynced, Lose, flags, client, world, history
  <1>3. CASE ReadConnected
    BY <1>t, <1>3, HandlingFacts
       DEF ReadConnected, Sessions, GateClock, flags, client, world, history
  <1>4. CASE GateDrops
    <2>1. shut' <=> (shut \/ ~connected)
      BY <1>4, Zenon DEF GateDrops
    <2>2. /\ PastGate /\ pc' = "idle"
          /\ UNCHANGED <<seq, flags, client, world, admitted>>
      BY <1>4 DEF GateDrops, Lose
    <2>3. QED
      BY <1>t, <1>4, <2>1, <2>2 DEF GateDrops, flags, client, world
  <1>5. CASE GatePasses
    BY <1>t, <1>5 DEF GatePasses, flags, client, world, history
  <1>6. CASE EnqueueRejected
    BY <1>t, <1>6 DEF EnqueueRejected, Fits, Lose, flags, client, world, history
  <1>7. CASE OverLimit
    BY <1>t, <1>7 DEF OverLimit, Fits, Lose, flags, client, world, history
  <1>8. CASE Enqueue
    BY <1>t, <1>8 DEF Enqueue, EnqueueAt, Fits, flags, world
  <1>9. CASE PendingPut
    BY <1>t, <1>9 DEF PendingPut, flags, client, world, history
  <1>10. CASE ClockSet
    BY <1>t, <1>10 DEF ClockSet, loop, flags, client, world, history
  <1>11. CASE Connected
    BY <1>t, <1>11, HandlingFacts DEF Connected, Sessions, loop, world
  <1>12. CASE HandlerStep
    <2>1. UNCHANGED <<pc, seq, session, link, unnoticed, shut, admitted>>
      BY <1>12 DEF HandlerStep, loop, world
    <2>2. CASE handling = Disconnected
      <3>1. CASE connected
        BY <1>t, <1>12, <2>1, <2>2, <3>1, Stamping, HandlingFacts DEF Sessions
      <3>2. CASE ~connected
        BY <1>t, <1>12, <2>1, <2>2, <3>2, Stamping, HandlingFacts DEF Sessions
      <3>3. QED
        BY <3>1, <3>2
    <2>3. CASE handling = <<"clear">>
      BY <1>t, <1>12, <2>1, <2>3, Clearing, HandlingFacts
         DEF Sessions, GateClock
    <2>4. QED
      BY <1>12, <2>2, <2>3, <1>t DEF HandlerStep
  <1>13. CASE SessionEnds
    BY <1>t, <1>13, HandlingFacts DEF SessionEnds, Sessions, loop, flags, history
  <1>14. CASE AttemptFails
    BY <1>t, <1>14, HandlingFacts
       DEF AttemptFails, Sessions, loop, flags, world, history
  <1>15. CASE Send
    BY <1>t, <1>15 DEF Send, loop, flags, history
  <1>16. CASE PubAck
    BY <1>t, <1>16 DEF PubAck, Leaves, flags
  <1>17. CASE Expire
    BY <1>t, <1>17 DEF Expire, Leaves, flags
  <1>18. CASE LinkDies
    BY <1>t, <1>18 DEF LinkDies, Sessions, loop, flags, client
  <1>19. CASE LinkReturns
    BY <1>t, <1>19 DEF LinkReturns, loop, flags, client, history
  <1>20. CASE UNCHANGED vars
    BY <1>t, <1>20 DEF vars, loop, flags, client, world, history
  <1>21. CASE PayloadTruncated
    BY <1>t, <1>21 DEF PayloadTruncated, Lose, flags, client, world, history
  <1>22. QED
    BY <1>1, <1>2, <1>3, <1>4, <1>5, <1>6, <1>7, <1>8, <1>9, <1>10, <1>11,
       <1>12, <1>13, <1>14, <1>15, <1>16, <1>17, <1>18, <1>19, <1>20, <1>21
       DEF Next, PublishStep, ClientStep

\* The parts of the ledger.
Settled == IF pc \in {"idle", "put"} THEN 1..seq ELSE 1..(seq - 1)
Never == UNION {lost[k] : k \in Dropped}
Gone == lost["refused"] \cup lost["expired"]
Balanced ==
    /\ Settled = InOutbox \cup delivered \cup Never \cup Gone
    /\ Never \cap (InOutbox \cup delivered \cup Gone) = {}

LEMMA LedgerParts == Ledger <=> Balanced /\ AcksTrue
  <1>1. UNION {lost[k] : k \in Kinds} = Never \cup Gone
    BY DEF Kinds, Never, Gone
  <1>2. QED
    BY <1>1 DEF Ledger, HolesAreLosses, Balanced, Settled, Never, Gone

\* A reading lost before it was sent is settled as that.
LEMMA LoseBalances ==
    ASSUME IInv, Undecided, NEW kind \in Dropped, Lose(kind),
           outbox' = outbox, delivered' = delivered, acks' = acks
    PROVE  Ledger'
  <1>1. TypeOK /\ Sessions /\ Balanced /\ AcksTrue
    BY LedgerParts DEF IInv
  <1>2. seq \in Nat /\ seq >= 1
    BY <1>1, NodeConstants
       DEF NodeConstants, TypeOK, Sessions, Undecided
  <1>3. /\ Settled = 1..(seq - 1) /\ Settled' = 1..seq
    BY <1>2 DEF Settled, Undecided, Lose
  <1>4. Settled' = Settled \cup {seq} /\ seq \notin Settled
    BY <1>2, <1>3
  <1>5. Gone' = Gone /\ Never' = Never \cup {seq}
    <2>1. lost' = [lost EXCEPT ![kind] = @ \cup {seq}] /\ DOMAIN lost = Kinds
      BY <1>1 DEF Lose, TypeOK
    <2>2. \A k \in Kinds : lost'[k] = IF k = kind THEN lost[k] \cup {seq} ELSE lost[k]
      BY <2>1
    <2>3. /\ kind \in Dropped /\ Dropped \subseteq Kinds
          /\ "expired" \in Kinds \ Dropped /\ "refused" \in Kinds \ Dropped
      BY DEF Kinds, Dropped
    <2>4. Gone' = Gone
      BY <2>2, <2>3 DEF Gone
    <2>5. Never' = Never \cup {seq}
      BY <2>2, <2>3 DEF Never
    <2>6. QED
      BY <2>4, <2>5
  <1>6. InOutbox' = InOutbox
    BY DEF InOutbox
  <1>7. Balanced'
    BY <1>1, <1>4, <1>5, <1>6 DEF Balanced
  <1>8. Balanced' /\ AcksTrue' => Ledger'
    BY LedgerParts, PTL
  <1>9. AcksTrue'
    BY <1>1 DEF AcksTrue
  <1>10. QED
    BY <1>7, <1>8, <1>9

LEMMA LedgerPreserved == IInv /\ [Next]_vars => Ledger'
  <1>. SUFFICES ASSUME IInv, [Next]_vars PROVE Ledger'
    OBVIOUS
  <1>t. TypeOK /\ Sessions /\ Balanced /\ AcksTrue
    BY LedgerParts DEF IInv
  <1>p. Balanced' /\ AcksTrue' => Ledger'
    BY LedgerParts, PTL
  <1>1. CASE Sample
    <2>1. seq' = seq + 1 /\ pc = "idle" /\ pc' = "clock" /\ seq \in Nat
      BY <1>t, <1>1, NodeConstants DEF NodeConstants, Sample, TypeOK
    <2>2. Settled' = Settled
      BY <2>1 DEF Settled
    <2>3. UNCHANGED <<outbox, delivered, lost, acks>>
      BY <1>1 DEF Sample, client
    <2>4. QED
      BY <1>t, <1>p, <2>2, <2>3 DEF Balanced, AcksTrue, InOutbox, Never, Gone
  <1>2. CASE SkipUnsynced
    BY <1>2, LoseBalances DEF SkipUnsynced, Undecided, Dropped, Fits, client, world
  <1>3. CASE GateDrops
    BY <1>3, LoseBalances DEF GateDrops, Undecided, Dropped, Fits, client, world
  <1>4. CASE EnqueueRejected
    BY <1>4, LoseBalances DEF EnqueueRejected, Undecided, Dropped, Fits, client, world
  <1>5. CASE OverLimit
    BY <1>5, LoseBalances DEF OverLimit, Undecided, Dropped, Fits, client, world
  <1>14. CASE PayloadTruncated
    BY <1>14, LoseBalances DEF PayloadTruncated, Undecided, Dropped, client, world
  <1>6. CASE \/ ReadConnected \/ GatePasses \/ PendingPut \/ ClockSet
             \/ HandlerStep \/ AttemptFails \/ LinkDies \/ LinkReturns
             \/ UNCHANGED vars
    <2>1. UNCHANGED <<seq, outbox, delivered, lost, acks>>
      BY <1>6 DEF ReadConnected, GatePasses, PendingPut, ClockSet, HandlerStep,
                  AttemptFails, LinkDies, LinkReturns, vars, loop, client, world
    <2>2. pc' \in {"idle", "put"} <=> pc \in {"idle", "put"}
      BY <1>6 DEF ReadConnected, GatePasses, PendingPut, ClockSet, HandlerStep,
                  AttemptFails, LinkDies, LinkReturns, vars, loop
    <2>3. Settled' = Settled
      BY <2>1, <2>2 DEF Settled
    <2>4. QED
      BY <1>t, <1>p, <2>1, <2>3 DEF Balanced, AcksTrue, InOutbox, Never, Gone
  <1>7. CASE Enqueue
    <2>1. /\ seq \in Nat /\ seq >= 1 /\ pc = "admitted" /\ pc' = "put"
          /\ seq' = seq
      BY <1>t, <1>7, NodeConstants
         DEF NodeConstants, TypeOK, Sessions, Enqueue, EnqueueAt, Fits
    <2>2. Settled' = Settled \cup {seq} /\ seq \notin Settled
      BY <2>1 DEF Settled
    <2>3. InOutbox' = InOutbox \cup {seq}
      BY <1>t, <1>7, EnqueueFacts DEF InOutbox
    <2>4. UNCHANGED <<delivered, lost, acks>>
      BY <1>7 DEF Enqueue, EnqueueAt, world
    <2>5. QED
      BY <1>t, <1>p, <2>2, <2>3, <2>4 DEF Balanced, AcksTrue, Never, Gone
  <1>8. CASE Connected \/ Send
    <2>1. InOutbox' = InOutbox
      BY <1>t, <1>8, SameMessages DEF InOutbox
    <2>2. UNCHANGED <<pc, seq, lost>>
      BY <1>8 DEF Connected, Send, loop
    <2>3. \/ UNCHANGED <<delivered, acks>>
          \/ \E i \in DOMAIN outbox, ok \in BOOLEAN : Answered(outbox[i].seq, ok)
      BY <1>8 DEF Connected, Send, world
    <2>4. \A i \in DOMAIN outbox : outbox[i].seq \in InOutbox
      BY DEF InOutbox
    <2>5. CASE UNCHANGED <<delivered, acks>>
      BY <1>t, <1>p, <2>1, <2>2, <2>5 DEF Balanced, AcksTrue, Settled, Never, Gone
    <2>6. CASE \E i \in DOMAIN outbox, ok \in BOOLEAN : Answered(outbox[i].seq, ok)
      <3>1. PICK i \in DOMAIN outbox, ok \in BOOLEAN : Answered(outbox[i].seq, ok)
        BY <2>6
      <3>2. acks' = acks \cup {[seq |-> outbox[i].seq, ok |-> ok]}
        BY <3>1 DEF Answered
      <3>3. /\ delivered \subseteq delivered'
            /\ delivered' \subseteq delivered \cup {outbox[i].seq}
            /\ ok => outbox[i].seq \in delivered'
        BY <3>1 DEF Answered
      <3>4. AcksTrue'
        BY <1>t, <3>2, <3>3 DEF AcksTrue
      <3>5. Balanced'
        BY <1>t, <2>1, <2>2, <2>4, <3>3 DEF Balanced, Settled, Never, Gone
      <3>6. QED
        BY <1>p, <3>4, <3>5
    <2>7. QED
      BY <2>3, <2>5, <2>6
  <1>9. CASE SessionEnds
    <2>1. UNCHANGED <<pc, seq, lost, outbox, delivered>> /\ acks' = {}
      BY <1>9 DEF SessionEnds, loop
    <2>2. QED
      BY <1>t, <1>p, <2>1 DEF Balanced, AcksTrue, Settled, InOutbox, Never, Gone
  <1>10. ASSUME NEW i \in DOMAIN outbox, Leaves(i)
         PROVE  /\ InOutbox' \subseteq InOutbox
                /\ InOutbox \subseteq InOutbox' \cup {outbox[i].seq}
                /\ outbox[i].seq \in InOutbox
    BY <1>t, <1>10, LeavesFacts DEF InOutbox
  <1>11. CASE PubAck
    <2>1. PICK i \in DOMAIN outbox, ok \in BOOLEAN :
            /\ [seq |-> outbox[i].seq, ok |-> ok] \in acks /\ Leaves(i)
            /\ lost' = IF ok THEN lost
                       ELSE [lost EXCEPT !["refused"] = @ \cup {outbox[i].seq}]
      BY <1>11 DEF PubAck
    <2>2. UNCHANGED <<pc, seq, delivered>> /\ acks' \subseteq acks
      BY <2>1 DEF Leaves
    <2>3. AcksTrue'
      BY <1>t, <2>2 DEF AcksTrue
    <2>4. CASE ok
      <3>1. lost' = lost /\ outbox[i].seq \in delivered
        BY <1>t, <2>1, <2>4 DEF AcksTrue
      <3>2. QED
        BY <1>t, <1>p, <1>10, <2>1, <2>2, <2>3, <3>1
           DEF Balanced, Settled, Never, Gone
    <2>5. CASE ~ok
      <3>1. Gone' = Gone \cup {outbox[i].seq} /\ Never' = Never
        BY <1>t, <2>1, <2>5 DEF TypeOK, Kinds, Dropped, Gone, Never
      <3>2. QED
        BY <1>t, <1>p, <1>10, <2>1, <2>2, <2>3, <3>1 DEF Balanced, Settled
    <2>6. QED
      BY <2>4, <2>5
  <1>12. CASE Expire
    <2>1. 1 \in DOMAIN outbox /\ Leaves(1)
      BY <1>t, <1>12, OutboxFacts DEF Expire
    <2>2. UNCHANGED <<pc, seq, delivered>> /\ acks' \subseteq acks
      BY <2>1 DEF Leaves
    <2>3. Gone' = Gone \cup {outbox[1].seq} /\ Never' = Never
      <3>1. /\ lost' = [lost EXCEPT !["expired"] = @ \cup {outbox[1].seq}]
            /\ DOMAIN lost = Kinds
        BY <1>t, <1>12 DEF Expire, TypeOK
      <3>2. QED
        BY <3>1 DEF Kinds, Dropped, Gone, Never
    <2>4. AcksTrue'
      BY <1>t, <2>2 DEF AcksTrue
    <2>5. QED
      BY <1>t, <1>p, <1>10, <2>1, <2>2, <2>3, <2>4 DEF Balanced, Settled
  <1>13. QED
    BY <1>1, <1>2, <1>3, <1>4, <1>5, <1>6, <1>7, <1>8, <1>9, <1>11, <1>12,
       <1>14 DEF Next, PublishStep, ClientStep

LEMMA SlotFacts ==
    ASSUME TypeOK
    PROVE  /\ DOMAIN slots = 1..MapSize /\ Free.id = 0 /\ Free.seq = 0
           /\ \A i \in DOMAIN slots : slots[i].id \in Nat /\ slots[i].seq \in Nat
           /\ slots \in [1..MapSize -> [id : 0..Ids, seq : 0..MaxSeq]]
           /\ DOMAIN slots \in SUBSET Nat
  BY NodeConstants DEF NodeConstants, TypeOK, Free

\* A slot stands for a message exactly when it has its identifier and its seq.
LEMMA StandsFacts ==
    ASSUME TypeOK, NEW i \in DOMAIN slots, NEW j \in DOMAIN outbox
    PROVE  /\ Stands(i, j) <=> /\ slots[i].id = outbox[j].id
                               /\ slots[i].seq = outbox[j].seq
           /\ Stands(i, j) => slots[i] # Free
  <1>1. slots[i] \in [id : 0..Ids, seq : 0..MaxSeq] /\ outbox[j].id \in 1..Ids
    BY SlotFacts, OutboxFacts
  <1>2. QED
    BY <1>1, SlotFacts DEF Stands

-----------------------------------------------------------------------------
(* Counting leaked slots.                                                  *)

LEMMA LeakedFacts ==
    ASSUME TypeOK
    PROVE  IsFiniteSet(Leaked) /\ Cardinality(Leaked) \in Nat
  <1>1. IsFiniteSet(1..MapSize)
    BY NodeConstants, FS_Interval DEF NodeConstants
  <1>2. Leaked \subseteq 1..MapSize
    BY SlotFacts DEF Leaked
  <1>3. QED
    BY <1>1, <1>2, FS_Subset, FS_CardinalityType

LEMMA FewerSlots ==
    ASSUME NEW S, NEW T, IsFiniteSet(S), T \subseteq S
    PROVE  Cardinality(T) <= Cardinality(S) /\ Cardinality(T) \in Nat
           /\ Cardinality(S) \in Nat
  BY FS_Subset, FS_CardinalityType

LEMMA OneMoreSlot ==
    ASSUME NEW S, NEW T, NEW x, IsFiniteSet(S), T \subseteq S \cup {x}
    PROVE  Cardinality(T) <= Cardinality(S) + 1
  <1>1. /\ IsFiniteSet(S \cup {x}) /\ Cardinality(S) \in Nat
        /\ Cardinality(S \cup {x}) <= Cardinality(S) + 1
    <2>1. /\ IsFiniteSet(S \cup {x})
          /\ Cardinality(S \cup {x}) = IF x \in S THEN Cardinality(S)
                                                 ELSE Cardinality(S) + 1
      BY FS_AddElement
    <2>2. Cardinality(S) \in Nat
      BY FS_CardinalityType
    <2>3. QED
      BY <2>1, <2>2
  <1>2. QED
    BY <1>1, FewerSlots, FS_CardinalityType

LEMMA OneForAnother ==
    ASSUME NEW S, NEW T, NEW m \in S, NEW x, IsFiniteSet(S),
           T \subseteq (S \ {m}) \cup {x}
    PROVE  Cardinality(T) <= Cardinality(S)
  <1>1. IsFiniteSet(S \ {m}) /\ Cardinality(S \ {m}) = Cardinality(S) - 1
    BY FS_RemoveElement
  <1>2. Cardinality(T) <= Cardinality(S \ {m}) + 1
    BY <1>1, OneMoreSlot
  <1>3. QED
    BY <1>1, <1>2, FewerSlots, FS_CardinalityType

-----------------------------------------------------------------------------
(* The names.                                                              *)

\* Steps that keep the map and the messages, whether sent or not, and start or
\* end no pending_put().
LEMMA NamesStand ==
    ASSUME IInv, UNCHANGED <<slots, lastId, unnamed, races>>,
           DOMAIN outbox' = DOMAIN outbox,
           \A j \in DOMAIN outbox : /\ outbox'[j].seq = outbox[j].seq
                                    /\ outbox'[j].id = outbox[j].id,
           (pc' # "put" /\ pc # "put") \/ (pc' = pc /\ seq' = seq),
           SlotSeqs'
    PROVE  Names'
  <1>1. /\ DistinctMessages /\ PutKnown /\ MessagesHeld /\ LeaksCounted
    BY DEF IInv, Names
  <1>2. DistinctMessages' /\ PutKnown'
    BY <1>1 DEF DistinctMessages, PutKnown
  <1>3. MessagesHeld'
    BY <1>1 DEF MessagesHeld, Held, Stands
  <1>4. Leaked' = Leaked
    BY DEF Leaked, Stands
  <1>5. Owed' = Owed
    BY DEF Owed, Overtaken
  <1>6. LeaksCounted'
    BY <1>1, <1>4, <1>5 DEF LeaksCounted
  <1>7. QED
    BY <1>2, <1>3, <1>6 DEF Names

LEMMA LeavesPreservesNames ==
    ASSUME IInv, NEW i \in DOMAIN outbox, Leaves(i)
    PROVE  Names'
  <1>1. /\ DistinctMessages /\ SlotSeqs /\ PutKnown /\ MessagesHeld
        /\ LeaksCounted /\ TypeOK /\ Sessions
    BY DEF IInv, Names
  <1>2. /\ \A k \in DOMAIN outbox' :
             Before(i, k) \in DOMAIN outbox /\ outbox'[k] = outbox[Before(i, k)]
        /\ \A j \in DOMAIN outbox : j # i =>
             \E k \in DOMAIN outbox' : Before(i, k) = j
        /\ \A k \in DOMAIN outbox' : Before(i, k) # i
        /\ \A k, l \in DOMAIN outbox' : Before(i, k) = Before(i, l) => k = l
    BY <1>1, LeavesFacts
  <1>3. /\ slots' = Taken(outbox[i].id)
        /\ races' = IF pc = "put" /\ outbox[i].seq = seq THEN races + 1 ELSE races
        /\ UNCHANGED <<pc, seq, unnamed, lastId>>
    BY DEF Leaves
  <1>4. \A j \in DOMAIN outbox : outbox[j].id \in 1..Ids
    BY <1>1, OutboxFacts
  <1>5. \/ slots' = slots /\ \A k \in DOMAIN slots : slots[k].id # outbox[i].id
        \/ \E m \in DOMAIN slots : /\ slots[m].id = outbox[i].id
                                   /\ slots' = [slots EXCEPT ![m] = Free]
    BY <1>1, <1>3, TakenFacts DEF Slot
  <1>6. /\ DOMAIN slots' = DOMAIN slots
        /\ \A k \in DOMAIN slots : slots'[k] = slots[k] \/ slots'[k] = Free
        /\ \A k \in DOMAIN slots : slots[k].id # outbox[i].id => slots'[k] = slots[k]
    BY <1>1, <1>5, SlotFacts
  <1>7. DistinctMessages'
    BY <1>1, <1>2 DEF DistinctMessages
  <1>8. SlotSeqs'
    <2>1. seq \in Nat /\ (pc # "idle" => seq >= 1)
      BY <1>1, NodeConstants DEF NodeConstants, TypeOK, Sessions
    <2>2. ASSUME NEW k \in DOMAIN slots
          PROVE  /\ slots'[k].seq <= seq
                 /\ pc # "idle" => slots'[k].seq < seq
                 /\ slots'[k] # Free => slots'[k].seq >= 1
      <3>1. CASE slots'[k] = slots[k]
        BY <1>1, <3>1 DEF SlotSeqs
      <3>2. CASE slots'[k] = Free
        BY <2>1, <3>2 DEF Free
      <3>3. QED
        BY <1>6, <3>1, <3>2
    <2>3. ASSUME NEW k \in DOMAIN slots, NEW l \in DOMAIN slots,
                 slots'[k] # Free, slots'[k].seq = slots'[l].seq
          PROVE  k = l
      <3>1. slots'[k] = slots[k]
        BY <1>6, <2>3
      <3>2. CASE slots'[l] = slots[l]
        BY <1>1, <2>3, <3>1, <3>2 DEF SlotSeqs
      <3>3. CASE slots'[l] = Free /\ slots'[l] # slots[l]
        <4>1. slots[k].seq = 0 /\ slots[k] # Free
          BY <2>3, <3>1, <3>3 DEF Free
        <4>2. QED
          BY <1>1, <4>1 DEF SlotSeqs
      <3>4. QED
        BY <1>6, <3>2, <3>3
    <2>4. QED
      BY <1>3, <1>6, <2>2, <2>3 DEF SlotSeqs
  <1>9. PutKnown'
    BY <1>1, <1>2, <1>3 DEF PutKnown
  <1>10. MessagesHeld'
    <2>1. ASSUME NEW k \in DOMAIN outbox'
          PROVE  Held(k)'
      <3>. DEFINE j == Before(i, k)
      <3>1. j \in DOMAIN outbox /\ outbox'[k] = outbox[j] /\ j # i
        BY <1>2
      <3>. HIDE DEF j
      <3>2. outbox[j].id # outbox[i].id
        BY <1>1, <3>1 DEF DistinctMessages
      <3>3. Held(j)
        BY <1>1, <3>1 DEF MessagesHeld
      <3>4. CASE \E m \in DOMAIN slots : Stands(m, j)
        <4>1. PICK m \in DOMAIN slots : Stands(m, j)
          BY <3>4
        <4>2. slots[m].id # outbox[i].id
          BY <1>1, <3>1, <3>2, <4>1, StandsFacts
        <4>3. slots'[m] = slots[m]
          BY <1>6, <4>2
        <4>4. QED
          BY <1>6, <3>1, <4>1, <4>3 DEF Held, Stands
      <3>5. QED
        BY <1>3, <3>1, <3>3, <3>4 DEF Held
    <2>2. QED
      BY <2>1 DEF MessagesHeld
  <1>11. Cardinality(Leaked') <= Cardinality(Leaked)
    \* A slot leaks only by standing for the message that leaves.
    <2>1. ASSUME NEW k \in Leaked', k \notin Leaked
          PROVE  k \in DOMAIN slots /\ slots'[k] = slots[k] /\ Stands(k, i)
      <3>1. k \in DOMAIN slots /\ slots'[k] # Free
            /\ \A l \in DOMAIN outbox' : ~Stands(k, l)'
        BY <1>6, <2>1 DEF Leaked
      <3>2. slots'[k] = slots[k] /\ slots[k] # Free
        BY <1>6, <3>1
      <3>3. PICK j \in DOMAIN outbox : Stands(k, j)
        BY <2>1, <3>1, <3>2 DEF Leaked
      <3>4. j = i
        <4>1. SUFFICES ASSUME j # i PROVE FALSE
          OBVIOUS
        <4>2. PICK l \in DOMAIN outbox' : Before(i, l) = j
          BY <1>2, <4>1
        <4>3. outbox'[l] = outbox[j]
          BY <1>2, <4>2
        <4>4. Stands(k, l)'
          BY <3>2, <3>3, <4>3 DEF Stands
        <4>5. QED
          BY <3>1, <4>4
      <3>5. QED
        BY <3>1, <3>2, <3>3, <3>4
    <2>2. IsFiniteSet(Leaked)
      BY <1>1, LeakedFacts
    <2>3. CASE Leaked' \subseteq Leaked
      BY <2>2, <2>3, FewerSlots
    <2>4. CASE ~(Leaked' \subseteq Leaked)
      <3>1. PICK k \in Leaked' : k \notin Leaked
        BY <2>4
      <3>2. k \in DOMAIN slots /\ slots'[k] = slots[k] /\ Stands(k, i)
        BY <2>1, <3>1
      <3>3. slots[k].id = outbox[i].id /\ slots[k].seq = outbox[i].seq
            /\ slots[k] # Free
        BY <1>1, <3>2, StandsFacts
      <3>4. PICK m \in DOMAIN slots : /\ slots[m].id = outbox[i].id
                                      /\ slots' = [slots EXCEPT ![m] = Free]
        BY <1>5, <3>2, <3>3
      <3>5. slots'[m] = Free /\ m # k
        BY <3>2, <3>3, <3>4
      <3>6. slots[m] # Free
        BY <1>1, <1>4, <3>4, SlotFacts
      <3>7. slots[m].seq # outbox[i].seq
        BY <1>1, <3>2, <3>3, <3>5 DEF SlotSeqs
      <3>8. \A l \in DOMAIN outbox : ~Stands(m, l)
        BY <1>1, <3>4, <3>7, StandsFacts DEF DistinctMessages
      <3>9. m \in Leaked /\ m \notin Leaked'
        BY <3>4, <3>5, <3>6, <3>8 DEF Leaked
      <3>10. ASSUME NEW l \in Leaked', l \notin Leaked
             PROVE  l = k
        <4>1. l \in DOMAIN slots /\ Stands(l, i)
          BY <2>1, <3>10
        <4>2. slots[l].seq = slots[k].seq
          BY <1>1, <3>3, <4>1, StandsFacts
        <4>3. QED
          BY <1>1, <3>2, <3>3, <4>1, <4>2 DEF SlotSeqs
      <3>11. Leaked' \subseteq (Leaked \ {m}) \cup {k}
        BY <3>9, <3>10
      <3>12. QED
        BY <2>2, <3>9, <3>11, OneForAnother
    <2>5. QED
      BY <2>3, <2>4
  <1>12. LeaksCounted'
    <2>1. /\ Cardinality(Leaked) \in Nat /\ races \in Nat
          /\ IsFiniteSet(Leaked)
      BY <1>1, LeakedFacts DEF TypeOK
    <2>2. Cardinality(Leaked') \in Nat
      <3>1. Leaked' \subseteq 1..MapSize
        BY <1>1, <1>6, SlotFacts DEF Leaked
      <3>2. IsFiniteSet(1..MapSize)
        BY FS_Interval, NodeConstants DEF NodeConstants
      <3>3. QED
        BY <3>1, <3>2, FewerSlots
    <2>3. CASE pc = "put" /\ outbox[i].seq = seq
      <3>1. races' = races + 1 /\ Owed = 0 /\ Owed' \in {0, 1}
        BY <1>3, <2>3 DEF Owed, Overtaken
      <3>2. QED
        BY <1>1, <1>11, <2>1, <2>2, <3>1 DEF LeaksCounted
    <2>4. CASE ~(pc = "put" /\ outbox[i].seq = seq)
      <3>1. races' = races
        BY <1>3, <2>4
      <3>2. Overtaken' => Overtaken
        <4>1. ASSUME pc = "put", NEW j \in DOMAIN outbox, outbox[j].seq = seq
              PROVE  \E k \in DOMAIN outbox' : outbox'[k].seq = seq
          BY <1>2, <2>4, <4>1
        <4>2. QED
          BY <1>3, <4>1 DEF Overtaken
      <3>3. Owed \in {0, 1} /\ Owed' \in {0, 1} /\ Owed' <= Owed
        BY <3>2 DEF Owed
      <3>4. QED
        BY <1>1, <1>11, <2>1, <2>2, <3>1, <3>3 DEF LeaksCounted
    <2>5. QED
      BY <2>3, <2>4
  <1>13. QED
    BY <1>7, <1>8, <1>9, <1>10, <1>12 DEF Names

LEMMA EnqueuePreservesNames ==
    ASSUME IInv, Enqueue
    PROVE  Names'
  <1>1. /\ DistinctMessages /\ SlotSeqs /\ PutKnown /\ MessagesHeld
        /\ LeaksCounted /\ TypeOK /\ Sessions
    BY DEF IInv, Names
  <1>. DEFINE last == Len(outbox) + 1
  <1>2. /\ lastId' \in 1..Ids
        /\ DOMAIN outbox' = 1..last /\ DOMAIN outbox = 1..Len(outbox)
        /\ Len(outbox) \in Nat
        /\ \A i \in DOMAIN outbox : outbox'[i] = outbox[i]
        /\ outbox'[last] = [seq |-> seq, id |-> lastId', sent |-> FALSE]
    BY <1>1, EnqueueFacts
  <1>. HIDE DEF last
  <1>3. /\ \A i \in DOMAIN outbox' : i \in DOMAIN outbox \/ i = last
        /\ last \in DOMAIN outbox' /\ DOMAIN outbox \subseteq DOMAIN outbox'
        /\ outbox'[last].seq = seq /\ outbox'[last].id = lastId'
    BY <1>2 DEF last
  <1>4. /\ UNCHANGED <<slots, unnamed, seq, races>>
        /\ pc = "admitted" /\ pc' = "put"
        /\ \A i \in DOMAIN outbox : outbox[i].id # lastId'
    BY DEF Enqueue, EnqueueAt, Fits, names
  <1>5. \A i \in DOMAIN outbox : outbox[i].seq # seq
    <2>1. Balanced /\ seq \in Nat
      BY <1>1, LedgerParts, NodeConstants DEF NodeConstants, IInv, TypeOK
    <2>2. InOutbox \subseteq 1..(seq - 1)
      BY <1>4, <2>1 DEF Balanced, Settled
    <2>3. QED
      BY <2>1, <2>2 DEF InOutbox
  <1>6. DistinctMessages'
    BY <1>1, <1>2, <1>3, <1>4, <1>5 DEF DistinctMessages
  <1>7. SlotSeqs'
    BY <1>1, <1>4 DEF SlotSeqs
  <1>8. PutKnown'
    BY <1>2, <1>3, <1>4, <1>5 DEF PutKnown
  <1>9. MessagesHeld'
    <2>1. ASSUME NEW j \in DOMAIN outbox'
          PROVE  Held(j)'
      <3>1. CASE j = last
        BY <1>3, <1>4, <3>1 DEF Held
      <3>2. CASE j \in DOMAIN outbox
        BY <1>1, <1>2, <1>4, <3>2 DEF MessagesHeld, Held, Stands
      <3>3. QED
        BY <1>3, <3>1, <3>2
    <2>2. QED
      BY <2>1 DEF MessagesHeld
  <1>10. LeaksCounted'
    <2>1. Leaked' \subseteq Leaked
      BY <1>2, <1>3, <1>4 DEF Leaked, Stands
    <2>2. /\ Cardinality(Leaked') <= Cardinality(Leaked)
          /\ Cardinality(Leaked') \in Nat /\ Cardinality(Leaked) \in Nat
      BY <1>1, <2>1, LeakedFacts, FewerSlots
    <2>3. Owed' = 0 /\ Owed = 0
      BY <1>3, <1>4 DEF Owed, Overtaken
    <2>4. races' = races /\ races \in Nat
      BY <1>1, <1>4 DEF TypeOK
    <2>5. QED
      BY <1>1, <2>2, <2>3, <2>4 DEF LeaksCounted
  <1>11. QED
    BY <1>6, <1>7, <1>8, <1>9, <1>10 DEF Names

LEMMA PutPreservesNames ==
    ASSUME IInv, PendingPut
    PROVE  Names'
  <1>1. /\ DistinctMessages /\ SlotSeqs /\ PutKnown /\ MessagesHeld
        /\ LeaksCounted /\ TypeOK /\ Sessions
    BY DEF IInv, Names
  <1>2. /\ pc = "put" /\ pc' = "idle" /\ seq' = seq /\ races' = races
        /\ outbox' = outbox /\ lastId' = lastId
    BY DEF PendingPut, client, history
  <1>3. seq \in Nat /\ seq >= 1 /\ lastId \in 1..Ids
    BY <1>1, <1>2, NodeConstants
       DEF NodeConstants, TypeOK, Sessions, PutKnown
  <1>4. DistinctMessages' /\ PutKnown'
    BY <1>1, <1>2 DEF DistinctMessages, PutKnown
  <1>5. /\ IsFiniteSet(Leaked) /\ Cardinality(Leaked) \in Nat
        /\ races \in Nat /\ Owed \in {0, 1} /\ Owed' = 0
    BY <1>1, <1>2, LeakedFacts DEF TypeOK, Owed, Overtaken
  <1>. DEFINE free == {i \in DOMAIN slots : slots[i] = Free}
  <1>6. CASE free = {}
    <2>1. unnamed' = unnamed \cup {seq} /\ slots' = slots
      BY <1>6 DEF PendingPut
    <2>2. SlotSeqs'
      BY <1>1, <1>2, <2>1 DEF SlotSeqs
    <2>3. MessagesHeld'
      BY <1>1, <1>2, <2>1 DEF MessagesHeld, Held, Stands
    <2>4. Leaked' = Leaked
      BY <1>2, <2>1 DEF Leaked, Stands
    <2>5. LeaksCounted'
      BY <1>1, <1>2, <1>5, <2>4 DEF LeaksCounted
    <2>6. QED
      BY <1>4, <2>2, <2>3, <2>5 DEF Names
  <1>7. CASE free # {}
    <2>1. PICK f \in free : f = Min(free)
      <3>1. free \in SUBSET Nat
        BY <1>1, SlotFacts
      <3>2. QED
        BY <1>7, <3>1, MinFacts
    <2>2. /\ slots' = [slots EXCEPT ![f] = [id |-> lastId, seq |-> seq]]
          /\ unnamed' = unnamed
      BY <1>7, <2>1 DEF PendingPut
    <2>3. f \in DOMAIN slots /\ slots[f] = Free
      BY <2>1
    <2>. HIDE DEF free
    <2>4. /\ DOMAIN slots' = DOMAIN slots
          /\ slots'[f] = [id |-> lastId, seq |-> seq]
          /\ \A k \in DOMAIN slots : k # f => slots'[k] = slots[k]
      BY <2>2, <2>3
    <2>5. SlotSeqs'
      <3>1. slots'[f].seq = seq /\ \A k \in DOMAIN slots : slots[k].seq < seq
        BY <1>1, <1>2, <2>4 DEF SlotSeqs
      <3>2. \A k \in DOMAIN slots : /\ slots'[k].seq <= seq
                                    /\ slots'[k] # Free => slots'[k].seq >= 1
        BY <1>1, <1>3, <2>4, <3>1, SlotFacts DEF SlotSeqs
      <3>3. \A k, l \in DOMAIN slots :
                slots'[k] # Free /\ slots'[k].seq = slots'[l].seq => k = l
        BY <1>1, <1>3, <2>4, <3>1, SlotFacts DEF SlotSeqs
      <3>4. QED
        BY <1>2, <2>4, <3>2, <3>3 DEF SlotSeqs
    <2>6. MessagesHeld'
      <3>1. ASSUME NEW j \in DOMAIN outbox
            PROVE  Held(j)'
        <4>1. CASE outbox[j].seq = seq
          <5>1. outbox[j].id = lastId
            BY <1>1, <1>2, <4>1 DEF PutKnown
          <5>2. Stands(f, j)'
            BY <1>2, <2>4, <4>1, <5>1 DEF Stands
          <5>3. QED
            BY <2>3, <2>4, <5>2 DEF Held
        <4>2. CASE outbox[j].seq # seq /\ \E m \in DOMAIN slots : Stands(m, j)
          <5>1. PICK m \in DOMAIN slots : Stands(m, j)
            BY <4>2
          <5>2. m # f
            BY <1>1, <2>3, <5>1, StandsFacts
          <5>3. Stands(m, j)'
            BY <1>2, <2>4, <5>1, <5>2 DEF Stands
          <5>4. QED
            BY <2>4, <5>3 DEF Held
        <4>3. CASE outbox[j].seq \in unnamed
          BY <1>2, <2>2, <4>3 DEF Held
        <4>4. QED
          BY <1>1, <4>1, <4>2, <4>3 DEF MessagesHeld, Held
      <3>2. QED
        BY <1>2, <3>1 DEF MessagesHeld
    <2>7. Leaked' \subseteq Leaked \cup {f}
      BY <1>2, <2>4 DEF Leaked, Stands
    <2>9. Cardinality(Leaked') \in Nat
      BY <1>5, <2>7, FS_AddElement, FewerSlots
    <2>8. CASE Overtaken
      <3>1. Cardinality(Leaked') <= Cardinality(Leaked) + 1
        BY <1>5, <2>7, OneMoreSlot
      <3>2. Owed = 1
        BY <2>8 DEF Owed
      <3>3. QED
        BY <1>1, <1>2, <1>4, <1>5, <2>5, <2>6, <2>9, <3>1, <3>2
           DEF LeaksCounted, Names
    <2>10. CASE ~Overtaken
      <3>1. PICK j \in DOMAIN outbox : outbox[j].seq = seq
        BY <1>2, <2>10 DEF Overtaken
      <3>2. outbox[j].id = lastId
        BY <1>1, <1>2, <3>1 DEF PutKnown
      <3>3. Stands(f, j)'
        BY <1>2, <2>4, <3>1, <3>2 DEF Stands
      <3>4. f \notin Leaked'
        BY <1>2, <3>3 DEF Leaked
      <3>5. Leaked' \subseteq Leaked
        BY <2>7, <3>4
      <3>6. Cardinality(Leaked') <= Cardinality(Leaked)
        BY <1>5, <3>5, FewerSlots
      <3>7. QED
        BY <1>1, <1>2, <1>4, <1>5, <2>5, <2>6, <2>9, <3>6
           DEF LeaksCounted, Names
    <2>11. QED
      BY <2>8, <2>10
  <1>8. QED
    BY <1>6, <1>7

LEMMA NamesPreserved == IInv /\ [Next]_vars => Names'
  <1>. SUFFICES ASSUME IInv, [Next]_vars PROVE Names'
    OBVIOUS
  <1>1. SlotSeqs /\ TypeOK /\ Sessions
    BY DEF IInv, Names
  <1>2. CASE Enqueue
    BY <1>2, EnqueuePreservesNames
  <1>3. CASE PendingPut
    BY <1>3, PutPreservesNames
  <1>4. CASE PubAck
    BY <1>4, LeavesPreservesNames DEF PubAck
  <1>5. CASE Expire
    BY <1>1, <1>5, LeavesPreservesNames, OutboxFacts DEF Expire
  <1>6. CASE Connected \/ Send
    <2>1. /\ DOMAIN outbox' = DOMAIN outbox
          /\ \A i \in DOMAIN outbox : /\ outbox'[i].seq = outbox[i].seq
                                      /\ outbox'[i].id = outbox[i].id
      BY <1>1, <1>6, SameMessages
    <2>2. UNCHANGED <<pc, seq, slots, lastId, unnamed, races>>
      BY <1>6 DEF Connected, Send, loop, names, history
    <2>3. SlotSeqs'
      BY <1>1, <2>2 DEF SlotSeqs
    <2>4. QED
      BY <2>1, <2>2, <2>3, NamesStand
  <1>7. CASE Sample
    <2>1. /\ seq' = seq + 1 /\ pc = "idle" /\ pc' = "clock" /\ seq \in Nat
          /\ slots' = slots
      BY <1>1, <1>7, NodeConstants DEF NodeConstants, Sample, TypeOK, names
    <2>2. SlotSeqs'
      <3>1. \A i \in DOMAIN slots : slots[i].seq \in Nat
        BY <1>1, SlotFacts
      <3>2. QED
        BY <1>1, <2>1, <3>1 DEF SlotSeqs
    <2>3. UNCHANGED <<outbox, slots, lastId, unnamed, races>>
      BY <1>7, OutboxStands
    <2>4. pc # "put" /\ pc' # "put"
      BY <2>1
    <2>5. QED
      BY <2>2, <2>3, <2>4, NamesStand
  <1>8. CASE \/ SkipUnsynced \/ ReadConnected \/ GateDrops \/ GatePasses
             \/ PayloadTruncated \/ EnqueueRejected \/ OverLimit
    <2>1. pc' # "put" /\ pc \notin {"put", "idle"} /\ seq' = seq
      BY <1>8 DEF SkipUnsynced, ReadConnected, GateDrops, GatePasses,
                  PayloadTruncated, EnqueueRejected, OverLimit, Fits, Lose
    <2>2. UNCHANGED <<outbox, slots, lastId, unnamed, races>>
      BY <1>8, OutboxStands
    <2>3. SlotSeqs'
      BY <1>1, <2>1, <2>2 DEF SlotSeqs
    <2>4. QED
      BY <2>1, <2>2, <2>3, NamesStand
  <1>9. CASE \/ ClockSet \/ HandlerStep \/ SessionEnds \/ AttemptFails
             \/ LinkDies \/ LinkReturns \/ UNCHANGED vars
    <2>1. pc' = pc /\ seq' = seq
      BY <1>9 DEF ClockSet, HandlerStep, SessionEnds, AttemptFails, LinkDies,
                  LinkReturns, vars, loop
    <2>2. UNCHANGED <<outbox, slots, lastId, unnamed, races>>
      BY <1>9, OutboxStands
    <2>3. SlotSeqs'
      BY <1>1, <2>1, <2>2 DEF SlotSeqs
    <2>4. QED
      BY <2>1, <2>2, <2>3, NamesStand
  <1>10. QED
    BY <1>2, <1>3, <1>4, <1>5, <1>6, <1>7, <1>8, <1>9
       DEF Next, PublishStep, ClientStep

-----------------------------------------------------------------------------
(* The theorems.                                                           *)

THEOREM Invariance == Spec => []IInv
  <1>1. IInv /\ [Next]_vars => IInv'
    BY TypePreserved, SessionsPreserved, LedgerPreserved, GateClockPreserved,
       FirstMinutePreserved, NamesPreserved DEF IInv
  <1>2. QED
    BY <1>1, InitIInv, PTL DEF Spec

\* Every variable of the node keeps its type: the outbox within its limit, the
\* packet identifiers within theirs, the map within its slots.
THEOREM TypeCorrect == Spec => []TypeOK
  <1>1. IInv => TypeOK
    BY DEF IInv
  <1>2. QED
    BY <1>1, Invariance, PTL

\* mqtt_publisher.c loses no reading it does not log, refused ones included,
\* and none it dropped before sending turns up at the broker: the holes of the
\* series are exactly the losses.
THEOREM HolesAreTheLosses == Spec => []HolesAreLosses
  <1>1. IInv => HolesAreLosses
    BY DEF IInv, Ledger
  <1>2. QED
    BY <1>1, Invariance, PTL

\* What one outage leaves in the outbox is bounded by the gate, the time it
\* takes to notice, and the reading under way.
THEOREM FirstMinuteIsKept == Spec => []KeepsTheFirstMinute
  <1>1. IInv => KeepsTheFirstMinute
    <2>1. ASSUME IInv, ~session
          PROVE  admitted <= Gate + Lag + 1
      <3>1. /\ Gate \in Nat /\ Lag \in Nat /\ seq \in Nat
            /\ offlineSince \in Nat /\ admitted \in Nat
        BY <2>1, NodeConstants DEF NodeConstants, IInv, TypeOK
      <3>2. QED
        BY <2>1, <3>1
           DEF IInv, FirstMinute, Unstamped, Pending, PastGate
    <2>2. QED
      BY <2>1 DEF IInv, FirstMinute, KeepsTheFirstMinute
  <1>2. QED
    BY <1>1, Invariance, PTL

\* pending_put() and pending_take() leak at most one slot for each PUBACK or
\* expiry that overtook its pending_put(), and only a leaked slot can give a
\* message another reading's name.
THEOREM NamesAreRight == Spec => []NamesItsOwn
  <1>1. ASSUME IInv PROVE NamesItsOwn
    <2>1. /\ TypeOK /\ DistinctMessages /\ MessagesHeld /\ LeaksCounted
      BY <1>1 DEF IInv, Names
    <2>2. Cardinality(Leaked) <= races
      <3>1. Cardinality(Leaked) \in Nat /\ races \in Nat
        BY <2>1, LeakedFacts DEF TypeOK
      <3>2. QED
        BY <2>1, <3>1 DEF LeaksCounted, Owed
    <2>3. ASSUME NEW j \in DOMAIN outbox, NEW i \in DOMAIN slots, Stands(i, j)
          PROVE  \/ Name(outbox[j].id) = outbox[j].seq
                 \/ \E k \in Leaked : slots[k].id = outbox[j].id
      <3>1. PICK id : id = outbox[j].id
        OBVIOUS
      <3>2. i \in Slot(id)
        BY <2>3, <3>1 DEF Stands, Slot
      <3>3. Slot(id) \in SUBSET Nat
        BY <2>1, SlotFacts DEF Slot
      <3>4. PICK m : m = Min(Slot(id))
        OBVIOUS
      <3>5. m \in DOMAIN slots /\ slots[m].id = id
        BY <3>2, <3>3, <3>4, MinFacts DEF Slot
      <3>6. Name(id) = slots[m].seq
        BY <3>2, <3>4 DEF Name
      <3>7. CASE slots[m].seq = outbox[j].seq
        BY <3>1, <3>6, <3>7
      <3>8. CASE slots[m].seq # outbox[j].seq
        <4>1. slots[m] # Free
          BY <2>1, <3>1, <3>5, OutboxFacts, SlotFacts
        <4>2. \A l \in DOMAIN outbox : ~Stands(m, l)
          BY <2>1, <3>1, <3>5, <3>8 DEF Stands, DistinctMessages
        <4>3. QED
          BY <3>1, <3>5, <4>1, <4>2 DEF Leaked
      <3>9. QED
        BY <3>7, <3>8
    <2>4. QED
      BY <2>1, <2>2, <2>3 DEF MessagesHeld, Held, NamesItsOwn
  <1>2. QED
    BY <1>1, Invariance, PTL

\* The two unlocked reads of the publish loop never drop a reading within the
\* gate's time of a live session.
THEOREM GateWaits == Spec => GateIsPatient
  <1>1. ASSUME IInv, Next, lost'["gate"] # lost["gate"]
        PROVE  seq - lastUp > Gate \/ connected
    <2>1. TypeOK /\ "gate" \in Kinds /\ DOMAIN lost = Kinds
      BY <1>1 DEF IInv, TypeOK, Kinds, Dropped
    <2>2. CASE GateDrops
      <3>1. /\ seq \in Nat /\ offlineSince \in Nat /\ lastUp \in Nat
            /\ Gate \in Nat
        BY <2>1, NodeConstants DEF NodeConstants, TypeOK
      <3>2. QED
        BY <1>1, <2>2, <3>1 DEF IInv, GateClock, GateDrops, PastGate
    <2>3. CASE SkipUnsynced
      BY <1>1, <2>1, <2>3 DEF SkipUnsynced, Lose
    <2>4. CASE EnqueueRejected
      BY <1>1, <2>1, <2>4 DEF EnqueueRejected, Lose
    <2>5. CASE OverLimit
      BY <1>1, <2>1, <2>5 DEF OverLimit, Lose
    <2>6. CASE Expire \/ PubAck
      BY <1>1, <2>1, <2>6 DEF Expire, PubAck
    <2>10. CASE PayloadTruncated
      BY <1>1, <2>1, <2>10 DEF PayloadTruncated, Lose
    <2>7. ASSUME lost' = lost
          PROVE  FALSE
      BY <1>1, <2>7
    <2>8. CASE \/ Sample \/ ReadConnected \/ GatePasses \/ Enqueue \/ PendingPut
               \/ ClockSet \/ Connected \/ HandlerStep \/ SessionEnds
               \/ AttemptFails \/ Send \/ LinkDies \/ LinkReturns
      <3>1. lost' = lost
        BY <2>8 DEF Sample, ReadConnected, GatePasses, Enqueue, EnqueueAt,
             PendingPut, ClockSet, Connected, HandlerStep, SessionEnds,
             AttemptFails, Send, LinkDies, LinkReturns, loop
      <3>2. QED
        BY <2>7, <3>1
    <2>9. QED
      BY <1>1, <2>2, <2>3, <2>4, <2>5, <2>6, <2>8, <2>10
         DEF Next, PublishStep, ClientStep
  <1>2. IInv /\ [Next]_vars =>
            [lost'["gate"] # lost["gate"] => seq - lastUp > Gate \/ connected]_vars
    BY <1>1
  <1>3. QED
    BY <1>2, Invariance, PTL DEF Spec, GateIsPatient
=============================================================================
