--------------------------- MODULE TopologyProofs ---------------------------
(***************************************************************************)
(* Safety of the declarer, for any number of runs, any editions and any    *)
(* number of readings: runs that overlap, die half way or pass --recreate. *)
(*                                                                         *)
(* What a run has still to do is the end of one script, so the number of   *)
(* calls left tells which they are (InScript).  The rest follows the       *)
(* script:                                                                 *)
(*  - DeadLetterSide: the dead-letter side is there before the store, and  *)
(*    nobody takes it away.                                                *)
(*  - PathsBound: what a run has bound is bound still, or owed by a run    *)
(*    that has dropped it and not bound it again.                          *)
(*  - Undeleted: what a run has declared is as its edition says, unless    *)
(*    others deleted meanwhile.                                            *)
(*  - Dropped: what it has dropped is gone, unless others called.          *)
(***************************************************************************)
EXTENDS Topology, SequenceTheorems, TLAPS

Left(r) == Len(todo[r])

\* The calls by how many are left when they come up.
Script ==
    [n \in 1..9 |->
        CASE n = 9 -> Call("delete", "store")
          [] n = 8 -> Call("delete", "observe")
          [] n = 7 -> Call("declare", "dlx")
          [] n = 6 -> Call("declare", "dlq")
          [] n = 5 -> Call("bind", "dlq")
          [] n = 4 -> Call("declare", "store")
          [] n = 3 -> Call("bind", "store")
          [] n = 2 -> Call("declare", "observe")
          [] n = 1 -> Call("bind", "observe")]

\* What a run has declared, bound and dropped, by how many it has left.
Declared(r) ==
    {o \in Objects :
        \/ o = "dlx" /\ Left(r) <= 6
        \/ o = "dlq" /\ Left(r) <= 5
        \/ o = "store" /\ Left(r) <= 3
        \/ o = "observe" /\ Left(r) <= 1}
BoundBy(r) ==
    {q \in Queues :
        \/ q = "dlq" /\ Left(r) <= 4
        \/ q = "store" /\ Left(r) <= 2
        \/ q = "observe" /\ Left(r) <= 0}
DroppedBy(r) ==
    {q \in DataQueues :
        /\ recreate[r]
        /\ \/ q = "store" /\ Left(r) <= 8
           \/ q = "observe" /\ Left(r) <= 7}

InScript ==
    \A r \in Runs :
        /\ Left(r) <= 9
        /\ Left(r) > 7 => recreate[r]
        /\ \A i \in 1..Left(r) : todo[r][i] = Script[Left(r) + 1 - i]

DeadLetterSide ==
    /\ \A q \in Queues : q \in bound => args[q] # Absent
    /\ args["store"] # Absent => args["dlx"] # Absent /\ "dlq" \in bound
    /\ content["store"] # {} => args["store"] # Absent
    /\ \A r \in Runs : Active(r) =>
        /\ \A o \in {"dlx", "dlq"} \cap Declared(r) : args[o] # Absent
        /\ "dlq" \in BoundBy(r) => "dlq" \in bound

\* Dropped by a run that has not bound it again.
Owed(q) == \E r \in Runs : Recreating(r) /\ q \in DroppedBy(r) \ BoundBy(r)

\* Nobody has promised the path to this queue yet.
Unpromised(q) == ~GateOpen /\ \A r \in Runs : Active(r) => q \notin BoundBy(r)

PathsBound ==
    /\ \A r \in Runs : state[r] = "waiting" => ~recreate[r]
    /\ \A q \in DataQueues : q \in bound \/ Owed(q) \/ Unpromised(q)

Undeleted ==
    \A r \in Runs : Active(r) /\ "delete" \notin disturbed[r] =>
        /\ \A o \in Declared(r) : args[o] = spec[r][o]
        /\ BoundBy(r) \subseteq bound

Dropped ==
    /\ \A r \in Runs : Active(r) /\ disturbed[r] = {} =>
        \A q \in DroppedBy(r) \ Declared(r) : args[q] = Absent
    /\ \A r \in Runs : state[r] = "mismatch" /\ recreate[r] /\ disturbed[r] = {} =>
        \E o \in {"dlx", "dlq"} : args[o] \notin {Absent, spec[r][o]}

IInv ==
    /\ TypeOK /\ InScript /\ DeadLetterSide /\ PathsBound /\ Undeleted
    /\ Dropped /\ NothingFallsThrough

-----------------------------------------------------------------------------
(* The script.                                                             *)

CallSet == [op : Ops, object : Objects]

\* drop() and declare() make the calls of the script, from its beginning or
\* from the declares on.
LEMMA CallsInScript ==
    /\ Calls(TRUE) \in Seq(CallSet) /\ Calls(FALSE) \in Seq(CallSet)
    /\ Len(Calls(TRUE)) = 9 /\ Len(Calls(FALSE)) = 7
    /\ \A i \in 1..9 : Calls(TRUE)[i] = Script[10 - i]
    /\ \A i \in 1..7 : Calls(FALSE)[i] = Script[8 - i]
  <1>1. /\ Declares \in Seq(CallSet) /\ Len(Declares) = 7
        /\ \A i \in 1..7 : Declares[i] = Script[8 - i]
    BY DEF Declares, Call, CallSet, Ops, Objects, Queues, DataQueues, Script
  <1>2. /\ Drops \in Seq(CallSet) /\ Len(Drops) = 2
        /\ \A i \in 1..2 : Drops[i] = Script[10 - i]
    BY DEF Drops, Recreatable, Call, CallSet, Ops, Objects, Queues, DataQueues,
           Script
  <1>. DEFINE Both == Drops \o Declares
  <1>3. /\ Both \in Seq(CallSet)
        /\ Len(Both) = 9
        /\ \A i \in 1..9 :
            Both[i] = IF i <= 2 THEN Drops[i] ELSE Declares[i - 2]
    <2>1. /\ Both \in Seq(CallSet)
          /\ Len(Both) = Len(Drops) + Len(Declares)
          /\ \A i \in 1..(Len(Drops) + Len(Declares)) :
                Both[i] =
                  IF i <= Len(Drops) THEN Drops[i] ELSE Declares[i - Len(Drops)]
      BY <1>1, <1>2, ConcatProperties
    <2>. HIDE DEF Both
    <2>2. Len(Drops) = 2 /\ Len(Declares) = 7
      BY <1>1, <1>2
    <2>3. QED
      BY <2>1, <2>2
  <1>4. Calls(TRUE) = Both /\ Calls(FALSE) = Declares
    BY DEF Calls
  <1>. HIDE DEF Both
  <1>5. ASSUME NEW i \in 1..9
        PROVE  Both[i] = Script[10 - i]
    <2>1. CASE i <= 2
      BY <1>2, <1>3, <2>1
    <2>2. CASE i > 2
      <3>1. i - 2 \in 1..7 /\ 8 - (i - 2) = 10 - i
        BY <2>2
      <3>2. Both[i] = Declares[i - 2]
        BY <1>3, <2>2
      <3>3. QED
        BY <1>1, <3>1, <3>2
    <2>3. QED
      BY <2>1, <2>2
  <1>6. QED
    BY <1>1, <1>3, <1>4, <1>5

\* The next call of a run is the one the script has where the run is.
LEMMA CallingInScript ==
    ASSUME TypeOK, InScript, NEW r \in Runs, NEW op, NEW o,
           Calling(r, op, o)
    PROVE  Left(r) \in 1..9 /\ Script[Left(r)] = Call(op, o)
  <1>1. todo[r] \in Seq(CallSet) /\ todo[r] # <<>>
    BY DEF TypeOK, CallSet, Calling
  <1>2. Left(r) \in 1..9
    <2>1. Len(todo[r]) \in Nat /\ Len(todo[r]) # 0
      BY <1>1, EmptySeq, LenProperties
    <2>2. Len(todo[r]) <= 9
      BY DEF InScript, Left
    <2>3. \A n \in Nat : n # 0 /\ n <= 9 => n \in 1..9
      OBVIOUS
    <2>4. QED
      BY <2>1, <2>2, <2>3, Zenon DEF Left
  <1>3. Head(todo[r]) = todo[r][1]
    BY <1>1
  <1>4. QED
    BY <1>2, <1>3 DEF InScript, Calling

\* A call made is one call less to make, for this run and no other.
LEMMA CallAdvances ==
    ASSUME TypeOK, InScript, NEW r \in Runs, NEW op, NEW o,
           Calling(r, op, o), Called(r, op), recreate' = recreate
    PROVE  /\ todo' \in [Runs -> Seq(CallSet)] /\ InScript'
           /\ Left(r)' = Left(r) - 1
           /\ \A s \in Runs \ {r} : Left(s)' = Left(s)
  <1>1. todo[r] \in Seq(CallSet) /\ todo[r] # <<>>
    BY DEF TypeOK, CallSet, Calling
  <1>2. /\ Tail(todo[r]) \in Seq(CallSet)
        /\ Len(Tail(todo[r])) = Left(r) - 1
        /\ \A i \in 1..(Left(r) - 1) : Tail(todo[r])[i] = todo[r][i + 1]
    BY <1>1, HeadTailProperties DEF Left
  <1>3. /\ todo'[r] = Tail(todo[r])
        /\ \A s \in Runs \ {r} : todo'[s] = todo[s]
        /\ todo' \in [Runs -> Seq(CallSet)]
    BY <1>2 DEF TypeOK, CallSet, Called
  <1>4. Left(r) \in 1..9
    BY CallingInScript
  <1>5. ASSUME NEW s \in Runs
        PROVE  /\ Left(s)' <= 9
               /\ Left(s)' > 7 => recreate'[s]
               /\ \A i \in 1..Left(s)' : todo'[s][i] = Script[Left(s)' + 1 - i]
    <2>1. CASE s = r
      <3>1. Left(s)' = Left(r) - 1
        BY <1>2, <1>3, <2>1 DEF Left
      <3>2. \A i \in 1..Left(r) : todo[r][i] = Script[Left(r) + 1 - i]
        BY DEF InScript
      <3>3. \A i \in 1..(Left(r) - 1) :
                i + 1 \in 1..Left(r) /\ Left(r) + 1 - (i + 1) = Left(r) - i
        BY <1>4
      <3>4. \A i \in 1..(Left(r) - 1) : todo'[s][i] = Script[Left(r) - i]
        BY <1>2, <1>3, <2>1, <3>2, <3>3
      <3>5. Left(r) - 1 > 7 => recreate'[s]
        BY <1>4, <2>1 DEF InScript
      <3>6. QED
        BY <1>4, <3>1, <3>4, <3>5
    <2>2. CASE s # r
      BY <1>3, <2>2 DEF InScript, Left
    <2>3. QED
      BY <2>1, <2>2
  <1>6. QED
    BY <1>2, <1>3, <1>5 DEF InScript, Left

\* The script, line by line.
LEMMA ScriptLines ==
    ASSUME NEW n \in 1..9, NEW op, NEW o, Script[n] = Call(op, o)
    PROVE  \/ n = 9 /\ op = "delete" /\ o = "store"
           \/ n = 8 /\ op = "delete" /\ o = "observe"
           \/ n = 7 /\ op = "declare" /\ o = "dlx"
           \/ n = 6 /\ op = "declare" /\ o = "dlq"
           \/ n = 5 /\ op = "bind" /\ o = "dlq"
           \/ n = 4 /\ op = "declare" /\ o = "store"
           \/ n = 3 /\ op = "bind" /\ o = "store"
           \/ n = 2 /\ op = "declare" /\ o = "observe"
           \/ n = 1 /\ op = "bind" /\ o = "observe"
  BY DEF Script, Call

\* What each kind of call adds to what the run has done.
LEMMA DeclareAdvances ==
    ASSUME TypeOK, InScript, NEW r \in Runs, NEW o \in Objects,
           Calling(r, "declare", o), Called(r, "declare"),
           recreate' = recreate
    PROVE  /\ Declared(r)' = Declared(r) \cup {o}
           /\ BoundBy(r)' = BoundBy(r)
           /\ DroppedBy(r)' = DroppedBy(r)
  <1>1. Left(r) \in 1..9 /\ Left(r)' = Left(r) - 1
    BY CallAdvances, CallingInScript
  <1>2. Script[Left(r)] = Call("declare", o)
    BY CallingInScript
  <1>3. \/ Left(r) = 7 /\ o = "dlx"
        \/ Left(r) = 6 /\ o = "dlq"
        \/ Left(r) = 4 /\ o = "store"
        \/ Left(r) = 2 /\ o = "observe"
    BY <1>1, <1>2, ScriptLines
  <1>4. CASE Left(r) = 7 /\ o = "dlx"
    BY <1>1, <1>4 DEF Declared, BoundBy, DroppedBy, Objects, Queues, DataQueues
  <1>5. CASE Left(r) = 6 /\ o = "dlq"
    BY <1>1, <1>5 DEF Declared, BoundBy, DroppedBy, Objects, Queues, DataQueues
  <1>6. CASE Left(r) = 4 /\ o = "store"
    BY <1>1, <1>6 DEF Declared, BoundBy, DroppedBy, Objects, Queues, DataQueues
  <1>7. CASE Left(r) = 2 /\ o = "observe"
    BY <1>1, <1>7 DEF Declared, BoundBy, DroppedBy, Objects, Queues, DataQueues
  <1>8. QED
    BY <1>3, <1>4, <1>5, <1>6, <1>7

LEMMA BindAdvances ==
    ASSUME TypeOK, InScript, NEW r \in Runs, NEW q \in Queues,
           Calling(r, "bind", q), Called(r, "bind"),
           recreate' = recreate
    PROVE  /\ Declared(r)' = Declared(r)
           /\ BoundBy(r)' = BoundBy(r) \cup {q}
           /\ DroppedBy(r)' = DroppedBy(r)
  <1>1. Left(r) \in 1..9 /\ Left(r)' = Left(r) - 1
    BY CallAdvances, CallingInScript
  <1>2. Script[Left(r)] = Call("bind", q)
    BY CallingInScript
  <1>3. \/ Left(r) = 5 /\ q = "dlq"
        \/ Left(r) = 3 /\ q = "store"
        \/ Left(r) = 1 /\ q = "observe"
    BY <1>1, <1>2, ScriptLines
  <1>4. CASE Left(r) = 5 /\ q = "dlq"
    BY <1>1, <1>4 DEF Declared, BoundBy, DroppedBy, Objects, Queues, DataQueues
  <1>5. CASE Left(r) = 3 /\ q = "store"
    BY <1>1, <1>5 DEF Declared, BoundBy, DroppedBy, Objects, Queues, DataQueues
  <1>6. CASE Left(r) = 1 /\ q = "observe"
    BY <1>1, <1>6 DEF Declared, BoundBy, DroppedBy, Objects, Queues, DataQueues
  <1>7. QED
    BY <1>3, <1>4, <1>5, <1>6

\* The dead-letter side is never dropped, and what is dropped comes first.
LEMMA DeleteAdvances ==
    ASSUME TypeOK, InScript, NEW r \in Runs, NEW q \in Queues,
           Calling(r, "delete", q), Called(r, "delete"),
           recreate' = recreate
    PROVE  /\ q \in DataQueues /\ recreate[r]
           /\ Declared(r)' = {} /\ BoundBy(r)' = {}
           /\ DroppedBy(r)' = DroppedBy(r) \cup {q}
  <1>1. Left(r) \in 1..9 /\ Left(r)' = Left(r) - 1
    BY CallAdvances, CallingInScript
  <1>2. Script[Left(r)] = Call("delete", q)
    BY CallingInScript
  <1>3. \/ Left(r) = 9 /\ q = "store"
        \/ Left(r) = 8 /\ q = "observe"
    BY <1>1, <1>2, ScriptLines
  <1>4. recreate[r] /\ recreate'[r]
    BY <1>1, <1>3 DEF InScript
  <1>5. CASE Left(r) = 9 /\ q = "store"
    BY <1>1, <1>4, <1>5
       DEF Declared, BoundBy, DroppedBy, Objects, Queues, DataQueues
  <1>6. CASE Left(r) = 8 /\ q = "observe"
    BY <1>1, <1>4, <1>6
       DEF Declared, BoundBy, DroppedBy, Objects, Queues, DataQueues
  <1>7. QED
    BY <1>3, <1>5, <1>6

\* A run with as much to do as before has done as much as before.
LEMMA SameLeft ==
    ASSUME NEW s, Left(s)' = Left(s), recreate'[s] = recreate[s]
    PROVE  /\ Declared(s)' = Declared(s) /\ BoundBy(s)' = BoundBy(s)
           /\ DroppedBy(s)' = DroppedBy(s)
  BY DEF Declared, BoundBy, DroppedBy

\* Where a call stands, what its run has done: what is declared needs.
LEMMA BeforeDeclare ==
    ASSUME TypeOK, InScript, NEW r \in Runs, NEW o \in Objects,
           Calling(r, "declare", o)
    PROVE  /\ o = "store" => "dlx" \in Declared(r) /\ "dlq" \in BoundBy(r)
           /\ o \in DataQueues /\ recreate[r] =>
                o \in DroppedBy(r) \ Declared(r)
  <1>1. Left(r) \in 1..9 /\ Script[Left(r)] = Call("declare", o)
    BY CallingInScript
  <1>2. \/ Left(r) = 7 /\ o = "dlx"
        \/ Left(r) = 6 /\ o = "dlq"
        \/ Left(r) = 4 /\ o = "store"
        \/ Left(r) = 2 /\ o = "observe"
    BY <1>1, ScriptLines
  <1>3. QED
    BY <1>2 DEF Declared, BoundBy, DroppedBy, Objects, Queues, DataQueues

LEMMA BeforeBind ==
    ASSUME TypeOK, InScript, NEW r \in Runs, NEW q \in Queues,
           Calling(r, "bind", q)
    PROVE  q \in Declared(r)
  <1>1. Left(r) \in 1..9 /\ Script[Left(r)] = Call("bind", q)
    BY CallingInScript
  <1>2. \/ Left(r) = 5 /\ q = "dlq"
        \/ Left(r) = 3 /\ q = "store"
        \/ Left(r) = 1 /\ q = "observe"
    BY <1>1, ScriptLines
  <1>3. QED
    BY <1>2 DEF Declared, Objects, Queues, DataQueues

LEMMA AllDone ==
    ASSUME NEW r \in Runs, todo[r] = <<>>
    PROVE  Declared(r) = Objects /\ BoundBy(r) = Queues
  <1>1. Left(r) = 0
    BY DEF Left
  <1>2. QED
    BY <1>1 DEF Declared, BoundBy, Objects, Queues, DataQueues

-----------------------------------------------------------------------------
(* Every step preserves the invariant.                                     *)

LEMMA SpecIsSet ==
    ASSUME TypeOK, NEW r \in Runs, NEW o \in Objects
    PROVE  spec[r][o] \in Nat \ {0}
  BY TopologyConstants DEF TypeOK

LEMMA InitIInv == Init => IInv
  <1>. SUFFICES ASSUME Init PROVE IInv
    OBVIOUS
  <1>1. TypeOK
    <2>1. args \in [Objects -> Nat] /\ bound \subseteq Queues
      BY TopologyConstants DEF Init, Absent
    <2>2. todo \in [Runs -> Seq([op : Ops, object : Objects])]
      BY DEF Init
    <2>3. QED
      BY <2>1, <2>2, TopologyConstants DEF Init, TypeOK, Exits
  <1>2. InScript
    BY DEF Init, InScript, Left
  <1>3. DeadLetterSide
    BY TopologyConstants
       DEF Init, DeadLetterSide, Active, Absent, Objects, Queues, DataQueues
  <1>4. QED
    BY <1>1, <1>2, <1>3
       DEF Init, IInv, PathsBound, Unpromised, GateOpen, Undeleted, Dropped,
           Active, NothingFallsThrough

\* A path stays bound, owed or unpromised, when what made it so does.
LEMMA PathKept ==
    ASSUME PathsBound, NEW q \in DataQueues,
           q \in bound => q \in bound' \/ Owed(q)',
           Owed(q) => q \in bound' \/ Owed(q)',
           Unpromised(q) => q \in bound' \/ Unpromised(q)'
    PROVE  q \in bound' \/ Owed(q)' \/ Unpromised(q)'
  BY DEF PathsBound

\* What no run does, and nobody binds or deletes, leaves the paths alone.
LEMMA PathsKept ==
    ASSUME PathsBound, state' = state, recreate' = recreate, bound' = bound,
           \A s \in Runs :
              BoundBy(s)' = BoundBy(s) /\ DroppedBy(s)' = DroppedBy(s)
    PROVE  PathsBound'
  <1>1. \A s \in Runs :
            Recreating(s)' = Recreating(s) /\ Active(s)' = Active(s)
    BY DEF Recreating, Active
  <1>2. GateOpen' = GateOpen
    BY DEF GateOpen
  <1>3. \A q \in DataQueues : Owed(q)' = Owed(q) /\ Unpromised(q)' = Unpromised(q)
    BY <1>1, <1>2, Zenon DEF Owed, Unpromised
  <1>4. QED
    BY <1>3 DEF PathsBound

LEMMA DeclarePreserves ==
    ASSUME IInv, NEW r \in Runs, NEW o \in Objects, Declare(r, o)
    PROVE  IInv'
  <1>1. /\ Calling(r, "declare", o) /\ Called(r, "declare")
        /\ args' = [args EXCEPT ![o] = spec[r][o]]
        /\ args[o] \in {Absent, spec[r][o]}
        /\ UNCHANGED <<state, recreate, spec, broker, bound, content, readings>>
    BY DEF Declare
  <1>2. /\ todo' \in [Runs -> Seq(CallSet)] /\ InScript'
        /\ \A s \in Runs \ {r} : Left(s)' = Left(s)
    BY <1>1, CallAdvances DEF IInv
  <1>3. /\ Declared(r)' = Declared(r) \cup {o}
        /\ BoundBy(r)' = BoundBy(r)
        /\ DroppedBy(r)' = DroppedBy(r)
    BY <1>1, DeclareAdvances DEF IInv
  <1>4. \A s \in Runs \ {r} :
            /\ Declared(s)' = Declared(s) /\ BoundBy(s)' = BoundBy(s)
            /\ DroppedBy(s)' = DroppedBy(s)
    BY <1>1, <1>2, SameLeft
  <1>5. /\ disturbed' \in [Runs -> SUBSET Ops]
        /\ disturbed'[r] = disturbed[r]
        /\ \A s \in Runs : disturbed[s] \subseteq disturbed'[s]
        /\ \A s \in Runs \ {r} : Active(s) => disturbed'[s] # {}
        /\ \A s \in Runs : ~Active(s) => disturbed'[s] = disturbed[s]
    BY <1>1 DEF IInv, TypeOK, Called, Ops, Active
  <1>6. /\ spec[r][o] \in Nat \ {0}
        /\ args'[o] = spec[r][o]
        /\ \A x \in Objects \ {o} : args'[x] = args[x]
        /\ \A x \in Objects : args[x] # Absent => args'[x] = args[x]
        /\ args' \in [Objects -> Nat]
    BY <1>1, SpecIsSet DEF IInv, TypeOK, Absent
  <1>7. TypeOK'
    BY <1>1, <1>2, <1>5, <1>6 DEF IInv, TypeOK, CallSet, readings
  <1>8. DeadLetterSide'
    <2>1. o = "store" => args["dlx"] # Absent /\ "dlq" \in bound
      BY <1>1, BeforeDeclare
         DEF IInv, DeadLetterSide, Calling, Objects, Queues, DataQueues
    <2>2. \A x \in Objects : args[x] # Absent => args'[x] # Absent
      BY <1>6
    <2>3. args'[o] # Absent
      BY <1>6 DEF Absent
    <2>4. /\ \A q \in Queues : q \in bound' => args'[q] # Absent
          /\ args'["store"] # Absent => args'["dlx"] # Absent /\ "dlq" \in bound'
          /\ content'["store"] # {} => args'["store"] # Absent
      BY <1>1, <1>6, <2>1, <2>2
         DEF IInv, DeadLetterSide, Objects, Queues, DataQueues
    <2>5. ASSUME NEW s \in Runs, Active(s)'
          PROVE  /\ \A x \in {"dlx", "dlq"} \cap Declared(s)' : args'[x] # Absent
                 /\ "dlq" \in BoundBy(s)' => "dlq" \in bound'
      <3>1. Active(s)
        BY <1>1, <2>5 DEF Active
      <3>2. /\ \A x \in {"dlx", "dlq"} \cap Declared(s) : args[x] # Absent
            /\ "dlq" \in BoundBy(s) => "dlq" \in bound
        BY <3>1 DEF IInv, DeadLetterSide
      <3>3. Declared(s)' \subseteq Declared(s) \cup {o} /\ BoundBy(s)' = BoundBy(s)
        BY <1>3, <1>4
      <3>4. QED
        BY <1>1, <2>2, <2>3, <3>2, <3>3 DEF Objects, Queues, DataQueues
    <2>6. QED
      BY <2>4, <2>5 DEF DeadLetterSide
  <1>9. PathsBound'
    BY <1>1, <1>3, <1>4, PathsKept DEF IInv
  <1>10. Undeleted'
    <2>1. ASSUME NEW s \in Runs, Active(s)', "delete" \notin disturbed'[s]
          PROVE  /\ \A x \in Declared(s)' : args'[x] = spec'[s][x]
                 /\ BoundBy(s)' \subseteq bound'
      <3>1. Active(s) /\ "delete" \notin disturbed[s]
        BY <1>1, <1>5, <2>1 DEF Active
      <3>2. /\ \A x \in Declared(s) : args[x] = spec[s][x]
            /\ BoundBy(s) \subseteq bound
        BY <3>1 DEF IInv, Undeleted
      <3>3. \A x \in Declared(s) : args[x] # Absent /\ x \in Objects
        BY <3>2, SpecIsSet DEF IInv, Absent, Declared
      <3>4. \A x \in Declared(s) : args'[x] = spec[s][x]
        BY <1>6, <3>2, <3>3
      <3>5. CASE s = r
        BY <1>1, <1>3, <1>6, <3>2, <3>4, <3>5
      <3>6. CASE s # r
        BY <1>1, <1>4, <3>2, <3>4, <3>6
      <3>7. QED
        BY <3>5, <3>6
    <2>2. QED
      BY <2>1 DEF Undeleted
  <1>11. Dropped'
    <2>1. ASSUME NEW s \in Runs, Active(s)', disturbed'[s] = {},
                 NEW q \in DroppedBy(s)' \ Declared(s)'
          PROVE  args'[q] = Absent
      <3>1. s = r /\ Active(r) /\ disturbed[r] = {}
        BY <1>1, <1>5, <2>1 DEF Active
      <3>2. q \in DroppedBy(r) \ Declared(r) /\ q # o /\ q \in Objects
        BY <1>3, <2>1, <3>1 DEF DroppedBy, Objects, Queues
      <3>3. QED
        BY <1>6, <3>1, <3>2 DEF IInv, Dropped
    <2>2. ASSUME NEW s \in Runs,
                 state'[s] = "mismatch" /\ recreate'[s] /\ disturbed'[s] = {}
          PROVE  \E x \in {"dlx", "dlq"} : args'[x] \notin {Absent, spec'[s][x]}
      <3>1. state[s] = "mismatch" /\ recreate[s] /\ disturbed[s] = {}
        BY <1>1, <1>5, <2>2
      <3>2. PICK x \in {"dlx", "dlq"} : args[x] \notin {Absent, spec[s][x]}
        BY <3>1 DEF IInv, Dropped
      <3>3. x \in Objects
        BY DEF Objects, Queues
      <3>4. QED
        BY <1>1, <1>6, <3>2, <3>3
    <2>3. QED
      BY <2>1, <2>2 DEF Dropped
  <1>12. NothingFallsThrough'
    BY <1>1 DEF IInv, NothingFallsThrough, readings
  <1>13. QED
    BY <1>2, <1>7, <1>8, <1>9, <1>10, <1>11, <1>12 DEF IInv

LEMMA BindPreserves ==
    ASSUME IInv, NEW r \in Runs, NEW q \in Queues, Bind(r, q)
    PROVE  IInv'
  <1>1. /\ Calling(r, "bind", q) /\ Called(r, "bind")
        /\ args[q] # Absent /\ bound' = bound \cup {q}
        /\ UNCHANGED <<state, recreate, spec, broker, args, content, readings>>
    BY DEF Bind
  <1>2. /\ todo' \in [Runs -> Seq(CallSet)] /\ InScript'
        /\ \A s \in Runs \ {r} : Left(s)' = Left(s)
    BY <1>1, CallAdvances DEF IInv
  <1>3. /\ Declared(r)' = Declared(r)
        /\ BoundBy(r)' = BoundBy(r) \cup {q}
        /\ DroppedBy(r)' = DroppedBy(r)
    BY <1>1, BindAdvances DEF IInv
  <1>4. \A s \in Runs \ {r} :
            /\ Declared(s)' = Declared(s) /\ BoundBy(s)' = BoundBy(s)
            /\ DroppedBy(s)' = DroppedBy(s)
    BY <1>1, <1>2, SameLeft
  <1>5. /\ disturbed' \in [Runs -> SUBSET Ops]
        /\ \A s \in Runs : disturbed[s] \subseteq disturbed'[s]
    BY <1>1 DEF IInv, TypeOK, Called, Ops, Active
  <1>6. \A s \in Runs :
            /\ Declared(s)' = Declared(s)
            /\ BoundBy(s)' \subseteq BoundBy(s) \cup {q}
            /\ DroppedBy(s)' = DroppedBy(s)
    BY <1>3, <1>4
  <1>7. TypeOK'
    BY <1>1, <1>2, <1>5 DEF IInv, TypeOK, CallSet, readings
  <1>8. DeadLetterSide'
    BY <1>1, <1>6 DEF IInv, DeadLetterSide, Active, Queues, DataQueues
  <1>9. PathsBound'
    <2>1. ASSUME NEW x \in DataQueues
          PROVE  x \in bound' \/ Owed(x)' \/ Unpromised(x)'
      <3>1. CASE x = q
        BY <1>1, <3>1
      <3>2. CASE x # q
        <4>1. Owed(x) => Owed(x)'
          BY <1>1, <1>6, <3>2 DEF Owed, Recreating
        <4>2. Unpromised(x) => Unpromised(x)'
          BY <1>1, <1>6, <3>2 DEF Unpromised, GateOpen, Active
        <4>3. QED
          BY <1>1, <4>1, <4>2, PathKept DEF IInv
      <3>3. QED
        BY <3>1, <3>2
    <2>2. QED
      BY <1>1, <2>1 DEF IInv, PathsBound
  <1>10. Undeleted'
    BY <1>1, <1>5, <1>6 DEF IInv, Undeleted, Active
  <1>11. Dropped'
    BY <1>1, <1>5, <1>6 DEF IInv, Dropped, Active
  <1>12. NothingFallsThrough'
    BY <1>1 DEF IInv, NothingFallsThrough, readings
  <1>13. QED
    BY <1>2, <1>7, <1>8, <1>9, <1>10, <1>11, <1>12 DEF IInv

LEMMA DeletePreserves ==
    ASSUME IInv, NEW r \in Runs, NEW q \in Queues, Delete(r, q)
    PROVE  IInv'
  <1>1. /\ Calling(r, "delete", q) /\ Called(r, "delete")
        /\ args' = [args EXCEPT ![q] = Absent]
        /\ bound' = bound \ {q}
        /\ content' = [content EXCEPT ![q] = {}]
        /\ UNCHANGED <<state, recreate, spec, broker, readings>>
    BY DEF Delete
  <1>2. /\ todo' \in [Runs -> Seq(CallSet)] /\ InScript'
        /\ \A s \in Runs \ {r} : Left(s)' = Left(s)
    BY <1>1, CallAdvances DEF IInv
  <1>3. /\ q \in DataQueues /\ recreate[r]
        /\ Declared(r)' = {} /\ BoundBy(r)' = {}
        /\ DroppedBy(r)' = DroppedBy(r) \cup {q}
    BY <1>1, DeleteAdvances DEF IInv
  <1>4. \A s \in Runs \ {r} :
            /\ Declared(s)' = Declared(s) /\ BoundBy(s)' = BoundBy(s)
            /\ DroppedBy(s)' = DroppedBy(s)
    BY <1>1, <1>2, SameLeft
  <1>5. /\ disturbed' \in [Runs -> SUBSET Ops]
        /\ disturbed'[r] = disturbed[r]
        /\ \A s \in Runs \ {r} : Active(s) => "delete" \in disturbed'[s]
        /\ \A s \in Runs : ~Active(s) => disturbed'[s] = disturbed[s]
    BY <1>1 DEF IInv, TypeOK, Called, Ops, Active
  <1>6. /\ args'[q] = Absent
        /\ \A x \in Objects \ {q} : args'[x] = args[x]
        /\ args' \in [Objects -> Nat]
        /\ content' \in [Queues -> SUBSET (1..MaxReadings)]
        /\ content'["store"] \subseteq content["store"]
        /\ q = "store" => content'["store"] = {}
        /\ {"dlx", "dlq", "store"} \subseteq Objects
        /\ q \notin {"dlx", "dlq"}
    BY <1>1, <1>3 DEF IInv, TypeOK, Absent, Objects, Queues, DataQueues
  <1>7. TypeOK'
    BY <1>1, <1>2, <1>5, <1>6 DEF IInv, TypeOK, CallSet, readings
  <1>8. DeadLetterSide'
    <2>1. /\ \A x \in Queues : x \in bound' => args'[x] # Absent
          /\ args'["store"] # Absent => args'["dlx"] # Absent /\ "dlq" \in bound'
          /\ content'["store"] # {} => args'["store"] # Absent
      BY <1>1, <1>6 DEF IInv, DeadLetterSide, Objects
    <2>2. ASSUME NEW s \in Runs, Active(s)'
          PROVE  /\ \A x \in {"dlx", "dlq"} \cap Declared(s)' : args'[x] # Absent
                 /\ "dlq" \in BoundBy(s)' => "dlq" \in bound'
      <3>1. Active(s)
        BY <1>1, <2>2 DEF Active
      <3>2. /\ Declared(s)' \subseteq Declared(s)
            /\ BoundBy(s)' \subseteq BoundBy(s)
        BY <1>3, <1>4
      <3>3. QED
        BY <1>1, <1>6, <3>1, <3>2 DEF IInv, DeadLetterSide
    <2>3. QED
      BY <2>1, <2>2 DEF DeadLetterSide
  <1>9. PathsBound'
    <2>1. Recreating(r) /\ Recreating(r)'
      BY <1>1, <1>3 DEF Recreating, Calling, Active
    <2>2. ASSUME NEW x \in DataQueues
          PROVE  x \in bound' \/ Owed(x)' \/ Unpromised(x)'
      <3>1. CASE x = q
        BY <1>3, <2>1, <3>1 DEF Owed
      <3>2. CASE x # q
        <4>1. Owed(x) => Owed(x)'
          BY <1>1, <1>3, <1>4, <3>2 DEF Owed, Recreating
        <4>2. Unpromised(x) => Unpromised(x)'
          BY <1>1, <1>3, <1>4 DEF Unpromised, GateOpen, Active
        <4>3. QED
          BY <1>1, <3>2, <4>1, <4>2, PathKept DEF IInv
      <3>3. QED
        BY <3>1, <3>2
    <2>3. QED
      BY <1>1, <2>2 DEF IInv, PathsBound
  <1>10. Undeleted'
    BY <1>1, <1>3, <1>5 DEF Undeleted, Active
  <1>11. Dropped'
    <2>1. ASSUME NEW s \in Runs, Active(s)', disturbed'[s] = {},
                 NEW x \in DroppedBy(s)' \ Declared(s)'
          PROVE  args'[x] = Absent
      <3>1. s = r /\ Active(r) /\ disturbed[r] = {}
        BY <1>1, <1>5, <2>1 DEF Active
      <3>2. /\ x = q \/ x \in DroppedBy(r)
            /\ x \in DataQueues
        BY <1>3, <2>1, <3>1 DEF DroppedBy
      <3>3. CASE x = q
        BY <1>6, <3>3
      <3>4. CASE x # q
        <4>1. x \in DroppedBy(r) \ Declared(r)
          <5>1. Left(r) \in 1..9 /\ Script[Left(r)] = Call("delete", q)
            BY <1>1, CallingInScript DEF IInv
          <5>2. Left(r) \in 8..9
            BY <5>1, ScriptLines
          <5>3. Declared(r) = {}
            BY <5>2 DEF Declared
          <5>4. QED
            BY <3>2, <3>4, <5>3
        <4>2. args[x] = Absent /\ x \in Objects
          BY <3>1, <3>2, <4>1 DEF IInv, Dropped, Objects, Queues
        <4>3. QED
          BY <1>6, <3>4, <4>2
      <3>5. QED
        BY <3>3, <3>4
    <2>2. ASSUME NEW s \in Runs,
                 state'[s] = "mismatch" /\ recreate'[s] /\ disturbed'[s] = {}
          PROVE  \E x \in {"dlx", "dlq"} : args'[x] \notin {Absent, spec'[s][x]}
      <3>1. ~Active(s)
        BY <1>1, <2>2 DEF Active
      <3>2. state[s] = "mismatch" /\ recreate[s] /\ disturbed[s] = {}
        BY <1>1, <1>5, <2>2, <3>1
      <3>3. PICK x \in {"dlx", "dlq"} : args[x] \notin {Absent, spec[s][x]}
        BY <3>2 DEF IInv, Dropped
      <3>4. args'[x] = args[x]
        BY <1>6
      <3>5. QED
        BY <1>1, <3>3, <3>4
    <2>3. QED
      BY <2>1, <2>2 DEF Dropped
  <1>12. NothingFallsThrough'
    BY <1>1 DEF IInv, NothingFallsThrough, readings
  <1>13. QED
    BY <1>2, <1>7, <1>8, <1>9, <1>10, <1>11, <1>12 DEF IInv

\* A run that ends leaves the broker as it is.
LEMMA ExitPreserves ==
    ASSUME IInv, NEW r \in Runs, NEW code \in Exits, Exit(r, code),
           UNCHANGED <<recreate, spec, todo, disturbed, broker, queues, readings>>,
           state[r] \in {"connecting", "running"},
           Active(r) => code \in {"ok", "mismatch", "died"},
           code = "ok" => Active(r) /\ todo[r] = <<>>,
           code = "mismatch" /\ recreate[r] /\ disturbed[r] = {} =>
             \E o \in {"dlx", "dlq"} : args[o] \notin {Absent, spec[r][o]}
    PROVE  IInv'
  <1>1. /\ state'[r] = code
        /\ \A s \in Runs \ {r} : state'[s] = state[s]
        /\ state' \in [Runs -> {"waiting", "connecting", "running"} \cup Exits]
    BY DEF IInv, TypeOK, Exit
  <1>2. code \notin {"waiting", "connecting", "running"}
    BY DEF Exits
  <1>3. \A s \in Runs :
            /\ Active(s)' => Active(s)
            /\ state'[s] = "waiting" => state[s] = "waiting"
    BY <1>1, <1>2 DEF Active
  <1>4. \A s \in Runs :
            /\ Left(s)' = Left(s)
            /\ Declared(s)' = Declared(s) /\ BoundBy(s)' = BoundBy(s)
            /\ DroppedBy(s)' = DroppedBy(s)
    BY SameLeft DEF Left
  <1>5. TypeOK'
    BY <1>1 DEF IInv, TypeOK, queues, readings
  <1>6. InScript'
    BY DEF IInv, InScript, Left
  <1>7. args' = args /\ bound' = bound /\ content' = content
    BY DEF queues
  <1>8. DeadLetterSide'
    <2>1. ASSUME NEW s \in Runs, Active(s)'
          PROVE  /\ \A o \in {"dlx", "dlq"} \cap Declared(s)' : args'[o] # Absent
                 /\ "dlq" \in BoundBy(s)' => "dlq" \in bound'
      <3>1. Active(s)
        BY <1>3, <2>1
      <3>2. Declared(s)' = Declared(s) /\ BoundBy(s)' = BoundBy(s)
        BY <1>4
      <3>3. QED
        BY <1>7, <3>1, <3>2 DEF IInv, DeadLetterSide
    <2>2. QED
      BY <1>7, <2>1 DEF IInv, DeadLetterSide
  <1>9. PathsBound'
    <2>1. ASSUME NEW q \in DataQueues
          PROVE  q \in bound' \/ Owed(q)' \/ Unpromised(q)'
      <3>1. Owed(q) => Owed(q)'
        <4>1. ASSUME NEW s \in Runs, Recreating(s), q \in DroppedBy(s) \ BoundBy(s)
              PROVE  Recreating(s)'
          <5>1. CASE s = r
            <6>1. Active(r)
              BY <4>1, <5>1 DEF Recreating, Active
            <6>2. code # "ok"
              BY <4>1, <5>1, AllDone DEF Queues
            <6>3. QED
              BY <1>1, <4>1, <5>1, <6>1, <6>2 DEF Recreating
          <5>2. CASE s # r
            BY <1>1, <4>1, <5>2 DEF Recreating
          <5>3. QED
            BY <5>1, <5>2
        <4>2. QED
          BY <1>4, <4>1 DEF Owed
      <3>2. Unpromised(q) => Unpromised(q)'
        <4>1. Unpromised(q) => code # "ok"
          BY AllDone DEF Unpromised, Queues
        <4>2. Unpromised(q) => ~GateOpen'
          BY <1>1, <4>1 DEF Unpromised, GateOpen
        <4>3. QED
          BY <1>3, <1>4, <4>2 DEF Unpromised
      <3>3. QED
        BY <1>7, <3>1, <3>2, PathKept DEF IInv
    <2>2. \A s \in Runs : state'[s] = "waiting" => ~recreate'[s]
      BY <1>3 DEF IInv, PathsBound
    <2>3. QED
      BY <2>1, <2>2 DEF PathsBound
  <1>10. Undeleted'
    <2>1. ASSUME NEW s \in Runs, Active(s)', "delete" \notin disturbed'[s]
          PROVE  /\ \A o \in Declared(s)' : args'[o] = spec'[s][o]
                 /\ BoundBy(s)' \subseteq bound'
      <3>1. Active(s)
        BY <1>3, <2>1
      <3>2. Declared(s)' = Declared(s) /\ BoundBy(s)' = BoundBy(s)
        BY <1>4
      <3>3. QED
        BY <1>7, <2>1, <3>1, <3>2 DEF IInv, Undeleted
    <2>2. QED
      BY <2>1 DEF Undeleted
  <1>11. Dropped'
    <2>1. ASSUME NEW s \in Runs, Active(s)', disturbed'[s] = {},
                 NEW q \in DroppedBy(s)' \ Declared(s)'
          PROVE  args'[q] = Absent
      <3>1. Active(s)
        BY <1>3, <2>1
      <3>2. Declared(s)' = Declared(s) /\ DroppedBy(s)' = DroppedBy(s)
        BY <1>4
      <3>3. QED
        BY <1>7, <2>1, <3>1, <3>2 DEF IInv, Dropped
    <2>2. ASSUME NEW s \in Runs,
                 state'[s] = "mismatch" /\ recreate'[s] /\ disturbed'[s] = {}
          PROVE  \E o \in {"dlx", "dlq"} : args'[o] \notin {Absent, spec'[s][o]}
      <3>1. CASE s = r
        BY <1>1, <1>7, <2>2, <3>1
      <3>2. CASE s # r
        BY <1>1, <1>7, <2>2, <3>2 DEF IInv, Dropped
      <3>3. QED
        BY <3>1, <3>2
    <2>3. QED
      BY <2>1, <2>2 DEF Dropped
  <1>12. NothingFallsThrough'
    BY DEF IInv, NothingFallsThrough, readings
  <1>13. QED
    BY <1>5, <1>6, <1>8, <1>9, <1>10, <1>11, <1>12 DEF IInv

LEMMA ExitsPreserve ==
    ASSUME IInv, NEW r \in Runs,
           \/ ConnectFails(r) \/ Finish(r) \/ Dies(r)
           \/ \E q \in Queues : BindNotFound(r, q)
           \/ \E o \in Objects : DeclareMismatch(r, o)
    PROVE  IInv'
  <1>1. CASE ConnectFails(r)
    BY <1>1, ExitPreserves DEF ConnectFails, ConnectExit, Exits, Active
  <1>2. CASE Finish(r)
    BY <1>2, ExitPreserves DEF Finish, Exits, Active
  <1>3. CASE Dies(r)
    BY <1>3, ExitPreserves DEF Dies, Exits, Active
  <1>4. ASSUME NEW q \in Queues, BindNotFound(r, q)
        PROVE  IInv'
    <2>1. q \in Declared(r) /\ Active(r) /\ args[q] = Absent
      BY <1>4, BeforeBind DEF IInv, BindNotFound, Calling
    <2>2. disturbed[r] # {}
      BY <2>1, SpecIsSet DEF IInv, Undeleted, Declared, Absent
    <2>3. QED
      BY <1>4, <2>1, <2>2, ExitPreserves DEF BindNotFound, Exits, Active
  <1>5. ASSUME NEW o \in Objects, DeclareMismatch(r, o)
        PROVE  IInv'
    <2>1. /\ Calling(r, "declare", o) /\ Active(r)
          /\ args[o] \notin {Absent, spec[r][o]}
      BY <1>5 DEF DeclareMismatch, Calling
    <2>2. ASSUME recreate[r], disturbed[r] = {}
          PROVE  o \in {"dlx", "dlq"}
      <3>1. o \notin DataQueues
        BY <2>1, <2>2, BeforeDeclare DEF IInv, Dropped
      <3>2. QED
        BY <3>1 DEF Objects, Queues
    <2>3. QED
      BY <1>5, <2>1, <2>2, ExitPreserves DEF DeclareMismatch, Exits, Active
  <1>6. QED
    BY <1>1, <1>2, <1>3, <1>4, <1>5

LEMMA StartPreserves ==
    ASSUME IInv, NEW r \in Runs, Start(r)
    PROVE  IInv'
  <1>1. PICK flag \in BOOLEAN : recreate' = [recreate EXCEPT ![r] = flag]
    BY DEF Start
  <1>2. /\ state[r] = "waiting" /\ state'[r] = "connecting"
        /\ \A s \in Runs \ {r} :
              state'[s] = state[s] /\ recreate'[s] = recreate[s]
        /\ state' \in [Runs -> {"waiting", "connecting", "running"} \cup Exits]
        /\ recreate' \in [Runs -> BOOLEAN]
        /\ UNCHANGED <<spec, todo, disturbed, broker, queues, readings>>
    BY <1>1 DEF IInv, TypeOK, Start
  <1>3. ~recreate[r] /\ ~Active(r) /\ ~Active(r)'
    BY <1>2 DEF IInv, PathsBound, Active
  <1>4. /\ \A s \in Runs : Left(s)' = Left(s)
        /\ \A s \in Runs : recreate[s] => recreate'[s]
        /\ \A s \in Runs \ {r} : Active(s)' = Active(s)
    BY <1>2, <1>3 DEF Left, Active
  <1>5. \A s \in Runs \ {r} :
            /\ Declared(s)' = Declared(s) /\ BoundBy(s)' = BoundBy(s)
            /\ DroppedBy(s)' = DroppedBy(s)
    BY <1>2, <1>4, SameLeft
  <1>6. TypeOK'
    BY <1>2 DEF IInv, TypeOK, queues, readings
  <1>7. InScript'
    BY <1>2, <1>4 DEF IInv, InScript, Left
  <1>8. DeadLetterSide'
    BY <1>2, <1>3, <1>4, <1>5 DEF IInv, DeadLetterSide, queues
  <1>9. PathsBound'
    <2>1. ~Recreating(r) /\ \A s \in Runs \ {r} : Recreating(s)' = Recreating(s)
      BY <1>2 DEF Recreating
    <2>2. ASSUME NEW q \in DataQueues
          PROVE  q \in bound' \/ Owed(q)' \/ Unpromised(q)'
      <3>1. Owed(q) => Owed(q)'
        BY <1>5, <2>1 DEF Owed
      <3>2. Unpromised(q) => Unpromised(q)'
        BY <1>2, <1>3, <1>4, <1>5 DEF Unpromised, GateOpen
      <3>3. QED
        BY <1>2, <3>1, <3>2, PathKept DEF IInv, queues
    <2>3. QED
      BY <1>2, <2>2 DEF IInv, PathsBound
  <1>10. Undeleted'
    BY <1>2, <1>3, <1>4, <1>5 DEF IInv, Undeleted, queues
  <1>11. Dropped'
    BY <1>2, <1>3, <1>4, <1>5 DEF IInv, Dropped, queues
  <1>12. NothingFallsThrough'
    BY <1>2, <1>4 DEF IInv, NothingFallsThrough, readings
  <1>13. QED
    BY <1>6, <1>7, <1>8, <1>9, <1>10, <1>11, <1>12 DEF IInv

LEMMA ConnectPreserves ==
    ASSUME IInv, NEW r \in Runs, Connect(r)
    PROVE  IInv'
  <1>1. /\ state[r] = "connecting" /\ state'[r] = "running"
        /\ \A s \in Runs \ {r} : state'[s] = state[s] /\ todo'[s] = todo[s]
        /\ todo'[r] = Calls(recreate[r])
        /\ state' \in [Runs -> {"waiting", "connecting", "running"} \cup Exits]
        /\ UNCHANGED <<recreate, spec, disturbed, broker, queues, readings>>
    BY DEF IInv, TypeOK, Connect
  <1>2. recreate[r] \in BOOLEAN
    BY DEF IInv, TypeOK
  <1>3. /\ todo'[r] \in Seq(CallSet)
        /\ Left(r)' = IF recreate[r] THEN 9 ELSE 7
        /\ \A i \in 1..Left(r)' : todo'[r][i] = Script[Left(r)' + 1 - i]
    <2>1. CASE recreate[r] = TRUE
      <3>1. todo'[r] = Calls(TRUE)
        BY <1>1, <2>1
      <3>2. Left(r)' = 9
        BY <3>1, CallsInScript DEF Left
      <3>3. \A i \in 1..9 : todo'[r][i] = Script[10 - i]
        BY <3>1, CallsInScript, Zenon
      <3>4. todo'[r] \in Seq(CallSet)
        BY <3>1, CallsInScript, Zenon
      <3>5. QED
        BY <2>1, <3>2, <3>3, <3>4
    <2>2. CASE recreate[r] = FALSE
      <3>1. todo'[r] = Calls(FALSE)
        BY <1>1, <2>2
      <3>2. Left(r)' = 7
        BY <3>1, CallsInScript DEF Left
      <3>3. \A i \in 1..7 : todo'[r][i] = Script[8 - i]
        BY <3>1, CallsInScript, Zenon
      <3>4. todo'[r] \in Seq(CallSet)
        BY <3>1, CallsInScript, Zenon
      <3>5. QED
        BY <2>2, <3>2, <3>3, <3>4
    <2>3. QED
      BY <1>2, <2>1, <2>2
  <1>4. Declared(r)' = {} /\ BoundBy(r)' = {} /\ DroppedBy(r)' = {}
    BY <1>1, <1>3 DEF Declared, BoundBy, DroppedBy
  <1>5. \A s \in Runs \ {r} :
            /\ Left(s)' = Left(s) /\ Active(s)' = Active(s)
            /\ Declared(s)' = Declared(s) /\ BoundBy(s)' = BoundBy(s)
            /\ DroppedBy(s)' = DroppedBy(s)
    BY <1>1, SameLeft DEF Left, Active
  <1>6. TypeOK'
    <2>1. todo' \in [Runs -> Seq(CallSet)]
      BY <1>3 DEF IInv, TypeOK, Connect, CallSet
    <2>2. QED
      BY <1>1, <2>1 DEF IInv, TypeOK, CallSet, queues, readings
  <1>7. InScript'
    <2>1. ASSUME NEW s \in Runs
          PROVE  /\ Left(s)' <= 9
                 /\ Left(s)' > 7 => recreate'[s]
                 /\ \A i \in 1..Left(s)' : todo'[s][i] = Script[Left(s)' + 1 - i]
      <3>1. CASE s = r
        BY <1>1, <1>3, <3>1
      <3>2. CASE s # r
        BY <1>1, <1>5, <3>2 DEF IInv, InScript
      <3>3. QED
        BY <3>1, <3>2
    <2>2. QED
      BY <2>1 DEF InScript
  <1>8. DeadLetterSide'
    BY <1>1, <1>4, <1>5 DEF IInv, DeadLetterSide, queues
  <1>9. PathsBound'
    <2>1. ~Recreating(r) /\ \A s \in Runs \ {r} : Recreating(s)' = Recreating(s)
      BY <1>1 DEF Recreating
    <2>2. ASSUME NEW q \in DataQueues
          PROVE  q \in bound' \/ Owed(q)' \/ Unpromised(q)'
      <3>1. Owed(q) => Owed(q)'
        BY <1>5, <2>1 DEF Owed
      <3>2. Unpromised(q) => Unpromised(q)'
        BY <1>1, <1>4, <1>5 DEF Unpromised, GateOpen
      <3>3. QED
        BY <1>1, <3>1, <3>2, PathKept DEF IInv, queues
    <2>3. QED
      BY <1>1, <2>2 DEF IInv, PathsBound
  <1>10. Undeleted'
    BY <1>1, <1>4, <1>5 DEF IInv, Undeleted, queues
  <1>11. Dropped'
    BY <1>1, <1>4, <1>5 DEF IInv, Dropped, queues
  <1>12. NothingFallsThrough'
    BY <1>1 DEF IInv, NothingFallsThrough, readings
  <1>13. QED
    BY <1>6, <1>7, <1>8, <1>9, <1>10, <1>11, <1>12 DEF IInv

\* The readings pass through queues that are there.
LEMMA PublishPreserves ==
    ASSUME IInv, Publish
    PROVE  IInv'
  <1>1. /\ published < MaxReadings /\ published' = published + 1
        /\ content' = [q \in Queues |->
                        IF q \in bound \cap DataQueues
                        THEN content[q] \cup {published + 1} ELSE content[q]]
        /\ UNCHANGED <<runs, broker, args, bound, fallen>>
    BY DEF Publish
  <1>2. published + 1 \in 1..MaxReadings /\ published + 1 \in 0..MaxReadings
    BY <1>1, TopologyConstants DEF IInv, TypeOK
  <1>3. TypeOK'
    <2>1. content' \in [Queues -> SUBSET (1..MaxReadings)]
      BY <1>1, <1>2 DEF IInv, TypeOK
    <2>2. QED
      BY <1>1, <1>2, <2>1 DEF IInv, TypeOK, runs
  <1>4. /\ todo' = todo /\ recreate' = recreate /\ state' = state
        /\ spec' = spec /\ disturbed' = disturbed
    BY <1>1 DEF runs
  <1>5. \A s \in Runs :
            /\ Left(s)' = Left(s) /\ Active(s)' = Active(s)
            /\ Declared(s)' = Declared(s) /\ BoundBy(s)' = BoundBy(s)
            /\ DroppedBy(s)' = DroppedBy(s)
    BY <1>4, SameLeft DEF Left, Active
  <1>6. InScript'
    BY <1>4 DEF IInv, InScript, Left
  <1>7. DeadLetterSide'
    <2>1. content'["store"] # {} => args["store"] # Absent
      BY <1>1 DEF IInv, DeadLetterSide, Queues, DataQueues
    <2>2. QED
      BY <1>1, <1>5, <2>1 DEF IInv, DeadLetterSide
  <1>8. PathsBound'
    BY <1>1, <1>4, <1>5, PathsKept DEF IInv
  <1>9. Undeleted'
    BY <1>1, <1>4, <1>5 DEF IInv, Undeleted
  <1>10. Dropped'
    BY <1>1, <1>4, <1>5 DEF IInv, Dropped
  <1>11. NothingFallsThrough'
    BY <1>1 DEF IInv, NothingFallsThrough
  <1>12. QED
    BY <1>3, <1>6, <1>7, <1>8, <1>9, <1>10, <1>11 DEF IInv

LEMMA DeadLetterPreserves ==
    ASSUME IInv, DeadLetter
    PROVE  IInv'
  <1>1. PICK m \in content["store"] :
            IF args["dlx"] # Absent /\ "dlq" \in bound
            THEN /\ content' = [content EXCEPT !["store"] = @ \ {m},
                                               !["dlq"] = @ \cup {m}]
                 /\ UNCHANGED fallen
            ELSE /\ content' = [content EXCEPT !["store"] = @ \ {m}]
                 /\ fallen' = fallen \cup {m}
    BY DEF DeadLetter
  <1>2. args["dlx"] # Absent /\ "dlq" \in bound
    BY <1>1 DEF IInv, DeadLetterSide
  <1>3. /\ content' = [content EXCEPT !["store"] = @ \ {m}, !["dlq"] = @ \cup {m}]
        /\ fallen' = fallen
        /\ UNCHANGED <<runs, broker, args, bound, published>>
    BY <1>1, <1>2 DEF DeadLetter
  <1>4. /\ content' \in [Queues -> SUBSET (1..MaxReadings)]
        /\ content'["store"] \subseteq content["store"]
    BY <1>3 DEF IInv, TypeOK, Queues, DataQueues
  <1>5. TypeOK'
    BY <1>3, <1>4 DEF IInv, TypeOK, runs
  <1>6. /\ todo' = todo /\ recreate' = recreate /\ state' = state
        /\ spec' = spec /\ disturbed' = disturbed
    BY <1>3 DEF runs
  <1>7. \A s \in Runs :
            /\ Left(s)' = Left(s) /\ Active(s)' = Active(s)
            /\ Declared(s)' = Declared(s) /\ BoundBy(s)' = BoundBy(s)
            /\ DroppedBy(s)' = DroppedBy(s)
    BY <1>6, SameLeft DEF Left, Active
  <1>8. InScript'
    BY <1>6 DEF IInv, InScript, Left
  <1>9. DeadLetterSide'
    BY <1>3, <1>4, <1>7 DEF IInv, DeadLetterSide
  <1>10. PathsBound'
    BY <1>3, <1>6, <1>7, PathsKept DEF IInv
  <1>11. Undeleted'
    BY <1>3, <1>6, <1>7 DEF IInv, Undeleted
  <1>12. Dropped'
    BY <1>3, <1>6, <1>7 DEF IInv, Dropped
  <1>13. NothingFallsThrough'
    BY <1>3, <1>6 DEF IInv, NothingFallsThrough
  <1>14. QED
    BY <1>5, <1>8, <1>9, <1>10, <1>11, <1>12, <1>13 DEF IInv

LEMMA BrokerPreserves ==
    ASSUME IInv, UNCHANGED <<runs, queues, readings>>,
           broker' \in {"up", "down", "denies"}
    PROVE  IInv'
  <1>1. /\ todo' = todo /\ recreate' = recreate /\ state' = state
        /\ spec' = spec /\ disturbed' = disturbed
        /\ args' = args /\ bound' = bound /\ content' = content
        /\ published' = published /\ fallen' = fallen
    BY DEF runs, queues, readings
  <1>2. TypeOK'
    BY <1>1 DEF IInv, TypeOK
  <1>3. \A s \in Runs :
            /\ Active(s)' = Active(s)
            /\ Declared(s)' = Declared(s) /\ BoundBy(s)' = BoundBy(s)
            /\ DroppedBy(s)' = DroppedBy(s)
    BY <1>1, SameLeft DEF Left, Active
  <1>4. InScript'
    BY <1>1 DEF IInv, InScript, Left
  <1>5. DeadLetterSide'
    BY <1>1, <1>3 DEF IInv, DeadLetterSide
  <1>6. PathsBound'
    BY <1>1, <1>3, PathsKept DEF IInv
  <1>7. Undeleted'
    BY <1>1, <1>3 DEF IInv, Undeleted
  <1>8. Dropped'
    BY <1>1, <1>3 DEF IInv, Dropped
  <1>9. NothingFallsThrough'
    BY <1>1 DEF IInv, NothingFallsThrough
  <1>10. QED
    BY <1>2, <1>4, <1>5, <1>6, <1>7, <1>8, <1>9 DEF IInv

LEMMA NextIInv == IInv /\ [Next]_vars => IInv'
  <1>. SUFFICES ASSUME IInv, [Next]_vars PROVE IInv'
    OBVIOUS
  <1>1. ASSUME NEW r \in Runs, RunStep(r) PROVE IInv'
    <2>1. CASE Start(r)
      BY <2>1, StartPreserves
    <2>2. CASE Connect(r)
      BY <2>2, ConnectPreserves
    <2>3. ASSUME NEW q \in Queues, Delete(r, q) PROVE IInv'
      BY <2>3, DeletePreserves
    <2>4. ASSUME NEW q \in Queues, Bind(r, q) PROVE IInv'
      BY <2>4, BindPreserves
    <2>5. ASSUME NEW o \in Objects, Declare(r, o) PROVE IInv'
      BY <2>5, DeclarePreserves
    <2>6. CASE \/ ConnectFails(r) \/ Finish(r) \/ Dies(r)
               \/ \E q \in Queues : BindNotFound(r, q)
               \/ \E o \in Objects : DeclareMismatch(r, o)
      BY <2>6, ExitsPreserve
    <2>7. QED
      BY <1>1, <2>1, <2>2, <2>3, <2>4, <2>5, <2>6 DEF RunStep
  <1>2. CASE Publish
    BY <1>2, PublishPreserves
  <1>3. CASE DeadLetter
    BY <1>3, DeadLetterPreserves
  <1>4. CASE BrokerChanges
    BY <1>4, BrokerPreserves DEF BrokerChanges
  <1>5. CASE UNCHANGED vars
    BY <1>5, BrokerPreserves DEF vars, IInv, TypeOK
  <1>6. QED
    BY <1>1, <1>2, <1>3, <1>4, <1>5 DEF Next

THEOREM Invariance == Spec => []IInv
  BY InitIInv, NextIInv, PTL DEF Spec

-----------------------------------------------------------------------------
(* The theorems.                                                           *)

\* Every variable of the declarer keeps its type: a run's calls, the
\* arguments the broker holds, the readings in each queue.
THEOREM TypeCorrect == Spec => []TypeOK
  <1>1. IInv => TypeOK
    BY DEF IInv
  <1>2. QED
    BY <1>1, Invariance, PTL

\* However many runs of declare() die half way or overlap, consumer_store's
\* rejected readings always have telemetry.dlx and telemetry.dlq to go to.
THEOREM DeadLettersLand == Spec => []NothingFallsThrough
  <1>1. IInv => NothingFallsThrough
    BY DEF IInv
  <1>2. QED
    BY <1>1, Invariance, PTL

\* Behind compose's gate every reading is routed to both data queues, but
\* between a --recreate's deletes and its exit 0.
THEOREM GateIsSafe == Spec => []GateMeansRouted
  <1>1. IInv => GateMeansRouted
    BY DEF IInv, PathsBound, Owed, Unpromised, GateMeansRouted
  <1>2. QED
    BY <1>1, Invariance, PTL

\* drop() clears whatever declare() could find in the way on the data side: an
\* undisturbed --recreate that still ends in a mismatch met it on the
\* dead-letter side.
THEOREM RecreateMeetsOnlyDeadLetterSide == Spec => []RecreateClearsDataQueues
  <1>1. IInv => RecreateClearsDataQueues
    BY DEF IInv, Dropped, RecreateClearsDataQueues
  <1>2. QED
    BY <1>1, Invariance, PTL

\* drop() spares the dead-letter queue, whichever run makes it and whenever.
THEOREM DeadLettersStay == Spec => EvidenceIsKept
  <1>1. ASSUME IInv, Next
        PROVE  content["dlq"] \subseteq content'["dlq"]
    <2>1. ASSUME NEW r \in Runs, NEW q \in Queues, Delete(r, q)
          PROVE  content["dlq"] \subseteq content'["dlq"]
      <3>1. q \in DataQueues
        BY <1>1, <2>1, DeleteAdvances DEF IInv, Delete
      <3>2. QED
        BY <1>1, <2>1, <3>1 DEF IInv, TypeOK, Delete, Queues, DataQueues
    <2>2. ASSUME NEW r \in Runs, RunStep(r),
                 \A q \in Queues : ~Delete(r, q)
          PROVE  content' = content
      BY <2>2 DEF RunStep, Start, Connect, ConnectFails, Bind, BindNotFound,
                  Declare, DeclareMismatch, Finish, Dies, queues
    <2>3. CASE Publish
      BY <1>1, <2>3 DEF IInv, TypeOK, Publish, Queues, DataQueues
    <2>4. CASE DeadLetter
      BY <1>1, <2>4 DEF IInv, TypeOK, DeadLetter, Queues, DataQueues
    <2>5. CASE BrokerChanges
      BY <2>5 DEF BrokerChanges, queues
    <2>6. QED
      BY <1>1, <2>1, <2>2, <2>3, <2>4, <2>5 DEF Next
  <1>2. IInv /\ [Next]_vars => [content["dlq"] \subseteq content'["dlq"]]_vars
    BY <1>1
  <1>3. QED
    BY <1>2, Invariance, PTL DEF Spec, EvidenceIsKept

\* A run that gets to its last line has made every object what its edition
\* says, whatever other runs declared and bound beside it.
THEOREM OkIsComplete == Spec => OkMeansComplete
  <1>. DEFINE Complete(r) ==
           /\ state[r] = "running" /\ state'[r] = "ok"
           /\ "delete" \notin disturbed[r]
           => args = spec[r] /\ bound = Queues
  <1>1. ASSUME IInv, Next, NEW r \in Runs,
               state[r] = "running", state'[r] = "ok",
               "delete" \notin disturbed[r]
        PROVE  args = spec[r] /\ bound = Queues
    <2>1. Finish(r)
      <3>1. state'[r] # state[r]
        BY <1>1
      <3>2. ASSUME NEW s \in Runs, RunStep(s)
            PROVE  Finish(r)
        <4>1. CASE \/ Start(s) \/ Connect(s)
                   \/ \E q \in Queues : Delete(s, q) \/ Bind(s, q)
                   \/ \E o \in Objects : Declare(s, o)
          BY <1>1, <3>1, <4>1
             DEF IInv, TypeOK, Start, Connect, Delete, Bind, Declare
        <4>2. CASE \/ ConnectFails(s) \/ Dies(s)
                   \/ \E q \in Queues : BindNotFound(s, q)
                   \/ \E o \in Objects : DeclareMismatch(s, o)
          BY <1>1, <3>1, <4>2
             DEF IInv, TypeOK, ConnectFails, Dies, BindNotFound,
                 DeclareMismatch, Exit, ConnectExit
        <4>3. CASE Finish(s)
          BY <1>1, <3>1, <4>3 DEF IInv, TypeOK, Finish, Exit
        <4>4. QED
          BY <3>2, <4>1, <4>2, <4>3 DEF RunStep
      <3>3. CASE Publish \/ DeadLetter \/ BrokerChanges
        BY <3>1, <3>3 DEF Publish, DeadLetter, BrokerChanges, runs
      <3>4. QED
        BY <1>1, <3>2, <3>3 DEF Next
    <2>2. Declared(r) = Objects /\ BoundBy(r) = Queues
      BY <2>1, AllDone DEF Finish
    <2>3. /\ \A o \in Objects : args[o] = spec[r][o]
          /\ Queues \subseteq bound
      BY <1>1, <2>2 DEF IInv, Undeleted, Active
    <2>4. /\ args \in [Objects -> Nat] /\ bound \subseteq Queues
          /\ spec[r] \in [Objects -> Nat \ {0}]
      BY <1>1, TopologyConstants DEF IInv, TypeOK
    <2>5. QED
      BY <2>3, <2>4
  <1>2. IInv /\ [Next]_vars => [\A r \in Runs : Complete(r)]_vars
    BY <1>1
  <1>3. QED
    BY <1>2, Invariance, PTL DEF Spec, OkMeansComplete
=============================================================================
