------------------------------ MODULE Topology ------------------------------
(***************************************************************************)
(* The topology declarer, topology.py, against the broker's queues: every  *)
(* run of it is a process that makes its calls one at a time, in the order *)
(* of declare(), and may die between two of them.  Runs follow each other  *)
(* or overlap: compose starts one with every `up`, and an operator may     *)
(* start another with --recreate by hand.                                  *)
(*                                                                         *)
(* Publishers and consumers appear as what they do to the queues: a        *)
(* reading is routed to whatever is bound, and one may be dead-lettered.   *)
(***************************************************************************)
EXTENDS Integers, Sequences, FiniteSets, SequencesExt

CONSTANTS
    Runs,          \* invocations of the declarer
    Specs,         \* editions of topology_spec.py: the arguments each object
                   \* is declared with, as functions from Objects to Nat \ {0}
    MaxReadings    \* readings published, at most (a bound of the model)

DataQueues == {"store", "observe"}
Queues == DataQueues \cup {"dlq"}
Objects == Queues \cup {"dlx"}     \* and the exchange dead letters go through

ASSUME TopologyConstants ==
    /\ Specs \subseteq [Objects -> Nat \ {0}]
    /\ MaxReadings \in Nat

VARIABLES
    state,       \* of each run: "waiting", "connecting", "running", an exit
    recreate,    \* its --recreate flag
    spec,        \* the edition of topology_spec it was built with
    todo,        \* the calls it has still to make
    disturbed,   \* the kinds of call others made while it ran (history)
    \* The broker: external.
    broker,      \* "up", "down", or "denies"
    args,        \* the arguments each object exists with, or Absent
    bound,       \* queues bound to the exchange that feeds them
    content,     \* the readings in each queue
    \* The readings.
    published,   \* readings 1..published have been sent
    fallen       \* dead-lettered into an exchange that led nowhere

runs == <<state, recreate, spec, todo, disturbed>>
queues == <<args, bound, content>>
readings == <<published, fallen>>
vars == <<runs, broker, queues, readings>>

Absent == 0
Exits == {"ok", "unreachable", "rejected", "mismatch", "died"}
Active(r) == state[r] = "running"

-----------------------------------------------------------------------------
(* The calls, in the order they are made.                                  *)

Call(op, o) == [op |-> op, object |-> o]

Ops == {"declare", "bind", "delete"}

\* RECREATABLE: the dead-letter queue survives.
RecreatableAndDlq == <<"store", "observe", "dlq">>  \* mutant
RecreatableStore == <<"store">>  \* mutant
Recreatable == <<"store", "observe">>

\* Mutant: the durable path before the exchange it dead-letters into.
StoreFirstDeclares ==
    <<Call("declare", "store"), Call("bind", "store"),
      Call("declare", "dlx"), Call("declare", "dlq"), Call("bind", "dlq"),
      Call("declare", "observe"), Call("bind", "observe")>>

\* declare(): the dead-letter side first, then the durable path, then the
\* observation path.
Declares ==
    <<Call("declare", "dlx"), Call("declare", "dlq"), Call("bind", "dlq"),
      Call("declare", "store"), Call("bind", "store"),
      Call("declare", "observe"), Call("bind", "observe")>>

\* drop()
Drops == [i \in 1..Len(Recreatable) |-> Call("delete", Recreatable[i])]

Calls(recreated) == IF recreated THEN Drops \o Declares ELSE Declares

-----------------------------------------------------------------------------
\* A broker never declared on, or one set up by an earlier edition.
Init ==
    /\ state = [r \in Runs |-> "waiting"]
    /\ recreate = [r \in Runs |-> FALSE]
    /\ spec \in [Runs -> Specs]
    /\ todo = [r \in Runs |-> <<>>]
    /\ disturbed = [r \in Runs |-> {}]
    /\ broker = "up"
    /\ \/ args = [o \in Objects |-> Absent] /\ bound = {}
       \/ args \in Specs /\ bound = Queues
    /\ content = [q \in Queues |-> {}]
    /\ published = 0 /\ fallen = {}

TypeOK ==
    /\ state \in [Runs -> {"waiting", "connecting", "running"} \cup Exits]
    /\ recreate \in [Runs -> BOOLEAN]
    /\ spec \in [Runs -> Specs]
    /\ todo \in [Runs -> Seq([op : Ops, object : Objects])]
    /\ disturbed \in [Runs -> SUBSET Ops]
    /\ broker \in {"up", "down", "denies"}
    /\ args \in [Objects -> Nat]
    /\ bound \subseteq Queues
    /\ content \in [Queues -> SUBSET (1..MaxReadings)]
    /\ published \in 0..MaxReadings
    /\ fallen \subseteq 1..MaxReadings

-----------------------------------------------------------------------------
(* main(), drop() and declare().                                           *)

Exit(r, code) == state' = [state EXCEPT ![r] = code]

Start(r) ==
    /\ state[r] = "waiting"
    /\ state' = [state EXCEPT ![r] = "connecting"]
    /\ \E flag \in BOOLEAN : recreate' = [recreate EXCEPT ![r] = flag]
    /\ UNCHANGED <<spec, todo, disturbed, broker, queues, readings>>

UncaughtConnectExit ==  \* mutant
    IF broker = "denies" THEN "traceback" ELSE "unreachable"
ConnectExit == IF broker = "denies" THEN "rejected" ELSE "unreachable"

\* connect() and its attempts are ConsumerRunner's; here, its outcome.
Connect(r) ==
    /\ state[r] = "connecting" /\ broker = "up"
    /\ state' = [state EXCEPT ![r] = "running"]
    /\ todo' = [todo EXCEPT ![r] = Calls(recreate[r])]
    /\ UNCHANGED <<recreate, spec, disturbed, broker, queues, readings>>

ConnectFails(r) ==
    /\ state[r] = "connecting" /\ broker # "up"
    /\ Exit(r, ConnectExit)
    /\ UNCHANGED <<recreate, spec, todo, disturbed, broker, queues, readings>>

\* The next call of an active run is this one ...
Calling(r, op, o) ==
    /\ Active(r) /\ broker # "down"
    /\ todo[r] # <<>> /\ Head(todo[r]) = Call(op, o)

\* ... and it is made.
Called(r, op) ==
    /\ todo' = [todo EXCEPT ![r] = Tail(@)]
    /\ disturbed' = [s \in Runs |->
                       IF s # r /\ Active(s) THEN disturbed[s] \cup {op}
                                             ELSE disturbed[s]]

\* queue_delete(), with no guard; of an absent queue, a no-op.
Delete(r, q) ==
    /\ Calling(r, "delete", q)
    /\ Called(r, "delete")
    /\ args' = [args EXCEPT ![q] = Absent]
    /\ bound' = bound \ {q}
    /\ content' = [content EXCEPT ![q] = {}]
    /\ UNCHANGED <<state, recreate, spec, broker, readings>>

\* A declare creates the object, or finds it with the same arguments.
Declare(r, o) ==
    /\ Calling(r, "declare", o)
    /\ args[o] \in {Absent, spec[r][o]}
    /\ Called(r, "declare")
    /\ args' = [args EXCEPT ![o] = spec[r][o]]
    /\ UNCHANGED <<state, recreate, spec, broker, bound, content, readings>>

\* Mutant: the channel's close is logged, and the run ends as if all was well.
DeclareMismatchIgnored(r, o) ==
    /\ Calling(r, "declare", o)
    /\ args[o] \notin {Absent, spec[r][o]}
    /\ Exit(r, "ok")
    /\ UNCHANGED <<recreate, spec, todo, disturbed, broker, queues, readings>>

\* 406 PRECONDITION_FAILED: it exists with other arguments.
DeclareMismatch(r, o) ==
    /\ Calling(r, "declare", o)
    /\ args[o] \notin {Absent, spec[r][o]}
    /\ Exit(r, "mismatch")
    /\ UNCHANGED <<recreate, spec, todo, disturbed, broker, queues, readings>>

Bind(r, q) ==
    /\ Calling(r, "bind", q)
    /\ args[q] # Absent
    /\ Called(r, "bind")
    /\ bound' = bound \cup {q}
    /\ UNCHANGED <<state, recreate, spec, broker, args, content, readings>>

\* 404: another run deleted the queue in between.  The exit code is the same.
BindNotFound(r, q) ==
    /\ Calling(r, "bind", q)
    /\ args[q] = Absent
    /\ Exit(r, "mismatch")
    /\ UNCHANGED <<recreate, spec, todo, disturbed, broker, queues, readings>>

Finish(r) ==
    /\ Active(r) /\ todo[r] = <<>>
    /\ Exit(r, "ok")
    /\ UNCHANGED <<recreate, spec, todo, disturbed, broker, queues, readings>>

\* Killed between two calls, or cut off: only a closed channel is handled.
Dies(r) ==
    /\ Active(r)
    /\ Exit(r, "died")
    /\ UNCHANGED <<recreate, spec, todo, disturbed, broker, queues, readings>>

-----------------------------------------------------------------------------
(* The world around the declarer.                                          *)

\* Mutant: service_completed, whatever the status.
GateOpensOnAnyExit == \E r \in Runs : state[r] \in Exits

\* compose starts publishers and consumers once a run has exited 0.
GateOpen == \E r \in Runs : state[r] = "ok"

\* A topic exchange copies a reading to every queue bound, and discards it
\* when there is none.  A device does not wait for the gate.
Publish ==
    /\ published < MaxReadings /\ broker # "down"
    /\ published' = published + 1
    /\ LET m == published + 1 IN
        content' = [q \in Queues |->
                      IF q \in bound \cap DataQueues
                      THEN content[q] \cup {m} ELSE content[q]]
    /\ UNCHANGED <<runs, broker, args, bound, fallen>>

\* consumer_store rejects a reading: it leaves through telemetry.dlx.
DeadLetter ==
    /\ broker # "down"
    /\ \E m \in content["store"] :
        IF args["dlx"] # Absent /\ "dlq" \in bound
        THEN /\ content' = [content EXCEPT !["store"] = @ \ {m},
                                           !["dlq"] = @ \cup {m}]
             /\ UNCHANGED fallen
        ELSE /\ content' = [content EXCEPT !["store"] = @ \ {m}]
             /\ fallen' = fallen \cup {m}
    /\ UNCHANGED <<runs, broker, args, bound, published>>

\* Queues, bindings and persistent readings are durable: only the connections
\* of the runs suffer.
BrokerChanges ==
    /\ broker' \in {"up", "down", "denies"} \ {broker}
    /\ UNCHANGED <<runs, queues, readings>>

-----------------------------------------------------------------------------
RunStep(r) ==
    \/ Start(r) \/ Connect(r) \/ ConnectFails(r)
    \/ \E q \in Queues : Delete(r, q) \/ Bind(r, q) \/ BindNotFound(r, q)
    \/ \E o \in Objects : Declare(r, o) \/ DeclareMismatch(r, o)
    \/ Finish(r) \/ Dies(r)

Next ==
    \/ \E r \in Runs : RunStep(r)
    \/ Publish \/ DeadLetter \/ BrokerChanges

Spec == Init /\ [][Next]_vars

-----------------------------------------------------------------------------
(* Properties.                                                             *)

\* Whatever runs died half way or overlapped, a rejected reading has somewhere
\* to go: telemetry.store never exists over an unbound dead-letter exchange.
NothingFallsThrough == fallen = {}

\* No run, --recreate included, takes a dead letter from telemetry.dlq: its
\* x-death headers are the evidence.
EvidenceIsKept == [][content["dlq"] \subseteq content'["dlq"]]_vars

\* Between the deletes of a --recreate run and the end of its declares, which
\* it may never reach.
Recreating(r) == recreate[r] /\ state[r] \in {"running", "mismatch", "died"}

\* After one run exited 0 every reading is routed to both data queues, unless a
\* --recreate is under way or broke off.  However runs overlap: a queue that is
\* deleted under another is bound again once the deleter has exited 0, and no
\* plain run, failed or killed at any point, takes a path away.
GateMeansRouted ==
    GateOpen => DataQueues \subseteq bound \/ \E r \in Runs : Recreating(r)

\* A run that exits 0 leaves every object as its edition says, unless another
\* deleted a queue while it ran.  Editions may differ, and runs overlap.
OkMeansComplete ==
    [][\A r \in Runs :
        /\ state[r] = "running" /\ state'[r] = "ok"
        /\ "delete" \notin disturbed[r]
        => args = spec[r] /\ bound = Queues]_vars

\* With --recreate a data queue's arguments are never in the way, unless another
\* run declares one meanwhile: what is left is the dead-letter side, which it
\* spares.
RecreateClearsDataQueues ==
    \A r \in Runs :
        /\ state[r] = "mismatch" /\ recreate[r]
        /\ disturbed[r] = {}
        => \E o \in {"dlx", "dlq"} : args[o] # spec[r][o]

\* topology_spec.py: "Changing anything in this module requires redeclaring the
\* affected queue. ... that means `python -m telemetry.topology --recreate`."
RecreateSettlesAnyChange ==
    \A r \in Runs : recreate[r] => state[r] # "mismatch"
=============================================================================
