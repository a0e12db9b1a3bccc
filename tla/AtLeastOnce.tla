----------------------------- MODULE AtLeastOnce -----------------------------
(***************************************************************************)
(* What the durable path promises about each reading, and nothing of how:  *)
(* consumer_store.py, "the pipeline at-least-once end to end".             *)
(*                                                                         *)
(* A reading the broker accepted stays pending until it is finished with,  *)
(* which is never before storage holds it; a message that breaks the       *)
(* payload contract ends in the dead-letter queue and never in storage.    *)
(***************************************************************************)
CONSTANTS
    Messages,   \* what may be published
    Poison      \* those of them that break the payload contract

VARIABLES
    pending,    \* accepted, and not finished with
    written,    \* in storage
    dead,       \* in the dead-letter queue
    done        \* acknowledged

vars == <<pending, written, dead, done>>

Init == pending = {} /\ written = {} /\ dead = {} /\ done = {}

Accept(m) ==
    /\ m \notin pending \cup done \cup dead
    /\ pending' = pending \cup {m}
    /\ UNCHANGED <<written, dead, done>>

\* Writing again is allowed: a second write of a point replaces the first.
Write(m) ==
    /\ m \in pending \ Poison
    /\ written' = written \cup {m}
    /\ UNCHANGED <<pending, dead, done>>

Finish(m) ==
    /\ m \in pending \cap written
    /\ pending' = pending \ {m}
    /\ done' = done \cup {m}
    /\ UNCHANGED <<written, dead>>

Bury(m) ==
    /\ m \in pending \cap Poison
    /\ pending' = pending \ {m}
    /\ dead' = dead \cup {m}
    /\ UNCHANGED <<written, done>>

Next == \E m \in Messages : Accept(m) \/ Write(m) \/ Finish(m) \/ Bury(m)

Spec == Init /\ [][Next]_vars
=============================================================================
