----------------------------- MODULE AtMostOnce -----------------------------
(***************************************************************************)
(* What the observation path promises about each reading, and nothing of   *)
(* how: consumer_observe.py, "no acknowledgment, no flow control".         *)
(*                                                                         *)
(* A reading is seen once or not at all, and those that are seen are seen  *)
(* in the order they were published.  Any of them may be lost at any time. *)
(***************************************************************************)
EXTENDS Integers

CONSTANTS
    Messages,   \* what may be published, numbered in that order
    OffContract \* those of them that break the payload contract

VARIABLES
    open,       \* those that may yet be seen
    seen,       \* logged as observed
    noted       \* logged as poison, and dropped

vars == <<open, seen, noted>>

Init == open = {} /\ seen = {} /\ noted = {}

\* m comes after all that was handled, and all that still may be.
Newest(m) == \A n \in open \cup seen \cup noted : n < m

\* m comes after all that was handled: never twice, never out of order.
InOrder(m) == \A n \in seen \cup noted : n < m

\* A newcomer may push others out, or be lost itself.
Accept(m) ==
    /\ Newest(m)
    /\ open' \subseteq open \cup {m}
    /\ UNCHANGED <<seen, noted>>

Lose == open' \subseteq open /\ UNCHANGED <<seen, noted>>

See(m) ==
    /\ m \in open \ OffContract /\ InOrder(m)
    /\ seen' = seen \cup {m}
    /\ open' = open \ {m}
    /\ UNCHANGED noted

Note(m) ==
    /\ m \in open \cap OffContract /\ InOrder(m)
    /\ noted' = noted \cup {m}
    /\ open' = open \ {m}
    /\ UNCHANGED seen

Next == Lose \/ \E m \in Messages : Accept(m) \/ See(m) \/ Note(m)

Spec == Init /\ [][Next]_vars
=============================================================================
