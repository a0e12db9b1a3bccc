----------------------------- MODULE MCTopology -----------------------------
(* Editions of topology_spec.py: the first, one that changes the data      *)
(* queues' arguments, one that changes the dead-letter queue's.            *)
EXTENDS Topology

Edition(changed) == [o \in Objects |-> IF o \in changed THEN 2 ELSE 1]

AllEditions == {Edition({}), Edition({"store", "observe"}), Edition({"dlq"})}
=============================================================================
