------------------------------ MODULE MCBodies ------------------------------
\* Message bodies for the runs of the two consumers.
EXTENDS PayloadContract

Object(p) == [form |-> "object", payload |-> p]

\* One of the simulator's own, and one whose readings are written 29, not 29.0.
Built == BuildPayload("float", "float")
Simulated == Object(Built)
Integral == Object([Built EXCEPT !["temp_c"] = "int", !["humidity_pct"] = "int"])

\* "seq": true
BooleanSeq == Object([Built EXCEPT !["seq"] = "bool"])

\* A sequence number past 64 bits, and bytes that are not UTF-8.
LongSeq == Object([Built EXCEPT !["seq"] = "long"])
Undecodable == [form |-> "undecodable", payload |-> Built]
=============================================================================
