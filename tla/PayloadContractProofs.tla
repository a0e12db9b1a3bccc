------------------------ MODULE PayloadContractProofs ------------------------
(***************************************************************************)
(* The payload contract, for every body there can be: parse() and the      *)
(* contract as stated agree but for bodies that cannot be decoded and      *)
(* numbers no double can hold, and what parse() accepts always makes a     *)
(* point of one and the same type.                                         *)
(***************************************************************************)
EXTENDS PayloadContract, TLAPS

\* The position of each field in CONTRACT.
LEMMA FieldAt ==
    /\ Fields[1] = "seq" /\ Fields[2] = "device" /\ Fields[3] = "temp_c"
    /\ Fields[4] = "humidity_pct" /\ Fields[5] = "ts_ms"
  BY DEF Fields

\* A body that fails no check is accepted, and one that fails some is not.
LEMMA AcceptedPassesAll ==
    ASSUME NEW p \in Payloads
    PROVE  Verdict(p) = "accepted" <=> \A i \in 1..5 : Outcome(p, i) = "ok"
  BY DEF Verdict

\* The five checks of an accepted object, spelled out.
LEMMA AcceptedKinds ==
    ASSUME NEW p \in Payloads
    PROVE  Verdict(p) = "accepted" <=>
             /\ p["seq"] \in {"int", "long", "huge"}
             /\ p["ts_ms"] \in {"int", "long", "huge"}
             /\ p["device"] = "text"
             /\ p["temp_c"] \in {"int", "long", "float"}
             /\ p["humidity_pct"] \in {"int", "long", "float"}
  <1>1. /\ Outcome(p, 1) = "ok" <=> p["seq"] \in {"int", "long", "huge"}
        /\ Outcome(p, 2) = "ok" <=> p["device"] = "text"
        /\ Outcome(p, 3) = "ok" <=> p["temp_c"] \in {"int", "long", "float"}
        /\ Outcome(p, 4) = "ok"
                <=> p["humidity_pct"] \in {"int", "long", "float"}
        /\ Outcome(p, 5) = "ok" <=> p["ts_ms"] \in {"int", "long", "huge"}
    BY FieldAt DEF Outcome, Check, Integer, Text, Reading
  <1>2. 1..5 = {1, 2, 3, 4, 5}
    OBVIOUS
  <1>3. QED
    BY <1>1, <1>2, AcceptedPassesAll

\* The checks that can fail with an exception of their own, and the fields that
\* are checked before each.
LEMMA RaisedKinds ==
    ASSUME NEW p \in Payloads
    PROVE  Verdict(p) = "raises" <=>
             /\ p["seq"] \in {"int", "long", "huge"}
             /\ p["device"] = "text"
             /\ \/ p["temp_c"] = "huge"
                \/ /\ p["temp_c"] \in {"int", "long", "float"}
                   /\ p["humidity_pct"] = "huge"
  <1>1. /\ Outcome(p, 1) \in {"ok", "reason"} /\ Outcome(p, 2) \in {"ok", "reason"}
        /\ Outcome(p, 5) \in {"ok", "reason"}
        /\ Outcome(p, 1) = "ok" <=> p["seq"] \in {"int", "long", "huge"}
        /\ Outcome(p, 2) = "ok" <=> p["device"] = "text"
        /\ Outcome(p, 3) = "ok" <=> p["temp_c"] \in {"int", "long", "float"}
        /\ Outcome(p, 3) = "raises" <=> p["temp_c"] = "huge"
        /\ Outcome(p, 4) = "raises" <=> p["humidity_pct"] = "huge"
    BY FieldAt DEF Outcome, Check, Integer, Text, Reading
  <1>2. FirstFailure(p, 3) /\ Outcome(p, 3) = "raises"
            <=> /\ Outcome(p, 1) = "ok" /\ Outcome(p, 2) = "ok"
                /\ Outcome(p, 3) = "raises"
    BY DEF FirstFailure
  <1>3. FirstFailure(p, 4) /\ Outcome(p, 4) = "raises"
            <=> /\ Outcome(p, 1) = "ok" /\ Outcome(p, 2) = "ok"
                /\ Outcome(p, 3) = "ok" /\ Outcome(p, 4) = "raises"
    BY DEF FirstFailure
  <1>4. (\E i \in 1..5 : FirstFailure(p, i) /\ Outcome(p, i) = "raises")
            <=> \/ FirstFailure(p, 3) /\ Outcome(p, 3) = "raises"
                \/ FirstFailure(p, 4) /\ Outcome(p, 4) = "raises"
    <2>1. 1..5 = {1, 2, 3, 4, 5}
      OBVIOUS
    <2>2. QED
      BY <1>1, <2>1
  <1>5. Verdict(p) = "raises"
            <=> \E i \in 1..5 : FirstFailure(p, i) /\ Outcome(p, i) = "raises"
    BY DEF Verdict, FirstFailure
  <1>6. QED
    BY <1>1, <1>2, <1>3, <1>4, <1>5

\* A body on which parse() fails with an exception no caller catches: bytes that
\* cannot be decoded, or an integer no double can hold in a reading, with every
\* field that is checked before it in order.
Unparsable(b) ==
    \/ b.form = "undecodable"
    \/ /\ b.form = "object"
       /\ b.payload["seq"] \in {"int", "long", "huge"}
       /\ b.payload["device"] = "text"
       /\ \/ b.payload["temp_c"] = "huge"
          \/ /\ b.payload["temp_c"] \in {"int", "long", "float"}
             /\ b.payload["humidity_pct"] = "huge"

\* parse() accepts exactly what keeps the contract, and rejects, for both callers
\* to treat as poison, exactly what breaks it: but for what it fails on, which is
\* an undecodable body or a number no double can hold, and nothing else.
THEOREM ParseDecides ==
    ASSUME NEW b \in Bodies
    PROVE  /\ Parse(b) = "raises" <=> Unparsable(b)
           /\ Parse(b) = "accepted" <=> OnContract(b) /\ ~Unparsable(b)
           /\ Parse(b) = "rejected" <=> ~OnContract(b) /\ ~Unparsable(b)
  <1>1. b.payload \in Payloads
    BY DEF Bodies
  <1>2. Parse(b) = "raises" <=> Unparsable(b)
    BY <1>1, RaisedKinds DEF Parse, Unparsable
  <1>3. Parse(b) = "accepted"
            <=> b.form = "object" /\ Verdict(b.payload) = "accepted"
    BY DEF Parse
  <1>4. Parse(b) = "accepted" <=> OnContract(b) /\ ~Unparsable(b)
    BY <1>1, <1>3, AcceptedKinds DEF OnContract, Unparsable
  <1>5. Parse(b) \in {"accepted", "rejected", "raises"}
    BY DEF Parse, Verdict
  <1>6. QED
    BY <1>2, <1>4, <1>5

\* A point made of an accepted body has the type of every other: a reading
\* written 29 never fixes its column to integers.  Storage refuses it for the
\* width of its integers alone.
THEOREM AcceptedIsTyped ==
    ASSUME NEW b \in Bodies, Parse(b) = "accepted"
    PROVE  /\ Typed(ToPoint(b.payload))
           /\ Writable(ToPoint(b.payload))
                <=> b.payload["seq"] = "int" /\ b.payload["ts_ms"] = "int"
  <1>1. b.payload \in Payloads /\ Verdict(b.payload) = "accepted"
    BY DEF Bodies, Parse
  <1>2. QED
    BY <1>1, AcceptedKinds DEF ToPoint, Typed, Writable, ToFloat, ToInt

\* The two ends agree: what build_payload() makes of finite readings is
\* accepted, and storage takes it.
THEOREM BuiltIsStored ==
    ASSUME NEW t \in {"int", "long", "float"}, NEW h \in {"int", "long", "float"},
           NEW b \in Bodies, b.form = "object", b.payload = BuildPayload(t, h)
    PROVE  Parse(b) = "accepted" /\ Writable(ToPoint(b.payload))
  <1> DEFINE p == BuildPayload(t, h)
  <1>1. /\ p["seq"] = "int" /\ p["ts_ms"] = "int" /\ p["device"] = "text"
        /\ p["temp_c"] = "float" /\ p["humidity_pct"] = "float"
    BY DEF BuildPayload, FieldNames, ToFloat
  <1>2. p \in Payloads
    BY DEF Bodies
  <1> HIDE DEF p
  <1>3. Verdict(p) = "accepted"
    BY <1>1, <1>2, AcceptedKinds
  <1>4. Parse(b) = "accepted"
    BY <1>3 DEF Parse, p
  <1>5. QED
    BY <1>1, <1>4, AcceptedIsTyped DEF p
=============================================================================
