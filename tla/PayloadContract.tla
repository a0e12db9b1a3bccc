--------------------------- MODULE PayloadContract ---------------------------
(***************************************************************************)
(* The wire contract: what payload.parse() makes of a message body, and    *)
(* what storage.to_point() makes of what parse() accepts.                  *)
(*                                                                         *)
(* A body is the form its bytes have and, for a JSON object, a kind for    *)
(* each of the five fields.  The kinds are what isinstance(), isfinite()   *)
(* and the storage schema tell apart; the values behind them are not       *)
(* modelled, and extra fields, which parse() ignores, are left out.        *)
(***************************************************************************)
EXTENDS Integers

Forms == {"malformed",   \* JSONDecodeError
          "undecodable", \* json.loads() fails otherwise: bytes that are not
                         \* UTF-8, nesting or digits without end
          "other",       \* JSON, but no object
          "object"}

Kinds == {"int",         \* an integer that storage can take
          "long",        \* an integer past that, within a double's range
          "huge",        \* an integer past that as well
          "float",
          "notfinite",   \* NaN and Infinity, which Python's JSON reads
          "bool", "text",
          "null",        \* null, a list or an object
          "absent"}

\* CONTRACT, in the order parse() goes through it.
Fields == <<"seq", "device", "temp_c", "humidity_pct", "ts_ms">>
FieldNames == {"seq", "device", "temp_c", "humidity_pct", "ts_ms"}

Payloads == [FieldNames -> Kinds]
Bodies == [form : Forms, payload : Payloads]

-----------------------------------------------------------------------------
(* The checks: "ok", a reason to reject, or an exception of their own.     *)

Integer(k) == IF k \in {"int", "long", "huge"} THEN "ok" ELSE "reason"

\* isfinite() converts an integer first, which raises OverflowError.
Reading(k) ==
    CASE k \in {"int", "long", "float"} -> "ok"
      [] k = "huge" -> "raises"
      [] OTHER -> "reason"

Text(k) == IF k = "text" THEN "ok" ELSE "reason"

\* A missing field is a reason of its own.
Check(f, k) ==
    CASE f \in {"seq", "ts_ms"} -> Integer(k)
      [] f = "device" -> Text(k)
      [] OTHER -> Reading(k)

Outcome(p, i) == Check(Fields[i], p[Fields[i]])

\* The first field whose check is not "ok" decides.
FirstFailure(p, i) ==
    Outcome(p, i) # "ok" /\ \A j \in 1..(i - 1) : Outcome(p, j) = "ok"

Verdict(p) ==
    CASE \A i \in 1..5 : Outcome(p, i) = "ok" -> "accepted"
      [] \E i \in 1..5 : FirstFailure(p, i) /\ Outcome(p, i) = "raises"
            -> "raises"
      [] OTHER -> "rejected"

\* parse(): accepted, rejected with one of the two exceptions that both
\* callers catch, or failed with one they do not.
Parse(b) ==
    CASE b.form = "object" -> Verdict(b.payload)
      [] b.form = "undecodable" -> "raises"
      [] OTHER -> "rejected"

-----------------------------------------------------------------------------
(* What is made of a reading at both ends.                                 *)

\* float() and int()
ToFloat(k) == IF k \in {"int", "long", "bool"} THEN "float" ELSE k
ToInt(k) == IF k = "bool" THEN "int" ELSE k

\* build_payload(): the sequence number and the clock are integers of Python's.
BuildPayload(temp, humidity) ==
    [f \in FieldNames |->
        CASE f \in {"seq", "ts_ms"} -> "int"
          [] f = "device" -> "text"
          [] f = "temp_c" -> ToFloat(temp)
          [] f = "humidity_pct" -> ToFloat(humidity)]

ToPoint(p) ==
    [tag |-> p["device"],
     temp_c |-> ToFloat(p["temp_c"]),
     humidity_pct |-> ToFloat(p["humidity_pct"]),
     seq |-> ToInt(p["seq"]),
     time |-> p["ts_ms"]]

\* The storage service, external.  A field has the type its first value had,
\* and an integer has a width: a point that does not fit is refused.
Typed(pt) ==
    /\ pt.tag = "text"
    /\ pt.temp_c = "float" /\ pt.humidity_pct = "float"
    /\ pt.seq \in {"int", "long", "huge"} /\ pt.time \in {"int", "long", "huge"}

Writable(pt) == Typed(pt) /\ pt.seq = "int" /\ pt.time = "int"

-----------------------------------------------------------------------------
(* The contract as the module's docstring and its tests state it: five     *)
(* fields, integers that are not booleans, a text, and readings that are   *)
(* finite JSON numbers, whether written 29 or 29.0.                        *)

OnContract(b) ==
    /\ b.form = "object"
    /\ \A f \in {"seq", "ts_ms"} : b.payload[f] \in {"int", "long", "huge"}
    /\ b.payload["device"] = "text"
    /\ \A f \in {"temp_c", "humidity_pct"} :
        b.payload[f] \in {"int", "long", "huge", "float"}
=============================================================================
