----------------------------- MODULE LegacyAlert -----------------------------
(***************************************************************************)
(* parse_alert of the v1 listener, old/src/listener.py, and the id in its  *)
(* file names, beside those of Alert. Names of protocols, time strings and *)
(* ids are read by the same few lines in both and are Alert's here.        *)
(***************************************************************************)
EXTENDS Alert

CONSTANTS
    PlainDigits, \* strings for which isdigit() holds
    Unicode      \* pieces outside of Allowed for which isalnum() holds

ASSUME DigitsAssumption ==
    PlainDigits \subseteq DOMAIN Numerals /\ \A s \in PlainDigits : Numerals[s] \in Nat

\* _find_field, over what the extractor makes of each alias.
FindTruthy(values, falsy) ==
    LET truthy == Picked(values, {i \in DOMAIN values : values[i] \notin falsy \union {None}})
    IN  IF truthy = <<>> THEN None ELSE Head(truthy)

ExtractIp(raw) ==
    CASE Is(raw, "str") -> raw.str
      [] Is(raw, "obj") -> raw.obj
      [] OTHER          -> None

\* To v1 true is the number 1.
TrueAsOne(raw) == IF Is(raw, "bool") THEN [int |-> IF raw.bool THEN 1 ELSE 0] ELSE raw

ExtractPort(raw) ==
    LET n == TrueAsOne(raw)
    IN  CASE Is(n, "int") /\ n.int > 0             -> n.int
          [] Is(n, "str") /\ n.str \in PlainDigits -> Numerals[n.str]
          [] OTHER                                 -> None

ExtractProtocol(raw) == Proto(TrueAsOne(raw))

\* The first number decides, whichever it is; a text is none.
UnixTs(a) ==
    LET values  == [i \in DOMAIN a.time |-> TrueAsOne(a.time[i])]
        numbers == Picked(values, {i \in DOMAIN values : \/ Is(values[i], "int")
                                                         \/ Is(values[i], "unbounded")})
        val     == Head(numbers)
    IN  CASE numbers = <<>>       -> FromStamp(a.stamp)
          [] numbers # <<>> /\ Is(val, "unbounded") -> Unbounded
          [] numbers # <<>> /\ Is(val, "int")       ->
                Ms(IF val.int > Horizon THEN val.int ELSE val.int * Kilo)

SafeId(id) == OrAlert(Cut(Picked(id, {i \in DOMAIN id : id[i] \in Allowed \union Unicode})))

ParseV1(a) ==
    LET Under(aliases, Extractor(_), falsy) ==
            FindTruthy([i \in DOMAIN aliases |-> Extractor(aliases[i])], falsy)
    IN  [client_ip   |-> Under(a.client, ExtractIp, {""}),
         server_ip   |-> Under(a.server, ExtractIp, {""}),
         server_port |-> Under(a.port, ExtractPort, {0}),
         protocol    |-> Under(a.protocol, ExtractProtocol, {}),
         timestamp   |-> UnixTs(a).ms,
         alert_id    |-> AlertId(a)]
-----------------------------------------------------------------------------
(* Property                                                                *)

Elements(s) == {s[i] : i \in DOMAIN s}

\* What the two read apart: a boolean, a number in a text that is not plain
\* digits, a time in a text or of 0, and letters beyond ASCII in an id.
ReadApart(a) ==
    \/ \E raw \in Elements(a.port) \union Elements(a.protocol) \union Elements(a.time) :
          Is(raw, "bool")
    \/ \E raw \in Elements(a.port) :
          IsNumber(raw) /\ Is(raw, "str") /\ raw.str \notin PlainDigits
    \/ \E raw \in Elements(a.time) : IsNumber(raw) /\ (Is(raw, "str") \/ Number(raw) = 0)
    \/ \E piece \in Elements(AlertId(a)) : piece \in Unicode

\* README: "the wire-level webhook contract Sycope depends on is unchanged" from
\* v1. An alert is understood as v1 understood it, down to its file name and to
\* whether it can be dealt with at all, but for what the two read apart.
AlertAsV1 ==
    outcome # "posted" /\ ~ReadApart(alert) =>
        /\ outcome = "raised" <=> UnixTs(alert) = Unbounded
        /\ outcome = "parsed" => /\ parsed = ParseV1(alert)
                                 /\ fileId = SafeId(AlertId(alert))
=============================================================================
