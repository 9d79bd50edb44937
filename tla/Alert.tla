------------------------------- MODULE Alert -------------------------------
(***************************************************************************)
(* parse_alert of src/sycope_recorder/alert.py: the alias lists of the     *)
(* flow fields and of the time, the conversions of what stands under them, *)
(* and the id that sanitize_id of extraction.py puts into the file name.   *)
(*                                                                         *)
(* A JSON value is a record whose one field tells its type. Times are kept *)
(* in milliseconds; an id is a sequence of pieces, each of them wholly     *)
(* inside or outside of sanitize_id's alphabet.                            *)
(***************************************************************************)
EXTENDS Integers, Sequences, FiniteSetsExt

CONSTANTS
    Alerts,   \* alerts as they are posted (BOUND)
    Numerals, \* Numerals[s]: what int(s) and float(s) make of a string s
    Stamps,   \* Stamps[s]: the second that a day-first time string s names
    Kilo,     \* milliseconds in a second
    Horizon,  \* 1e12: a number above it is taken for milliseconds
    Hosts,    \* IP addresses
    MaxPort,  \* BOUND on the ports an alert names
    Now,      \* the second in which the alert arrives
    Allowed,  \* pieces in sanitize_id's alphabet
    IdCap,    \* how much of an id sanitize_id keeps, 64 characters
    None      \* Python's None

ASSUME TimeAssumption == Kilo \in Nat \ {0} /\ Horizon \in Nat /\ Now \in Nat
ASSUME IdAssumption   == {"None", "alert", "alert_<time>"} \subseteq Allowed /\ IdCap \in Nat \ {0}

Absent     == [absent |-> TRUE]
Is(raw, t) == t \in DOMAIN raw
Unbounded  == [unbounded |-> TRUE]   \* as a time: NaN, Infinity, too large for a float

IsNumber(raw) == Is(raw, "int") \/ (Is(raw, "str") /\ raw.str \in DOMAIN Numerals)
Number(raw)   == IF Is(raw, "int") THEN raw.int ELSE Numerals[raw.str]

\* What a JSON value can be, where an address, a port, ... is looked for.
Nothings    == {Absent} \union [null : {TRUE}] \union [bool : BOOLEAN]
IdValues    == {Absent} \union [null : {TRUE}] \union [pieces : Seq(STRING)]
IpValues    == Nothings \union [int : Int] \union [str : Hosts \union {""}]
                        \union [obj : Hosts \union {"", None}]
PlainValues == Nothings \union [int : Int] \union [str : STRING]

ASSUME TableAssumption ==
    /\ DOMAIN Numerals \subseteq STRING /\ \A s \in DOMAIN Numerals : Numerals[s] \in Int
    /\ \A s \in DOMAIN Stamps : Stamps[s] \in Int

ASSUME NoneAssumption ==
    /\ "" \notin Hosts /\ None \notin Hosts \union {"icmp", "tcp", "udp"}
    /\ None \notin Int /\ None \notin [ms : Int] /\ None # Unbounded

ASSUME AlertAssumption ==
    /\ MaxPort \in Nat
    /\ \A a \in Alerts :
          /\ a.client \in Seq(IpValues) /\ a.server \in Seq(IpValues)
          /\ a.port \in Seq(PlainValues) /\ a.protocol \in Seq(PlainValues)
          /\ a.time \in Seq(PlainValues \union {Unbounded})
          /\ a.stamp \in PlainValues
          /\ a.id \in IdValues /\ a.alertId \in IdValues
          /\ \A i \in DOMAIN a.port : IsNumber(a.port[i]) => Number(a.port[i]) <= MaxPort

VARIABLES
    alert,   \* .client, .server, .port, .protocol and .time: what stands
             \* under the aliases of each, in order; .stamp: "timestamp";
             \* .id and .alertId
    outcome, \* "posted", then "parsed", or "raised" for the handler's 500
    parsed,  \* the ParsedAlert
    fileId   \* the id in the name of its file

vars == <<alert, outcome, parsed, fileId>>

\* Mistake: a value that is there but falsy decides.
FindFieldFalsy(values, falsy) ==
    LET usable == {i \in DOMAIN values : values[i] # None}
    IN  IF usable = {} THEN None ELSE values[Min(usable)]

\* Of the values extracted under the aliases the first truthy one decides.
FindField(values, falsy) ==
    LET usable == {i \in DOMAIN values : values[i] \notin falsy \union {None}}
    IN  IF usable = {} THEN None ELSE values[Min(usable)]

\* A string, or the addressString of an object.
Ip(raw) ==
    CASE Is(raw, "str") -> IF raw.str = "" THEN None ELSE raw.str
      [] Is(raw, "obj") -> raw.obj
      [] OTHER          -> None

Port(raw) == IF IsNumber(raw) /\ Number(raw) > 0 THEN Number(raw) ELSE None

\* A name in any case or a protocol number; true is not 1, nor "6" a 6.
Proto(raw) ==
    CASE Is(raw, "int") /\ raw.int = 1                -> "icmp"
      [] Is(raw, "int") /\ raw.int = 6                -> "tcp"
      [] Is(raw, "int") /\ raw.int = 17               -> "udp"
      [] Is(raw, "str") /\ raw.str \in {"icmp", "ICMP"} -> "icmp"
      [] Is(raw, "str") /\ raw.str \in {"tcp", "TCP"}   -> "tcp"
      [] Is(raw, "str") /\ raw.str \in {"udp", "UDP"}   -> "udp"
      [] OTHER                                        -> None

Ms(n) == [ms |-> n]

\* Mistake: the threshold itself is taken for milliseconds.
NumericTsAtHorizon(raw) ==
    CASE Is(raw, "unbounded") -> Unbounded
      [] IsNumber(raw)        -> Ms(IF Number(raw) >= Horizon THEN Number(raw)
                                    ELSE Kilo * Number(raw))
      [] OTHER                -> None

NumericTs(raw) ==
    CASE Is(raw, "unbounded") -> Unbounded
      [] IsNumber(raw)        -> Ms(IF Number(raw) > Horizon THEN Number(raw)
                                    ELSE Kilo * Number(raw))
      [] OTHER                -> None

\* Mistake: the error of strptime is let through.
FromStampStrict(raw) ==
    IF Is(raw, "str")
    THEN IF raw.str \in DOMAIN Stamps THEN Ms(Kilo * Stamps[raw.str]) ELSE Unbounded
    ELSE Ms(Kilo * Now)

FromStamp(raw) ==
    IF Is(raw, "str") /\ raw.str \in DOMAIN Stamps THEN Ms(Kilo * Stamps[raw.str])
                                                   ELSE Ms(Kilo * Now)

ResolveTimestamp(a) ==
    LET numeric == FindField([i \in DOMAIN a.time |-> NumericTs(a.time[i])], {Ms(0)})
    IN  IF numeric # None THEN numeric ELSE FromStamp(a.stamp)

\* Presence alone decides about an id; the str() of a null is "None".
AlertId(a) ==
    LET raw == IF a.id # Absent THEN a.id ELSE a.alertId
    IN  IF raw = Absent THEN <<"alert_<time>">>
        ELSE IF Is(raw, "pieces") THEN raw.pieces ELSE <<"None">>

\* What s has at the given places.
Picked(s, places) ==
    LET upTo[n \in 0 .. Len(s)] ==
            IF n = 0 THEN <<>>
            ELSE IF n \in places THEN Append(upTo[n - 1], s[n]) ELSE upTo[n - 1]
    IN  upTo[Len(s)]

Strip(id) == Picked(id, {i \in DOMAIN id : id[i] \in Allowed})
Cut(id)   == SubSeq(id, 1, IF Len(id) < IdCap THEN Len(id) ELSE IdCap)

OrAlert(id) == IF id = <<>> THEN <<"alert">> ELSE id

\* Mistake: the id is cut before it is cleaned.
SanitizeCutFirst(id) == OrAlert(Strip(Cut(id)))

SanitizeId(id) == OrAlert(Cut(Strip(id)))

Init ==
    /\ alert \in Alerts
    /\ outcome = "posted"
    /\ parsed = None
    /\ fileId = <<>>

\* int() of an unbounded time raises, whether or not its id is needed.
ParseAlert ==
    LET client   == [i \in DOMAIN alert.client |-> Ip(alert.client[i])]
        server   == [i \in DOMAIN alert.server |-> Ip(alert.server[i])]
        port     == [i \in DOMAIN alert.port |-> Port(alert.port[i])]
        protocol == [i \in DOMAIN alert.protocol |-> Proto(alert.protocol[i])]
    IN
    /\ outcome = "posted"
    /\ IF ResolveTimestamp(alert) = Unbounded
       THEN outcome' = "raised" /\ UNCHANGED <<parsed, fileId>>
       ELSE /\ outcome' = "parsed"
            /\ parsed' = [client_ip   |-> FindField(client, {""}),
                          server_ip   |-> FindField(server, {""}),
                          server_port |-> FindField(port, {}),
                          protocol    |-> FindField(protocol, {}),
                          timestamp   |-> ResolveTimestamp(alert).ms,
                          alert_id    |-> AlertId(alert)]
            /\ fileId' = SanitizeId(AlertId(alert))
    /\ UNCHANGED alert

Next == ParseAlert

Spec == Init /\ [][Next]_vars
-----------------------------------------------------------------------------
(* Properties                                                              *)

\* What a raw value says of an address, a port, a protocol.
SaysIp(raw)    == {host \in Hosts : raw \in {[str |-> host], [obj |-> host]}}
SaysPort(raw)  == {port \in 1 .. MaxPort :
                      raw \in {[int |-> port]} \union {[str |-> s] : s \in
                                  {t \in DOMAIN Numerals : Numerals[t] = port}}}
SaysProto(raw) == {row[1] : row \in {r \in {<<"icmp", "ICMP", 1>>, <<"tcp", "TCP", 6>>,
                                            <<"udp", "UDP", 17>>} :
                      raw \in {[str |-> r[1]], [str |-> r[2]], [int |-> r[3]]}}}

\* value is what the first of them says that says anything.
SaidFirst(said, value) ==
    LET speaking == {i \in DOMAIN said : said[i] # {}}
    IN  IF speaking = {} THEN value = None ELSE value \in said[Min(speaking)]

\* The flow of an alert is taken as its sender meant it: under whatever alias
\* and in whatever form it stands, an alias that says nothing, as a port of 0
\* or an unknown protocol, never hides one that does, and one of a higher
\* priority never loses to a lower one.
FlowFaithful ==
    outcome = "parsed" =>
        /\ SaidFirst([i \in DOMAIN alert.client |-> SaysIp(alert.client[i])],
                     parsed.client_ip)
        /\ SaidFirst([i \in DOMAIN alert.server |-> SaysIp(alert.server[i])],
                     parsed.server_ip)
        /\ SaidFirst([i \in DOMAIN alert.port |-> SaysPort(alert.port[i])],
                     parsed.server_port)
        /\ SaidFirst([i \in DOMAIN alert.protocol |-> SaysProto(alert.protocol[i])],
                     parsed.protocol)

\* Seconds for which there is no doubt about the unit.
Instants == {s \in 1 .. Horizon : s * Kilo > Horizon}

Dates(raw, s)   == IsNumber(raw) /\ Number(raw) \in {s, s * Kilo}
Undated(raw)    == ~Is(raw, "unbounded") /\ (IsNumber(raw) => Number(raw) = 0)
Deciding(raw)   == \E i \in DOMAIN alert.time :
                      /\ alert.time[i] = raw
                      /\ \A j \in 1 .. i - 1 : Undated(alert.time[j])
AllUndated      == \A i \in DOMAIN alert.time : Undated(alert.time[i])

\* One instant gives one time, be it sent as seconds or as milliseconds, as a
\* number or as a text, and failing those as the day-first time string; the
\* time of arrival stands in only if none of them can be read.
TimeFaithful ==
    outcome = "parsed" =>
        /\ \A i \in DOMAIN alert.time, s \in Instants :
              Deciding(alert.time[i]) /\ Dates(alert.time[i], s)
                => parsed.timestamp = s * Kilo
        /\ AllUndated =>
              IF \E s \in DOMAIN Stamps : alert.stamp = [str |-> s]
              THEN \E s \in DOMAIN Stamps : /\ alert.stamp = [str |-> s]
                                            /\ parsed.timestamp = Stamps[s] * Kilo
              ELSE parsed.timestamp = Now * Kilo

\* "A slightly wrong time is preferable to rejecting the alert outright": only
\* a number that is no time at all, and that no better alias outranks, makes
\* an alert fail.
RejectedOnlyUnbounded == outcome = "raised" => Deciding(Unbounded)

\* i is the first, the second, ... of the places.
Rank(places, i) == Cardinality({j \in places : j <= i})

\* The id in the name is a proper one, and as much of the alert's as can be:
\* what is clean of it, in its order and up to the cap, and the stand-in
\* "alert" only if there is nothing in it to keep.
IdKept ==
    outcome = "parsed" =>
        LET id    == parsed.alert_id
            clean == {i \in DOMAIN id : id[i] \in Allowed}
        IN  IF clean = {} THEN fileId = <<"alert">>
            ELSE /\ fileId \in Seq(Allowed)
                 /\ Len(fileId) = IF Cardinality(clean) < IdCap THEN Cardinality(clean)
                                                                ELSE IdCap
                 /\ \A i \in clean :
                       Rank(clean, i) <= IdCap => fileId[Rank(clean, i)] = id[i]
=============================================================================
