-------------------------------- MODULE Bpf --------------------------------
(***************************************************************************)
(* build_bpf_filter of src/sycope_recorder/bpf.py at work: an alert and a  *)
(* mode come in, a filter or the refusal to extract goes out.              *)
(***************************************************************************)
EXTENDS Filter

VARIABLES
    parsed,  \* the fields of ParsedAlert the filter is built from
    mode,    \* the filter mode of the request
    verdict, \* "pending", then "extract" or "no bpf"
    filter   \* the terms, once there is a filter

vars == <<parsed, mode, verdict, filter>>

Init ==
    /\ parsed \in ParsedAlerts
    /\ mode \in Modes \union {"other"}
    /\ verdict = "pending"
    /\ filter = {}

BuildBpfFilter ==
    /\ verdict = "pending"
    /\ IF Useless(Terms(parsed, mode))
       THEN verdict' = "no bpf" /\ UNCHANGED filter
       ELSE verdict' = "extract" /\ filter' = Terms(parsed, mode)
    /\ UNCHANGED <<parsed, mode>>

Next == BuildBpfFilter

Spec == Init /\ [][Next]_vars
-----------------------------------------------------------------------------
(* Properties                                                              *)

\* Every variable keeps to its type.
TypeOK ==
    /\ parsed \in ParsedAlerts
    /\ mode \in Modes \union {"other"}
    /\ verdict \in {"pending", "extract", "no bpf"}
    /\ filter \subseteq [kind : {"proto"}, arg : Protocols]
                          \union [kind : {"host"}, arg : Hosts]
                          \union [kind : {"port"}, arg : Ports]

\* An extraction never misses its alert: the filter selects every packet of
\* the flow the alert reports, in both directions, whatever fields it lacks.
FlowCovered ==
    verdict = "extract" =>
        \A p \in Packets : InFlow(parsed, p) => Matches(filter, p)

\* The rejection rule is exact: an alert is turned away if and only if the
\* terms left for it would select all traffic of its protocol.
RejectedIffTooBroad ==
    verdict # "pending" =>
        (verdict = "no bpf" <=>
            \A p \in Packets :
                parsed.protocol \in {p.proto, "unknown"}
                  => Matches(Terms(parsed, mode), p))

\* The modes are ordered: what "full" selects, every other mode selects too,
\* and "hosts" and "port" each narrow "server" down.
ModesNarrow ==
    verdict # "pending" =>
    LET Picked(m) == {p \in Packets : Matches(Terms(parsed, m), p)}
    IN  /\ \A m \in Modes : Picked("full") \subseteq Picked(m)
        /\ Picked("hosts") \subseteq Picked("client") \intersect Picked("server")
        /\ Picked("port") \subseteq Picked("server")
=============================================================================
