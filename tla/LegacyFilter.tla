---------------------------- MODULE LegacyFilter ----------------------------
(***************************************************************************)
(* build_bpf_filter of the v1 listener, old/src/listener.py, beside that   *)
(* of Bpf. It appends its terms to a list, and its table of modes has a    *)
(* flag for every kind of term.                                            *)
(***************************************************************************)
EXTENDS Bpf, Sequences

Row(client, server, port) == [client |-> client, server |-> server, port |-> port]

FILTER_MODES == [full   |-> Row(TRUE, TRUE, TRUE),
                 hosts  |-> Row(TRUE, TRUE, FALSE),
                 client |-> Row(TRUE, FALSE, FALSE),
                 server |-> Row(FALSE, TRUE, FALSE),
                 port   |-> Row(FALSE, TRUE, TRUE)]

AppendIf(wanted, term) == IF wanted THEN <<term>> ELSE <<>>

Parts(a, m) ==
    LET flags == FILTER_MODES[IF m \in DOMAIN FILTER_MODES THEN m ELSE "full"]
    IN  AppendIf(/\ a.protocol # "unknown"
                 /\ a.protocol # "icmp" \/ a.server_port = None,
                 ProtoTerm(a.protocol))
        \o AppendIf(flags.client /\ a.client_ip # None, HostTerm(a.client_ip))
        \o AppendIf(flags.server /\ a.server_ip # None, HostTerm(a.server_ip))
        \o AppendIf(flags.port /\ a.server_port # None /\ a.protocol # "icmp",
                    PortTerm(a.server_port))

\* The list is empty, or all there is is a protocol.
NoFilter(parts) == parts = <<>> \/ (Len(parts) = 1 /\ parts[1].kind = "proto")
-----------------------------------------------------------------------------
(* Property                                                                *)

\* README: "Filter modes and the `before`/`after` window are unchanged from v1".
\* Of every alert in every mode v2 makes what v1 made, by another table and
\* another rule for what is too broad: the refusal, or a filter of the same
\* terms.
FilterAsV1 ==
    LET parts == Parts(parsed, mode)
    IN  /\ verdict = "no bpf" => NoFilter(parts)
        /\ verdict = "extract" =>
              ~NoFilter(parts) /\ filter = {parts[i] : i \in DOMAIN parts}
=============================================================================
