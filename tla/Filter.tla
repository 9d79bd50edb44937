------------------------------- MODULE Filter -------------------------------
(***************************************************************************)
(* The filter of an extraction, as a value: the terms build_bpf_filter of  *)
(* src/sycope_recorder/bpf.py chooses for a parsed alert and a filter mode,*)
(* and what a filter selects.                                              *)
(*                                                                         *)
(* A filter is the set of its terms, which the code joins with "and". What *)
(* it means is defined on packets, after the pcap-filter language.         *)
(***************************************************************************)
EXTENDS Naturals

CONSTANTS
    Hosts,  \* IP addresses
    Ports,  \* port numbers
    None    \* a field the alert does not have

ASSUME NoneAssumption == None \notin Hosts \union Ports

Protocols == {"tcp", "udp", "icmp"}

ParsedAlerts == [client_ip   : Hosts \union {None},
                 server_ip   : Hosts \union {None},
                 server_port : Ports \union {None},
                 protocol    : Protocols \union {"unknown"}]

Modes == {"full", "hosts", "client", "server", "port"}

\* Mistake: two columns of the table are swapped in two of its rows.
IncludesMixedUp(m) ==
    CASE m = "hosts"  -> {"client", "server"}
      [] m = "client" -> {"server"}
      [] m = "server" -> {"client"}
      [] m = "port"   -> {"server", "port"}
      [] OTHER        -> {"client", "server", "port"}

\* FILTER_MODES; a mode that is not in the table is taken for "full".
Includes(m) ==
    CASE m = "hosts"  -> {"client", "server"}
      [] m = "client" -> {"client"}
      [] m = "server" -> {"server"}
      [] m = "port"   -> {"server", "port"}
      [] OTHER        -> {"client", "server", "port"}

ProtoTerm(proto) == [kind |-> "proto", arg |-> proto]
HostTerm(ip)     == [kind |-> "host", arg |-> ip]
PortTerm(port)   == [kind |-> "port", arg |-> port]

\* Mistake: a port that is not there is put in the filter.
WantsPortUnchecked(a, m) ==
    "port" \in Includes(m) /\ a.protocol \in {"tcp", "udp", "unknown"}

\* Mistake: ICMP is given a port.
WantsPortForIcmp(a, m) == "port" \in Includes(m) /\ a.server_port # None

\* A port term is for tcp, udp and an unknown protocol, never for icmp.
WantsPort(a, m) ==
    /\ "port" \in Includes(m)
    /\ a.server_port # None
    /\ a.protocol \in {"tcp", "udp", "unknown"}

Optional(wanted, term) == IF wanted THEN {term} ELSE {}

Terms(a, m) ==
    Optional(/\ a.protocol \in Protocols
             /\ ~(a.protocol = "icmp" /\ a.server_port # None),
             ProtoTerm(a.protocol))
    \union
    Optional("client" \in Includes(m) /\ a.client_ip # None, HostTerm(a.client_ip))
    \union
    Optional("server" \in Includes(m) /\ a.server_ip # None, HostTerm(a.server_ip))
    \union
    Optional(WantsPort(a, m), PortTerm(a.server_port))

\* Mistake: a bare protocol is let through.
UselessOnlyIfEmpty(terms) == terms = {}

\* No terms at all, or a bare protocol.
Useless(terms) == \A t \in terms : t.kind = "proto"
-----------------------------------------------------------------------------
(* What a filter selects                                                   *)

\* ICMP has no ports.
Packets == [src : Hosts, dst : Hosts, proto : {"tcp", "udp"},
            sport : Ports, dport : Ports]
             \union [src : Hosts, dst : Hosts, proto : {"icmp"},
                     sport : {None}, dport : {None}]

Selects(term, p) ==
    CASE term.kind = "proto" -> p.proto = term.arg
      [] term.kind = "host"  -> term.arg \in {p.src, p.dst}
      [] term.kind = "port"  -> term.arg \in {p.sport, p.dport}

Matches(terms, p) == \A t \in terms : Selects(t, p)

\* The packets of the alert's flow, in both directions, as far as the alert
\* tells: a field it lacks may be anything.
Known(field, value) == field = None \/ field = value

FromClient(a, p) == /\ Known(a.client_ip, p.src) /\ Known(a.server_ip, p.dst)
                    /\ p.proto # "icmp" => Known(a.server_port, p.dport)
FromServer(a, p) == /\ Known(a.server_ip, p.src) /\ Known(a.client_ip, p.dst)
                    /\ p.proto # "icmp" => Known(a.server_port, p.sport)

\* A flow of unknown protocol that names a port is one of a protocol with ports.
InFlow(a, p) ==
    /\ \/ a.protocol = p.proto
       \/ a.protocol = "unknown" /\ (a.server_port # None => p.proto # "icmp")
    /\ FromClient(a, p) \/ FromServer(a, p)
=============================================================================
