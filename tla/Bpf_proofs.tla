----------------------------- MODULE Bpf_proofs -----------------------------
(***************************************************************************)
(* Proofs about the filter for any addresses and ports.                    *)
(***************************************************************************)
EXTENDS LegacyFilter, TLAPS

USE NoneAssumption

TermSet == [kind : {"proto"}, arg : Protocols]
             \union [kind : {"host"}, arg : Hosts]
             \union [kind : {"port"}, arg : Ports]

\* What the verdict says about the filter.
IInv ==
    /\ TypeOK
    /\ verdict = "extract" => /\ filter = Terms(parsed, mode)
                              /\ ~Useless(Terms(parsed, mode))
    /\ verdict = "no bpf" => Useless(Terms(parsed, mode))
-----------------------------------------------------------------------------
LEMMA TermsTyped ==
  ASSUME NEW a \in ParsedAlerts, NEW m
  PROVE  Terms(a, m) \subseteq TermSet
<1>1. /\ a.client_ip # None => a.client_ip \in Hosts
      /\ a.server_ip # None => a.server_ip \in Hosts
      /\ a.server_port # None => a.server_port \in Ports
  BY DEF ParsedAlerts
<1>. QED
  BY <1>1 DEF Terms, WantsPort, Optional, ProtoTerm, HostTerm, PortTerm, TermSet

\* Each term an alert contributes selects every packet of its flow.
LEMMA TermsSelectFlow ==
  ASSUME NEW a \in ParsedAlerts, NEW m, NEW p \in Packets, InFlow(a, p)
  PROVE  Matches(Terms(a, m), p)
<1>. SUFFICES ASSUME NEW t \in Terms(a, m) PROVE Selects(t, p)
  BY DEF Matches
<1>0. FromClient(a, p) \/ FromServer(a, p)
  BY DEF InFlow
<1>1. CASE t = ProtoTerm(a.protocol) /\ a.protocol \in Protocols
  <2>1. a.protocol = p.proto
    BY <1>1 DEF InFlow, Protocols
  <2>. QED
    BY <1>1, <2>1 DEF Selects, ProtoTerm
<1>2. CASE t = HostTerm(a.client_ip) /\ a.client_ip # None
  <2>1. a.client_ip \in {p.src, p.dst}
    BY <1>0, <1>2 DEF FromClient, FromServer, Known
  <2>. QED
    BY <1>2, <2>1 DEF Selects, HostTerm
<1>3. CASE t = HostTerm(a.server_ip) /\ a.server_ip # None
  <2>1. a.server_ip \in {p.src, p.dst}
    BY <1>0, <1>3 DEF FromClient, FromServer, Known
  <2>. QED
    BY <1>3, <2>1 DEF Selects, HostTerm
<1>4. CASE /\ t = PortTerm(a.server_port) /\ a.server_port # None
           /\ a.protocol \in {"tcp", "udp", "unknown"}
  <2>1. p.proto # "icmp"
    BY <1>4 DEF InFlow
  <2>2. a.server_port \in {p.sport, p.dport}
    BY <1>0, <1>4, <2>1 DEF FromClient, FromServer, Known
  <2>. QED
    BY <1>4, <2>2 DEF Selects, PortTerm
<1>. QED
  BY <1>1, <1>2, <1>3, <1>4 DEF Terms, WantsPort, Optional

LEMMA Invariance == Spec => []IInv
<1>1. Init => IInv
  BY DEF Init, IInv, TypeOK
<1>2. IInv /\ [Next]_vars => IInv'
  <2>1. ASSUME IInv, BuildBpfFilter PROVE IInv'
    <3>1. Terms(parsed, mode) \subseteq TermSet
      BY <2>1, TermsTyped DEF IInv, TypeOK
    <3>2. CASE Useless(Terms(parsed, mode))
      BY <2>1, <3>2 DEF IInv, TypeOK, BuildBpfFilter
    <3>3. CASE ~Useless(Terms(parsed, mode))
      BY <2>1, <3>1, <3>3 DEF IInv, TypeOK, BuildBpfFilter, TermSet
    <3>. QED
      BY <3>2, <3>3
  <2>2. ASSUME IInv, UNCHANGED vars PROVE IInv'
    BY <2>2 DEF IInv, TypeOK, vars
  <2>. QED
    BY <2>1, <2>2 DEF Next
<1>. QED
  BY <1>1, <1>2, PTL DEF Spec

\* Every variable keeps its type.
THEOREM TypeCorrect == Spec => []TypeOK
  BY Invariance, PTL DEF IInv

\* An extraction never misses its alert: whatever the addresses and ports, the
\* filter selects every packet of the alert's flow in both directions.
THEOREM FlowNeverMissed == Spec => []FlowCovered
<1>1. IInv => FlowCovered
  BY TermsSelectFlow DEF IInv, TypeOK, FlowCovered
<1>. QED
  BY <1>1, Invariance, PTL

\* The modes are ordered by what they select, whatever the addresses and ports.
THEOREM ModesOrdered == Spec => []ModesNarrow
<1>1. ASSUME NEW a, NEW m, NEW n, Includes(m) \subseteq Includes(n)
      PROVE  Terms(a, m) \subseteq Terms(a, n)
  BY <1>1 DEF Terms, WantsPort, Optional
<1>2. ASSUME NEW a, NEW m, NEW n, Includes(m) \subseteq Includes(n)
      PROVE  {p \in Packets : Matches(Terms(a, n), p)}
                \subseteq {p \in Packets : Matches(Terms(a, m), p)}
  BY <1>1, <1>2 DEF Matches
<1>3. /\ \A m : Includes(m) \subseteq Includes("full")
      /\ Includes("client") \subseteq Includes("hosts")
      /\ Includes("server") \subseteq Includes("hosts")
      /\ Includes("server") \subseteq Includes("port")
  BY DEF Includes
<1>4. ModesNarrow
  BY <1>2, <1>3 DEF ModesNarrow
<1>. QED
  BY <1>4, PTL

\* With another address and another port to tell a packet by, an alert is turned
\* away if and only if its terms would select all traffic of its protocol.
THEOREM RejectionExact ==
  ASSUME \A h \in Hosts : \E g \in Hosts : g # h,
         \A n \in Ports : \E o \in Ports : o # n,
         Hosts # {}, Ports # {}
  PROVE  Spec => []RejectedIffTooBroad
<1>. DEFINE TooBroad(a, m) == \A p \in Packets :
                                a.protocol \in {p.proto, "unknown"} => Matches(Terms(a, m), p)
<1>1. ASSUME NEW a \in ParsedAlerts, NEW m, Useless(Terms(a, m))
      PROVE  TooBroad(a, m)
  <2>. SUFFICES ASSUME NEW p \in Packets, a.protocol \in {p.proto, "unknown"},
                       NEW t \in Terms(a, m)
                PROVE  Selects(t, p)
    BY DEF Matches
  <2>1. t.kind = "proto"
    BY <1>1 DEF Useless
  <2>2. t = ProtoTerm(a.protocol) /\ a.protocol \in Protocols
    BY <2>1 DEF Terms, Optional, HostTerm, PortTerm
  <2>. QED
    BY <2>2 DEF Selects, ProtoTerm, Protocols
<1>2. ASSUME NEW a \in ParsedAlerts, NEW m, ~Useless(Terms(a, m))
      PROVE  ~TooBroad(a, m)
  <2>. DEFINE proto == IF a.protocol = "unknown" THEN "tcp" ELSE a.protocol
              Packet(h, n) == [src |-> h, dst |-> h, proto |-> proto,
                               sport |-> IF proto = "icmp" THEN None ELSE n,
                               dport |-> IF proto = "icmp" THEN None ELSE n]
  <2>0. a.protocol \in Protocols \union {"unknown"}
    BY DEF ParsedAlerts
  <2>1. ASSUME NEW h \in Hosts, NEW n \in Ports
        PROVE  Packet(h, n) \in Packets /\ a.protocol \in {Packet(h, n).proto, "unknown"}
    BY <2>0 DEF Packets, Protocols
  <2>2. PICK t \in Terms(a, m) : t.kind # "proto"
    BY <1>2 DEF Useless
  <2>3. t \in TermSet
    BY TermsTyped
  <2>4. CASE t.kind = "host"
    <3>1. t.arg \in Hosts
      BY <2>3, <2>4 DEF TermSet
    <3>2. PICK g \in Hosts : g # t.arg
      BY <3>1
    <3>3. PICK n \in Ports : TRUE
      OBVIOUS
    <3>4. ~Selects(t, Packet(g, n))
      BY <2>4, <3>2 DEF Selects
    <3>. QED
      BY <2>1, <2>2, <3>4 DEF Matches
  <2>5. CASE t.kind = "port"
    <3>1. t = PortTerm(a.server_port) /\ WantsPort(a, m)
      BY <2>2, <2>5 DEF Terms, Optional, ProtoTerm, HostTerm
    <3>2. t.arg \in Ports /\ proto # "icmp"
      BY <2>3, <2>5, <3>1 DEF TermSet, WantsPort
    <3>3. PICK n \in Ports : n # t.arg
      BY <3>2
    <3>4. PICK h \in Hosts : TRUE
      OBVIOUS
    <3>5. ~Selects(t, Packet(h, n))
      BY <2>5, <3>2, <3>3 DEF Selects
    <3>. QED
      BY <2>1, <2>2, <3>5 DEF Matches
  <2>. QED
    BY <2>2, <2>3, <2>4, <2>5 DEF TermSet
<1>3. IInv => RejectedIffTooBroad
  BY <1>1, <1>2 DEF IInv, TypeOK, RejectedIffTooBroad
<1>. QED
  BY <1>3, Invariance, PTL
-----------------------------------------------------------------------------
(* The filter of v1                                                        *)

Elements(s) == {s[i] : i \in DOMAIN s}

LEMMA AppendIfElements ==
  ASSUME NEW wanted \in BOOLEAN, NEW T, NEW term \in T
  PROVE  /\ AppendIf(wanted, term) \in Seq(T)
         /\ Elements(AppendIf(wanted, term)) = Optional(wanted, term)
         /\ Len(AppendIf(wanted, term)) = IF wanted THEN 1 ELSE 0
<1>1. CASE wanted
  <2>1. AppendIf(wanted, term) = <<term>>
    BY <1>1 DEF AppendIf
  <2>2. <<term>> \in Seq(T) /\ Len(<<term>>) = 1 /\ DOMAIN <<term>> = {1} /\ <<term>>[1] = term
    OBVIOUS
  <2>3. Elements(<<term>>) = {term}
    BY <2>2 DEF Elements
  <2>. QED
    BY <1>1, <2>1, <2>2, <2>3 DEF Optional
<1>2. CASE ~wanted
  <2>1. AppendIf(wanted, term) = <<>>
    BY <1>2 DEF AppendIf
  <2>2. <<>> \in Seq(T) /\ Len(<<>>) = 0 /\ DOMAIN <<>> = {}
    OBVIOUS
  <2>. QED
    BY <1>2, <2>1, <2>2 DEF Elements, Optional
<1>. QED
  BY <1>1, <1>2

Concat(S) ==
    \A s, t \in Seq(S) : /\ s \o t \in Seq(S)
                         /\ Len(s \o t) = Len(s) + Len(t)
                         /\ Elements(s \o t) = Elements(s) \union Elements(t)

LEMMA ConcatElements == ASSUME NEW S PROVE Concat(S)
<1>. SUFFICES ASSUME NEW s \in Seq(S), NEW t \in Seq(S)
              PROVE  /\ s \o t \in Seq(S)
                     /\ Len(s \o t) = Len(s) + Len(t)
                     /\ Elements(s \o t) = Elements(s) \union Elements(t)
  BY DEF Concat
<1>1. s \o t \in Seq(S) /\ Len(s \o t) = Len(s) + Len(t)
  OBVIOUS
<1>2. \A i \in DOMAIN (s \o t) :
         (s \o t)[i] = IF i <= Len(s) THEN s[i] ELSE t[i - Len(s)]
  OBVIOUS
<1>3. \A i \in DOMAIN s : i \in DOMAIN (s \o t) /\ (s \o t)[i] = s[i]
  BY <1>1, <1>2
<1>4. \A i \in DOMAIN t : /\ i + Len(s) \in DOMAIN (s \o t)
                          /\ (s \o t)[i + Len(s)] = t[i]
  BY <1>1, <1>2
<1>5. \A i \in DOMAIN (s \o t) : i \in DOMAIN s \/ i - Len(s) \in DOMAIN t
  BY <1>1
<1>. QED
  BY <1>1, <1>2, <1>3, <1>4, <1>5 DEF Elements

\* What v1 appends are the terms of v2, and it turns away the same alerts.
LEMMA PartsAreTerms ==
  ASSUME NEW a \in ParsedAlerts, NEW m \in Modes \union {"other"}
  PROVE  /\ Elements(Parts(a, m)) = Terms(a, m)
         /\ NoFilter(Parts(a, m)) <=> Useless(Terms(a, m))
<1>. DEFINE flags == FILTER_MODES[IF m \in DOMAIN FILTER_MODES THEN m ELSE "full"]
            w1 == a.protocol # "unknown" /\ (a.protocol # "icmp" \/ a.server_port = None)
            w2 == flags.client /\ a.client_ip # None
            w3 == flags.server /\ a.server_ip # None
            w4 == flags.port /\ a.server_port # None /\ a.protocol # "icmp"
            t1 == ProtoTerm(a.protocol)
            t2 == HostTerm(a.client_ip)
            t3 == HostTerm(a.server_ip)
            t4 == PortTerm(a.server_port)
            s1 == AppendIf(w1, t1)
            s2 == AppendIf(w2, t2)
            s3 == AppendIf(w3, t3)
            s4 == AppendIf(w4, t4)
            T  == {t1, t2, t3, t4}
<1>1. /\ flags.client <=> "client" \in Includes(m)
      /\ flags.server <=> "server" \in Includes(m)
      /\ flags.port <=> "port" \in Includes(m)
      /\ flags.client \in BOOLEAN /\ flags.server \in BOOLEAN /\ flags.port \in BOOLEAN
  <2>1. CASE m = "other"
    BY <2>1 DEF Includes, FILTER_MODES, Row
  <2>2. CASE m = "full"
    BY <2>2 DEF Includes, FILTER_MODES, Row
  <2>3. CASE m = "hosts"
    BY <2>3 DEF Includes, FILTER_MODES, Row
  <2>4. CASE m = "client"
    BY <2>4 DEF Includes, FILTER_MODES, Row
  <2>5. CASE m = "server"
    BY <2>5 DEF Includes, FILTER_MODES, Row
  <2>6. CASE m = "port"
    BY <2>6 DEF Includes, FILTER_MODES, Row
  <2>. QED
    BY <2>1, <2>2, <2>3, <2>4, <2>5, <2>6 DEF Modes
<1>2. a.protocol \in Protocols \union {"unknown"}
  BY DEF ParsedAlerts
<1>3. Terms(a, m) = Optional(w1, t1) \union Optional(w2, t2)
                       \union Optional(w3, t3) \union Optional(w4, t4)
  BY <1>1, <1>2 DEF Terms, WantsPort, Optional, Protocols
<1>4. Parts(a, m) = s1 \o s2 \o s3 \o s4
  BY DEF Parts
<1>. HIDE DEF flags
<1>5. w1 \in BOOLEAN /\ w2 \in BOOLEAN /\ w3 \in BOOLEAN /\ w4 \in BOOLEAN
  BY <1>1
<1>. HIDE DEF w1, w2, w3, w4, t1, t2, t3, t4
<1>6. /\ s1 \in Seq(T) /\ Elements(s1) = Optional(w1, t1) /\ Len(s1) = (IF w1 THEN 1 ELSE 0)
      /\ s2 \in Seq(T) /\ Elements(s2) = Optional(w2, t2) /\ Len(s2) = (IF w2 THEN 1 ELSE 0)
      /\ s3 \in Seq(T) /\ Elements(s3) = Optional(w3, t3) /\ Len(s3) = (IF w3 THEN 1 ELSE 0)
      /\ s4 \in Seq(T) /\ Elements(s4) = Optional(w4, t4) /\ Len(s4) = (IF w4 THEN 1 ELSE 0)
  BY <1>5, AppendIfElements
<1>. HIDE DEF s1, s2, s3, s4, T
<1>7. /\ Parts(a, m) \in Seq(T)
      /\ Len(Parts(a, m)) = Len(s1) + Len(s2) + Len(s3) + Len(s4)
      /\ Elements(Parts(a, m)) = Elements(s1) \union Elements(s2)
                                    \union Elements(s3) \union Elements(s4)
  <2>0. ASSUME NEW s \in Seq(T), NEW t \in Seq(T)
        PROVE  /\ s \o t \in Seq(T) /\ Len(s \o t) = Len(s) + Len(t)
               /\ Elements(s \o t) = Elements(s) \union Elements(t)
    <3>1. Concat(T)
      BY ConcatElements
    <3>. QED
      BY <3>1, Zenon DEF Concat
  <2>. DEFINE s12 == s1 \o s2
              s123 == s12 \o s3
  <2>1. /\ s12 \in Seq(T) /\ Len(s12) = Len(s1) + Len(s2)
        /\ Elements(s12) = Elements(s1) \union Elements(s2)
    BY <1>6, <2>0, Zenon
  <2>2. Parts(a, m) = s123 \o s4
    BY <1>4
  <2>. HIDE DEF s12
  <2>3. /\ s123 \in Seq(T) /\ Len(s123) = Len(s12) + Len(s3)
        /\ Elements(s123) = Elements(s12) \union Elements(s3)
    BY <1>6, <2>0, <2>1, Zenon
  <2>. HIDE DEF s123
  <2>4. /\ Parts(a, m) \in Seq(T) /\ Len(Parts(a, m)) = Len(s123) + Len(s4)
        /\ Elements(Parts(a, m)) = Elements(s123) \union Elements(s4)
    <3>1. /\ s123 \o s4 \in Seq(T) /\ Len(s123 \o s4) = Len(s123) + Len(s4)
          /\ Elements(s123 \o s4) = Elements(s123) \union Elements(s4)
      BY <1>6, <2>0, <2>3, Zenon
    <3>. HIDE DEF Parts
    <3>. QED
      BY <2>2, <3>1, Zenon
  <2>. QED
    BY <2>1, <2>3, <2>4
<1>8. Elements(Parts(a, m)) = Terms(a, m)
  BY <1>3, <1>6, <1>7
<1>9. /\ t1.kind = "proto" /\ t2.kind # "proto" /\ t3.kind # "proto" /\ t4.kind # "proto"
  BY DEF t1, t2, t3, t4, ProtoTerm, HostTerm, PortTerm
<1>10. ASSUME Useless(Terms(a, m)) PROVE NoFilter(Parts(a, m))
  <2>1. ~w2 /\ ~w3 /\ ~w4
    BY <1>3, <1>9, <1>10 DEF Useless, Optional
  <2>2. Len(Parts(a, m)) \in {0, 1}
    BY <1>6, <1>7, <2>1
  <2>3. CASE Len(Parts(a, m)) = 0
    BY <1>7, <2>3 DEF NoFilter
  <2>4. CASE Len(Parts(a, m)) = 1
    <3>1. Parts(a, m)[1] \in Terms(a, m)
      BY <1>7, <1>8, <2>4 DEF Elements
    <3>. QED
      BY <1>10, <2>4, <3>1 DEF NoFilter, Useless
  <2>. QED
    BY <2>2, <2>3, <2>4
<1>11. ASSUME NoFilter(Parts(a, m)) PROVE Useless(Terms(a, m))
  <2>. SUFFICES ASSUME NEW t \in Terms(a, m) PROVE t.kind = "proto"
    BY DEF Useless
  <2>1. PICK i \in DOMAIN Parts(a, m) : t = Parts(a, m)[i]
    BY <1>8 DEF Elements
  <2>2. Len(Parts(a, m)) = 1 /\ i = 1
    BY <1>7, <1>11, <2>1 DEF NoFilter
  <2>. QED
    BY <1>11, <2>1, <2>2 DEF NoFilter
<1>. QED
  BY <1>8, <1>10, <1>11

\* v2 extracts by v1's filter, and turns away what v1 turned away.
THEOREM KeepsV1 == Spec => []FilterAsV1
<1>1. IInv => FilterAsV1
  BY PartsAreTerms DEF IInv, TypeOK, FilterAsV1, Elements
<1>. QED
  BY <1>1, Invariance, PTL
=============================================================================
