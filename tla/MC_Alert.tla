------------------------------ MODULE MC_Alert ------------------------------
(***************************************************************************)
(* Alert with 10 milliseconds to the second and the threshold at 20. The   *)
(* fields are parsed apart from each other, so one of them at a time takes *)
(* all its values, two aliases deep.                                       *)
(***************************************************************************)
EXTENDS LegacyAlert, SequencesExt

Noise == {[absent |-> TRUE], [null |-> TRUE], [bool |-> TRUE], [int |-> 0], [str |-> ""]}

IpRaws    == Noise \union {[str |-> "h1"], [str |-> "h2"], [obj |-> "h1"], [obj |-> ""],
                           [obj |-> None]}
PortRaws  == Noise \union {[int |-> 2], [int |-> 3], [int |-> -1], [str |-> "3"],
                           [str |-> "0"], [str |-> "+3"], [str |-> "tcp"]}
ProtoRaws == Noise \union {[int |-> 1], [int |-> 6], [int |-> 17], [int |-> 99],
                           [str |-> "tcp"], [str |-> "UDP"], [str |-> "icmp"],
                           [str |-> "6"], [str |-> "http"]}
TimeRaws  == Noise \union {[int |-> n] : n \in {-5, 3, 20, 21, 50}}
                   \union {[str |-> "30"], [str |-> "07.26"], [unbounded |-> TRUE]}
StampRaws == {[absent |-> TRUE], [int |-> 5], [str |-> "07.26"], [str |-> "26-07"]}
IdRaws(n) == {[absent |-> TRUE], [null |-> TRUE]}
                \union [pieces : SeqOf({"a", "b", "alert", "/", "e-acute"}, n)]

TwoHosts == {"h1", "h2"}
Texts    == [s \in {"0", "3", "+3", "6", "30"} |->
                CASE s = "0" -> 0 [] s \in {"3", "+3"} -> 3 [] s = "6" -> 6 [] s = "30" -> 30]
Digits   == {"0", "3", "6", "30"}
OneStamp == [s \in {"07.26"} |-> 7]
Letters  == {"e-acute"}
Alphabet == {"a", "b", "None", "alert", "alert_<time>"}

Nothing == <<[absent |-> TRUE], [absent |-> TRUE]>>

Plain == [client |-> Nothing, server |-> Nothing, port |-> Nothing,
          protocol |-> Nothing, time |-> Nothing, stamp |-> [absent |-> TRUE],
          id |-> [absent |-> TRUE], alertId |-> [absent |-> TRUE]]

Posted ==
    {[Plain EXCEPT !.client = <<x, y>>] : x, y \in IpRaws}
    \union {[Plain EXCEPT !.server = <<x, y>>] : x, y \in IpRaws}
    \union {[Plain EXCEPT !.port = <<x, y>>] : x, y \in PortRaws}
    \union {[Plain EXCEPT !.protocol = <<x, y>>] : x, y \in ProtoRaws}
    \union {[Plain EXCEPT !.time = <<x, y>>, !.stamp = s] :
               x, y \in TimeRaws, s \in StampRaws}
    \union {[Plain EXCEPT !.id = x, !.alertId = y] : x \in IdRaws(3), y \in IdRaws(1)}
=============================================================================
