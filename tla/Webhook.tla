------------------------------ MODULE Webhook ------------------------------
(***************************************************************************)
(* What the recorder promises to a client of its webhook, with nothing of  *)
(* how: a posted alert is rejected, refused because the recorder is busy,  *)
(* or admitted; at most Limit alerts are admitted at a time; an admitted   *)
(* alert is answered once, unless the process dies under it.               *)
(* The promise is read off extract() in src/sycope_recorder/api.py, whose  *)
(* contract is that of v1: Listener and LegacyListener are shown to keep it.*)
(***************************************************************************)
EXTENDS Naturals, FiniteSets

CONSTANTS
    Clients,    \* those who post alerts, one exchange each at a time
    Limit,      \* how many alerts may be admitted at once
    Rejections  \* the codes of a request that is malformed

VARIABLE
    exchange   \* exchange[c]: where c's latest exchange stands

Admitted == {c \in Clients : exchange[c] = "admitted"}
Room     == Cardinality(Admitted) < Limit

Init == exchange = [c \in Clients |-> "none"]

MoveTo(c, standing) == exchange' = [exchange EXCEPT ![c] = standing]

Post(c) == exchange[c] \notin {"open", "admitted"} /\ MoveTo(c, "open")

\* The request is malformed, whatever the load.
Reject(c) == exchange[c] = "open" /\ \E code \in Rejections : MoveTo(c, code)

Refuse(c) == exchange[c] = "open" /\ ~Room /\ MoveTo(c, "429")

Admit(c) == exchange[c] = "open" /\ Room /\ MoveTo(c, "admitted")

Answer(c) ==
    exchange[c] = "admitted" /\ \E code \in {"200", "500"} : MoveTo(c, code)

\* The client gives up before its request was decided upon.
HangUp(c) == exchange[c] = "open" /\ MoveTo(c, "lost")

\* The recorder's process dies: nobody who waits will be answered.
Die == exchange' = [c \in Clients |->
                      IF exchange[c] \in {"open", "admitted"} THEN "lost"
                                                              ELSE exchange[c]]

Next == \/ \E c \in Clients : \/ Post(c) \/ Reject(c) \/ Refuse(c)
                              \/ Admit(c) \/ Answer(c) \/ HangUp(c)
        \/ Die

Safe == Init /\ [][Next]_exchange

Spec == Safe /\ \A c \in Clients : WF_exchange(Answer(c))
=============================================================================
