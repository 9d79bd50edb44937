------------------------------- MODULE Params -------------------------------
(***************************************************************************)
(* From configured and requested values to the parameters of one           *)
(* extraction: the validators of Settings in src/sycope_recorder/config.py,*)
(* _resolve_params of api.py, and compute_window of extraction.py.         *)
(***************************************************************************)
EXTENDS Integers, SequencesExt

CONSTANTS
    ClampMax,  \* CLAMP_MAX, the largest window on either side
    Defaults,  \* integers an operator may configure (BOUND)
    Numbers,   \* integers a client may ask for (BOUND)
    MaxGiven,  \* BOUND on how often a query repeats a key
    AlertTime  \* when the alert was raised

ASSUME ClampAssumption == ClampMax \in Nat /\ AlertTime \in Int
ASSUME NumbersAssumption == Numbers \subseteq Int /\ Defaults \subseteq Int
ASSUME GivenAssumption == MaxGiven \in Nat

VARIABLES
    env,      \* the SR_ variables as the operator wrote them
    settings, \* what Settings made of them
    query,    \* the query string of the current request
    params    \* the mode and the window resolved for it

vars == <<env, settings, query, params>>

\* What a client may put for an integer parameter: nothing, text, a number.
Blank == [kind |-> "blank"]
Text  == [kind |-> "text"]
RawInts == {Blank, Text} \union [kind : {"number"}, value : Numbers]

\* VALID_FILTER_MODES
Modes == {"full", "hosts", "client", "server", "port"}

RawModes == Modes \union {"", "bogus"}

Environments == [filter : RawModes, before : Defaults, after : Defaults]

\* Of each key the values it is given, in their order: none, one, or more.
Queries == [filter : BoundedSeq(RawModes, MaxGiven),
            before : BoundedSeq(RawInts, MaxGiven),
            after  : BoundedSeq(RawInts, MaxGiven)]

\* The validator of default_filter.
KnownFilter(m) == IF m \in Modes THEN m ELSE "full"

Load(e) == [e EXCEPT !.filter = KnownFilter(@)]

\* query_params.get(key) or default: the last value given, if it is not blank.
LastOr(values, default) == IF values = <<>> \/ Last(values) = "" THEN default ELSE Last(values)

\* Mistake: an unknown filter is taken as it comes.
ResolveModeUnchecked(q, s) == LastOr(q.filter, s.filter)

\* An empty or missing filter is the default, and so is an unknown one.
ResolveMode(q, s) ==
    LET asked == LastOr(q.filter, s.filter)
    IN  IF asked \in Modes THEN asked ELSE KnownFilter(s.filter)

\* Mistake: only the upper end is clamped.
ClampAbove(n) == IF n > ClampMax THEN ClampMax ELSE n

Clamp(n) == IF n > ClampMax THEN ClampMax ELSE IF n < 0 THEN 0 ELSE n

\* The last value counts here, too; what is no integer is the default.
ResolveInt(values, default) ==
    IF values # <<>> /\ Last(values).kind = "number" THEN Clamp(Last(values).value) ELSE default

ResolveParams(q, s) == [mode   |-> ResolveMode(q, s),
                        before |-> ResolveInt(q.before, s.before),
                        after  |-> ResolveInt(q.after, s.after)]

ComputeWindow(p) == [begin |-> AlertTime - p.before, end |-> AlertTime + p.after]

Nothing == [mode |-> "none"]

Init ==
    /\ env \in Environments
    /\ settings = Nothing
    /\ query = Nothing
    /\ params = Nothing

\* get_settings, once per process.
GetSettings ==
    /\ settings = Nothing
    /\ settings' = Load(env)
    /\ UNCHANGED <<env, query, params>>

Resolve ==
    /\ settings # Nothing
    /\ query = Nothing
    /\ query' \in Queries
    /\ params' = ResolveParams(query', settings)
    /\ UNCHANGED <<env, settings>>

Next == GetSettings \/ Resolve

Spec == Init /\ [][Next]_vars
-----------------------------------------------------------------------------
(* Properties                                                              *)

Resolved == params # Nothing

\* The window handed to npcapextract never misses the alert and is never wider
\* than the clamp on either side: design document, section 4.2, "before/after
\* at request time to [0, 86400]".
WindowSane ==
    Resolved =>
        LET w == ComputeWindow(params)
        IN  /\ AlertTime \in w.begin .. w.end
            /\ AlertTime - w.begin <= ClampMax
            /\ w.end - AlertTime <= ClampMax

\* Whatever was configured and asked for, the filter is built in a known mode:
\* the one asked for if no other is, the configured one if none that is known is
\* asked for, "full" if that is not known either.
ModeKnown ==
    Resolved =>
        LET asked == Range(query.filter)
        IN  /\ params.mode \in Modes
            /\ \A m \in Modes : asked = {m} => params.mode = m
            /\ asked \intersect Modes = {} => params.mode = KnownFilter(env.filter)
=============================================================================
