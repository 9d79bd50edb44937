---------------------------- MODULE LegacyParams ----------------------------
(***************************************************************************)
(* parse_url_params of the v1 listener, old/src/listener.py, beside the    *)
(* settings and _resolve_params of Params. Its configuration is not        *)
(* validated: it finds out about a bad default when it is used.            *)
(***************************************************************************)
EXTENDS Params

\* parse_qs drops blank values, and of the rest the first counts.
FirstGiven(values, blank, default) ==
    LET given == {i \in DOMAIN values : values[i] # blank}
    IN  IF given = {} THEN default
        ELSE values[CHOOSE i \in given : \A j \in given : i <= j]

\* An unknown filter is the default, whatever that is.
FilterMode(q, config) ==
    LET asked == FirstGiven(q.filter, "", config.filter)
    IN  IF asked \in Modes THEN asked ELSE config.filter

\* What is not an integer is the default, and both are clamped.
Window(values, default) ==
    LET raw == FirstGiven(values, Blank, Blank)
        n   == IF raw.kind = "number" THEN raw.value ELSE default
    IN  IF n < 0 THEN 0 ELSE IF n > ClampMax THEN ClampMax ELSE n

\* build_bpf_filter takes an unknown mode for "full".
ModeUsed(m) == IF m \in Modes THEN m ELSE "full"

ParseUrlParams(q, config) == [mode   |-> ModeUsed(FilterMode(q, config)),
                              before |-> Window(q.before, config.before),
                              after  |-> Window(q.after, config.after)]
-----------------------------------------------------------------------------
(* Properties                                                              *)

\* No key is given two values that differ, blank ones included.
Unambiguous(q) == \A key \in {"filter", "before", "after"} :
                     \A i, j \in DOMAIN q[key] : q[key][i] = q[key][j]

\* README: "Filter modes and the `before`/`after` window are unchanged from v1".
\* So they are if the query does not contradict itself: of two values v1 takes the
\* first and v2 the last. Although v2 validates when it loads its settings and v1
\* when it builds the filter, and a value that is wrong in the configuration meets
\* one that is wrong or blank in the request, both extract by the same ones.
ParamsAsV1 == Resolved /\ Unambiguous(query) => params = ParseUrlParams(query, env)
=============================================================================
