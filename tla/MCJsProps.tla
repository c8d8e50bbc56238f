----------------------------- MODULE MCJsProps -----------------------------
\* The global object, and a class whose table is in ROM.
EXTENDS JsProps, TLC

CONSTANTS a, p, q, r, v

MCHash == (p :> 0 @@ q :> 1 @@ r :> 3)

Link(k, next, kind) == [key |-> k, next |-> next, kind |-> kind, value |-> v]

\* As mquickjs_build.c lays out three properties.
RomTable ==
    [rom |-> TRUE, count |-> 3, mask |-> 1, heads |-> (0 :> 4 @@ 1 :> 10),
     props |-> <<Link(p, 0, "normal"), Link(q, 0, "special"), Link(r, 7, "getset")>>]

MCStarts ==
    {[table |-> Empty, global |-> TRUE], [table |-> RomTable, global |-> FALSE]}
=============================================================================
