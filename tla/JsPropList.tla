----------------------------- MODULE JsPropList -----------------------------
(***************************************************************************)
(* What the property table of an object promises (find_own_property,       *)
(* JS_DefinePropertyInternal, JS_SetPropertyInternal and JS_DeleteProperty *)
(* in mquickjs/mquickjs.c): a list of properties in the order they were    *)
(* made, no key twice.                                                     *)
(***************************************************************************)
EXTENDS SequencesExt

CONSTANTS Keys, Kinds, Values

VARIABLE list

Has(k) == \E i \in DOMAIN list : list[i].key = k

Init == list \in Seq([key : Keys, kind : Kinds, value : Values])

Add(k) ==
    /\ ~Has(k)
    /\ \E kind \in Kinds, v \in Values :
        list' = Append(list, [key |-> k, kind |-> kind, value |-> v])

\* A new value; a property keeps its kind and its place.
Store(k) ==
    \E i \in DOMAIN list, v \in Values :
        list[i].key = k /\ list' = [list EXCEPT ![i].value = v]

Drop(k) ==
    \E i \in DOMAIN list :
        list[i].key = k /\ list' = RemoveAt(list, i)

Next == \E k \in Keys : Add(k) \/ Store(k) \/ Drop(k)

Spec == Init /\ [][Next]_list
=============================================================================
