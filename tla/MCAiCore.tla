------------------------------ MODULE MCAiCore ------------------------------
(* AiCore on small instances. *)
EXTENDS AiCore

Key(n) == [type |-> "KEY", a |-> n, b |-> 0]
MCOneKey == {Key(1)}
MCNoSignals == {}

\* One caller that creates and cancels timers in turn, before the loop runs:
\* some of the behaviours of Spec, few enough to follow all 255 generations.
CreateAndCancel == Create(1, FALSE) \/ \E id \in Live : Cancel(id)
ReuseSpec == Init /\ [][CreateAndCancel]_vars
=============================================================================
