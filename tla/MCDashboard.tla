----------------------------- MODULE MCDashboard -----------------------------
(* One page, on which two polls of the switch may overtake each other.      *)
EXTENDS Dashboard

MCTotal == [a |-> 2, b |-> 1]
MCTypes == DOMAIN MCTotal

\* Either call may be refused; if not, they set different types and counts.
MCAsks == <<{[type |-> "a", count |-> 1], [type |-> "a", count |-> 3]},
            {[type |-> "b", count |-> 1], [type |-> "b", count |-> 2]}>>

MCSlots == [backpressure |-> {1, 2}, groups |-> {1}]
=============================================================================
