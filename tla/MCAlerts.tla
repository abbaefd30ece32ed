------------------------------ MODULE MCAlerts ------------------------------
(* One box, two processes that may check it.                               *)
EXTENDS Alerts, TLC

CONSTANTS w1, w2

\* c is nearer than a: a is never hit without c
MCSituations == {{}, {"c"}, {"a", "c"}}
MCNoSituation == {{}}
MCNoLead == <<>>
\* f two days before the expiry, e at the expiry
MCLead == [e |-> 0, f |-> 2]

Symmetry == Permutations(Workers)
=============================================================================
