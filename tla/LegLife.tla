------------------------------ MODULE LegLife -------------------------------
(***************************************************************************)
(* What silver.position_leg promises of the legs of an account: a leg is   *)
(* shown once it has been opened, shown as closed only after it was closed,*)
(* never removed, and closed for good.  How snapshots, history rows and    *)
(* pipeline runs bring that about is left open.                            *)
(***************************************************************************)
CONSTANT Legs

VARIABLES
    truth,      \* each leg at the exchange: new, open, closed
    shown       \* its status in silver: absent, open, stale, closed

Init ==
    /\ truth = [l \in Legs |-> "new"]
    /\ shown = [l \in Legs |-> "absent"]

Trade ==
    /\ \E l \in Legs :
          \/ truth[l] = "new" /\ truth' = [truth EXCEPT ![l] = "open"]
          \/ truth[l] = "open" /\ truth' = [truth EXCEPT ![l] = "closed"]
    /\ UNCHANGED shown

Allowed(l, status) ==
    /\ shown[l] = "closed" => status = "closed"
    /\ shown[l] # "absent" => status # "absent"
    /\ status # "absent" => truth[l] # "new"
    /\ status = "closed" => truth[l] = "closed"

Publish ==
    /\ shown' \in [Legs -> {"absent", "open", "stale", "closed"}]
    /\ \A l \in Legs : Allowed(l, shown'[l])
    /\ UNCHANGED truth

Next == Trade \/ Publish

Spec == Init /\ [][Next]_<<truth, shown>>
=============================================================================
