------------------------------ MODULE GoldSync ------------------------------
(***************************************************************************)
(* What the recompute machinery promises, without threads, locks or        *)
(* crashes: admins commit versions of the box rules and pins, and from     *)
(* time to time a version of each is published to gold.  What is published *)
(* was committed, and nothing published is ever taken back.                *)
(***************************************************************************)
EXTENDS Integers

VARIABLES
    version,    \* number of committed Box builder writes
    gold        \* the version of the rules and of the pins gold was built from

Init == version = 0 /\ gold = [rules |-> 0, pins |-> 0]

Write == version' = version + 1 /\ UNCHANGED gold

Publish ==
    /\ \E r \in gold.rules..version, p \in gold.pins..version :
            gold' = [rules |-> r, pins |-> p]
    /\ UNCHANGED version

Next == Write \/ Publish

Spec == Init /\ [][Next]_<<version, gold>>
=============================================================================
