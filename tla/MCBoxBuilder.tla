---------------------------- MODULE MCBoxBuilder ----------------------------
(* Small accounts for TLC: box 1 is unassigned, the other seeded boxes have *)
(* rules.                                                                  *)
EXTENDS BoxBuilder, TLC

CONSTANTS a1, a2, l1, l2, u, x, y

\* Two legs, the rules of box 2 claim one of them
MCRulePref == (l1 :> <<2>>) @@ (l2 :> <<>>)
MCSeedName == <<u, x>>

\* One leg, claimed by the rules of box 2, then box 3
MCOneLegRulePref == l1 :> <<2, 3>>
MCThreeSeedName == <<u, x, y>>
=============================================================================
