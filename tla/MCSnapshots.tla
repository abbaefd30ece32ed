---------------------------- MODULE MCSnapshots -----------------------------
(* Two legs of one box.                                                    *)
EXTENDS Snapshots

CONSTANTS l1, l2, b, loop, backfill

MCBoxOf == [l \in Legs |-> b]
=============================================================================
