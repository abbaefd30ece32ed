----------------------------- MODULE MCReports ------------------------------
(* One client with two accounts; two positions of one instrument, one after *)
(* the other, and one of another coin in the other account.                 *)
EXTENDS Reports, TLC

CONSTANTS client, sub1, sub2

MCLegInfo == <<
    [sub |-> sub1, inst |-> "btc", underlying |-> "BTC", coin |-> "BTC", type |-> "C",
     strike |-> 10, expiry |-> 1, size |-> 2, pnl |-> 3, fee |-> -1],
    [sub |-> sub1, inst |-> "btc", underlying |-> "BTC", coin |-> "BTC", type |-> "C",
     strike |-> 10, expiry |-> 1, size |-> 1, pnl |-> -2, fee |-> -1],
    [sub |-> sub2, inst |-> "eth", underlying |-> "ETH", coin |-> "ETH", type |-> "P",
     strike |-> 12, expiry |-> 0, size |-> 3, pnl |-> 5, fee |-> 0]>>

MCUserOf == (sub1 :> client) @@ (sub2 :> client)
MCOwner == <<sub1, sub1, sub2>>
MCFirstBox == <<1, 1, 3>>
MCCtVal == ("BTC" :> 2) @@ ("ETH" :> 1)
MCPrice == [c \in {"BTC", "ETH"}, t \in 0..9 |-> ((2 * t) % 5) + 1]
MCHeld == [a \in {sub1, sub2}, c \in {"BTC", "ETH"}, t \in 0..9 |->
              IF c = "ETH" THEN (t + 1) % 2 ELSE IF t = 2 THEN -1 ELSE (t * t) % 3]
MCUpl == [l \in 1..9, t \in 0..9 |-> ((3 * t + l) % 4) - 1]

\* metrics.max_drawdown_pct against its definition, the largest of all falls from an earlier
\* value to a later one, for every short series of equity that is never negative.
ASSUME DrawdownIsWorst ==
    \A s \in UNION {[1..n -> 0..3] : n \in 2..4} :
        LET falls == {<<s[i] - s[j], s[i]>> : i, j \in DOMAIN s}
            worst == MaxDrawdown(s)
        IN  /\ \A i, j \in DOMAIN s : i <= j /\ s[i] > 0 => ~RatioLess(worst, <<s[i] - s[j], s[i]>>)
            /\ worst = <<0, 1>> \/ worst \in falls
=============================================================================
