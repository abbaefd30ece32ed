------------------------------- MODULE Domain -------------------------------
(***************************************************************************)
(* The pure functions of the domain layer: contracts and expiries, which   *)
(* leg a fill belongs to, the geometry of the price chart, and trade and   *)
(* equity statistics.                                                      *)
(***************************************************************************)
EXTENDS Integers, FiniteSets, FiniteSetsExt, Sequences, SequencesExt

CONSTANTS
    None,           \* Python's None
    DayLength,      \* units of time per day
    SettleAt,       \* OPTION_SETTLE_UTC: the time of day an option expires
    Tolerance,      \* FILL_WINDOW_TOLERANCE
    CtVal           \* core.contract_size: of an underlying, None when it has no row

ASSUME DomainAssumption ==
    /\ DayLength \in Nat \ {0} /\ SettleAt \in 0..(DayLength - 1) /\ Tolerance \in Nat
    /\ None \notin Int

Day(t) == t \div DayLength

---------------------------------------------------------------------------
(* Instruments and contracts.                                              *)

ExpiresAt(expiry) == IF expiry = None THEN None ELSE expiry * DayLength + SettleAt

\* unknown when the size or the contract is; the payoff counts a contract as one coin then
SizeInCoin(underlying, size) ==
    IF size = None \/ CtVal[underlying] = None THEN None ELSE size * CtVal[underlying]

CtValOrDefault(underlying) == IF CtVal[underlying] = None THEN 1 ELSE CtVal[underlying]

---------------------------------------------------------------------------
(* Fills.  A window is a leg, when it was opened, and closed (None: open). *)

\* Mutant: the first leg that fits
FirstMatch(hits) == CHOOSE w \in hits : \A v \in hits : w.from <= v.from

\* a fill that closes one leg opens the next at the same time: the leg opened last
LastMatch(hits) == CHOOSE w \in hits : \A v \in hits : w.from >= v.from

\* of the windows of the fill's own account and instrument; None: no leg fits
MatchFill(at, windows) ==
    LET hits == {w \in windows : /\ w.from - Tolerance <= at
                                 /\ w.to = None \/ at <= w.to + Tolerance}
    IN  IF hits = {} THEN None ELSE LastMatch(hits).leg

---------------------------------------------------------------------------
(* The price chart.                                                        *)

\* a or b or ...: the last one is never None
FirstKnown(values) == values[Min({n \in DOMAIN values : values[n] # None})]

Earlier(a, b) == IF a <= b THEN a ELSE b

LineEnd(g) == FirstKnown(<<g.expires, g.closed, g.seen, g.opened>>)

\* Dashed from the close to the expiry.
ClosedEarly(g) ==
    /\ g.status = "closed" /\ g.closeType # "expiry"
    /\ g.closed # None /\ g.expires # None /\ g.closed < g.expires

\* Does the line overlap the period?  None: no bound.
InPeriod(g, lo, hi) ==
    /\ hi = None \/ g.opened <= hi
    /\ lo = None \/ LineEnd(g) >= lo

\* Mutant: an open leg stays open past its expiry
OpenUntilNow(g, now) ==
    IF g.status = "closed" /\ g.closed # None THEN Earlier(g.closed, now)
    ELSE IF g.status = "open" THEN now
    ELSE Earlier(FirstKnown(<<g.seen, g.closed, g.opened>>), now)

\* Until when the leg counts as open: not past its expiry, and never past now
OpenUntil(g, now) ==
    Earlier(now,
        CASE g.status = "closed" /\ g.closed # None -> g.closed
          [] g.status = "open" -> IF g.expires = None THEN now ELSE g.expires
          [] OTHER -> FirstKnown(<<g.seen, g.closed, g.opened>>))

---------------------------------------------------------------------------
(* The rectangles.                                                         *)

\* A total with an unknown part is unknown.
SumOrNone(value) ==
    IF DOMAIN value = {} \/ None \in Range(value) THEN None ELSE SumFunction(value)

\* A P&L with an unknown part is the sum of the rest.
SumOfKnown(value) ==
    LET known == {g \in DOMAIN value : value[g] # None}
    IN  IF known = {} THEN None ELSE SumFunctionOnSet(value, known)

BoxOfGroup(key, G) ==
    LET open == {g \in G : g.status = "open"}
    IN  [sub |-> key[1], strategy |-> key[2], underlying |-> key[3],
         start |-> Min({g.opened : g \in G}), end |-> Max({LineEnd(g) : g \in G}),
         lo |-> Min({g.strike : g \in G}), hi |-> Max({g.strike : g \in G}),
         legs |-> {g.id : g \in G}, open |-> Cardinality(open),
         status |-> IF open # {} THEN "open" ELSE "closed",
         size |-> SumOrNone([g \in G |-> g.size]), coin |-> SumOrNone([g \in G |-> g.coin]),
         pnl |-> SumOfKnown([g \in G |-> g.pnl])]

Drawable(legs) == {g \in legs : g.strike # None /\ g.underlying # None}

GroupKey(g) == <<g.sub, g.strategy, g.underlying>>

BuildBoxes(legs) ==
    {BoxOfGroup(k, {g \in Drawable(legs) : GroupKey(g) = k}) :
        k \in {GroupKey(g) : g \in Drawable(legs)}}

---------------------------------------------------------------------------
(* The size open over time.                                                *)

Sized(legs, now) == {g \in legs : g.coin # None /\ OpenUntil(g, now) > g.opened}

Changes(legs, now) == {g.opened : g \in Sized(legs, now)} \cup
                      {OpenUntil(g, now) : g \in Sized(legs, now)}

ChangeAt(legs, now, t) ==
    LET coins(some) == SumFunction([g \in some |-> g.coin])
    IN  coins({g \in Sized(legs, now) : g.opened = t})
        - coins({g \in Sized(legs, now) : OpenUntil(g, now) = t})

\* the running total from t on
TotalFrom(legs, now, t) ==
    SumFunction([u \in {v \in Changes(legs, now) : v <= t} |-> ChangeAt(legs, now, u)])

\* without the segments of total 0 that nothing goes before, or follows
Trimmed(segments) ==
    LET some == {s \in segments : s.total # 0}
    IN  {s \in segments : \E a, b \in some : a.from <= s.from /\ s.from <= b.from}

\* A segment goes on until the total changes.
ExposureSegments(legs, now) ==
    LET times == Changes(legs, now)
        total(t) == TotalFrom(legs, now, t)
        before(t) == {u \in times : u < t}
        starts == {t \in times : before(t) = {} \/ total(Max(before(t))) # total(t)}
        last == {t \in times : \A u \in times : u <= t}
        end(t) == Min({u \in starts \cup last : u > t})
    IN  Trimmed({[from |-> t, to |-> end(t), total |-> total(t)] : t \in starts \ last})

---------------------------------------------------------------------------
(* Statistics.  A ratio is a pair <<numerator, denominator>>.              *)

RatioLess(a, b) == a[1] * b[2] < b[1] * a[2]

\* pnl[d]: what deal d realized
DealMetrics(pnl) ==
    LET D == DOMAIN pnl
        wins == {d \in D : pnl[d] > 0}
        losses == {d \in D : pnl[d] < 0}
        won == SumFunctionOnSet(pnl, wins)
        lost == SumFunctionOnSet(pnl, losses)
        part(sum, S) == IF S = {} THEN None ELSE <<sum, Cardinality(S)>>
    IN  [net |-> SumFunction(pnl), n |-> Cardinality(D),
         winRate |-> part(Cardinality(wins), D),
         avgWin |-> part(won, wins), avgLoss |-> part(lost, losses),
         avgPnl |-> part(SumFunction(pnl), D),
         profitFactor |-> IF lost < 0 THEN <<won, -lost>> ELSE None]

\* of a value at each of some moments
First(series) == series[Min(DOMAIN series)]
Final(series) == series[Max(DOMAIN series)]

MaxDrawdown(equity) ==
    LET step(acc, t) ==
            LET peak == IF equity[t] > acc.peak THEN equity[t] ELSE acc.peak
                drop == <<peak - equity[t], peak>>
            IN  [peak |-> peak,
                 worst |-> IF peak > 0 /\ RatioLess(acc.worst, drop) THEN drop ELSE acc.worst]
    IN  FoldLeft(step, [peak |-> First(equity), worst |-> <<0, 1>>],
                 SetToSortSeq(DOMAIN equity, <)).worst

\* The Sharpe ratio (a square root) is left out.
EquityMetrics(equity) ==
    LET several == Cardinality(DOMAIN equity) >= 2
    IN  [return |-> IF ~several \/ First(equity) = 0 THEN None
                    ELSE <<Final(equity) - First(equity), First(equity)>>,
         drawdown |-> IF several THEN MaxDrawdown(equity) ELSE None]
=============================================================================
