-------------------------------- MODULE Gold --------------------------------
(***************************************************************************)
(* The gold tables (pipelines/silver_to_gold.py): what a run makes of what *)
(* trading, snapshots, collected closes and the moves of an admin leave in *)
(* silver.  A run truncates and rebuilds; here one follows every change, in *)
(* steps, the delay being the subject of Recompute and Snapshots.  What a  *)
(* builder makes goes to the database with the commit, so that no later    *)
(* builder of the run reads it there (Selected).                           *)
(*                                                                         *)
(* One greek and one contract stand for all of them; premiums are left out.*)
(***************************************************************************)
EXTENDS Domain

CONSTANTS
    Accounts, UserOf,   \* subaccounts and the client each belongs to
    Legs, LegInfo,      \* positions: sub, inst, underlying, coin, strike, expiry, size, pnl, fee
    Strategies, Owner,  \* the strategies, and the account each belongs to
    FirstBox,           \* the one each leg begins with
    Price, Held,        \* the market: of a coin at a time; of an account, a coin, a time
    Upl,                \* a leg's unrealized P&L at a time
    MonthLength, YearLength,    \* days
    Horizon, MaxSnapshots, MaxMoves     \* bounds

\* Positions are in options of known size.
ASSUME GoldAssumption ==
    /\ IsFiniteSet(Accounts) /\ IsFiniteSet(Legs) /\ IsFiniteSet(Strategies)
    /\ Legs \subseteq Nat /\ None \notin Strategies /\ FirstBox \in [Legs -> Strategies]
    /\ \A l \in Legs :
          LET info == LegInfo[l]
          IN  /\ info.sub \in Accounts /\ info.expiry \in Nat /\ info.underlying # None
              /\ {info.strike, info.size, info.pnl, info.fee} \subseteq Int
              /\ CtVal[info.underlying] \in Int \cup {None}
              /\ Owner[FirstBox[l]] = info.sub
              /\ \A t \in 0..Horizon :
                    /\ Upl[<<l, t>>] \in Int /\ Price[<<info.coin, t>>] \in Int
                    /\ \A a \in Accounts : Held[<<a, info.coin, t>>] \in Int
    /\ {Horizon, MaxSnapshots, MaxMoves} \subseteq Nat
    /\ {MonthLength, YearLength} \subseteq Nat \ {0}

VARIABLES
    now,
    opened, closed,     \* when each position was opened and closed at the exchange
    collected,          \* silver.closed_position: the legs it has a row of
    snapshots,          \* the snapshots taken: of which account, and when
    box,                \* the strategy each leg resolves to
    stage,              \* what the run does next; "done": there is none
    silver,             \* position_snapshot and balance_snapshot
    rates,              \* the conversion rates of the last run
    gold, totals        \* the gold tables: the detailed ones, and those that sum up

world == <<now, opened, closed, collected, snapshots, box>>
vars == <<world, stage, silver, rates, gold, totals>>

Coins == {LegInfo[l].coin : l \in Legs}
Underlyings == {LegInfo[l].underlying : l \in Legs}
Expiries == {LegInfo[l].expiry : l \in Legs}
Days == 0..Day(Horizon)

InitWorld ==
    /\ now = 0
    /\ opened = [l \in Legs |-> None] /\ closed = [l \in Legs |-> None]
    /\ collected = {} /\ snapshots = {}
    /\ box = FirstBox

IsOpen(l) == opened[l] # None /\ closed[l] = None
Expiry(l) == ExpiresAt(LegInfo[l].expiry)

\* What expires is settled before time goes on.
Tick ==
    /\ now < Horizon
    /\ \A l \in Legs : IsOpen(l) => now < Expiry(l)
    /\ now' = now + 1
    /\ UNCHANGED <<opened, closed, collected, snapshots, box>>

SameInstrument(l, m) == LegInfo[l].sub = LegInfo[m].sub /\ LegInfo[l].inst = LegInfo[m].inst

\* Net mode: an instrument has at most one open position, and position ids grow.
Open(l) ==
    /\ opened[l] = None /\ now < Expiry(l)
    /\ \A m \in Legs : SameInstrument(l, m) => ~IsOpen(m) /\ (m < l => opened[m] # None)
    /\ opened' = [opened EXCEPT ![l] = now]
    /\ UNCHANGED <<now, closed, collected, snapshots, box>>

Close(l) ==
    /\ IsOpen(l) /\ opened[l] < now
    /\ closed' = [closed EXCEPT ![l] = now]
    /\ UNCHANGED <<now, opened, collected, snapshots, box>>

\* No two accounts have a captured_at in common.
Snapshot(a) ==
    /\ Cardinality(snapshots) < MaxSnapshots
    /\ \A s \in snapshots : s.at # now
    /\ snapshots' = snapshots \cup
           {[sub |-> a, at |-> now, legs |-> {l \in Legs : LegInfo[l].sub = a /\ IsOpen(l)}]}
    /\ UNCHANGED <<now, opened, closed, collected, box>>

Collect ==
    /\ collected' = {l \in Legs : closed[l] # None}
    /\ UNCHANGED <<now, opened, closed, snapshots, box>>

\* A changeset and the run after it.
Move(l, b) ==
    /\ Owner[b] = LegInfo[l].sub
    /\ Cardinality({m \in Legs : box[m] # FirstBox[m]}) < MaxMoves
    /\ box' = [box EXCEPT ![l] = b]
    /\ UNCHANGED <<now, opened, closed, collected, snapshots>>

Change ==
    \/ Tick \/ Collect
    \/ \E l \in Legs : Open(l) \/ Close(l) \/ \E b \in Strategies : Move(l, b)
    \/ \E a \in Accounts : Snapshot(a)

---------------------------------------------------------------------------
(* Silver.                                                                 *)

PositionRow(s, l) ==
    [sub |-> s.sub, at |-> s.at, leg |-> l, strategy |-> box[l], coin |-> LegInfo[l].coin,
     upl |-> Upl[<<l, s.at>>], idx |-> Price[<<LegInfo[l].coin, s.at>>]]

BalanceRow(s, c) ==
    LET total == Held[<<s.sub, c, s.at>>]
    IN  [sub |-> s.sub, at |-> s.at, ccy |-> c, total |-> total, usd |-> total * Price[<<c, s.at>>]]

\* a coin that is not held, or owed, has no balance
Silver ==
    [positions |-> UNION {{PositionRow(s, l) : l \in s.legs} : s \in snapshots},
     balances |-> {r \in {BalanceRow(s, c) : s \in snapshots, c \in Coins} : r.total > 0}]

Newest(rows) == {r \in rows : \A q \in rows : q.at <= r.at}
The(rows) == CHOOSE r \in rows : TRUE

SeenIn(l) == {s \in snapshots : l \in s.legs}
KnownLegs == {l \in Legs : SeenIn(l) # {}} \cup collected

\* the balances tell the account's newest snapshot, the newest that has any
HasBalance(s) == \E c \in Coins : Held[<<s.sub, c, s.at>>] > 0

StatusOf(l) ==
    IF l \in collected THEN "closed"
    ELSE IF Newest({s \in snapshots : s.sub = LegInfo[l].sub /\ HasBalance(s)})
                \cap Newest(SeenIn(l)) # {} THEN "open"
    ELSE "stale"

\* still open, for the fills, as long as no close is collected
Window(l) == [leg |-> l, from |-> opened[l], to |-> IF l \in collected THEN closed[l] ELSE None]

FillLeg(l, at) == MatchFill(at, {Window(m) : m \in {k \in KnownLegs : SameInstrument(k, l)}})

---------------------------------------------------------------------------
(* coin -> USD.                                                            *)

\* The last balance of the day tells the rate, without one the index price; None: unknown.
RateOfDay(sub, ccy, d) ==
    LET balances == {r \in silver.balances : r.sub = sub /\ r.ccy = ccy /\ Day(r.at) = d}
        prices == {r \in silver.positions : r.sub = sub /\ r.coin = ccy /\ Day(r.at) = d}
    IN  IF balances # {} THEN The(Newest(balances)).usd \div The(Newest(balances)).total
        ELSE IF prices # {} THEN The(Newest(prices)).idx ELSE None

Distance(a, b) == IF a < b THEN b - a ELSE a - b

\* Mutant: the rate of the last day there is one of
LatestKnownRate(sub, ccy, d) ==
    LET known == {e \in Days : RateOfDay(sub, ccy, e) # None}
    IN  IF known = {} THEN 1 ELSE RateOfDay(sub, ccy, Max(known))

\* The nearest day with a rate, the earlier one of two; 1 when there is none.
RateOf(sub, ccy, d) ==
    LET known == {e \in Days : RateOfDay(sub, ccy, e) # None}
        nearest == {e \in known : \A f \in known : Distance(e, d) <= Distance(f, d)}
    IN  IF known = {} THEN 1 ELSE RateOfDay(sub, ccy, Min(nearest))

CoinUsd == [k \in Accounts \X Coins \X Days |-> RateOf(k[1], k[2], k[3])]

Rate(l, d) == rates[<<LegInfo[l].sub, LegInfo[l].coin, d>>]

---------------------------------------------------------------------------
(* The gold tables.                                                        *)

Pnl(l) == LegInfo[l].pnl
Fee(l) == LegInfo[l].fee
ClosedOn(l) == Day(closed[l])
PnlUsd(l) == Pnl(l) * Rate(l, ClosedOn(l))
FeeUsd(l) == Fee(l) * Rate(l, ClosedOn(l))
UplUsd(r) == r.upl * Rate(r.leg, Day(r.at))

DealLedger ==
    {[leg |-> l, sub |-> LegInfo[l].sub, strategy |-> box[l], underlying |-> LegInfo[l].underlying,
      at |-> closed[l], day |-> ClosedOn(l), pnl |-> Pnl(l), pnlUsd |-> PnlUsd(l),
      holdDays |-> (closed[l] - opened[l]) \div DayLength] : l \in collected}

UplOf(rows) == SumFunction([r \in rows |-> r.upl])
PnlOf(deals) == SumFunction([l \in deals |-> Pnl(l)])
FeesOf(deals) == SumFunction([l \in deals |-> Fee(l)])

\* Mutant: over all snapshots of the day
UplOfDay(rows) == IF rows = {} THEN None ELSE UplOf(rows)

\* the level at the last snapshot that has one of the rows; None without a row
EodUpl(rows) == IF rows = {} THEN None ELSE UplOf(Newest(rows))

\* realized_pnl of the exchange is net of fees, and fees are negative
DailyRow(deals, rows) ==
    [net |-> PnlOf(deals), fees |-> FeesOf(deals), realized |-> PnlOf(deals) - FeesOf(deals),
     netUsd |-> SumFunction([l \in deals |-> PnlUsd(l)]),
     feesUsd |-> SumFunction([l \in deals |-> FeeUsd(l)]),
     upl |-> EodUpl(rows),
     uplUsd |-> IF rows = {} THEN None ELSE SumFunction([r \in Newest(rows) |-> UplUsd(r)])]

\* per account, strategy and day
PnlDaily ==
    [k \in Accounts \X Strategies \X Days |->
        DailyRow({l \in collected : LegInfo[l].sub = k[1] /\ box[l] = k[2] /\ ClosedOn(l) = k[3]},
                 {r \in silver.positions : r.sub = k[1] /\ r.strategy = k[2] /\ Day(r.at) = k[3]})]

\* per account, coin and day
AssetPnlDaily ==
    [k \in Accounts \X Coins \X Days |->
        DailyRow({l \in collected : LegInfo[l].sub = k[1] /\ LegInfo[l].coin = k[2]
                                    /\ ClosedOn(l) = k[3]},
                 {r \in silver.positions : r.sub = k[1] /\ r.coin = k[2] /\ Day(r.at) = k[3]})]

Known(x) == IF x = None THEN 0 ELSE x

\* summed over the coins; a snapshot without a balance has no row
BalanceTimeseries ==
    LET rows(sub, at) == {q \in silver.balances : q.sub = sub /\ q.at = at}
    IN  {[sub |-> r.sub, at |-> r.at, v |-> SumFunction([q \in rows(r.sub, r.at) |-> q.usd])]
            : r \in silver.balances}

\* What a SELECT of the run finds in the tables it rebuilds: they were truncated, and the
\* rows added to them are pending, for the session is not flushed before it commits.
Selected == [equity |-> {}, daily |-> {}]

\* equity at the last snapshot of the day; None: no row
EodEquity(sub, d) ==
    LET rows == {r \in Selected.equity : r.sub = sub /\ Day(r.at) = d}
    IN  IF rows = {} THEN None ELSE The(Newest(rows)).v

SubsOf(user) == {a \in Accounts : UserOf[a] = user}
Users == {UserOf[a] : a \in Accounts}

EquityOf(subs, d) == SumFunction([a \in subs |-> Known(EodEquity(a, d))])

\* a row per client and day that has a row of an account, or equity
ClientPnlDaily ==
    LET rows(k) == {r \in Selected.daily : UserOf[r.sub] = k[1] /\ r.day = k[2]}
        known == {k \in Users \X Days :
                    rows(k) # {} \/ \E a \in SubsOf(k[1]) : EodEquity(a, k[2]) # None}
    IN  [k \in known |->
            [net |-> SumFunction([r \in rows(k) |-> r.net]),
             fees |-> SumFunction([r \in rows(k) |-> r.fees]),
             realized |-> SumFunction([r \in rows(k) |-> r.realized]),
             upl |-> SumFunction([r \in rows(k) |-> Known(r.upl)]),
             equity |-> EquityOf(SubsOf(k[1]), k[2])]]

\* of the days with equity of any of the accounts, from `start` on
EquitySeries(subs, start) ==
    [d \in {e \in Days : e >= start /\ \E a \in subs : EodEquity(a, e) # None} |->
        EquityOf(subs, d)]

Periods == {"mtd", "ytd", "all"}

PeriodStart(period) ==
    CASE period = "mtd" -> Day(now) - (Day(now) % MonthLength)
      [] period = "ytd" -> Day(now) - (Day(now) % YearLength)
      [] OTHER -> 0

Performance(period, subs, deals) ==
    [deals |-> DealMetrics([l \in {d \in deals : LegInfo[d].sub \in subs
                                                /\ ClosedOn(d) >= PeriodStart(period)} |-> Pnl(l)]),
     equity |-> EquityMetrics(EquitySeries(subs, PeriodStart(period)))]

ClientPerformance ==
    [k \in Users \X Periods |-> Performance(k[2], SubsOf(k[1]), collected)]

StrategyPerformance ==
    [k \in Accounts \X Strategies \X Periods |->
        Performance(k[3], {k[1]}, {l \in collected : box[l] = k[2]})]

SymbolPerformance ==
    [k \in Accounts \X Underlyings \X Periods |->
        Performance(k[3], {k[1]}, {l \in collected : LegInfo[l].underlying = k[2]})]

UnderlyingPrice ==
    {[sub |-> r.sub, underlying |-> LegInfo[r.leg].underlying, at |-> r.at, price |-> r.idx]
        : r \in silver.positions}

\* from the bills of the legs that were settled
ExpirySettlement ==
    {[sub |-> LegInfo[l].sub, underlying |-> LegInfo[l].underlying, expiry |-> LegInfo[l].expiry,
      price |-> Price[<<LegInfo[l].coin, Expiry(l)>>]]
        : l \in {m \in collected : closed[m] = Expiry(m)}}

\* the rows of each account's newest snapshot that has any; the builders that need them
\* read them from silver, each for itself
PositionCurrent == UNION {Newest({r \in silver.positions : r.sub = a}) : a \in Accounts}

\* net_delta: the size stands for every greek
DeltaOf(rows) == SumFunction([r \in rows |-> LegInfo[r.leg].size])

\* strategy None: the row over all strategies
CountsFor(strategy, r) == strategy \in {None, r.strategy}

GreeksByExpiry ==
    [k \in Accounts \X (Strategies \cup {None}) \X Underlyings \X Expiries |->
        LET rows == {r \in PositionCurrent :
                /\ r.sub = k[1] /\ CountsFor(k[2], r)
                /\ LegInfo[r.leg].underlying = k[3] /\ LegInfo[r.leg].expiry = k[4]}
        IN  [open |-> Cardinality(rows), delta |-> DeltaOf(rows)]]

StrategySummary ==
    [k \in Accounts \X Strategies |->
        LET rows == {r \in PositionCurrent : r.sub = k[1] /\ r.strategy = k[2]}
            mtd == {l \in collected : LegInfo[l].sub = k[1] /\ box[l] = k[2]
                                      /\ ClosedOn(l) >= PeriodStart("mtd")}
        IN  [open |-> Cardinality(rows), delta |-> DeltaOf(rows), upl |-> UplOf(rows),
             mtdPnl |-> PnlOf(mtd) + UplOf(rows)]]

\* the domain's Leg: realized P&L at the rate of the day of its close, or unrealized at
\* that of its last snapshot
PositionLeg(l) ==
    LET info == LegInfo[l]
        seen == IF SeenIn(l) = {} THEN None ELSE Max({s.at : s \in SeenIn(l)})
        done == l \in collected
    IN  [id |-> l, sub |-> info.sub, strategy |-> box[l], underlying |-> info.underlying,
         strike |-> info.strike, opened |-> opened[l], expires |-> Expiry(l),
         status |-> StatusOf(l), closed |-> IF done THEN closed[l] ELSE None,
         closeType |-> IF ~done THEN None ELSE IF Expiry(l) = closed[l] THEN "expiry" ELSE "close",
         seen |-> seen, size |-> info.size, coin |-> SizeInCoin(info.underlying, info.size),
         pnl |-> IF done THEN PnlUsd(l) ELSE Upl[<<l, seen>>] * Rate(l, Day(seen))]

---------------------------------------------------------------------------
(* The run.                                                                *)

Tables ==
    [equity |-> BalanceTimeseries, coins |-> silver.balances, daily |-> PnlDaily,
     assets |-> AssetPnlDaily, deals |-> DealLedger, current |-> PositionCurrent,
     prices |-> UnderlyingPrice, settled |-> ExpirySettlement,
     legs |-> {PositionLeg(l) : l \in KnownLegs}]

\* the boxes are made of the list of legs that the run still has in memory
Totals ==
    [greeks |-> GreeksByExpiry, summary |-> StrategySummary, boxes |-> BuildBoxes(gold.legs),
     client |-> ClientPnlDaily, clientPerf |-> ClientPerformance,
     strategyPerf |-> StrategyPerformance, symbolPerf |-> SymbolPerformance]

Convert ==
    /\ stage = "rates" /\ stage' = "gold" /\ rates' = CoinUsd
    /\ UNCHANGED <<world, silver, gold, totals>>

Fill ==
    /\ stage = "gold" /\ stage' = "totals" /\ gold' = Tables
    /\ UNCHANGED <<world, silver, rates, totals>>

SumUp ==
    /\ stage = "totals" /\ stage' = "done" /\ totals' = Totals
    /\ UNCHANGED <<world, silver, rates, gold>>

Init ==
    /\ InitWorld /\ stage = "rates" /\ silver = Silver
    /\ rates = <<>> /\ gold = <<>> /\ totals = <<>>

Next ==
    \/ /\ stage = "done" /\ Change /\ stage' = "rates"
       /\ silver' = Silver' /\ gold' = <<>> /\ totals' = <<>> /\ UNCHANGED rates
    \/ Convert \/ Fill \/ SumUp

Spec == Init /\ [][Next]_vars
=============================================================================
