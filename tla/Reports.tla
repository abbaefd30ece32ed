------------------------------ MODULE Reports ------------------------------
(***************************************************************************)
(* What the dashboard shows (web/reports.py): read-only functions of the   *)
(* gold tables, narrowed to accounts, an underlying and a period; and what *)
(* they, the gold tables and the domain's functions owe each other.        *)
(*                                                                         *)
(* Gold is taken to be as fresh as silver: the delay is Recompute's and    *)
(* Snapshots' matter.                                                      *)
(***************************************************************************)
EXTENDS Gold

ASSUME ReportsAssumption == \A l \in Legs : LegInfo[l].type \in {"C", "P"}

Bounds == {None} \cup Days

\* all accounts of the client, or one of them
Subs(user, sub) == IF sub \in SubsOf(user) THEN {sub} ELSE SubsOf(user)

Lo(from) == IF from = None THEN None ELSE from * DayLength

\* Mutant: till midnight of the last day, which ends the period too early
HiMidnight(till) == IF till = None THEN None ELSE till * DayLength

\* 'till' includes the whole day.
Hi(till) == IF till = None THEN None ELSE till * DayLength + DayLength - 1

Within(t, lo, hi) == (lo = None \/ t >= lo) /\ (hi = None \/ t <= hi)

---------------------------------------------------------------------------
(* Equity, in USD and of one coin.                                         *)

\* summed over the accounts, by captured_at
EquityPoints(subs, from, till) ==
    LET rows == {r \in gold.equity : r.sub \in subs /\ Within(r.at, Lo(from), Hi(till))}
        at(t) == {q \in rows : q.at = t}
    IN  {[t |-> r.at, v |-> SumFunction([q \in at(r.at) |-> q.v])] : r \in rows}

CoinPoints(subs, ccy, from, till) ==
    LET rows == {r \in gold.coins : r.sub \in subs /\ r.ccy = ccy
                                    /\ Within(r.at, Lo(from), Hi(till))}
        at(t) == {q \in rows : q.at = t}
    IN  {[t |-> r.at, v |-> SumFunction([q \in at(r.at) |-> q.total])] : r \in rows}

\* gold has a row only of the days with a deal or a snapshot
HasRow(row) == row.upl # None \/ row.net # 0 \/ row.fees # 0

\* of the cells of a table: per day, the sum over the accounts and strategies, or coins
Bars(table, cells, from, till) ==
    LET row(c, d) == table[<<c[1], c[2], d>>]
        days == {d \in Days : Within(d, from, till) /\ \E c \in cells : HasRow(row(c, d))}
    IN  {[day |-> d, net |-> SumFunction([c \in cells |-> row(c, d).netUsd]),
          fees |-> SumFunction([c \in cells |-> row(c, d).feesUsd])] : d \in days}

PnlBars(subs, from, till) == Bars(gold.daily, subs \X Strategies, from, till)
CoinBars(subs, ccy, from, till) == Bars(gold.assets, subs \X {ccy}, from, till)

\* first and last moment with data; <<>>: none
Available(points, bars) ==
    LET moments == {p.t : p \in points}
                   \cup UNION {{b.day * DayLength, (b.day + 1) * DayLength} : b \in bars}
    IN  IF moments = {} THEN <<>> ELSE <<Min(moments), Max(moments)>>

Series(points) == [t \in {p.t : p \in points} |-> (CHOOSE p \in points : p.t = t).v]

\* by how much it grew, and in relation to what
Header(points) ==
    LET first == First(Series(points))
        last == Final(Series(points))
    IN  IF points = {} THEN None
        ELSE [delta |-> last - first, pct |-> IF first = 0 THEN None ELSE <<last - first, first>>]

---------------------------------------------------------------------------
(* Current positions.                                                      *)

Positions(subs, underlying) ==
    {r \in gold.current : r.sub \in subs /\ underlying \in {None, LegInfo[r.leg].underlying}}

\* strike x expiry -> net size
PositionMap(subs, underlying) ==
    LET rows == Positions(subs, underlying)
        cell(r) == <<LegInfo[r.leg].strike, LegInfo[r.leg].expiry>>
    IN  [c \in {cell(r) : r \in rows} |-> DeltaOf({r \in rows : cell(r) = c})]

\* per expiry, from the rows of all strategies
Greeks(subs, underlying) ==
    LET cells == subs \X {u \in Underlyings : underlying \in {None, u}}
        row(c, e) == totals.greeks[<<c[1], None, c[2], e>>]
    IN  [e \in Expiries |->
            [open |-> SumFunction([c \in cells |-> row(c, e).open]),
             delta |-> SumFunction([c \in cells |-> row(c, e).delta])]]

\* calls and puts per expiry, a leg for its premium
Ladder(subs, underlying, type) ==
    [e \in Expiries |-> Cardinality({r \in Positions(subs, underlying) :
        LegInfo[r.leg].expiry = e /\ LegInfo[r.leg].type = type})]

\* None: every strategy, every underlying
Deals(subs, strategy, underlying) ==
    {d \in gold.deals : /\ d.sub \in subs /\ strategy \in {None, d.strategy}
                        /\ underlying \in {None, d.underlying}}

---------------------------------------------------------------------------
(* The payoff of one expiry.                                               *)

Expired(expiry) == now >= ExpiresAt(expiry)

\* the official price if there is one, else the last known one of the expiry's day or before
SettlementPrice(subs, underlying, expiry) ==
    LET official == {r \in gold.settled : /\ r.sub \in subs /\ r.expiry = expiry
                                              /\ underlying \in {None, r.underlying}}
        known == {r \in gold.prices : /\ r.sub \in subs /\ r.at <= Hi(expiry)
                                          /\ underlying \in {None, r.underlying}}
    IN  IF official # {} THEN {r.price : r \in official}
        ELSE IF known # {} THEN {r.price : r \in Newest(known)} ELSE {None}

\* the expiry shown first is the last known one
DefaultExpiry(subs, underlying) ==
    LET known == {LegInfo[r.leg].expiry : r \in Positions(subs, underlying)}
                 \cup {LegInfo[d.leg].expiry : d \in Deals(subs, None, underlying)}
    IN  IF known = {} THEN None ELSE Max(known)

\* the live book, else the closed one, else what expired and is not collected yet
Payoff(subs, underlying, expiry) ==
    LET open == {r.leg : r \in {x \in Positions(subs, underlying) : LegInfo[x.leg].expiry = expiry}}
        done == {d.leg : d \in {x \in Deals(subs, None, underlying) :
                                    LegInfo[x.leg].expiry = expiry}}
    IN  CASE ~Expired(expiry) /\ open # {} -> [mode |-> "open", legs |-> open]
          [] (Expired(expiry) \/ open = {}) /\ done # {} -> [mode |-> "expired", legs |-> done]
          [] Expired(expiry) /\ done = {} /\ open # {} -> [mode |-> "expired", legs |-> open]
          [] OTHER -> [mode |-> "empty", legs |-> {}]

---------------------------------------------------------------------------
(* The deal book.                                                          *)

Since(period) ==
    CASE period = "mtd" -> Day(now) - (Day(now) % MonthLength)
      [] period = "ytd" -> Day(now) - (Day(now) % YearLength)
      [] OTHER -> 0

\* The newest `limit` of all (with those closed at the same time as the last of them), and
\* of those the ones of the period
DealList(subs, strategy, underlying, period, limit) ==
    LET deals == Deals(subs, strategy, underlying)
    IN  {d \in deals : /\ Cardinality({e \in deals : e.at > d.at}) < limit
                       /\ d.day >= Since(period)}

Analyze(subs, strategy, underlying, period) ==
    LET deals == {d \in Deals(subs, strategy, underlying) : d.day >= Since(period)}
        points == {p \in EquityPoints(subs, None, None) : Day(p.t) >= Since(period)}
    IN  [kpis |-> DealMetrics([d \in deals |-> d.pnl]),
         equity |-> EquityMetrics(Series(points)),
         strategies |-> [b \in {d.strategy : d \in deals} |->
                            DealMetrics([d \in {e \in deals : e.strategy = b} |-> d.pnl])],
         symbols |-> [u \in {d.underlying : d \in deals} |->
                            DealMetrics([d \in {e \in deals : e.underlying = u} |-> d.pnl])]]

---------------------------------------------------------------------------
(* The price chart.                                                        *)

\* None in a bound: no period, the boxes are those of gold
PriceBoxes(subs, underlying, from, till) ==
    LET shown == {g \in gold.legs : /\ g.sub \in subs /\ g.underlying = underlying
                                   /\ InPeriod(g, Lo(from), Hi(till))}
        boxes == IF from = None /\ till = None
                 THEN {b \in totals.boxes : b.sub \in subs /\ b.underlying = underlying}
                 ELSE BuildBoxes(shown)
        begin == IF from # None THEN Lo(from)
                 ELSE IF boxes = {} THEN now - 30 * DayLength
                 ELSE Min({b.start : b \in boxes}) - DayLength
        finish == IF till # None THEN (till + 1) * DayLength
                  ELSE Max({now} \cup {b.end : b \in boxes}) + DayLength
    IN  [legs |-> shown, boxes |-> boxes, until |-> finish,
         since |-> IF finish <= begin THEN finish - 30 * DayLength ELSE begin,
         exposure |-> ExposureSegments(shown, now)]

\* the box a leg is drawn in; the underlying is the chart's
BoxesOfLeg(chart, g) == {b \in chart.boxes : b.sub = g.sub /\ b.strategy = g.strategy}

---------------------------------------------------------------------------
(* Properties.                                                             *)

\* Every deal is in one cell of each table: by strategy, by coin, in the ledger.
DailyAgrees == stage = "done" =>
    /\ \A a \in Accounts, d \in Days :
        LET deals == {x \in gold.deals : x.sub = a /\ x.day = d}
            pnl == SumFunction([x \in deals |-> x.pnl])
            usd == SumFunction([x \in deals |-> x.pnlUsd])
        IN  /\ SumFunction([b \in Strategies |-> gold.daily[<<a, b, d>>].net]) = pnl
            /\ SumFunction([c \in Coins |-> gold.assets[<<a, c, d>>].net]) = pnl
            /\ SumFunction([b \in Strategies |-> gold.daily[<<a, b, d>>].netUsd]) = usd
            /\ SumFunction([c \in Coins |-> gold.assets[<<a, c, d>>].netUsd]) = usd
    /\ \A g \in gold.legs : g.status = "closed" =>
        \E x \in gold.deals : x.leg = g.id /\ x.pnlUsd = g.pnl /\ x.strategy = g.strategy

\* So it is in the statistics of a period, in gold's tables, the live ones and the list of
\* deals; and the return of all time is the growth that heads the equity curve.
PeriodsAgree == stage = "done" =>
    \A u \in Users, p \in Periods :
        LET subs == SubsOf(u)
            byBox == [k \in subs \X Strategies |-> totals.strategyPerf[<<k[1], k[2], p>>].deals]
            bySymbol == [k \in subs \X Underlyings |-> totals.symbolPerf[<<k[1], k[2], p>>].deals]
            shown == Analyze(subs, None, None, p)
            live == shown.kpis
        IN  /\ live = totals.clientPerf[<<u, p>>].deals
            /\ live.n = Cardinality(DealList(subs, None, None, p, Cardinality(Legs)))
            /\ p = "all" /\ shown.equity.return # None =>
                   shown.equity.return = Header(EquityPoints(subs, None, None)).pct
            /\ \A byKey \in {byBox, bySymbol} :
                  /\ live.n = SumFunction([k \in DOMAIN byKey |-> byKey[k].n])
                  /\ live.net = SumFunction([k \in DOMAIN byKey |-> byKey[k].net])
            /\ p = "mtd" => \A k \in subs \X Strategies :
                   byBox[k].net = totals.summary[k].mtdPnl - totals.summary[k].upl

\* On a day after which every strategy and coin of the account that had positions still has
\* some, the unrealized P&L by strategy and by coin is that of the day's last snapshot.
UnrealizedAgrees == stage = "done" =>
    \A a \in Accounts, d \in Days :
        LET rows == {r \in silver.positions : r.sub = a /\ Day(r.at) = d}
            upl == UplOf(Newest(rows))
            whole == /\ {r.strategy : r \in rows} = {r.strategy : r \in Newest(rows)}
                     /\ {r.coin : r \in rows} = {r.coin : r \in Newest(rows)}
        IN  whole => /\ SumFunction([b \in Strategies |-> Known(gold.daily[<<a, b, d>>].upl)]) = upl
                     /\ SumFunction([c \in Coins |-> Known(gold.assets[<<a, c, d>>].upl)]) = upl

\* Every current position is in the map, in the greeks (of one strategy and of all), in the
\* ladder and in the summary of its strategy, once.
PositionsCountedOnce == stage = "done" =>
    \A u \in Users, y \in Underlyings \cup {None} :
        LET subs == SubsOf(u)
            rows == Positions(subs, y)
            map == PositionMap(subs, y)
            greeks == Greeks(subs, y)
            ladder(type) == SumFunction(Ladder(subs, y, type))
            keys == {k \in DOMAIN totals.greeks :
                        k[1] \in subs /\ k[2] # None /\ y \in {None, k[3]}}
        IN  /\ SumFunction(map) = DeltaOf(rows)
            /\ SumFunction([e \in Expiries |-> greeks[e].delta]) = DeltaOf(rows)
            /\ SumFunction([k \in keys |-> totals.greeks[k].open]) = Cardinality(rows)
            /\ ladder("C") + ladder("P") = Cardinality(rows)
            /\ y = None => Cardinality(rows) =
                   SumFunction([k \in subs \X Strategies |-> totals.summary[k].open])

\* Once every close of an expiry that is over is collected, its payoff is over all of its
\* legs; it is never shown as the live book of an expiry that is over; and the expiry shown
\* first has something to show.
PayoffIsWhole == stage = "done" =>
    \A u \in Users, y \in Underlyings \cup {None}, e \in Expiries :
        LET legs == {l \in Legs : /\ LegInfo[l].sub \in SubsOf(u) /\ LegInfo[l].expiry = e
                                  /\ y \in {None, LegInfo[l].underlying} /\ opened[l] # None}
        IN  /\ Expired(e) /\ legs \subseteq collected => Payoff(SubsOf(u), y, e).legs = legs
            /\ Payoff(SubsOf(u), y, e).mode = "open" => ~Expired(e)
            /\ DefaultExpiry(SubsOf(u), y) = e => Payoff(SubsOf(u), y, e).mode # "empty"

\* Silver is summed up by many keys at as many places, and gold and the reports agree on
\* every total (silver_to_gold.py:368: "on the same basis as deal_ledger"), also when boxes
\* are reassigned and closes are collected late.
BooksAgree ==
    DailyAgrees /\ PeriodsAgree /\ UnrealizedAgrees /\ PositionsCountedOnce /\ PayoffIsWhole

\* Once a day is over, a rate that its own balances or prices gave never changes: what was
\* reported of its deals stays, whatever is collected later.
SettledRatesStay ==
    [][\A k \in DOMAIN rates :
          k[3] < Day(now) /\ rates'[k] # rates[k] => RateOfDay(k[1], k[2], k[3]) = None]_vars

\* graphs ② and ②b load the days outside what they show when they are moved: the points and
\* bars of two adjoining periods are those of the whole, none twice, and none is outside of
\* what is announced as available.
PiecesMakeTheWhole == stage = "done" =>
    \A u \in Users, from, till \in Bounds : \A d \in Days \ {Day(Horizon)} :
        Within(d, from, till) /\ Within(d + 1, from, till) =>
            LET subs == SubsOf(u)
                one == EquityPoints(subs, from, d)
                other == EquityPoints(subs, d + 1, till)
                ends == Available(EquityPoints(subs, None, None), PnlBars(subs, None, None))
            IN  /\ EquityPoints(subs, from, till) = one \cup other /\ one \cap other = {}
                /\ PnlBars(subs, from, till) =
                       PnlBars(subs, from, d) \cup PnlBars(subs, d + 1, till)
                /\ \A p \in one \cup other : Within(p.t, ends[1], ends[2])
                /\ \A c \in Coins :
                      /\ CoinPoints(subs, c, from, till) =
                             CoinPoints(subs, c, from, d) \cup CoinPoints(subs, c, d + 1, till)
                      /\ CoinBars(subs, c, from, till) =
                             CoinBars(subs, c, from, d) \cup CoinBars(subs, c, d + 1, till)

\* the charts of the client, the first of no period
Charts == {PriceBoxes(SubsOf(u), y, from, till) :
               u \in Users, y \in Underlyings, from, till \in Bounds}

\* Every line that overlaps the period is in the frame of one box, the frames have no other
\* lines, and lie in those of the whole history; and the line of a closed leg is dashed
\* exactly if it goes on after the leg stopped counting as open.
BoxesFrameLegs == stage = "done" =>
    \A chart \in Charts :
        /\ \A g \in chart.legs : \E b \in chart.boxes :
              /\ BoxesOfLeg(chart, g) = {b} /\ g.id \in b.legs
              /\ b.start <= g.opened /\ LineEnd(g) <= b.end /\ g.strike \in b.lo..b.hi
        /\ UNION {b.legs : b \in chart.boxes} = {g.id : g \in chart.legs}
        /\ \A g \in chart.legs : g.status = "closed" =>
              (ClosedEarly(g) <=> OpenUntil(g, now) < LineEnd(g))
        /\ \A b \in chart.boxes : \E w \in totals.boxes :
              /\ w.sub = b.sub /\ w.strategy = b.strategy /\ b.legs \subseteq w.legs
              /\ w.start <= b.start /\ b.end <= w.end /\ w.open >= b.open

\* Whether a leg was open at t is known when its close is collected, a later snapshot has
\* it, or it is expired.  Where it is known of all legs, the total is what was open and had
\* not expired.
TotalAt(segments, t) ==
    LET hit == {s \in segments : s.from <= t /\ t < s.to}
    IN  IF hit = {} THEN 0 ELSE The(hit).total

ExposureIsOpenSize == stage = "done" =>
    \A chart \in Charts, t \in 0..now :
        LET sized == {g \in chart.legs : g.coin # None}
        IN  (\A g \in sized : g.status = "closed" \/ t < g.seen \/ t >= g.expires) =>
                TotalAt(chart.exposure, t) = SumFunction([g \in
                    {g \in sized : /\ opened[g.id] <= t /\ t < g.expires
                                  /\ (closed[g.id] = None \/ t < closed[g.id])} |-> g.coin])

ChartIsRight == BoxesFrameLegs /\ ExposureIsOpenSize

\* A fill of a leg that silver knows is linked to it - the opening one and the closing one -
\* unless another leg of the instrument was opened after it and by the time of the fill,
\* give or take the tolerance.
FillsFindTheirLeg == stage = "done" =>
    \A l \in KnownLegs : \A at \in {opened[l], closed[l]} \ {None} :
        (\A m \in KnownLegs \ {l} :
            LegInfo[m].sub = LegInfo[l].sub /\ LegInfo[m].inst = LegInfo[l].inst =>
                opened[m] <= opened[l] \/ opened[m] > at + Tolerance)
        => FillLeg(l, at) = l

=============================================================================
