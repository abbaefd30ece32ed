----------------------------- MODULE Snapshots ------------------------------
(***************************************************************************)
(* Where a leg's status comes from: the snapshot loop and the manual       *)
(* backfill (ingestion/collector.py) take snapshots of the account, one    *)
(* table and one transaction after another; the history loop collects the  *)
(* closes; the pipeline reads each table in a statement of its own         *)
(* (pipelines/bronze_to_silver.py) and gold shows the newest positions     *)
(* (pipelines/silver_to_gold.py).                                          *)
(*                                                                         *)
(* One account.  A row holds what decides its meaning: the leg, the run and*)
(* captured_at.                                                            *)
(***************************************************************************)
EXTENDS Integers, FiniteSets

CONSTANTS
    Legs,           \* position lifecycles (posId + cTime)
    Boxes, BoxOf,   \* the strategies, and the one each leg resolves to
    Collectors,     \* processes that take snapshots: the loop, a backfill
    MaxRuns         \* bound: snapshot runs

ASSUME SnapshotAssumption ==
    MaxRuns \in Nat /\ BoxOf \in [Legs -> Boxes] /\ IsFiniteSet(Legs)

VARIABLES
    position,       \* each leg at the exchange
    clock,          \* the last captured_at given out
    runs,           \* ingest_id of the last snapshot run
    collector,      \* what each process is doing
    rawPosition,    \* bronze.raw_position
    rawBalance,     \* bronze.raw_balance
    rawClosed,      \* bronze.raw_closed_position: the legs it has a row of
    pipe,           \* the pipeline run: what it has read
    leg,            \* silver.position_leg: the status of each leg
    snapshot,       \* silver.position_snapshot
    closed,         \* silver.closed_position
    last,           \* history: the last snapshot begun; alone, then whole, or mixed with another;
                    \* whether it has a balance
    basis           \* history: right after a pipeline run that no snapshot came in the way of,
                    \* the snapshot and the closes it read; else NotCalm

exchange == <<position>>
bronze == <<rawPosition, rawBalance, rawClosed>>
silver == <<leg, snapshot, closed>>
vars == <<exchange, clock, runs, collector, bronze, pipe, silver, last, basis>>

PositionRow == [run : Nat, at : Nat, leg : Legs]
BalanceRow == [run : Nat, at : Nat]

Idle == [pc |-> "idle", run |-> 0, at |-> 0, legs |-> {}]
PipeIdle == [pc |-> "idle", rows |-> {}, balances |-> {}, closes |-> {}, last |-> 0]
NotCalm == [run |-> 0, legs |-> {}, held |-> FALSE, closes |-> {}]

Init ==
    /\ position = [l \in Legs |-> "new"]
    /\ clock = 0 /\ runs = 0
    /\ collector = [c \in Collectors |-> Idle]
    /\ rawPosition = {} /\ rawBalance = {} /\ rawClosed = {}
    /\ pipe = PipeIdle
    /\ leg = [l \in Legs |-> "absent"] /\ snapshot = {} /\ closed = {}
    /\ last = [run |-> 0, state |-> "mixed", legs |-> {}, held |-> FALSE]
    /\ basis = NotCalm

---------------------------------------------------------------------------
(* The exchange.                                                           *)

Open(l) ==
    /\ position[l] = "new"
    /\ position' = [position EXCEPT ![l] = "open"]
    /\ UNCHANGED <<clock, runs, collector, bronze, pipe, silver, last>> /\ basis' = NotCalm

Close(l) ==
    /\ position[l] = "open"
    /\ position' = [position EXCEPT ![l] = "closed"]
    /\ UNCHANGED <<clock, runs, collector, bronze, pipe, silver, last>> /\ basis' = NotCalm

---------------------------------------------------------------------------
(* Snapshot runs.                                                          *)

\* The run is registered; captured_at is taken before the request is sent.
BeginSnapshot(c) ==
    /\ collector[c].pc = "idle" /\ runs < MaxRuns
    /\ runs' = runs + 1 /\ clock' = clock + 1
    /\ collector' = [collector EXCEPT ![c] =
            [pc |-> "positions", run |-> runs + 1, at |-> clock + 1, legs |-> {}]]
    /\ last' = [run |-> runs + 1, legs |-> {}, held |-> FALSE,
                state |-> IF \A d \in Collectors : collector[d].pc = "idle"
                          THEN "alone" ELSE "mixed"]
    /\ UNCHANGED <<exchange, bronze, pipe, silver>> /\ basis' = NotCalm

FetchPositions(c) ==
    /\ collector[c].pc = "positions"
    /\ collector' = [collector EXCEPT ![c].pc = "fetched",
                                      ![c].legs = {l \in Legs : position[l] = "open"}]
    /\ UNCHANGED <<exchange, clock, runs, bronze, pipe, silver, last>> /\ basis' = NotCalm

\* No row when nothing is open.  The balances get a captured_at of their own.
WritePositions(c) ==
    /\ collector[c].pc = "fetched"
    /\ rawPosition' = rawPosition \cup
            [run : {collector[c].run}, at : {collector[c].at}, leg : collector[c].legs]
    /\ clock' = clock + 1
    /\ collector' = [collector EXCEPT ![c].pc = "balances", ![c].at = clock + 1]
    /\ UNCHANGED <<exchange, runs, rawBalance, rawClosed, pipe, silver, last>> /\ basis' = NotCalm

\* One balance row stands for those of all coins with an equity above 0.  `held`: there is
\* such a coin; an account without one has no row.  Margin and greeks follow; no status
\* depends on them, and the run ends.
WriteBalances(c, held) ==
    /\ collector[c].pc = "balances"
    /\ rawBalance' = rawBalance \cup
            {b \in {[run |-> collector[c].run, at |-> collector[c].at]} : held}
    /\ last' = IF last.run = collector[c].run /\ last.state = "alone"
               THEN [last EXCEPT !.state = "whole", !.legs = collector[c].legs, !.held = held]
               ELSE last
    /\ collector' = [collector EXCEPT ![c] = Idle]
    /\ UNCHANGED <<exchange, clock, runs, rawPosition, rawClosed, pipe, silver>> /\ basis' = NotCalm

\* Mutant: the process is left in a state it never leaves
FailSnapshotStuck(c) ==
    /\ collector[c].pc # "idle"
    /\ collector' = [collector EXCEPT ![c].pc = "error"]
    /\ UNCHANGED <<exchange, clock, runs, bronze, pipe, silver, last>> /\ basis' = NotCalm

\* A call raises, or the process dies: what is written stays.
FailSnapshot(c) ==
    /\ collector[c].pc # "idle"
    /\ collector' = [collector EXCEPT ![c] = Idle]
    /\ UNCHANGED <<exchange, clock, runs, bronze, pipe, silver, last>> /\ basis' = NotCalm

\* The history loop, or a backfill, writes what its request found: of the closes so far any
\* part, down to none (the window, the pages and the errors that decide are History's
\* matter).  Rows that are there are left alone.
CollectCloses(found) ==
    /\ \A l \in found : position[l] = "closed"
    /\ rawClosed' = rawClosed \cup found
    /\ UNCHANGED <<exchange, clock, runs, collector, rawPosition, rawBalance, pipe, silver,
                   last>> /\ basis' = NotCalm

---------------------------------------------------------------------------
(* The pipeline: READ COMMITTED, so every statement sees the commits so    *)
(* far.                                                                    *)

ReadPositions ==
    /\ pipe.pc = "idle"
    /\ pipe' = [PipeIdle EXCEPT !.pc = "balances", !.rows = rawPosition,
                               !.last = IF last.state = "whole" THEN last.run ELSE 0]
    /\ UNCHANGED <<exchange, clock, runs, collector, bronze, silver, last>> /\ basis' = NotCalm

ReadBalances ==
    /\ pipe.pc = "balances"
    /\ pipe' = [pipe EXCEPT !.pc = "closes", !.balances = rawBalance]
    /\ UNCHANGED <<exchange, clock, runs, collector, bronze, silver, last>> /\ basis' = NotCalm

ReadCloses ==
    /\ pipe.pc = "closes"
    /\ pipe' = [pipe EXCEPT !.pc = "commit", !.closes = rawClosed]
    /\ UNCHANGED <<exchange, clock, runs, collector, bronze, silver, last>> /\ basis' = NotCalm

Newest(rows) == {r \in rows : \A q \in rows : q.at <= r.at}

\* Mutant: the newest run by positions, which a snapshot with nothing open has none of
LatestRunsByPositions(p) == {r.run : r \in Newest(p.rows)}

\* The balances tell the newest run, the newest that has any (none yet: {}).
LatestRuns(p) == {r.run : r \in Newest(p.balances)}

RowsOf(l, rows) == {r \in rows : r.leg = l}

\* Mutant: the snapshot is looked at after the closes
OpenOverClosed(l, p) ==
    IF \E r \in Newest(RowsOf(l, p.rows)) : r.run \in LatestRuns(p) THEN "open"
    ELSE IF l \in p.closes THEN "closed"
    ELSE IF RowsOf(l, p.rows) # {} THEN "stale" ELSE "absent"

\* Mutant: closes of legs that are still in the newest snapshot are kept back
CloseWaits(l, p) ==
    IF l \in p.closes /\ Newest(RowsOf(l, p.rows)) \cap Newest(p.rows) = {} THEN "closed"
    ELSE IF \E r \in Newest(RowsOf(l, p.rows)) : r.run \in LatestRuns(p) THEN "open"
    ELSE IF RowsOf(l, p.rows) # {} THEN "stale" ELSE "absent"

\* A leg is as its last row says; a close has the last word.
Status(l, p) ==
    IF l \in p.closes THEN "closed"
    ELSE IF \E r \in Newest(RowsOf(l, p.rows)) : r.run \in LatestRuns(p) THEN "open"
    ELSE IF RowsOf(l, p.rows) # {} THEN "stale" ELSE "absent"

\* The rest of the transaction: positions and closes are read once more, for the rows of
\* position_snapshot and closed_position.  Silver keeps what it has (upserts).
Publish ==
    /\ pipe.pc = "commit"
    /\ leg' = [l \in Legs |-> IF Status(l, pipe) = "absent" THEN leg[l] ELSE Status(l, pipe)]
    /\ snapshot' = snapshot \cup rawPosition
    /\ closed' = closed \cup rawClosed
    /\ basis' = IF last.state = "whole" /\ last.run = pipe.last
                THEN [run |-> last.run, legs |-> last.legs, held |-> last.held,
                      closes |-> pipe.closes]
                ELSE NotCalm
    /\ pipe' = PipeIdle
    /\ UNCHANGED <<exchange, clock, runs, collector, bronze, last>>

---------------------------------------------------------------------------
(* Gold, rebuilt from silver.                                              *)

\* Mutant: every snapshot counts
LatestPositionsAll == {r.leg : r \in snapshot}

LatestPositions == {r.leg : r \in Newest(snapshot)}

DealLedger == closed

InBox(legs, b) == Cardinality({l \in legs : BoxOf[l] = b})

\* with one unit of P&L per leg: realized of the deals and unrealized of the positions
StrategySummary(b) ==
    [open |-> InBox(LatestPositions, b),
     mtd |-> InBox(DealLedger, b) + InBox(LatestPositions, b)]

---------------------------------------------------------------------------
SnapshotStep(c) ==
    \/ BeginSnapshot(c) \/ FetchPositions(c) \/ WritePositions(c)
    \/ \E held \in BOOLEAN : WriteBalances(c, held)
    \/ FailSnapshot(c)

Pipeline == ReadPositions \/ ReadBalances \/ ReadCloses \/ Publish

Next ==
    \/ \E l \in Legs : Open(l) \/ Close(l)
    \/ \E c \in Collectors : SnapshotStep(c)
    \/ \E found \in SUBSET Legs : CollectCloses(found)
    \/ Pipeline

Spec == Init /\ [][Next]_vars

\* The pipeline loop keeps running (pm2); a run that fails rolls back and is followed by
\* another.  Nothing is assumed of the collectors.
FairSpec == Spec /\ WF_vars(Pipeline)

---------------------------------------------------------------------------
(* Properties.                                                             *)

\* Every variable has its type.
TypeOK ==
    /\ position \in [Legs -> {"new", "open", "closed"}]
    /\ clock \in Nat /\ runs \in 0..MaxRuns
    /\ \A c \in Collectors :
          /\ collector[c].pc \in {"idle", "positions", "fetched", "balances"}
          /\ collector[c].run \in Nat /\ collector[c].at \in Nat
          /\ collector[c].legs \subseteq Legs
    /\ rawPosition \subseteq PositionRow /\ rawBalance \subseteq BalanceRow
    /\ rawClosed \subseteq Legs
    /\ pipe.pc \in {"idle", "balances", "closes", "commit"}
    /\ pipe.rows \subseteq PositionRow /\ pipe.balances \subseteq BalanceRow
    /\ pipe.closes \subseteq Legs
    /\ leg \in [Legs -> {"absent", "open", "stale", "closed"}]
    /\ snapshot \subseteq PositionRow /\ closed \subseteq Legs

\* After a pipeline run that no snapshot came in the way of, and whose newest snapshot was
\* taken alone, is whole and shows a balance, a leg is open exactly if that snapshot shows
\* it and no close of it is collected - also when the snapshot shows no position at all.
StatusIsRight ==
    basis.run # 0 /\ basis.held => \A l \in Legs :
        /\ leg[l] = "closed" <=> l \in basis.closes
        /\ leg[l] = "open" <=> l \in basis.legs \ basis.closes

\* When the newest snapshot, whole and alone, has an open position, gold shows its legs as
\* current positions; with a balance, every open leg is in the summary of its box.
CurrentWhenAnyOpen ==
    basis.run # 0 /\ basis.legs # {} =>
        /\ LatestPositions = basis.legs
        /\ basis.held => \A l \in Legs : leg[l] = "open" =>
               l \in LatestPositions /\ StrategySummary(BoxOf[l]).open > 0

\* silver_to_gold.py:13: '"current" = rows from the latest snapshot per subaccount.'
CurrentIsLatest == basis.run # 0 => LatestPositions = basis.legs

\* The legs as LegLife promises them.
Life == INSTANCE LegLife WITH truth <- position, shown <- leg
LegsLive == Life!Spec

\* A close that is in bronze gets to silver, whatever becomes of the snapshots and of later
\* closes.  Which closes get to bronze, and which may never, says HistoryHeals.
ClosesReachSilver == \A l \in Legs : l \in rawClosed ~> leg[l] = "closed"
=============================================================================
