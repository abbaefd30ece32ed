# Verification of the CEX option reporting system

TLA+ models of `cex_option_reporting`: the modules that can be model-checked,
the TLC configurations that check them, and TLAPS proofs about the ones that
matter most.  Read it next to the code; every definition that models code is
mapped to its lines in `PROJECT.json`.

## 1. The system

A bronze / silver / gold reporting pipeline for option accounts, five pm2
processes around one PostgreSQL database.

```
  OKX ──> collectors ──> bronze ──┐                         ┌──> web reports (read only)
  OKX ──> index candles ─> bronze ┴─> silver ─────> gold ───┤
                                      ^   (pipeline process) ├──> Box builder board
   core (boxes, rules, pins) ─────────┘                      └──> alerts worker ──> Telegram
      ^            ^
   seed files   Box builder (web process, starts recompute threads)
```

### Components

| # | Component | State it keeps | Operations | Interacts with | Hard behaviour | What makes it correct |
|---|---|---|---|---|---|---|
| 1 | Box builder (`web/admin/box_builder.py`) | `core.strategy` (soft delete, name, key), `core.strategy_link` (append-only pins) | apply, reset, undo, create, update, delete | reads gold, asks for a recompute | two admins at once; undo of anything after anything; the board combines old gold with new links | one current link per leg; pins only into active boxes; undo restores; a delete empties its box; the board foresees the pipeline; names and keys stay unique |
| 2 | Strategy resolution (`domain/strategy_rules.py`, `_Lookups`) | none | pin > rule > unassigned | used by 4 | deleted boxes and unknown match keys | the one precedence everywhere |
| 3 | Recompute worker (`box_builder.py`) | `_rc_state` in memory | request, run, rerun, stop | web handlers, 4, 5 | a request while a run is going on; restart of the web process | no write is lost; one thread; the board's "syncing" ends |
| 4 | Pipeline runner (`pipelines/runner.py`) | Postgres advisory lock | loop tick, run stage | 3, 5, 6 | two processes, failures, restarts | runs exclude each other |
| 5 | Bronze to silver (`pipelines/bronze_to_silver.py`) | silver tables, candle watermark | rebuild legs, match fills, append candles | bronze, core | snapshots whose parts commit separately; watermark against concurrent inserts | leg status follows the newest snapshot that shows a balance; no candle is skipped |
| 6 | Silver to gold (`pipelines/silver_to_gold.py`) | gold tables | truncate and rebuild | silver | a failing rebuild; builders that read tables of the same run, whose rows are pending | gold is all of one silver version |
| 7 | Alerts worker (`worker/alerts.py`, `domain/alerts.py`, `worker/notifier.py`) | `core.notification_state` | check: read, decide, send, store | gold, Telegram, settings | messages accepted but not stored; a price that oscillates; two workers | once per crossing, nothing silently lost |
| 8 | Collectors (`ingestion/collector.py`, `bronze_writer.py`, `scheduler.py`) | bronze snapshot and history rows | snapshot, history run, backfill | OKX, 5 | a snapshot is four tables in four transactions, a history run three; each may stop anywhere | the newest whole snapshot decides a status; a missed run heals |
| 9 | Index candles (`ingestion/index_candles.py`, `okx/market.py`) | bronze candles | fill gaps | OKX, 5 | a hole longer than the lookback | every hole is filled |
| 10 | OKX connector (`connectors/okx/*`) | a cursor per call | paging, retries, signing, mapping | OKX | a page boundary on equal timestamps; an error that outlives its retries | paging loses nothing it should have got |
| 11 | Domain calculations (`domain/boxes.py`, `legs.py`, `metrics.py`, ...) | none | which leg a fill belongs to, box shapes, exposure, sizes, statistics | 5, 6, 14 | change points and fills at equal times | totals match the legs; a fill finds its leg |
| 12 | Seed loader (`db/seed_loader.py`) | core | upsert or replace from CSV | 1, 13 | a box renamed, deleted or made by an admin, before or meanwhile | rows only in the database are left alone; loading twice changes nothing |
| 13 | Settings tab (`web/admin/settings.py`) | `core.notification_setting` | create, update, delete | 7 | check-then-insert | one row per asset and code |
| 14 | Web reports (`web/reports.py`) | none | equity, P&L, charts, positions, payoff, statistics | gold | one number reached along several tables and periods | every total agrees with the deals and positions it is made of |
| 15 | Login, pages, command line, schema | users, sessions | - | - | - | not modelled |

`PROJECT.json` lists the same components with what is modelled of each, and
under `hazards` every place where a test would hardly reach what can go wrong.

## 2. Plan

The parts where several processes write what others rely on came first, then the
pure parts that turn it into numbers.

| | modules | state |
|---|---|---|
| 1 | **BoxBuilder**; **Recompute** and its abstract specification **GoldSync** | modelled, checked, proved |
| 2 | **Alerts** (one box) | modelled, checked, safety proved |
| 3 | **CandleSync** | modelled, checked, safety proved |
| 4 | **Snapshots** and its abstract specification **LegLife** | modelled, checked, safety and refinement proved |
| 5 | **History** | modelled, checked, proved |
| 6 | **Domain**, **Gold**, **Reports** (each extends the one before) | modelled, checked, proved |
| 7 | **Seed** | modelled, checked, `RestLeftAlone` proved |

Left for later: several boxes in Alerts; the rule matcher (`match_rule`) as a
function of its own.

## 3. Modules

### BoxBuilder

One account.  `box` is `core.strategy`, `links[l]` the rows of
`core.strategy_link` of leg `l` in id order, `gold` the columns
`strategy_id`, `strategy_source`, `rule_strategy_id` of `gold.position_leg`.

Each endpoint is `Begin...` and then `Commit` or `Abort`.  The transactions run
in READ COMMITTED; `Begin...` takes all reads at one instant and decides what to
write (the validation, `_write_link`'s no-op test, `_free_key`, the search of
`undo`), `Commit` writes under the two partial unique indexes, which is where
PostgreSQL orders two writers of a row.  A unique violation, a deadlock and a
lost connection all are `Abort`.  `RequestRecompute` is the call made after the
`with` block, a step of its own because the process may be slow or may stop
there.  `Pipeline` is a whole pipeline run; its inner steps are Recompute's.

| code | definition |
|---|---|
| `_name_taken`, `_free_key`, `_current_links` | `NameTaken`, `FreeKey`, `CurrentRows` |
| `_leg_dict`, `_load_legs` | `Effective`, `OnBoard` |
| `_Lookups`, `first_matching_rule`, `resolve_strategy` | `PinBox`, `RuleBox`, `Resolve` |
| `_write_link` | `Writes`, `PlanRow`, `AppendLink` |
| `apply`, `reset`, `undo`, `create_strategy`, `update_strategy`, `delete_strategy` | `BeginApply`, ... `BeginDelete` |
| `uq_strategy_link_current`, `uq_strategy_key_active` | `LinkIndexFree`, `KeyIndexFree` |

Abstractions.  A rule is what it does to a leg: `RulePref[l]` is the order in
which boxes claim `l`, best first.  A name is what was typed plus the number of
" (restored)" an undo added; a key is a name plus its numeric suffixes; case and
the cut at 64 characters are left out.  Colours, descriptions, the notification
switch, reasons, `prev_strategy_id`, previews and the audit log are left out: no
decision depends on them.  The branch of `undo` for a leg missing from silver is
left out (legs are only upserted).  The seed loader, which also writes
`core.strategy`, is not running here.

### Recompute and GoldSync

Data are versions: `version` counts the committed writes, `silver` and `gold`
carry the version of the rules and of the pins they were built from (the two
are read by separate statements, so they can differ).  `pc` is where a runner
is: a recompute thread (`off`, `wait`, ..., `finish`) or the pm2 loop (`sleep`,
`wait`, ...).  `running`, `rerun`, `lastError` are `_rc_state`.  A run that
raises rolls its transaction back and frees the lock; a crash of either process
also forgets its memory and its sessions.

GoldSync is what this amounts to without threads and locks: what is published to
gold was committed, and gold never goes back.  Recompute implements it
(`Promise == INSTANCE GoldSync`, both variables have the same names).

### Alerts

One box and the workers that check it.  A check is `Begin` (lock, reads and
`evaluate` at one instant), then the messages one by one in `evaluate`'s order,
then `Store`, which also frees the lock.  Everything else moves in between.

| code | definition |
|---|---|
| `is_alive`, `load_boxes`, `current_prices` | `Alive`, `Listed`, `known` with `Compared` |
| `evaluate`, price codes | `ToRearm`, `PriceReady`, `PriceCovered`, `PriceDue` |
| `evaluate`, time codes; `time_due`, `time_hit` | `TimeReady`, `TimeCovered`; `Due`, `TimeHit` |
| `alerts_lock`, `run_once` up to the sending | `Begin` |
| `send_many`, `_deliver`, `TelegramNotifier.send_message` | `Accept`, `Refuse`, `AnswerLost`, `BatchRaises` |
| the end of `run_once`, `save_states` | `Store` |
| the process dies, or `save_states` raises | `Abandon` |
| Settings tab, the box's notification switch | `Switch` |
| price, strikes, thresholds of a-d; legs; expiry; time | `PriceMoves`, `LegChanges`, `Roll`, `Tick` |

A price is the set `hit` of price codes on whose far side it is, so a threshold
or a strike that moves is the same as a price that moves.  Codes have the
letters the code gives them.  `leg` stands for the legs with the last expiry:
open, settled at that expiry, or gone (closed early, or stale).  `Roll` changes
the last expiry; the remaining legs are then open ones that expire in the
future.  The clock stops at `Horizon` and the age of the last message at
`Rearm`; beyond them nothing depends on time.  The thresholds of e and f are
constant.  `copies` and `heard` are history: how often a message whose outcome
the worker knows was delivered in this crossing (or for this expiry), and what
the chat was told since a code was last armed.  A message that is delivered but
whose outcome is lost (timeout, exception, crash) is sent again by design, and
is therefore in `heard` but not in `copies`.

### CandleSync

The candles of one index.  Time is counted in candles.  A top-up of the snapshot
or the history loop takes the lock or is skipped, finds the gaps (`StartTopUp`),
then alternates a page that is fetched and inserted (`InsertPage`) with its commit
(`CommitPage`), newest page first.  The manual backfill does the same from the
first position, here day 0, without asking for the lock.

| code | definition |
|---|---|
| `sync_recent`, `backfill`: where to start | `WindowStart`, `Asked` |
| `compute_gaps`, `merge_gaps`, `CandleStore.gaps` | `Gaps`, `NewestGap` |
| `candle_sync_lock`, `sync_index_candles` | `LockFree`, `LockAfter`, `Freed` |
| `_fill`, `iter_index_candles`, `write_index_candles` | `Page`, `InsertPage`, `CommitPage`, `EndTopUp` |
| `OkxTransientError` in `iter_index_candles` | `CutGap` |
| `_run` raises, or the process dies | `Crash` |
| `_transform_index_candles` | `Fresh`, `Transform` |

Ids are given out by the INSERT and become visible with the commit; all rows of a
page share one (a page is one statement).  Two inserts of one minute wait for each
other, as the unique index makes them.  A loop may begin at any time, which covers
the schedule, missed runs and processes that are down.  The lookback is read with
the clock at one instant.  The exchange has every completed candle.  Left out:
several instruments, a backfill that starts on a chosen later day, rows whose
prices are not numbers.  `topUps` and `manual` are history: up to where, and
whether at most `Lookback` days apart, undisturbed top-ups have started, and
whether a backfill wrote anything.

### Snapshots and LegLife

One account.  A snapshot run of the loop or of a backfill is `BeginSnapshot`,
`FetchPositions`, `WritePositions`, `WriteBalances` (each table commits by itself)
and may stop after any of them (`FailSnapshot`).  Positions have no row when nothing is
open, and balances none when no coin has an equity above 0 (`held`).  The pipeline's
transaction is READ COMMITTED, so `ReadPositions`, `ReadBalances`, `ReadCloses` and `Publish` each see
the commits so far.

| code | definition |
|---|---|
| `_write_snapshot`, `collect_snapshot`, `map_balances`, `write_snapshot` | `BeginSnapshot`, ..., `WriteBalances`, `FailSnapshot` |
| `collect_history`, `write_closed_positions`, as far as statuses go | `CollectCloses` |
| `_collect_legs`, `_Leg` | `LatestRuns`, `RowsOf`, `Status` |
| `_transform_positions`, `_transform_closed` | `Publish` |
| `_latest_positions`, `_build_deal_ledger`, `_build_strategy_summary` | `LatestPositions`, `DealLedger`, `StrategySummary` |

`CollectCloses(found)` writes any part of the closes so far, down to none: the window, the
pages and the errors that decide which, and that some are never found, are History's
matter.  One balance row stands for those of all coins; its value does not matter here.

`last` and `basis` are history: whether the newest snapshot had no other beside it,
was written whole and shows a balance, and, right after a pipeline run nothing came in the way of,
which snapshot and closes it read.

LegLife says what `silver.position_leg` promises whatever snapshots do: a leg is
shown after it was opened, as closed after it was closed, is never removed, and
closed for good.  Snapshots implements it (`position` is its `truth`, `leg` what is
`shown`).

### History

Fills, closed positions and bills.  A run asks for one kind after the other
(`FetchPage` once a page, `Write` once a kind); `Transient` is an
`OkxTransientError` that outlives its retries (the pages so far are kept), `Fail`
any other error or a crash.

| code | definition |
|---|---|
| `_window_start`, `collect_history`, `backfill` | `WindowStart`, `Begin` |
| `get_fills_paginated`, `get_positions_history_paginated`, `get_bills_paginated` | `Before`, `Page`, `LastPage`, `Cursor`, `FetchPage` |
| `write_fills`, `write_closed_positions`, `write_bills` and their keys | `Key`, `Kept`, `Write` |

Records are numbers in the order they were made.  Their times are units of the
clock, several records may have one time, and only closed positions are paged by
time.  The exchange keeps everything.  `CutOff` names
the closed positions that may be skipped: those that share their time with a newer one
which may be the oldest of a full page.  Whether a page did end there is not recorded, so
it names some that no page cut.

### Domain, Gold and Reports

Domain holds the pure functions (`legs.py`, `boxes.py`, `contracts.py`,
`metrics.py`).  Gold extends it with a small world (positions that are opened,
closed or settled, snapshots, closes collected late, legs moved to other boxes) and
with all tables of `silver_to_gold.py`, rebuilt after every change in the three
steps: conversion rates, the detailed tables (`Tables`), those that sum up (`Totals`).
A run truncates first, adds rows to a session that is not flushed (`autoflush=False`) and
commits at the end, so a builder that selects a gold table finds it empty (`Selected`):
`ClientPnlDaily` and the equity statistics of `Performance` are defined as the code has
them and come out empty.  The greeks and the summary read the positions from silver, and
the boxes are made of the list of legs in memory.  Reports extends Gold with what each endpoint of
`web/reports.py` answers.  The names are those of the code: `PnlDaily` is
`_build_pnl_daily`, `GreeksByExpiry` is `_build_greeks_by_expiry`, `EquityPoints`
and `Header` are the equity endpoint, `Payoff` the payoff one, and so on.

Amounts are integers, and so is a rate (the division is exact, a balance being valued at
the price); other ratios are pairs `<<numerator, denominator>>`, so that nothing is
rounded.  One greek stands for all and one underlying for a coin and a contract.  A coin
that is not held, or owed, has no balance row, and positions are in options of known size.  The segments of the exposure are a
set, and a series is a function of its moments, so that its order is that of time.  Silver is as fresh as bronze and gold as fresh as silver here: the delay
is the subject of Snapshots and Recompute.  Left out: premiums, the Sharpe ratio,
the curve of the payoff, minute candles and `index_candle`, page limits.

### Seed

A load is one READ COMMITTED transaction, taken row by row (`LoadRow`), beside
admins whose transactions commit in between.  `draft` is what the load sees: what
it wrote and what the others have committed.  Rows it wrote and tables it truncated
are locked for the others (`FreeBox`, `FreeSetting`, `Truncated`).

| code | definition |
|---|---|
| `load_seed`: `--only`, `--replace`, `--wipe-links` | `Start`, `Refuse`, `Pass`, `Truncate` |
| `_strategy_id`, `_values`, `_find` and the loop of `load_seed` | `FindBox`, `LoadBox`, `LoadRule`, `LoadSetting`, `LoadRow` |
| `create_strategy`, `update_strategy`, `delete_strategy`, `undo`, `apply` | `Create`, `Rename`, `Delete`, `Restore`, `Pin` |
| `settings.py` | `Set` |

A folder has for each table its rows in the order of the layers, and `RowsOf` takes the
tables in that of `SEED_TABLES`; reading CSV and checking types are left out.  Ids are
numbers; TRUNCATE starts them again.  A load adds a box while there is an id for it
(`Room`), which never stops it in the runs.

## 4. Runs

| run | question | bounds |
|---|---|---|
| `box` | one admin, any sequence of operations with pipeline runs in between: the board shows what the next run will do, a deleted box is empty, pins stay on active boxes, undo of the newest changeset restores exactly, keys never hit the unique index, typed names stay unique | 2 legs of which a rule claims one, 2 seeded boxes and room for a third, 2 names, 5 changesets |
| `box_conc` | two admins: the links of a leg stay a linear append-only history; stale gold always has a recompute on its way | 1 leg claimed by two boxes, 3 seeded boxes, 3 changesets |
| `recompute` | exclusion, one thread, no lost write, gold never back, refinement of GoldSync; every write reaches gold; recomputes end | 2 requests, room for 2 threads, 2 writes, 1 failing run, 1 restart of each process |
| `alerts_price` | once per crossing; no critical code swallowed; a hit code is sent, a relaxed one armed again | 2 workers, codes a and c, re-arm pause 2, the expiry never reached (the box dies and revives by its legs), 1 fault |
| `alerts_time` | once per last expiry | 2 workers, codes e and f (2 units before e), expiries 3 and 4, grace 2, 2 faults |
| `candles` | no hole survives an undisturbed top-up in time; the loops' candles are not passed over; the last days reach silver | 2 days of 2 candles, lookback 1 day, 2 candles a page, 1 error or crash, both loops and a backfill |
| `snapshots` | the status of a leg follows the newest whole snapshot that shows a balance and the closes; gold shows it; LegLife; a close in bronze gets to silver | 2 legs of one box, the loop and a backfill, 2 snapshot runs |
| `ghost_positions` | **violated**: "current" is the latest snapshot | 1 leg, the loop and a backfill, 2 snapshot runs |
| `history` | what runs at most the lookback apart leave behind | 2 days (3 units), lookback 0, 1 record a page, at most 2 pages, 2 records of 2 instruments, fills and closed positions (bills are paged like fills), the loop and a backfill, 1 fault |
| `reports` | the groupings of the same deals and positions agree; adjoining periods make the whole; the chart frames its legs; fills find their leg; rates of past days stay | 3 positions in 2 accounts of one client, two of them of one instrument, 2 days of 2 units, 3 snapshots, 1 move, accounts in debt (no balance row) for part of the second day |
| `seed` | rows only in the database are left alone; no box is added beside one with its key; an undisturbed load is settled | 3 folders with two layers and a bad row, 4 edits, 2 loads, 1 pin, 2 names |
| `seed_pins` | **violated**: no load without `--wipe-links` loses a pin | 2 edits, 1 load |

Two admins are the interesting number because every race is between a reader and
one writer that overtakes it; five changesets by one admin are enough to delete,
undo, create under the freed name and undo that too, and three by two to pin, delete
and restore.  Sides b and d of a box are a and c mirrored, so the alert runs have one
side; two workers are every race of a try-lock; a re-arm pause of 2 has a code sent,
armed and waiting at different ages; two expiries are one roll.  Two days of two
candles, with a lookback of one, hold a gap that is longer than a page and begins
before the window.  Two snapshot runs are one whole and one that fails or is beside
it, for legs that are both, either or none of them open, with and without a balance.  Pages of one record make
two records of one time a page boundary; what more records, pages and days do is
`HistoryHealed`'s proof.  The three positions of `reports` are two of one instrument
(the second may be opened in the instant the first is closed), two of one account
and strategy that can part, and another coin in another account; expiry, settlement
and a day without balance or position all occur.  In `seed` the second folder renames
a box and adds one whose name may be taken, and the third has a rule without its box.

`alerts_time` uses symmetry over the workers and `history` over the instruments
(both check safety only).  Deadlock is checked in every run but `seed` and
`seed_pins`, where edits and loads are bounded and the system stops when both are
used up.

**Fairness.** `Recompute!Fairness`: weak fairness of the loop's interval job
(apscheduler fires it and pm2 restarts a dead process), of a run that holds the
lock (its steps are database statements that end), and of the end of a thread's
round; strong fairness of `Acquire`, because PostgreSQL serves the waiters of an
advisory lock in order and a waiter is therefore not overtaken for ever.
Nothing is assumed of the admins, of failures or of crashes; failures and
restarts are bounded, as pm2 and a healthy database bound them in practice.

`Alerts!Fairness`: time passes; some worker checks again (`tick` is an interval
job that survives exceptions, and pm2 restarts a dead process); a message in
flight gets an answer and a check that has sent everything stores it.  Weak
fairness suffices for `Begin`: while no check runs it stays enabled.  Faults are
bounded by `MaxFaults`: Telegram is not assumed to fail for ever.

`CandleSync!Fairness`: the clock runs, cron starts each loop again and again, what is
started goes on, the pipeline keeps copying.  Nobody has to start a backfill, and
errors and crashes are bounded by `MaxFaults`.  That the loop which holds the lock
gives it back, also when it dies, is what makes `RecentCandlesArrive` true.

`Snapshots!FairSpec`: weak fairness of the pipeline's steps: the pipeline loop is started
again by the interval job and pm2, and a run that fails is followed by another.  Nothing
is assumed of the collectors, so `ClosesReachSilver` speaks of the closes that are in
bronze, and holds even if every snapshot and every later history run fails.

### What the violated runs show

* `ghost_positions`.  `silver_to_gold.py:13` says `"current" = rows from the latest
  snapshot per subaccount.`  A position is opened, seen in a snapshot, and closed.  The
  next snapshot has no position, hence no row in `position_snapshot`, and the newest
  rows are those of the snapshot before: `position_current`, the greeks, the summary
  and the reports made of them keep the closed position until another one is opened.
  `CurrentWhenAnyOpen` is what does hold.
* `seed_pins`.  `seed_loader.py:35` says that `replace refuses to run while pins exist
  unless explicitly allowed`.  The load counts the pins, an admin pins a position and
  commits, and the TRUNCATE ... CASCADE takes the pin along.

### Known, and found in the models without a run of their own

* *Pin race.*  `bronze_to_silver.py:107` says a pin to a deleted box cannot stay because
  "deleting a box re-pins its legs first".  Admin 1's apply reads box 3 as active, admin
  2 deletes box 3 and commits (the leg is not in it yet), admin 1 commits the pin.  The
  pipeline ignores the pin and the rules decide; the board goes on showing the leg in the
  deleted box as "syncing".  This is why `PinsAreActive` is checked and proved for one
  admin.
* *Stale delete.*  `delete_strategy` finds the legs of a box through gold.  Delete box 2,
  undo, and delete it again before the recompute ran: the undo left an unpin, the board
  shows for an unpinned leg the rule box that gold remembers, computed while box 2 was
  gone, and the second delete pins nothing.  `DeleteEmptiesBox` therefore speaks of
  deletions whose gold was built from today's boxes.
* *Covered code.*  `domain/alerts.py` says "when a and c are both true, only a is sent and
  c is marked done".  With a within its re-arm pause, neither is sent and c is marked done.
* *Rolled back.*  "Time codes are sent once per last-expiry value", but only the newest
  value is kept: when the leg with the last expiry leaves the box and comes back, the
  message is sent again.  `SentOncePerExpiry` has the hypothesis `~EndsMayShrink`.
* *Candle hole.*  `market.py:103` says of a range that an error ended early that "the next
  run fills the rest".  After a pause longer than the lookback the gap is read newest page
  first; cut after a page, the newest stored candle is recent, and the next run starts at
  its window.  `CandlesHeal` says what does hold.
* *Watermark.*  The manual backfill does not take the candle lock, so its page can commit
  after a page of a loop with higher ids has been copied; its candles are then never
  copied to silver.  `LoopsLoseNoCandle` is what holds of `bronze_to_silver.py:484`.
* *Emptied account.*  `bronze_to_silver.py:182` says that "balances are written on every
  run, positions only when something is open", and takes the newest run from the balances.
  But `map_balances` drops coins with an equity of 0 or less and `write_snapshot` writes
  nothing for an empty list.  A leg is opened, snapshotted and closed, and the account
  emptied: the next snapshot has no row at all, the older one passes for the newest, and
  the leg stays open until its close is collected.  `StatusIsRight` says what does hold:
  the newest snapshot decides if it shows a balance.
* *Stale in between.*  `bronze_to_silver.py:156` says of stale "vanished from snapshots, no
  close yet".  A pipeline run that reads after the positions of a snapshot are committed and
  before its balances are calls every open leg stale; so does one after a snapshot that
  died in between, until the next one.
* *Read back.*  `silver_to_gold.py:536` says "roll subaccount pnl_daily up to the owning
  user, per day".  The rows of the day are in a session that is not flushed when
  `_build_client_pnl_daily` selects them, so it finds the truncated table and
  `client_pnl_daily` stays empty.  `_eod_equity` does the same with `balance_timeseries`:
  return, drawdown and Sharpe ratio are always NULL.  The reports compute their own from
  committed gold; `BooksAgree` claims nothing of the empty columns.
* *Cut closes.*  `positions-history` is paged by time: of closed positions that share the
  time at which a full page ends, those beyond the page are skipped (`CutOff`), for good
  if later pages end there too or the window has passed.
* *Equity of several accounts.*  `reports.py:424` sums equity over accounts by equal
  `captured_at`, and each account's snapshot has its own: with two accounts a point is one
  account's equity.  The model has it as it is; no total of `BooksAgree` relies on it.
* *Unrealized P&L of a day.*  A strategy's is that of its last snapshot of the day which
  had one of its positions, so a position closed during the day, or moved, still counts.
  `UnrealizedAgrees` says when the sums agree.

## 5. Proofs

`BoxBuilderProofs`, `RecomputeProofs`, `AlertsProofs`, `CandleSyncProofs`,
`SnapshotsProofs`, `HistoryProofs`, `ReportsProofs` and `SeedProofs`, checked by TLAPS
for every value of the constants that satisfies the modules' assumptions (finite bounds
on boxes, changesets and snapshot runs, any sets of admins, handlers, threads, workers
and codes, any legs, expiries and thresholds, any day length, lookback and page size, any
prices, balances and trades, any seed files).  Finite are the legs of `Snapshots`, for
there must be a newest row; the accounts, legs and strategies of `Gold`, for their values
are summed; and the ids of `Seed`, for a free key must be found.

**BoxBuilder.**  `IInv` is `TypeOK` with four facts.
`NewestLinkIsCurrent` is itself inductive once the commit guard is used: the
planned row supersedes `old`, the index says no other row is current, so all are
superseded when the new one is appended.  `RefsOK` (links, rules and open
transactions only name rows that are in use, and rows in use never become free)
is needed so that inserting a box cannot change what an existing link resolves
to.  `OpsOK` (a create or a rename carries no links) with `RefsOK` gives that a
commit without a recompute request moves no leg, which is the heart of
`StaleGoldIsSyncing`.  `TypeOK` needs that `_free_key` finds a key: with
`NumBoxes` boxes one of `NumBoxes + 1` suffixes is free, a pigeonhole argument by
cardinality.  Theorems: `TypeCorrect`, `Newest`, `AppendOnly`, `Syncing`.

**BoxBuilder with one admin.**  Six properties are false when two admins overtake one
another and true of one, whatever the pipeline does meanwhile.  The theorems have the
hypotheses `OneAdmin` and `SeedNamesDiffer` (the seeded boxes have names of their own, as
in `strategy.csv` of each seed folder).  `OneIInv` is added to `IInv`.  Its centre is `ReadyOK`: what
an open transaction has decided still fits, since nobody else writes boxes or links
between its reads and its commit.  `PlanReady` says so of the link rows (a pin goes to a
box that will be active; a delete re-pins every leg whose link is in the box and, when
gold is fresh, every leg the pipeline would put there), `BoxReady` of the box row (name
and key are free), `UndoReady` of an undo (it reverts exactly the newest rows of its
changeset that it may).  `GoldOK` ties gold to the boxes it was built from, which makes
the board foresee the next run (`BoardForesees`), which a delete relies on to find its
legs.  `DeletionsOK` (one box per deleting changeset) makes the choice of the box to
restore unique.  `LastOK` recovers what the legs were before the newest changeset from
links and boxes alone (`LinkBefore`, `BoxesBefore`), and that is what an undo produces.
Theorems: `PinsActive`, `BoardForeseen`, `KeysFree`, `NamesUnique`, `DeleteEmpties`,
`UndoCorrect`.

**Recompute.**  `IInv` is `TypeOK`, `LockOK` (who is inside holds the lock),
`OrderOK` (gold <= silver <= version, and what a run has read lies in between:
this is why gold cannot go back), `ThreadOK` (one thread, alive exactly when
`running`) and `SyncOK`, the key of it: while `running` without `rerun`, the
thread's round is in a place from which it leaves every committed write in gold
(`Secured`), or it has raised.  Theorems: `TypeCorrect`, `Exclusion`,
`SingleThread`, `IdleInSync`, `Monotone`, `Refinement`.

**Alerts.**  `IInv` is `TypeOK` with four facts.  `LockOK`: the worker that sends
holds the lock, so that all others are idle and the states cannot change under a
check.  `CheckOK`: a check decides one thing about a code (send, re-arm or mark
done), and what was accepted was told.  `CrossingOK`: an armed code whose
crossing goes on has no recorded copy unless a running check delivered it, and
neither has a code that is to be sent, or to be re-armed while it is in play; this
is what survives a price that moves away and back while messages are sent.
`CriticalNotSwallowed` is inductive with `CheckOK`.  For the time codes
`ExpiryFitsAll` adds that last expiries only grow and that a copy is of an expiry
not newer than the stored one, or of a running check; it needs the hypothesis
`~EndsMayShrink`, without which the property is false (*Rolled back* above).  Theorems:
`TypeCorrect`, `Exclusion` (at most one check at a time; it has no run of its own),
`SentOncePerCrossing`, `NothingSwallowed`, `SentOncePerExpiry`.

**CandleSync.**  `IInv` is `TypeOK` with four facts.  `CoverOK`: what an undisturbed
top-up has not stored between its window and its start it still has to do; when
nothing is left, the window joins what was known before, since it reaches back at
least `Lookback` whole days (`CandlesHeal`).  `RowsOK` (open transactions add rows
nobody else adds, and the whole page) is what keeps `CoverOK` when a page commits.
`LockOK` with `IdsOK`: without the backfill at most one transaction is open, and its
id is above all stored ones, so no candle appears at or below the watermark
(`LoopsLoseNoCandle`).  Theorems: `CandleTypeCorrect`, `CandlesHealed`,
`LoopsLoseNone`.

**Snapshots.**  `IInv` follows a snapshot that is taken alone from its beginning to the
pipeline run that reads it.  `Exclusive`: while it is taken nobody else writes.
`Progress`: its position rows are newer than all others and, once it is whole, so is its
balance row, if it has one.  `ReadAll`: a pipeline run that began after it has read everything.  From
these, the run takes this snapshot for the newest if it shows a balance, and `StatusIsRight` and
`CurrentWhenAnyOpen` hold when it publishes.  `Truth` and `Shown` (rows and statuses
only say what has happened, and a close that silver shows is in what the run read) give
the refinement of LegLife, step by step.  Theorems: `TypeCorrect`, `StatusCorrect`,
`CurrentCorrect`, `Implements`.

**History.**  `LedgerOK`: records come in the order of time, and no two of an instrument
have one number.  `PagesOK`: of what a run wants (its window, from before it began) it
has found all down to the cursor, except closed positions that are `CutOff` at a page
boundary; when it has got every page, all.  Windows are whole days, so a run at most
`Lookback` days after what was covered before reaches back to it; that arithmetic
(`WindowReaches`) joins the two in `HistoryHeals`.  Theorems: `TypeCorrect`,
`HistoryHealed`, and `KeysCorrect` (the unique keys of the bronze tables tell records
apart, so an insert that ignores conflicts drops only copies; it has no run of its own).

**Reports.**  A property speaks of the state after a run, so `IInv` says what the world
is and that the tables are made of it.  `WorldOK`, `LegsOK` and `SnapshotsOK`: a leg is
opened before it is closed, closed at its expiry at the latest and in the account of its
strategy; no two legs of an instrument are opened at one time (so one is the latest); a
snapshot shows a leg only during its life, and no two have one time (so "the last of the
day" is one).  `Made`: what each finished step of the run wrote is what its builders say, none of
which depends on a table of the same run.
`RatesKept`: of a day that is over the rates of the last run are those that silver still
gives, so the next run finds them again.  It rests on rates depending on silver through
the times of the day's snapshots (`RateByTimes`), and on the snapshots of past days
staying (`PastRatesStay`): that is `SettledRatesStay`, whatever comes later.

The totals are sums over finite sets.  An induction theorem with an operator parameter
cannot be used, so `SubsetInduction` is stated with a set and proved from the
well-foundedness of strict inclusion; from it come the laws of sums (`SumAdd`, `SumPlus`,
`SumByKey`: a sum regrouped by a key, `SumRename`: over the image of an injection).  Then
`BooksAgree` is, conjunct by conjunct, a regrouping: each deal is in exactly one part of
every grouping (by strategy and day, by coin and day, by period and strategy, underlying
or client), because a
leg's account owns its box; each open position in one cell of greeks, summary and ladder.
The unrealized P&L of a day agrees under the hypothesis that `UnrealizedAgrees` names.  For `PiecesMakeTheWhole` every point has
one day, and a day is in one of two adjoining periods.  For `ChartIsRight` the exposure is
a running total: the sum of the changes up to a time (`RunningTotal`) is that of the sizes
opened less those gone (`SegmentTotal`, `CountsWhileOpen`).  Theorems: `Inductive`,
`SettledRates`, `FillsFound`, `Pieces`, `Chart`, `Books`.

**Seed.**  `TypeOK` again needs a free key for a box that is made or restored, by
cardinality.  `Clean`: until it truncates or loads, the load sees the tables as they are.
`AddedAlone`: a box that the load added is active and no other box of its view, deleted or
not, has its key; the load looked for one before it added, and afterwards the admins'
inserts and restores wait for a key of the load and leave rows of the load alone
(`KeyInLoad`, `FreeBox`), which is what keeps it.  `LeftAlone`: a load without `--replace`
has changed, so far, only names of boxes, rules and settings that are in its files.
Committed, the last two are `RestLeftAlone`.  Theorems: `Inductive`, `TypeCorrect`,
`LeavesAlone`.

**Only model-checked.**  Liveness (`WritesReachGold`, `RecomputeEnds`, `AlertsGetOut`,
`RecentCandlesArrive`, `ClosesReachSilver`), which needs ENABLED and fairness.
`SeedSettles`, which folds a load's step over all rows of the files: what such a fold
computes needs induction over a sequence for an operator that is given as a parameter,
which is out of the prover's reach.  The assumption `DrawdownIsWorst` of `MCReports`
compares the running maximum of `max_drawdown` with its definition over all short series,
and is evaluated by TLC at the start of `reports`.

## 6. Not modelled

* *Login, pages, browser code; command line and settings.*  No state shared with the
  rest.
* *Schema and migrations.*  The unique indexes, foreign keys and locks that matter are
  guards of `Commit` (BoxBuilder), `InsertPage`, `Kept`, `FreeBox`, `FreeSetting` and
  `Truncated`; the rest is declarations.
* *OKX connector.*  Signing, the retries within a call and the mapping of messages to
  rows.  Paging is modelled, in History and CandleSync.
* *The rule matcher.*  `match_rule` compares strings (globs, dates, kinds); what it
  decides is the constant `RulePref`.
* *Numbers.*  Option premiums, the Sharpe ratio, the curve of the payoff and
  `index_candle` (bars made of minute candles) are arithmetic over real numbers without
  choices of their own.
* *Reading CSV* in the seed loader, and the types of its values.

Hazards that no property covers: two admins who take one name (no index guards names,
and nothing promises more); the loss of the connection that holds the advisory lock
while the run goes on; a code marked done because of a critical one that is itself
waiting; a code switched off, or without a price, while the price falls back; the equity
of several accounts; gold tables read back in the run that fills them.  Each is false by reading the code or in the model, and is
described above or in its note in `PROJECT.json`.
