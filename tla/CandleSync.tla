----------------------------- MODULE CandleSync -----------------------------
(***************************************************************************)
(* The candles of one index (ingestion/index_candles.py, the paging of     *)
(* connectors/okx/market.py): the snapshot and the history loop top them up*)
(* at the end of a run, one loop at a time; the manual backfill fills them *)
(* without asking for the lock.  Meanwhile the pipeline copies them to     *)
(* silver, by ids above those it has copied.                               *)
(*                                                                         *)
(* Time is counted in candles.  A loop may begin at any time: its schedule,*)
(* runs that were missed and processes that were down are all covered.     *)
(***************************************************************************)
EXTENDS Integers, FiniteSets

CONSTANTS
    DayLength,      \* candles per day
    Lookback,       \* INGEST_DAILY_LOOKBACK_DAYS
    PageSize,       \* candles per request
    Horizon,        \* bound: the clock stops here
    MaxFaults       \* bound: errors and crashes

Loops == {"snapshot", "history"}
Jobs == Loops \cup {"backfill"}
Minutes == 0..(Horizon - 1)

ASSUME CandleAssumption ==
    /\ Lookback \in Nat /\ Horizon \in Nat /\ MaxFaults \in Nat
    /\ DayLength \in Nat \ {0} /\ PageSize \in Nat \ {0}

VARIABLES
    now,        \* the clock; the candle of this minute is still forming
    candle,     \* bronze.raw_index_candle: id of each minute's row, 0 if none
    ids,        \* the last id given out (one for all rows of a page)
    silver,     \* minutes in silver.index_candle
    lock,       \* holder of the candle-sync advisory lock
    job,        \* what each process is doing
    faults,     \* faults so far
    topUps,     \* history: how far, and whether gaplessly, candles were asked for
    manual      \* history: the backfill has written candles

bronze == <<candle, ids>>
vars == <<now, bronze, silver, lock, job, faults, topUps, manual>>

None == "none"
NoJob == [pc |-> "idle", at |-> 0, whole |-> FALSE, todo |-> {}, rows |-> {}, id |-> 0]

Init ==
    /\ now = 0
    /\ candle = [m \in Minutes |-> 0] /\ ids = 0
    /\ silver = {}
    /\ lock = None
    /\ job = [j \in Jobs |-> NoJob]
    /\ faults = 0
    /\ topUps = [upto |-> 0, gapless |-> TRUE]
    /\ manual = FALSE

Stored == {m \in Minutes : candle[m] # 0}

\* Mutant: one day less
WindowStartShort(t) == t - (t % DayLength) - (Lookback - 1) * DayLength

\* midnight, Lookback days before today
WindowStart(t) == t - (t % DayLength) - Lookback * DayLength

Tick ==
    /\ now < Horizon
    /\ now' = now + 1
    /\ UNCHANGED <<bronze, silver, lock, job, faults, topUps, manual>>

---------------------------------------------------------------------------
(* A top-up.                                                               *)

\* What it looks at: the window, and everything from the latest candle on if that is
\* older; the backfill starts at the first position, on day 0.
Asked(j) ==
    {m \in Minutes : \/ j = "backfill"
                     \/ m >= WindowStart(now)
                     \/ Stored # {} /\ \A k \in Stored : m >= k}

\* Completed minutes that are missing, and stored ones between two missing ones that
\* one page covers (compute_gaps, merge_gaps)
Gaps(j) ==
    LET missing == {m \in Asked(j) : m < now} \ Stored
    IN  {m \in Minutes : \/ m \in missing
                         \/ \E a, b \in missing : a < m /\ m < b /\ b - a <= PageSize}

\* Mutant: the lock is not asked for
Unlocked(j) == TRUE

\* A loop that finds the lock taken leaves the candles to the other one.
LockFree(j) == j = "backfill" \/ lock = None

\* Mutant: the backfill's lock is taken for a loop's
LockedBy(j) == j

LockAfter(j) == IF j = "backfill" THEN lock ELSE j

StartTopUp(j) ==
    /\ job[j].pc = "idle" /\ LockFree(j)
    /\ lock' = LockAfter(j)
    /\ job' = [job EXCEPT ![j] = [pc |-> "pages", at |-> now, whole |-> TRUE,
                                  todo |-> Gaps(j), rows |-> {}, id |-> 0]]
    /\ UNCHANGED <<now, bronze, silver, faults, topUps, manual>>

\* The newest gap is read first, from its end backwards.
Newest(todo) == CHOOSE m \in todo : \A k \in todo : k <= m
Page(todo) == {m \in todo : m > Newest(todo) - PageSize}
NewestGap(todo) == {m \in todo : (m..Newest(todo)) \subseteq todo}

\* A page is fetched and its INSERT executed.  Rows of another open transaction
\* would make it wait; stored rows are kept as they are.
InsertPage(j) ==
    /\ job[j].pc = "pages" /\ job[j].todo # {}
    /\ \A k \in Jobs : job[k].rows \cap Page(job[j].todo) = {}
    /\ ids' = ids + 1
    /\ job' = [job EXCEPT ![j] = [@ EXCEPT !.pc = "insert", !.id = ids + 1,
                                           !.rows = Page(job[j].todo) \ Stored]]
    /\ manual' = (manual \/ j = "backfill")
    /\ UNCHANGED <<now, candle, silver, lock, faults, topUps>>

\* The page commits, and the next one is due.
CommitPage(j) ==
    /\ job[j].pc = "insert"
    /\ candle' = [m \in Minutes |-> IF m \in job[j].rows THEN job[j].id ELSE candle[m]]
    /\ job' = [job EXCEPT ![j] = [@ EXCEPT !.pc = "pages", !.rows = {}, !.id = 0,
                                           !.todo = job[j].todo \ Page(job[j].todo)]]
    /\ UNCHANGED <<now, ids, silver, lock, faults, topUps, manual>>

\* An error that outlives its retries ends the gap; the older gaps still follow.
CutGap(j) ==
    /\ job[j].pc = "pages" /\ job[j].todo # {} /\ faults < MaxFaults
    /\ job' = [job EXCEPT ![j] = [@ EXCEPT !.todo = job[j].todo \ NewestGap(job[j].todo),
                                           !.whole = FALSE]]
    /\ faults' = faults + 1
    /\ UNCHANGED <<now, bronze, silver, lock, topUps, manual>>

\* What is known after an undisturbed top-up at time t
AskedFor(j, t) ==
    IF j = "backfill" THEN [upto |-> t, gapless |-> TRUE]
    ELSE [upto |-> IF t > topUps.upto THEN t ELSE topUps.upto,
          gapless |-> topUps.gapless /\ t - topUps.upto <= Lookback * DayLength]

\* Mutant: nothing gives the lock back
LockKept(j) == lock

Freed(j) == IF lock = j THEN None ELSE lock

EndTopUp(j) ==
    /\ job[j].pc = "pages" /\ job[j].todo = {}
    /\ topUps' = IF job[j].whole THEN AskedFor(j, job[j].at) ELSE topUps
    /\ job' = [job EXCEPT ![j] = NoJob]
    /\ lock' = Freed(j)
    /\ UNCHANGED <<now, bronze, silver, faults, manual>>

\* The process dies (PostgreSQL then drops its transaction and its lock), or the
\* top-up raises.
Crash(j) ==
    /\ job[j].pc # "idle" /\ faults < MaxFaults
    /\ job' = [job EXCEPT ![j] = NoJob]
    /\ lock' = Freed(j)
    /\ faults' = faults + 1
    /\ UNCHANGED <<now, bronze, silver, topUps, manual>>

---------------------------------------------------------------------------
(* The pipeline copies candles above the watermark.                        *)

Fresh == {m \in Stored : \A k \in silver : candle[m] > candle[k]}
Transform ==
    /\ Fresh # {}
    /\ silver' = silver \cup Fresh
    /\ UNCHANGED <<now, bronze, lock, job, faults, topUps, manual>>

---------------------------------------------------------------------------
Next ==
    \/ Tick \/ Transform
    \/ \E j \in Jobs :
        \/ StartTopUp(j) \/ EndTopUp(j) \/ Crash(j)
        \/ InsertPage(j) \/ CommitPage(j) \/ CutGap(j)

Spec == Init /\ [][Next]_vars

\* cron starts the loops again and again, what is started goes on, and the pipeline
\* loop keeps running; nobody has to start a backfill.
Fairness ==
    /\ WF_vars(Tick) /\ WF_vars(Transform)
    /\ \A j \in Loops : WF_vars(StartTopUp(j))
    /\ \A j \in Jobs : WF_vars(InsertPage(j) \/ CommitPage(j) \/ EndTopUp(j))

FairSpec == Spec /\ Fairness

---------------------------------------------------------------------------
(* Properties.                                                             *)

Job == [pc : {"idle", "pages", "insert"}, at : 0..Horizon, whole : BOOLEAN,
        todo : SUBSET Minutes, rows : SUBSET Minutes, id : Nat]
Knowledge == [upto : 0..Horizon, gapless : BOOLEAN]

\* Every variable stays in its domain, whichever processes run and die.
TypeOK ==
    /\ now \in 0..Horizon
    /\ candle \in [Minutes -> Nat] /\ ids \in Nat
    /\ silver \subseteq Stored
    /\ lock \in Loops \cup {None}
    /\ job \in [Jobs -> Job]
    /\ faults \in 0..MaxFaults
    /\ topUps \in Knowledge /\ manual \in BOOLEAN

\* index_candles.py: a top-up re-checks the last days for holes.  Top-ups that are cut short, skipped or
\* killed leave holes, but none survives an undisturbed top-up that starts within
\* Lookback days of the one before.
CandlesHeal ==
    topUps.gapless => \A m \in Minutes : m < topUps.upto => candle[m] # 0

\* bronze_to_silver.py: ids only grow, so what comes in later is still picked up.
\* As long as only the loops, under their lock, write candles, no stored candle is
\* at or below the watermark without having been copied.
PassedOver == {m \in Stored \ silver : \E k \in silver : candle[m] <= candle[k]}
LoopsLoseNoCandle == ~manual => PassedOver = {}

\* The last days end up in silver: errors, crashes and lost races for the lock delay
\* a candle of the lookback window, none of them keeps it away.
RecentCandlesArrive ==
    <>[](manual \/ \A m \in Minutes : m >= WindowStart(Horizon) => m \in silver)

---------------------------------------------------------------------------
(* The inductive invariant.                                                *)

\* A loop that is at it holds the lock; only an open transaction has rows.
LockOK ==
    \A j \in Jobs :
        /\ j \in Loops /\ job[j].pc # "idle" => lock = j
        /\ job[j].pc # "insert" => job[j].rows = {}

\* Open transactions add rows that nobody else has added, and all of their page.
RowsOK ==
    \A j \in Jobs :
        /\ job[j].rows \cap Stored = {}
        /\ \A k \in Jobs \ {j} : job[j].rows \cap job[k].rows = {}
        /\ job[j].pc = "insert" => Page(job[j].todo) \subseteq Stored \cup job[j].rows

\* the window an undisturbed top-up works through, up to job[j].at
From(j) == IF j = "backfill" THEN 0 ELSE WindowStart(job[j].at)

\* What an undisturbed top-up has not stored it still has to do.
CoverOK ==
    /\ topUps.upto <= now
    /\ \A j \in Jobs : job[j].pc # "idle" =>
        /\ job[j].at <= now
        /\ job[j].whole => \A m \in Minutes :
                From(j) <= m /\ m < job[j].at => m \in Stored \cup job[j].todo

\* Without the backfill the one open page has an id above all stored ones.
IdsOK ==
    /\ \A m \in Minutes : candle[m] <= ids
    /\ \A j \in Jobs : job[j].pc = "insert" => 0 < job[j].id /\ job[j].id <= ids
    /\ ~manual => /\ job["backfill"].pc # "insert"
                  /\ \A j \in Loops : job[j].pc = "insert" =>
                        \A m \in Minutes : candle[m] < job[j].id

IInv ==
    /\ TypeOK /\ LockOK /\ RowsOK /\ CoverOK /\ IdsOK
    /\ CandlesHeal /\ LoopsLoseNoCandle
=============================================================================
