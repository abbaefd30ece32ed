------------------------------ MODULE History -------------------------------
(***************************************************************************)
(* Fills, closed positions and bills: the exchange keeps them, the history *)
(* loop asks for a window of days and a manual backfill for everything     *)
(* (ingestion/collector.py), page by page from the newest record backwards *)
(* (connectors/okx/client.py), and bronze keeps one row per key            *)
(* (ingestion/bronze_writer.py).                                           *)
(***************************************************************************)
EXTENDS Integers, FiniteSets, Sequences, SequencesExt

CONSTANTS
    Kinds,          \* the order in which a run asks: fills, closed, bills
    Insts,          \* instruments
    DayLength,      \* units of time per day
    Lookback,       \* INGEST_DAILY_LOOKBACK_DAYS
    PageLimit,      \* records per page
    MaxPages,       \* max_pages
    Horizon,        \* bound: the clock stops here
    MaxRecords,     \* bound: records
    MaxFaults       \* bound: errors

ASSUME HistoryAssumption ==
    /\ Kinds \in Seq({"fills", "closed", "bills"}) /\ Kinds # <<>>
    /\ DayLength \in Nat \ {0} /\ PageLimit \in Nat \ {0} /\ MaxPages \in Nat \ {0}
    /\ Lookback \in Nat /\ Horizon \in Nat /\ MaxRecords \in Nat /\ MaxFaults \in Nat

VARIABLES
    now,            \* the clock
    ledger,         \* of each kind, the exchange's records in the order they were made
    bronze,         \* of each kind, the records that have a row
    job,            \* what each process is doing
    faults,         \* faults so far
    covered         \* history, of each kind: up to when, and whether gaplessly, asked for

vars == <<now, ledger, bronze, job, faults, covered>>

Jobs == {"history", "backfill"}
AllKinds == ToSet(Kinds)

\* A record has a time; its number counts the instrument's records: tradeId is a counter
\* per instrument, and a posId used again is told apart by cTime.
Record == [time : Nat, inst : Insts, number : Nat]

NoJob == [pc |-> "idle", nth |-> 0, since |-> 0, at |-> 0, after |-> 0, pages |-> 0,
          got |-> {}, whole |-> TRUE]

Init ==
    /\ now = 0
    /\ ledger = [k \in AllKinds |-> <<>>]
    /\ bronze = [k \in AllKinds |-> {}]
    /\ job = [j \in Jobs |-> NoJob]
    /\ faults = 0
    /\ covered = [k \in AllKinds |-> [upto |-> 0, gapless |-> TRUE]]

Tick ==
    /\ now < Horizon
    /\ now' = now + 1
    /\ UNCHANGED <<ledger, bronze, job, faults, covered>>

\* Several records may have the same time: all legs of an expiry are settled at once.
Happen(k, i) ==
    /\ Cardinality(UNION {{k2} \X DOMAIN ledger[k2] : k2 \in AllKinds}) < MaxRecords
    /\ ledger' = [ledger EXCEPT ![k] = Append(ledger[k],
            [time |-> now, inst |-> i,
             number |-> Cardinality({n \in DOMAIN ledger[k] : ledger[k][n].inst = i}) + 1])]
    /\ UNCHANGED <<now, bronze, job, faults, covered>>

---------------------------------------------------------------------------
(* Paging.                                                                 *)

Day(t) == t \div DayLength

\* midnight, Lookback days before today
WindowStart(t) == t - (t % DayLength) - Lookback * DayLength

\* The API answers with the newest records before the cursor.  For closed positions the
\* cursor is a time, for the others it is the id of a record.
Before(k, after) ==
    {n \in DOMAIN ledger[k] :
        \/ after = 0
        \/ k # "closed" /\ n < after
        \/ k = "closed" /\ ledger[k][n].time + 1 < after}

Page(k, after) ==
    {n \in Before(k, after) : Cardinality({m \in Before(k, after) : m > n}) < PageLimit}

Oldest(page) == CHOOSE n \in page : \A m \in page : n <= m

\* times are kept one higher, so that 0 can mean no cursor
Cursor(k, n) == IF k = "closed" THEN ledger[k][n].time + 1 ELSE n

Kind(j) == Kinds[job[j].nth]

\* The window is fixed when the run begins; a backfill asks for everything.
Begin(j) ==
    /\ job[j].pc = "idle"
    /\ job' = [job EXCEPT ![j] = [NoJob EXCEPT !.pc = "page", !.nth = 1, !.at = now,
            !.since = IF j = "backfill" THEN 0 ELSE WindowStart(now)]]
    /\ UNCHANGED <<now, ledger, bronze, faults, covered>>

\* An empty or a short page is the last one, and so is one that reaches past the window.
LastPage(j, page) ==
    \/ Cardinality(page) < PageLimit
    \/ ledger[Kind(j)][Oldest(page)].time < job[j].since

FetchPage(j) ==
    /\ job[j].pc = "page"
    /\ LET page == Page(Kind(j), job[j].after)
           last == LastPage(j, page)
           full == job[j].pages + 1 = MaxPages
       IN  job' = [job EXCEPT ![j] = [job[j] EXCEPT
                      !.got = job[j].got \cup page,
                      !.pc = IF last \/ full THEN "write" ELSE "page",
                      !.pages = IF last \/ full THEN 0 ELSE job[j].pages + 1,
                      !.after = IF last \/ full THEN 0 ELSE Cursor(Kind(j), Oldest(page)),
                      !.whole = job[j].whole /\ (last \/ ~full)]]
    /\ UNCHANGED <<now, ledger, bronze, faults, covered>>

\* A transient error outlives its retries: the pages so far are kept, the run goes on.
Transient(j) ==
    /\ job[j].pc = "page" /\ faults < MaxFaults
    /\ faults' = faults + 1
    /\ job' = [job EXCEPT ![j] = [job[j] EXCEPT !.pc = "write", !.pages = 0, !.after = 0,
                                                !.whole = FALSE]]
    /\ UNCHANGED <<now, ledger, bronze, covered>>

\* Any other error, or a crash: nothing of this kind or the ones after it is written.
Fail(j) ==
    /\ job[j].pc # "idle" /\ faults < MaxFaults
    /\ faults' = faults + 1
    /\ job' = [job EXCEPT ![j] = NoJob]
    /\ UNCHANGED <<now, ledger, bronze, covered>>

---------------------------------------------------------------------------
(* The upsert.                                                             *)

\* Mutant: trade ids alone, which two instruments may share (posId without cTime is alike)
KeyOfNumber(k, n) == <<ledger[k][n].number>>

\* (inst_id, tradeId), (posId, cTime); a bill has an id of its own
Key(k, n) == IF k = "bills" THEN <<n>> ELSE <<ledger[k][n].inst, ledger[k][n].number>>

\* Rows of the window are inserted one by one, oldest kept: a key that has a row is skipped.
Kept(k, rows) ==
    {n \in rows : \A m \in bronze[k] \cup {x \in rows : x > n} : Key(k, m) = Key(k, n) => m = n}

\* A run that asked for everything from `since` on closes the time up to its beginning.
CoveredAfter(j) ==
    LET c == covered[Kind(j)]
    IN  IF ~job[j].whole THEN c
        ELSE IF j = "backfill" THEN [upto |-> job[j].at, gapless |-> TRUE]
        ELSE [upto |-> IF c.upto > job[j].at THEN c.upto ELSE job[j].at,
              gapless |-> c.gapless /\ Day(job[j].at) - Day(c.upto) <= Lookback]

LastKind(j) == job[j].nth = Len(Kinds)

Write(j) ==
    /\ job[j].pc = "write"
    /\ bronze' = [bronze EXCEPT ![Kind(j)] = bronze[Kind(j)] \cup
            Kept(Kind(j), {n \in job[j].got : ledger[Kind(j)][n].time >= job[j].since})]
    /\ covered' = [covered EXCEPT ![Kind(j)] = CoveredAfter(j)]
    /\ job' = [job EXCEPT ![j] =
            IF LastKind(j) THEN NoJob
            ELSE [NoJob EXCEPT !.pc = "page", !.nth = job[j].nth + 1,
                               !.at = job[j].at, !.since = job[j].since]]
    /\ UNCHANGED <<now, ledger, faults>>

---------------------------------------------------------------------------
Next ==
    \/ Tick
    \/ \E k \in AllKinds, i \in Insts : Happen(k, i)
    \/ \E j \in Jobs : Begin(j) \/ FetchPage(j) \/ Transient(j) \/ Fail(j) \/ Write(j)

Spec == Init /\ [][Next]_vars

---------------------------------------------------------------------------
(* Properties.                                                             *)

\* Every variable has its type.
Job == [pc : {"idle", "page", "write"}, nth : Nat, since : Int, at : Nat, after : Nat,
        pages : Nat, got : SUBSET Nat, whole : BOOLEAN]

TypeOK ==
    /\ now \in 0..Horizon /\ faults \in 0..MaxFaults
    /\ ledger \in [AllKinds -> Seq(Record)]
    /\ bronze \in [AllKinds -> SUBSET Nat]
    /\ \A k \in AllKinds : bronze[k] \subseteq DOMAIN ledger[k]
    /\ job \in [Jobs -> Job]
    /\ \A j \in Jobs : job[j].pc # "idle" =>
          job[j].nth \in DOMAIN Kinds /\ job[j].got \subseteq DOMAIN ledger[Kind(j)]
    /\ covered \in [AllKinds -> [upto : Nat, gapless : BOOLEAN]]

\* A closed position of the same time as a newer one that is the oldest of a full page,
\* when pages fall that way: the next page begins before that time.
CutOff(k, n) ==
    /\ k = "closed"
    /\ \E m \in DOMAIN ledger[k] : /\ m > n /\ ledger[k][m].time = ledger[k][n].time
                                   /\ m + PageLimit <= Len(ledger[k]) + 1

\* collector.py:4: "so a missed run self-heals".  As long as the runs that got every page
\* of their window are at most Lookback days apart, or a backfill that got every page
\* closed the gap, every record from before the last of them has a row, whatever failed
\* in between, and except for the records CutOff names.
HistoryHeals ==
    \A k \in AllKinds : covered[k].gapless =>
        \A n \in DOMAIN ledger[k] :
            ledger[k][n].time < covered[k].upto => n \in bronze[k] \/ CutOff(k, n)

---------------------------------------------------------------------------
(* The inductive invariant of HistoryProofs.                               *)

OfInst(k, i) == {n \in DOMAIN ledger[k] : ledger[k][n].inst = i}

\* Records come in the order of time, and no two of an instrument have one number.
LedgerOK ==
    \A k \in AllKinds :
        /\ \A n \in DOMAIN ledger[k] :
              /\ ledger[k][n].time <= now
              /\ ledger[k][n].number <= Cardinality(OfInst(k, ledger[k][n].inst))
        /\ \A m, n \in DOMAIN ledger[k] : m < n =>
              /\ ledger[k][m].time <= ledger[k][n].time
              /\ <<ledger[k][m].inst, ledger[k][m].number>>
                    # <<ledger[k][n].inst, ledger[k][n].number>>

\* The records a run is to find: those of its window, from before it began.
Wanted(j) ==
    {n \in DOMAIN ledger[Kind(j)] :
        job[j].since <= ledger[Kind(j)][n].time /\ ledger[Kind(j)][n].time < job[j].at}

Found(j, n) == n \in job[j].got \/ CutOff(Kind(j), n)

\* What a run wants it has found down to the cursor, and when it has got every page, all.
PageOK(j) ==
    job[j].pc # "idle" =>
        /\ job[j].at <= now
        /\ job[j].since = IF j = "backfill" THEN 0 ELSE WindowStart(job[j].at)
        /\ job[j].pc = "page" =>
              \A n \in Wanted(j) \ Before(Kind(j), job[j].after) : Found(j, n)
        /\ job[j].pc = "write" /\ job[j].whole => \A n \in Wanted(j) : Found(j, n)

PagesOK == \A j \in Jobs : PageOK(j)

CoveredOK == \A k \in AllKinds : covered[k].upto <= now

IInv == TypeOK /\ LedgerOK /\ PagesOK /\ CoveredOK /\ HistoryHeals
=============================================================================
