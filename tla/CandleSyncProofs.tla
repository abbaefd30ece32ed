-------------------------- MODULE CandleSyncProofs --------------------------
(***************************************************************************)
(* Proofs about module CandleSync, for any day length, lookback and page   *)
(* size, and any bound on time and faults.                                 *)
(***************************************************************************)
EXTENDS CandleSync, TLAPS

\* The window reaches back at least Lookback whole days.
LEMMA WindowReach ==
    ASSUME NEW t \in Nat
    PROVE  /\ WindowStart(t) \in Int
           /\ WindowStart(t) <= t - Lookback * DayLength
           /\ Lookback * DayLength \in Nat
<1>1. DayLength \in Nat \ {0} /\ Lookback \in Nat
    BY CandleAssumption
<1>2. t % DayLength \in 0..(DayLength - 1)
    BY <1>1
<1>3. Lookback * DayLength \in Nat
    BY <1>1
<1> QED
    BY <1>1, <1>2, <1>3 DEF WindowStart

LEMMA Shapes ==
    /\ Minutes \subseteq Nat
    /\ NoJob \in Job
    /\ \A m \in Minutes : m \in 0..Horizon
<1> QED
    BY CandleAssumption DEF Minutes, NoJob, Job

LEMMA Known ==
    ASSUME NEW u \in 0..Horizon, NEW g \in BOOLEAN
    PROVE  [upto |-> u, gapless |-> g] \in Knowledge
<1> QED
    BY DEF Knowledge

LEMMA InitIInv == Init => IInv
<1> SUFFICES ASSUME Init PROVE IInv
    OBVIOUS
<1> USE CandleAssumption DEF Init
<1>1. TypeOK
    <2>1. job \in [Jobs -> Job]
        BY Shapes
    <2>2. topUps \in Knowledge
        BY DEF Knowledge
    <2>3. candle \in [Minutes -> Nat] /\ faults \in 0..MaxFaults /\ now \in 0..Horizon
        OBVIOUS
    <2>4. ids \in Nat /\ silver \subseteq Stored /\ manual \in BOOLEAN
        OBVIOUS
    <2> QED
        BY <2>1, <2>2, <2>3, <2>4 DEF TypeOK
<1>2. LockOK /\ RowsOK
    BY DEF LockOK, RowsOK, NoJob
<1>3. CoverOK /\ IdsOK
    BY DEF CoverOK, IdsOK, NoJob, Jobs, Loops
<1>4. CandlesHeal /\ LoopsLoseNoCandle
    BY DEF CandlesHeal, LoopsLoseNoCandle, PassedOver, Minutes
<1> QED
    BY <1>1, <1>2, <1>3, <1>4 DEF IInv

LEMMA TickStep == IInv /\ Tick => IInv'
<1> SUFFICES ASSUME IInv, Tick PROVE IInv'
    OBVIOUS
<1> USE DEF IInv, Tick, bronze, Stored
<1>1. TypeOK'
    BY CandleAssumption DEF TypeOK
<1>2. LockOK' /\ RowsOK'
    BY DEF LockOK, RowsOK
<1>3. CoverOK'
    <2>1. now \in Int /\ now' = now + 1 /\ topUps.upto \in Int
        BY DEF TypeOK, Knowledge
    <2>2. \A j \in Jobs : job[j].at \in Int /\ From(j)' = From(j)
        BY DEF TypeOK, Job, From
    <2> QED
        BY <2>1, <2>2 DEF CoverOK
<1>4. IdsOK'
    BY DEF IdsOK
<1>5. CandlesHeal' /\ LoopsLoseNoCandle'
    BY DEF CandlesHeal, LoopsLoseNoCandle, PassedOver
<1> QED
    BY <1>1, <1>2, <1>3, <1>4, <1>5

\* Everything above the watermark is copied: nothing stored is left.
LEMMA TransformStep == IInv /\ Transform => IInv'
<1> SUFFICES ASSUME IInv, Transform PROVE IInv'
    OBVIOUS
<1> USE DEF IInv, Transform, bronze
<1>1. TypeOK'
    BY DEF TypeOK, Fresh, Stored
<1>2. LockOK' /\ RowsOK' /\ CoverOK' /\ IdsOK' /\ CandlesHeal'
    BY DEF LockOK, RowsOK, CoverOK, IdsOK, CandlesHeal, Stored, From
<1>3. LoopsLoseNoCandle'
    <2> SUFFICES ASSUME ~manual PROVE Stored \subseteq silver'
        BY DEF LoopsLoseNoCandle, PassedOver, Stored
    <2>1. candle \in [Minutes -> Nat] /\ silver \subseteq Stored
        BY DEF TypeOK
    <2>2. \A m \in Stored \ silver : \A k \in silver : ~(candle[m] <= candle[k])
        BY DEF LoopsLoseNoCandle, PassedOver
    <2>3. \A m \in Stored \ silver : m \in Fresh
        BY <2>1, <2>2, Shapes DEF Fresh, Stored
    <2> QED
        BY <2>3
<1> QED
    BY <1>1, <1>2, <1>3

LEMMA StartTopUpStep == ASSUME IInv, NEW j \in Jobs, StartTopUp(j) PROVE IInv'
<1> USE DEF IInv, StartTopUp, bronze
<1>0. job \in [Jobs -> Job] /\ now \in 0..Horizon /\ topUps \in Knowledge
    BY DEF TypeOK
<1> DEFINE new == [pc |-> "pages", at |-> now, whole |-> TRUE,
                   todo |-> Gaps(j), rows |-> {}, id |-> 0]
<1>a. job' = [job EXCEPT ![j] = new]
    OBVIOUS
<1>1. /\ job'[j] = new
      /\ \A k \in Jobs : k # j => job'[k] = job[k]
    BY <1>0, <1>a
<1> HIDE DEF new
<1>2. new.pc = "pages" /\ new.at = now /\ new.whole /\ new.todo = Gaps(j) /\ new.rows = {}
    BY DEF new
<1>3. TypeOK'
    <2>1. new \in Job
        BY <1>0 DEF Job, Gaps, new
    <2>2. job' \in [Jobs -> Job]
        BY <1>0, <1>a, <2>1
    <2>3. lock' \in Loops \cup {None}
        BY DEF TypeOK, LockAfter, Jobs
    <2> QED
        BY <2>2, <2>3 DEF TypeOK, Stored
<1>4. LockOK'
    BY <1>1, <1>2 DEF LockOK, LockAfter, LockFree, Jobs, Loops, None
<1>5. RowsOK'
    BY <1>1, <1>2 DEF RowsOK, Stored
<1>6. CoverOK'
    <2>1. topUps'.upto <= now'
        BY DEF CoverOK
    <2>2. \A k \in Jobs \ {j} : From(k)' = From(k)
        BY <1>1 DEF From
    <2>3. ASSUME NEW m \in Minutes, From(j)' <= m, m < now
          PROVE  m \in Stored \cup Gaps(j)
        <3>1. From(j)' = IF j = "backfill" THEN 0 ELSE WindowStart(now)
            BY <1>1, <1>2 DEF From, WindowStart
        <3>2. m \in Asked(j)
            BY <2>3, <3>1 DEF Asked
        <3> QED
            BY <2>3, <3>2 DEF Gaps
    <2>4. now <= now
        BY <1>0, CandleAssumption
    <2> QED
        BY <1>1, <1>2, <2>1, <2>2, <2>3, <2>4 DEF CoverOK, Stored
<1>7. IdsOK'
    BY <1>1, <1>2 DEF IdsOK, Jobs, Loops
<1>8. CandlesHeal' /\ LoopsLoseNoCandle'
    BY DEF CandlesHeal, LoopsLoseNoCandle, PassedOver, Stored
<1> QED
    BY <1>3, <1>4, <1>5, <1>6, <1>7, <1>8

\* A job that ends leaves no trace in job and lock: what the lemmas below share.
LEMMA JobGone ==
    ASSUME IInv, NEW j \in Jobs, job' = [job EXCEPT ![j] = NoJob], lock' = Freed(j),
           UNCHANGED <<now, bronze, silver, manual>>
    PROVE  /\ job' \in [Jobs -> Job]
           /\ lock' \in Loops \cup {None}
           /\ LockOK' /\ RowsOK' /\ IdsOK' /\ LoopsLoseNoCandle'
           /\ \A k \in Jobs : job'[k] = IF k = j THEN NoJob ELSE job[k]
<1> USE DEF IInv, bronze
<1>1. job \in [Jobs -> Job]
    BY DEF TypeOK
<1>2. \A k \in Jobs : job'[k] = IF k = j THEN NoJob ELSE job[k]
    BY <1>1
<1>3. NoJob.pc = "idle" /\ NoJob.rows = {}
    BY DEF NoJob
<1>4. job' \in [Jobs -> Job] /\ lock' \in Loops \cup {None}
    BY <1>1, Shapes DEF TypeOK, Freed
<1>5. LockOK'
    <2>1. ASSUME NEW k \in Loops, job'[k].pc # "idle" PROVE lock' = k
        BY <1>2, <1>3, <2>1 DEF LockOK, Freed, Jobs
    <2>2. ASSUME NEW k \in Jobs, job'[k].pc # "insert" PROVE job'[k].rows = {}
        BY <1>2, <1>3, <2>2 DEF LockOK
    <2> QED
        BY <2>1, <2>2 DEF LockOK
<1>6. RowsOK'
    BY <1>2, <1>3 DEF RowsOK, Stored
<1>7. IdsOK'
    BY <1>2, <1>3 DEF IdsOK, Jobs, Loops
<1>8. LoopsLoseNoCandle'
    BY DEF LoopsLoseNoCandle, PassedOver, Stored
<1> QED
    BY <1>2, <1>4, <1>5, <1>6, <1>7, <1>8

\* An undisturbed run leaves no hole between what was known and its own end.
LEMMA EndTopUpStep == ASSUME IInv, NEW j \in Jobs, EndTopUp(j) PROVE IInv'
<1> USE DEF IInv, EndTopUp, bronze
<1>0. /\ job \in [Jobs -> Job] /\ now \in 0..Horizon /\ topUps \in Knowledge
      /\ job[j].pc = "pages" /\ job[j].todo = {} /\ job[j].at \in 0..Horizon
      /\ now \in Nat /\ topUps.upto \in Nat /\ job[j].at \in Nat /\ job[j].at <= now
      /\ topUps.upto <= now /\ topUps.gapless \in BOOLEAN
    BY CandleAssumption DEF TypeOK, Job, Knowledge, CoverOK
<1>1. /\ job' \in [Jobs -> Job] /\ lock' \in Loops \cup {None}
      /\ LockOK' /\ RowsOK' /\ IdsOK' /\ LoopsLoseNoCandle'
      /\ \A k \in Jobs : job'[k] = IF k = j THEN NoJob ELSE job[k]
    BY JobGone
<1>2. job[j].whole => \A m \in Minutes : From(j) <= m /\ m < job[j].at => m \in Stored
    BY <1>0 DEF CoverOK
<1>3. CASE ~job[j].whole
    BY <1>0, <1>1, <1>3 DEF TypeOK, CoverOK, CandlesHeal, Stored, From, NoJob
<1>4. CASE job[j].whole /\ j = "backfill"
    <2>1. topUps' = [upto |-> job[j].at, gapless |-> TRUE]
        BY <1>4 DEF AskedFor
    <2>0. From(j) = 0 /\ \A m \in Minutes : 0 <= m
        BY <1>4, Shapes DEF From
    <2>2. \A m \in Minutes : m < job[j].at => m \in Stored
        BY <1>2, <1>4, <2>0
    <2>3. CandlesHeal'
        BY <2>1, <2>2 DEF CandlesHeal, Stored
    <2>4. topUps' \in Knowledge /\ topUps'.upto <= now
        <3>1. topUps'.upto = job[j].at
            BY <2>1
        <3>2. topUps' \in Knowledge
            BY <1>0, <2>1, Known, Zenon
        <3> QED
            BY <1>0, <3>1, <3>2
    <2> QED
        BY <1>0, <1>1, <2>3, <2>4 DEF TypeOK, CoverOK, Stored, From, NoJob
<1>5. CASE job[j].whole /\ j # "backfill"
    <2> DEFINE at == job[j].at
               far == IF at > topUps.upto THEN at ELSE topUps.upto
               near == topUps.gapless /\ at - topUps.upto <= Lookback * DayLength
    <2>1. topUps' = [upto |-> far, gapless |-> near]
        BY <1>5 DEF AskedFor
    <2>2. far \in 0..Horizon /\ far <= now
        BY <1>0 DEF Knowledge
    <2>3. topUps' \in Knowledge /\ topUps'.upto = far /\ topUps'.gapless = near
        <3>1. near \in BOOLEAN
            OBVIOUS
        <3> HIDE DEF near, far
        <3> QED
            BY <2>1, <2>2, <3>1 DEF Knowledge
    <2>4. ASSUME near, NEW m \in Minutes, m < far PROVE candle[m] # 0
        <3>1. CASE m < topUps.upto
            BY <2>4, <3>1 DEF CandlesHeal
        <3>2. CASE ~(m < topUps.upto)
            <4>1. WindowStart(at) <= at - Lookback * DayLength /\ WindowStart(at) \in Int
                  /\ Lookback * DayLength \in Nat
                BY <1>0, WindowReach
            <4>2. m \in Nat /\ m < at
                BY <1>0, <2>4, <3>2, Shapes
            <4>3. WindowStart(at) <= m
                BY <1>0, <2>4, <3>2, <4>1, <4>2
            <4> QED
                BY <1>2, <1>5, <4>2, <4>3 DEF From, Stored
        <3> QED
            BY <3>1, <3>2
    <2>5. CandlesHeal'
        BY <2>3, <2>4 DEF CandlesHeal
    <2> QED
        BY <1>0, <1>1, <2>2, <2>3, <2>5 DEF TypeOK, CoverOK, Stored, From, NoJob
<1> QED
    BY <1>3, <1>4, <1>5

LEMMA CrashStep == ASSUME IInv, NEW j \in Jobs, Crash(j) PROVE IInv'
<1> USE DEF IInv, Crash, bronze
<1>1. /\ job' \in [Jobs -> Job] /\ lock' \in Loops \cup {None}
      /\ LockOK' /\ RowsOK' /\ IdsOK' /\ LoopsLoseNoCandle'
      /\ \A k \in Jobs : job'[k] = IF k = j THEN NoJob ELSE job[k]
    BY JobGone
<1>2. TypeOK'
    BY <1>1, CandleAssumption DEF TypeOK, Stored
<1>3. CoverOK'
    BY <1>1 DEF CoverOK, Stored, From, NoJob
<1>4. CandlesHeal'
    BY DEF CandlesHeal
<1> QED
    BY <1>1, <1>2, <1>3, <1>4

\* A page takes the next id, and rows nobody else has.
LEMMA InsertPageStep == ASSUME IInv, NEW j \in Jobs, InsertPage(j) PROVE IInv'
<1> USE DEF IInv, InsertPage, bronze
<1>0. /\ job \in [Jobs -> Job] /\ ids \in Nat /\ candle \in [Minutes -> Nat]
      /\ Page(job[j].todo) \subseteq Minutes
    BY DEF TypeOK, Job, Page
<1> DEFINE new == [job[j] EXCEPT !.pc = "insert", !.id = ids + 1,
                                 !.rows = Page(job[j].todo) \ Stored]
<1>1. /\ new.pc = "insert" /\ new.id = ids + 1 /\ new.rows = Page(job[j].todo) \ Stored
      /\ new.at = job[j].at /\ new.whole = job[j].whole /\ new.todo = job[j].todo
      /\ new \in Job
    <2>1. job[j] \in Job /\ ids + 1 \in Nat /\ Page(job[j].todo) \ Stored \in SUBSET Minutes
        BY <1>0
    <2> QED
        BY <2>1 DEF Job
<1>2. job' = [job EXCEPT ![j] = new]
    BY <1>0
<1> HIDE DEF new
<1>3. \A k \in Jobs : job'[k] = IF k = j THEN new ELSE job[k]
    BY <1>0, <1>2
<1>4. TypeOK'
    <2>1. job' \in [Jobs -> Job]
        BY <1>0, <1>1, <1>2
    <2>2. manual' \in BOOLEAN
        OBVIOUS
    <2> QED
        BY <1>0, <2>1, <2>2 DEF TypeOK, Stored
<1>5. LockOK'
    BY <1>1, <1>3 DEF LockOK
<1>6. RowsOK'
    <2>1. Stored' = Stored
        BY DEF Stored
    <2>2. \A k \in Jobs : job[k].rows \cap new.rows = {}
        BY <1>1
    <2>3. ASSUME NEW k \in Jobs PROVE job'[k].rows \cap Stored = {}
        BY <1>1, <1>3 DEF RowsOK
    <2>4. ASSUME NEW k \in Jobs, NEW l \in Jobs \ {k}
          PROVE  job'[k].rows \cap job'[l].rows = {}
        BY <1>3, <2>2 DEF RowsOK
    <2>5. ASSUME NEW k \in Jobs, job'[k].pc = "insert"
          PROVE  Page(job'[k].todo) \subseteq Stored \cup job'[k].rows
        BY <1>1, <1>3, <2>5 DEF RowsOK
    <2> QED
        BY <2>1, <2>3, <2>4, <2>5 DEF RowsOK, Page, Newest
<1>7. CoverOK'
    <2>1. \A k \in Jobs : /\ job'[k].at = job[k].at /\ job'[k].whole = job[k].whole
                          /\ job'[k].todo = job[k].todo /\ From(k)' = From(k)
                          /\ job'[k].pc # "idle" => job[k].pc # "idle"
        BY <1>1, <1>3 DEF From, WindowStart
    <2> QED
        BY <2>1 DEF CoverOK, Stored
<1>8. IdsOK'
    <2>1. \A m \in Minutes : candle[m] \in Nat /\ candle[m] <= ids /\ candle[m] < ids + 1
        BY <1>0 DEF IdsOK
    <2>2. \A k \in Jobs : job[k].id \in Nat
        BY <1>0 DEF Job
    <2>3. ASSUME NEW k \in Jobs, job'[k].pc = "insert"
          PROVE  0 < job'[k].id /\ job'[k].id <= ids'
        BY <1>0, <1>1, <1>3, <2>2, <2>3 DEF IdsOK
    <2>4. ASSUME ~manual' PROVE job'["backfill"].pc # "insert"
        BY <1>3, <2>4 DEF IdsOK, Jobs
    <2>5. ASSUME ~manual', NEW k \in Loops, job'[k].pc = "insert", NEW m \in Minutes
          PROVE  candle[m] < job'[k].id
        BY <1>1, <1>3, <2>1, <2>5 DEF IdsOK, Jobs
    <2>6. \A m \in Minutes : candle[m] <= ids'
        BY <1>0, <2>1
    <2> QED
        BY <2>3, <2>4, <2>5, <2>6 DEF IdsOK
<1>9. CandlesHeal' /\ LoopsLoseNoCandle'
    BY DEF CandlesHeal, LoopsLoseNoCandle, PassedOver, Stored
<1> QED
    BY <1>4, <1>5, <1>6, <1>7, <1>8, <1>9

\* Rows appear with an id above the watermark, unless the backfill interferes.
LEMMA CommitPageStep == ASSUME IInv, NEW j \in Jobs, CommitPage(j) PROVE IInv'
<1> USE DEF IInv, CommitPage
<1> DEFINE R == job[j].rows
           new == [job[j] EXCEPT !.pc = "pages", !.rows = {}, !.id = 0,
                                 !.todo = job[j].todo \ Page(job[j].todo)]
<1>0. /\ job \in [Jobs -> Job] /\ ids \in Nat /\ candle \in [Minutes -> Nat]
      /\ job[j] \in Job /\ R \subseteq Minutes /\ job[j].id \in Nat \ {0} /\ job[j].id <= ids
      /\ R \cap Stored = {} /\ Page(job[j].todo) \subseteq Stored \cup R
    BY DEF TypeOK, Job, IdsOK, RowsOK
<1>1. /\ new.pc = "pages" /\ new.rows = {} /\ new.todo = job[j].todo \ Page(job[j].todo)
      /\ new.at = job[j].at /\ new.whole = job[j].whole
      /\ new \in Job
    BY <1>0 DEF Job
<1>2. job' = [job EXCEPT ![j] = new]
    BY <1>0
<1> HIDE DEF new
<1>3. \A k \in Jobs : job'[k] = IF k = j THEN new ELSE job[k]
    BY <1>0, <1>2
<1>4. /\ candle' \in [Minutes -> Nat]
      /\ \A m \in Minutes : candle'[m] = IF m \in R THEN job[j].id ELSE candle[m]
    BY <1>0
<1>5. Stored' = Stored \cup R
    BY <1>0, <1>4 DEF Stored
<1>6. TypeOK'
    <2>1. job' \in [Jobs -> Job]
        BY <1>0, <1>1, <1>2
    <2> QED
        BY <1>4, <1>5, <2>1 DEF TypeOK
<1>7. LockOK'
    BY <1>0, <1>1, <1>3 DEF LockOK
<1>8. RowsOK'
    <2>1. ASSUME NEW k \in Jobs PROVE job'[k].rows \cap Stored' = {}
        BY <1>1, <1>3, <1>5 DEF RowsOK
    <2>2. ASSUME NEW k \in Jobs, NEW l \in Jobs \ {k}
          PROVE  job'[k].rows \cap job'[l].rows = {}
        BY <1>1, <1>3 DEF RowsOK
    <2>3. ASSUME NEW k \in Jobs, job'[k].pc = "insert"
          PROVE  Page(job'[k].todo) \subseteq Stored' \cup job'[k].rows
        BY <1>1, <1>3, <1>5, <2>3 DEF RowsOK
    <2> QED
        BY <2>1, <2>2, <2>3 DEF RowsOK, Page, Newest
<1>9. CoverOK'
    <2>1. \A k \in Jobs : /\ job'[k].at = job[k].at /\ job'[k].whole = job[k].whole
                          /\ From(k)' = From(k)
                          /\ job'[k].pc # "idle" => job[k].pc # "idle"
        BY <1>0, <1>1, <1>3 DEF From, WindowStart
    <2>2. ASSUME NEW k \in Jobs
          PROVE  Stored \cup job[k].todo \subseteq Stored' \cup job'[k].todo
        <3>1. CASE k = j
            BY <1>0, <1>1, <1>3, <1>5, <3>1
        <3>2. CASE k # j
            BY <1>3, <1>5, <3>2
        <3> QED
            BY <3>1, <3>2
    <2> QED
        BY <2>1, <2>2 DEF CoverOK
<1>10. IdsOK'
    <2>1. \A m \in Minutes : candle'[m] <= ids'
        BY <1>0, <1>4 DEF IdsOK
    <2>2. ASSUME NEW k \in Jobs, job'[k].pc = "insert"
          PROVE  0 < job'[k].id /\ job'[k].id <= ids'
        BY <1>1, <1>3, <2>2 DEF IdsOK
    <2>3. ASSUME ~manual', NEW k \in Jobs PROVE job'[k].pc # "insert"
        <3>1. j \in Loops /\ lock = j
            BY <2>3 DEF IdsOK, LockOK, Jobs
        <3>2. job[k].pc = "insert" => k \in Loops /\ lock = k
            BY <2>3 DEF IdsOK, LockOK, Jobs
        <3> QED
            BY <1>1, <1>3, <3>1, <3>2
    <2> QED
        BY <2>1, <2>2, <2>3 DEF IdsOK, Jobs
<1>11. CandlesHeal'
    BY <1>0, <1>4 DEF CandlesHeal
<1>12. LoopsLoseNoCandle'
    <2> SUFFICES ASSUME ~manual, NEW m \in Stored' \ silver, NEW k \in silver,
                        candle'[m] <= candle'[k]
                 PROVE  FALSE
        BY DEF LoopsLoseNoCandle, PassedOver
    <2>1. m \in Minutes /\ k \in Minutes /\ k \notin R
        BY <1>0, <1>5 DEF TypeOK, Stored
    <2>2. candle'[k] = candle[k] /\ candle[k] \in Nat /\ candle'[m] \in Nat
        BY <1>0, <1>4, <2>1
    <2>3. CASE m \in R
        <3>1. candle[k] < job[j].id
            BY <2>1 DEF IdsOK, Jobs
        <3> QED
            BY <1>0, <1>4, <2>1, <2>2, <2>3, <3>1
    <2>4. CASE m \notin R
        BY <1>4, <1>5, <2>1, <2>2, <2>4 DEF LoopsLoseNoCandle, PassedOver
    <2> QED
        BY <2>3, <2>4
<1> QED
    BY <1>6, <1>7, <1>8, <1>9, <1>10, <1>11, <1>12

LEMMA CutGapStep == ASSUME IInv, NEW j \in Jobs, CutGap(j) PROVE IInv'
<1> USE DEF IInv, CutGap, bronze
<1> DEFINE new == [job[j] EXCEPT !.todo = job[j].todo \ NewestGap(job[j].todo),
                                 !.whole = FALSE]
<1>0. /\ job \in [Jobs -> Job] /\ job[j] \in Job /\ job[j].pc = "pages"
    BY DEF TypeOK
<1>1. /\ new.pc = "pages" /\ new.rows = job[j].rows /\ new.at = job[j].at /\ ~new.whole
      /\ new \in Job
    BY <1>0 DEF Job
<1>2. job' = [job EXCEPT ![j] = new]
    BY <1>0
<1> HIDE DEF new
<1>3. \A k \in Jobs : job'[k] = IF k = j THEN new ELSE job[k]
    BY <1>0, <1>2
<1>4. TypeOK'
    <2>1. job' \in [Jobs -> Job]
        BY <1>0, <1>1, <1>2
    <2>2. faults' \in 0..MaxFaults
        BY CandleAssumption DEF TypeOK
    <2> QED
        BY <2>1, <2>2 DEF TypeOK, Stored
<1>5. LockOK' /\ IdsOK'
    BY <1>0, <1>1, <1>3 DEF LockOK, IdsOK, Jobs, Loops
<1>6. RowsOK'
    <2>1. \A k \in Jobs : job'[k].rows = job[k].rows
        BY <1>1, <1>3
    <2>2. \A k \in Jobs : job'[k].pc = "insert" => job'[k] = job[k]
        BY <1>1, <1>3
    <2> QED
        BY <2>1, <2>2 DEF RowsOK, Page, Newest, Stored
<1>7. CoverOK'
    <2>1. \A k \in Jobs : /\ job'[k].at = job[k].at
                          /\ From(k)' = From(k)
                          /\ job'[k].pc # "idle" => job[k].pc # "idle"
                          /\ job'[k].whole => job'[k] = job[k]
        BY <1>0, <1>1, <1>3 DEF From, WindowStart
    <2> QED
        BY <2>1 DEF CoverOK, Stored
<1>8. CandlesHeal' /\ LoopsLoseNoCandle'
    BY DEF CandlesHeal, LoopsLoseNoCandle, PassedOver, Stored
<1> QED
    BY <1>4, <1>5, <1>6, <1>7, <1>8

LEMMA NextStep == IInv /\ [Next]_vars => IInv'
<1> SUFFICES ASSUME IInv, [Next]_vars PROVE IInv'
    OBVIOUS
<1>1. CASE Tick
    BY <1>1, TickStep
<1>2. CASE Transform
    BY <1>2, TransformStep
<1>3. ASSUME NEW j \in Jobs,
             \/ StartTopUp(j) \/ EndTopUp(j) \/ Crash(j)
             \/ InsertPage(j) \/ CommitPage(j) \/ CutGap(j)
      PROVE  IInv'
    BY <1>3, StartTopUpStep, EndTopUpStep, CrashStep, InsertPageStep, CommitPageStep,
       CutGapStep
<1>4. CASE UNCHANGED vars
    BY <1>4 DEF vars, bronze, IInv, TypeOK, LockOK, RowsOK, CoverOK, IdsOK, CandlesHeal,
       LoopsLoseNoCandle, PassedOver, Stored, From, Page, Newest
<1> QED
    BY <1>1, <1>2, <1>3, <1>4 DEF Next

THEOREM CandleInvariant == Spec => []IInv
<1> QED
    BY InitIInv, NextStep, PTL DEF Spec

\* Every variable of CandleSync stays in its domain.
THEOREM CandleTypeCorrect == Spec => []TypeOK
<1>1. IInv => TypeOK
    BY DEF IInv
<1> QED
    BY <1>1, CandleInvariant, PTL

\* Undisturbed top-ups at most Lookback days apart leave no hole before the start of
\* the last one, whatever was cut short, skipped or killed in between.
THEOREM CandlesHealed == Spec => []CandlesHeal
<1>1. IInv => CandlesHeal
    BY DEF IInv
<1> QED
    BY <1>1, CandleInvariant, PTL

\* While only the loops write candles, the watermark passes over none.
THEOREM LoopsLoseNone == Spec => []LoopsLoseNoCandle
<1>1. IInv => LoopsLoseNoCandle
    BY DEF IInv
<1> QED
    BY <1>1, CandleInvariant, PTL
=============================================================================
