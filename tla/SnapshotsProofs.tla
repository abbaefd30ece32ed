-------------------------- MODULE SnapshotsProofs ---------------------------
(***************************************************************************)
(* Proofs about Snapshots: its type invariant, that it implements LegLife, *)
(* and what silver and gold show after a calm pipeline run.                *)
(*                                                                         *)
(* IInv follows a snapshot that is taken alone from its beginning to the   *)
(* pipeline run that reads it: until then nobody else writes, so its rows  *)
(* are the newest of both tables, and of no other run.                     *)
(***************************************************************************)
EXTENDS Snapshots, FiniteSetTheorems, TLAPS

Jobs == [pc : {"idle", "positions", "fetched", "balances"}, run : Nat, at : Nat, legs : SUBSET Legs]
Pipes == [pc : {"idle", "balances", "closes", "commit"}, rows : SUBSET PositionRow,
          balances : SUBSET BalanceRow, closes : SUBSET Legs, last : Nat]
Lasts == [run : Nat, state : {"mixed", "alone", "whole"}, legs : SUBSET Legs, held : BOOLEAN]

Typed ==
    /\ position \in [Legs -> {"new", "open", "closed"}]
    /\ clock \in Nat /\ runs \in 0..MaxRuns
    /\ collector \in [Collectors -> Jobs]
    /\ rawPosition \subseteq PositionRow /\ rawBalance \subseteq BalanceRow
    /\ rawClosed \subseteq Legs
    /\ pipe \in Pipes /\ last \in Lasts
    /\ leg \in [Legs -> {"absent", "open", "stale", "closed"}]
    /\ snapshot \subseteq PositionRow /\ closed \subseteq Legs

\* What is written down has happened.
Truth ==
    /\ \A l \in rawClosed : position[l] = "closed"
    /\ \A r \in rawPosition : position[r.leg] # "new"
    /\ \A c \in Collectors : \A l \in collector[c].legs : position[l] # "new"
    /\ snapshot \subseteq rawPosition /\ pipe.closes \subseteq rawClosed
    /\ pipe.rows \subseteq rawPosition

\* What silver shows is in bronze, and a close that it shows is in what the run read.
Shown ==
    \A l \in Legs :
        /\ leg[l] = "closed" => l \in rawClosed
        /\ leg[l] \in {"open", "stale"} => \E r \in rawPosition : r.leg = l
        /\ pipe.pc = "commit" /\ leg[l] = "closed" => l \in pipe.closes

\* Runs and times are given out in order.
Ordered ==
    /\ \A r \in rawPosition : r.run <= runs /\ r.at <= clock
    /\ \A r \in rawBalance : r.run <= runs /\ r.at <= clock
    /\ \A c \in Collectors : collector[c].run <= runs /\ collector[c].at <= clock
    /\ last.run = runs /\ pipe.last <= runs

Busy(c) == collector[c].pc # "idle"

\* Only the last snapshot is being taken, if any.
Exclusive ==
    last.state # "mixed" =>
        /\ last.run > 0
        /\ \A c \in Collectors : Busy(c) => collector[c].run = last.run /\ last.state = "alone"
        /\ \A c, d \in Collectors : Busy(c) /\ Busy(d) => c = d

\* The rows of the last snapshot are newer than all others.
RowsOfLast(legs) ==
    /\ \A l \in Legs : l \in legs <=> \E r \in rawPosition : r.run = last.run /\ r.leg = l
    /\ \A r, q \in rawPosition : r.run = last.run =>
           q.at <= r.at /\ (q.run # last.run => q.at < r.at)

Fresh(c) ==
    /\ collector[c].pc \in {"positions", "fetched"} =>
           \A r \in rawPosition : r.run # last.run /\ r.at < collector[c].at
    /\ collector[c].pc = "balances" =>
           RowsOfLast(collector[c].legs) /\ \A r \in rawBalance : r.at < collector[c].at

Whole ==
    /\ RowsOfLast(last.legs)
    /\ last.held =>
           \E b \in rawBalance : b.run = last.run /\ \A q \in rawBalance : q # b => q.at < b.at

Progress ==
    /\ last.state = "alone" => \A c \in Collectors : Busy(c) => Fresh(c)
    /\ last.state = "whole" => Whole

\* A run that began after the last snapshot has read all there is.
ReadAll ==
    pipe.last # 0 /\ pipe.last = last.run =>
        /\ last.state = "whole" /\ pipe.rows = rawPosition
        /\ pipe.pc \in {"closes", "commit"} => pipe.balances = rawBalance

IInv ==
    /\ Typed /\ Truth /\ Shown /\ Ordered /\ Exclusive /\ Progress /\ ReadAll
    /\ StatusIsRight /\ CurrentWhenAnyOpen

\* What the three steps that change parts of a record make of it.
Job(c, pc, at, legs) ==
    /\ collector' \in [Collectors -> Jobs]
    /\ \A d \in Collectors : d # c => collector'[d] = collector[d]
    /\ collector'[c].pc = pc /\ collector'[c].run = collector[c].run
    /\ collector'[c].at = at /\ collector'[c].legs = legs

Fetched(c) ==
    /\ collector[c].pc = "positions"
    /\ Job(c, "fetched", collector[c].at, {l \in Legs : position[l] = "open"})
    /\ UNCHANGED <<position, clock, runs, rawPosition, rawBalance, rawClosed, pipe, leg, snapshot,
                   closed, last>>
    /\ basis' = NotCalm

Written(c) ==
    /\ collector[c].pc = "fetched"
    /\ Job(c, "balances", clock + 1, collector[c].legs)
    /\ clock' = clock + 1
    /\ \A r : r \in rawPosition' <=>
          \/ r \in rawPosition
          \/ /\ r \in PositionRow
             /\ r.run = collector[c].run /\ r.at = collector[c].at /\ r.leg \in collector[c].legs
    /\ \A l \in collector[c].legs : \E r \in rawPosition' :
          r.run = collector[c].run /\ r.at = collector[c].at /\ r.leg = l
    /\ UNCHANGED <<position, runs, rawBalance, rawClosed, pipe, leg, snapshot, closed, last>>
    /\ basis' = NotCalm

Ended(c, held) ==
    /\ collector[c].pc = "balances"
    /\ collector' = [collector EXCEPT ![c] = Idle] /\ Idle \in Jobs
    /\ \E b \in BalanceRow :
          /\ b.run = collector[c].run /\ b.at = collector[c].at
          /\ rawBalance' = IF held THEN rawBalance \cup {b} ELSE rawBalance
    /\ last' \in Lasts /\ last'.run = last.run
    /\ last.run = collector[c].run /\ last.state = "alone" =>
          last'.state = "whole" /\ last'.legs = collector[c].legs /\ last'.held = held
    /\ last.run # collector[c].run \/ last.state # "alone" => last' = last
    /\ UNCHANGED <<position, clock, runs, rawPosition, rawClosed, pipe, leg, snapshot, closed>>
    /\ basis' = NotCalm

LEMMA FetchStep == ASSUME Typed, NEW c \in Collectors, FetchPositions(c) PROVE Fetched(c)
<1> DEFINE open == {l \in Legs : position[l] = "open"}
           new == [collector[c] EXCEPT !.pc = "fetched", !.legs = open]
<1>1. collector' = [collector EXCEPT ![c] = new]
    BY DEF FetchPositions, Typed
<1>2. collector[c] \in Jobs /\ open \in SUBSET Legs
    BY DEF Typed
<1>3. /\ new \in Jobs /\ new.pc = "fetched" /\ new.legs = open
      /\ new.run = collector[c].run /\ new.at = collector[c].at
    BY <1>2 DEF Jobs
<1> HIDE DEF new
<1>4. Job(c, "fetched", collector[c].at, open)
    BY <1>1, <1>3 DEF Typed, Job
<1> QED
    BY <1>4 DEF FetchPositions, Fetched, exchange, bronze, silver

LEMMA WriteStep == ASSUME Typed, NEW c \in Collectors, WritePositions(c) PROVE Written(c)
<1> DEFINE new == [collector[c] EXCEPT !.pc = "balances", !.at = clock + 1]
           rows == [run : {collector[c].run}, at : {collector[c].at}, leg : collector[c].legs]
<1>1. collector' = [collector EXCEPT ![c] = new]
    BY DEF WritePositions, Typed
<1>2. collector[c] \in Jobs /\ clock + 1 \in Nat
    BY DEF Typed
<1>3. /\ new \in Jobs /\ new.pc = "balances" /\ new.at = clock + 1
      /\ new.run = collector[c].run /\ new.legs = collector[c].legs
    BY <1>2 DEF Jobs
<1>4. \A r : r \in rows <=> /\ r \in PositionRow /\ r.run = collector[c].run
                            /\ r.at = collector[c].at /\ r.leg \in collector[c].legs
    BY <1>2 DEF Jobs, PositionRow
<1>5. \A l \in collector[c].legs : \E r \in rows :
          r.run = collector[c].run /\ r.at = collector[c].at /\ r.leg = l
    <2> TAKE l \in collector[c].legs
    <2> WITNESS [run |-> collector[c].run, at |-> collector[c].at, leg |-> l] \in rows
    <2> QED
        OBVIOUS
<1> HIDE DEF new
<1>6. Job(c, "balances", clock + 1, collector[c].legs)
    BY <1>1, <1>3 DEF Typed, Job
<1>7. rawPosition' = rawPosition \cup rows
    BY DEF WritePositions
<1> HIDE DEF rows
<1> QED
    BY <1>4, <1>5, <1>6, <1>7 DEF WritePositions, Written, exchange, silver

LEMMA EndStep ==
    ASSUME Typed, NEW c \in Collectors, NEW held \in BOOLEAN, WriteBalances(c, held)
    PROVE  Ended(c, held)
<1> DEFINE new == [last EXCEPT !.state = "whole", !.legs = collector[c].legs, !.held = held]
           b == [run |-> collector[c].run, at |-> collector[c].at]
<1>1. last' = IF last.run = collector[c].run /\ last.state = "alone" THEN new ELSE last
    BY DEF WriteBalances
<1>2. last \in Lasts /\ collector[c] \in Jobs
    BY DEF Typed
<1>3. /\ new \in Lasts /\ new.run = last.run /\ new.state = "whole"
      /\ new.legs = collector[c].legs /\ new.held = held
    BY <1>2 DEF Lasts, Jobs
<1>4. b \in BalanceRow /\ b.run = collector[c].run /\ b.at = collector[c].at
    BY <1>2 DEF BalanceRow, Jobs
<1>5. rawBalance' = IF held THEN rawBalance \cup {b} ELSE rawBalance
    BY DEF WriteBalances
<1>6. Idle \in Jobs
    BY DEF Idle, Jobs
<1> HIDE DEF new, b
<1> QED
    BY <1>1, <1>2, <1>3, <1>4, <1>5, <1>6 DEF WriteBalances, Ended, exchange, silver

LEMMA Initially == Init => IInv
<1> SUFFICES ASSUME Init PROVE IInv
    OBVIOUS
<1> USE SnapshotAssumption DEF Init, Idle, PipeIdle, NotCalm
<1>1. Typed
    BY DEF Typed, Jobs, Pipes, Lasts
<1>2. Truth /\ Shown /\ Ordered
    BY DEF Truth, Shown, Ordered
<1>3. Exclusive /\ Progress /\ ReadAll
    BY DEF Exclusive, Progress, ReadAll
<1>4. StatusIsRight /\ CurrentWhenAnyOpen
    BY DEF StatusIsRight, CurrentWhenAnyOpen
<1> QED
    BY <1>1, <1>2, <1>3, <1>4 DEF IInv

LEMMA TypedStep == IInv /\ [Next]_vars => Typed'
<1> SUFFICES ASSUME IInv, [Next]_vars PROVE Typed'
    OBVIOUS
<1> USE SnapshotAssumption DEF IInv, Typed, Jobs, Pipes, Lasts, PositionRow, BalanceRow, Idle, PipeIdle, Typed
<1>1. ASSUME NEW l \in Legs, Open(l) PROVE Typed'
    BY <1>1 DEF Open, exchange, bronze, silver
<1>2. ASSUME NEW l \in Legs, Close(l) PROVE Typed'
    BY <1>2 DEF Close, exchange, bronze, silver
<1>3. ASSUME NEW c \in Collectors, BeginSnapshot(c) PROVE Typed'
    BY <1>3 DEF BeginSnapshot, exchange, bronze, silver
<1>4. ASSUME NEW c \in Collectors, FetchPositions(c) PROVE Typed'
    <2>1. Fetched(c)
        BY <1>4, FetchStep, Zenon
    <2> QED
        BY <2>1 DEF Fetched, Job
<1>5. ASSUME NEW c \in Collectors, WritePositions(c) PROVE Typed'
    <2>1. Written(c)
        BY <1>5, WriteStep, Zenon
    <2> QED
        BY <2>1 DEF Written, Job
<1>6. ASSUME NEW c \in Collectors, NEW held \in BOOLEAN, WriteBalances(c, held) PROVE Typed'
    <2>1. Ended(c, held)
        BY <1>6, EndStep, Zenon
    <2> QED
        BY <2>1 DEF Ended, Job
<1>7. ASSUME NEW c \in Collectors, FailSnapshot(c) PROVE Typed'
    BY <1>7 DEF FailSnapshot, exchange, bronze, silver
<1>8. ASSUME NEW found \in SUBSET Legs, CollectCloses(found) PROVE Typed'
    BY <1>8 DEF CollectCloses, exchange, bronze, silver
<1>9. CASE ReadPositions
    BY <1>9 DEF ReadPositions, exchange, bronze, silver
<1>10. CASE ReadBalances
    BY <1>10 DEF ReadBalances, exchange, bronze, silver
<1>11. CASE ReadCloses
    BY <1>11 DEF ReadCloses, exchange, bronze, silver
<1>12. CASE Publish
    BY <1>12 DEF Publish, exchange, bronze, silver, Status
<1>13. CASE UNCHANGED vars
    BY <1>13 DEF vars, exchange, bronze, silver
<1> QED
    BY <1>1, <1>2, <1>3, <1>4, <1>5, <1>6, <1>7, <1>8, <1>9, <1>10, <1>11, <1>12, <1>13 DEF Next, SnapshotStep, Pipeline

LEMMA TruthStep == IInv /\ [Next]_vars => Truth'
<1> SUFFICES ASSUME IInv, [Next]_vars PROVE Truth'
    OBVIOUS
<1> USE DEF IInv, Typed, Jobs, Pipes, PositionRow, BalanceRow, Idle, PipeIdle, Truth
<1>1. ASSUME NEW l \in Legs, Open(l) PROVE Truth'
    BY <1>1 DEF Open, exchange, bronze, silver
<1>2. ASSUME NEW l \in Legs, Close(l) PROVE Truth'
    BY <1>2 DEF Close, exchange, bronze, silver
<1>3. ASSUME NEW c \in Collectors, BeginSnapshot(c) PROVE Truth'
    BY <1>3 DEF BeginSnapshot, exchange, bronze, silver
<1>4. ASSUME NEW c \in Collectors, FetchPositions(c) PROVE Truth'
    <2>1. Fetched(c)
        BY <1>4, FetchStep, Zenon
    <2> QED
        BY <2>1 DEF Fetched, Job
<1>5. ASSUME NEW c \in Collectors, WritePositions(c) PROVE Truth'
    <2>1. Written(c)
        BY <1>5, WriteStep, Zenon
    <2> QED
        BY <2>1 DEF Written, Job
<1>6. ASSUME NEW c \in Collectors, NEW held \in BOOLEAN, WriteBalances(c, held) PROVE Truth'
    <2>1. Ended(c, held)
        BY <1>6, EndStep, Zenon
    <2> QED
        BY <2>1 DEF Ended, Job
<1>7. ASSUME NEW c \in Collectors, FailSnapshot(c) PROVE Truth'
    BY <1>7 DEF FailSnapshot, exchange, bronze, silver
<1>8. ASSUME NEW found \in SUBSET Legs, CollectCloses(found) PROVE Truth'
    BY <1>8 DEF CollectCloses, exchange, bronze, silver
<1>9. CASE ReadPositions
    BY <1>9 DEF ReadPositions, exchange, bronze, silver
<1>10. CASE ReadBalances
    BY <1>10 DEF ReadBalances, exchange, bronze, silver
<1>11. CASE ReadCloses
    BY <1>11 DEF ReadCloses, exchange, bronze, silver
<1>12. CASE Publish
    BY <1>12 DEF Publish, exchange, bronze, silver
<1>13. CASE UNCHANGED vars
    BY <1>13 DEF vars, exchange, bronze, silver
<1> QED
    BY <1>1, <1>2, <1>3, <1>4, <1>5, <1>6, <1>7, <1>8, <1>9, <1>10, <1>11, <1>12, <1>13 DEF Next, SnapshotStep, Pipeline

LEMMA ShownStep == IInv /\ [Next]_vars => Shown'
<1> SUFFICES ASSUME IInv, [Next]_vars PROVE Shown'
    OBVIOUS
<1> USE DEF IInv, Typed, Jobs, Pipes, PositionRow, BalanceRow, Idle, PipeIdle, Truth, Shown
<1>1. ASSUME NEW l \in Legs, Open(l) PROVE Shown'
    BY <1>1 DEF Open, exchange, bronze, silver
<1>2. ASSUME NEW l \in Legs, Close(l) PROVE Shown'
    BY <1>2 DEF Close, exchange, bronze, silver
<1>3. ASSUME NEW c \in Collectors, BeginSnapshot(c) PROVE Shown'
    BY <1>3 DEF BeginSnapshot, exchange, bronze, silver
<1>4. ASSUME NEW c \in Collectors, FetchPositions(c) PROVE Shown'
    <2>1. Fetched(c)
        BY <1>4, FetchStep, Zenon
    <2> QED
        BY <2>1 DEF Fetched, Job
<1>5. ASSUME NEW c \in Collectors, WritePositions(c) PROVE Shown'
    <2>1. Written(c)
        BY <1>5, WriteStep, Zenon
    <2> QED
        BY <2>1 DEF Written, Job
<1>6. ASSUME NEW c \in Collectors, NEW held \in BOOLEAN, WriteBalances(c, held) PROVE Shown'
    <2>1. Ended(c, held)
        BY <1>6, EndStep, Zenon
    <2> QED
        BY <2>1 DEF Ended, Job
<1>7. ASSUME NEW c \in Collectors, FailSnapshot(c) PROVE Shown'
    BY <1>7 DEF FailSnapshot, exchange, bronze, silver
<1>8. ASSUME NEW found \in SUBSET Legs, CollectCloses(found) PROVE Shown'
    BY <1>8 DEF CollectCloses, exchange, bronze, silver
<1>9. CASE ReadPositions
    BY <1>9 DEF ReadPositions, exchange, bronze, silver
<1>10. CASE ReadBalances
    BY <1>10 DEF ReadBalances, exchange, bronze, silver
<1>11. CASE ReadCloses
    BY <1>11 DEF ReadCloses, exchange, bronze, silver
<1>12. CASE Publish
    BY <1>12 DEF Publish, exchange, bronze, silver, Status, RowsOf, Newest
<1>13. CASE UNCHANGED vars
    BY <1>13 DEF vars, exchange, bronze, silver
<1> QED
    BY <1>1, <1>2, <1>3, <1>4, <1>5, <1>6, <1>7, <1>8, <1>9, <1>10, <1>11, <1>12, <1>13 DEF Next, SnapshotStep, Pipeline

LEMMA OrderedStep == IInv /\ [Next]_vars => Ordered'
<1> SUFFICES ASSUME IInv, [Next]_vars PROVE Ordered'
    OBVIOUS
<1> USE DEF IInv, Typed, Jobs, Pipes, PositionRow, BalanceRow, Idle, PipeIdle, Ordered
<1>1. ASSUME NEW l \in Legs, Open(l) PROVE Ordered'
    BY <1>1 DEF Open, exchange, bronze, silver
<1>2. ASSUME NEW l \in Legs, Close(l) PROVE Ordered'
    BY <1>2 DEF Close, exchange, bronze, silver
<1>3. ASSUME NEW c \in Collectors, BeginSnapshot(c) PROVE Ordered'
    BY <1>3 DEF BeginSnapshot, exchange, bronze, silver
<1>4. ASSUME NEW c \in Collectors, FetchPositions(c) PROVE Ordered'
    <2>1. Fetched(c)
        BY <1>4, FetchStep, Zenon
    <2> QED
        BY <2>1 DEF Fetched, Job
<1>5. ASSUME NEW c \in Collectors, WritePositions(c) PROVE Ordered'
    <2>1. Written(c)
        BY <1>5, WriteStep, Zenon
    <2> QED
        BY <2>1 DEF Written, Job
<1>6. ASSUME NEW c \in Collectors, NEW held \in BOOLEAN, WriteBalances(c, held) PROVE Ordered'
    <2>1. Ended(c, held)
        BY <1>6, EndStep, Zenon
    <2> QED
        BY <2>1 DEF Ended, Job
<1>7. ASSUME NEW c \in Collectors, FailSnapshot(c) PROVE Ordered'
    BY <1>7 DEF FailSnapshot, exchange, bronze, silver
<1>8. ASSUME NEW found \in SUBSET Legs, CollectCloses(found) PROVE Ordered'
    BY <1>8 DEF CollectCloses, exchange, bronze, silver
<1>9. CASE ReadPositions
    BY <1>9 DEF ReadPositions, exchange, bronze, silver
<1>10. CASE ReadBalances
    BY <1>10 DEF ReadBalances, exchange, bronze, silver
<1>11. CASE ReadCloses
    BY <1>11 DEF ReadCloses, exchange, bronze, silver
<1>12. CASE Publish
    BY <1>12 DEF Publish, exchange, bronze, silver
<1>13. CASE UNCHANGED vars
    BY <1>13 DEF vars, exchange, bronze, silver
<1> QED
    BY <1>1, <1>2, <1>3, <1>4, <1>5, <1>6, <1>7, <1>8, <1>9, <1>10, <1>11, <1>12, <1>13 DEF Next, SnapshotStep, Pipeline

LEMMA ExclusiveStep == IInv /\ [Next]_vars => Exclusive'
<1> SUFFICES ASSUME IInv, [Next]_vars PROVE Exclusive'
    OBVIOUS
<1>0. ASSUME NEW c \in Collectors, NEW held \in BOOLEAN, WriteBalances(c, held)
      PROVE  Ended(c, held)
    BY <1>0, EndStep DEF IInv
<1> USE DEF IInv, Typed, Jobs, Pipes, PositionRow, BalanceRow, Idle, PipeIdle, Ordered, Exclusive, Busy
<1>1. ASSUME NEW l \in Legs, Open(l) PROVE Exclusive'
    BY <1>1 DEF Open, exchange, bronze, silver
<1>2. ASSUME NEW l \in Legs, Close(l) PROVE Exclusive'
    BY <1>2 DEF Close, exchange, bronze, silver
<1>3. ASSUME NEW c \in Collectors, BeginSnapshot(c) PROVE Exclusive'
    BY <1>3 DEF BeginSnapshot, exchange, bronze, silver
<1>4. ASSUME NEW c \in Collectors, FetchPositions(c) PROVE Exclusive'
    <2>1. Fetched(c)
        BY <1>4, FetchStep, Zenon
    <2> QED
        BY <2>1 DEF Fetched, Job
<1>5. ASSUME NEW c \in Collectors, WritePositions(c) PROVE Exclusive'
    <2>1. Written(c)
        BY <1>5, WriteStep, Zenon
    <2> QED
        BY <2>1 DEF Written, Job
<1>6. ASSUME NEW c \in Collectors, NEW held \in BOOLEAN, WriteBalances(c, held) PROVE Exclusive'
    <2>1. Ended(c, held)
        BY <1>0, <1>6, Zenon
    <2> QED
        BY <2>1 DEF Ended, Job
<1>7. ASSUME NEW c \in Collectors, FailSnapshot(c) PROVE Exclusive'
    BY <1>7 DEF FailSnapshot, exchange, bronze, silver
<1>8. ASSUME NEW found \in SUBSET Legs, CollectCloses(found) PROVE Exclusive'
    BY <1>8 DEF CollectCloses, exchange, bronze, silver
<1>9. CASE ReadPositions
    BY <1>9 DEF ReadPositions, exchange, bronze, silver
<1>10. CASE ReadBalances
    BY <1>10 DEF ReadBalances, exchange, bronze, silver
<1>11. CASE ReadCloses
    BY <1>11 DEF ReadCloses, exchange, bronze, silver
<1>12. CASE Publish
    BY <1>12 DEF Publish, exchange, bronze, silver
<1>13. CASE UNCHANGED vars
    BY <1>13 DEF vars, exchange, bronze, silver
<1> QED
    BY <1>1, <1>2, <1>3, <1>4, <1>5, <1>6, <1>7, <1>8, <1>9, <1>10, <1>11, <1>12, <1>13 DEF Next, SnapshotStep, Pipeline

LEMMA ProgressStep == IInv /\ [Next]_vars => Progress'
<1> SUFFICES ASSUME IInv, [Next]_vars PROVE Progress'
    OBVIOUS
<1>0. ASSUME NEW c \in Collectors, NEW held \in BOOLEAN, WriteBalances(c, held)
      PROVE  Ended(c, held)
    BY <1>0, EndStep DEF IInv
<1> USE DEF IInv, Typed, Jobs, Pipes, PositionRow, BalanceRow, Idle, PipeIdle, Ordered, Exclusive, Busy, Progress, Fresh, Whole, RowsOfLast
<1>1. ASSUME NEW l \in Legs, Open(l) PROVE Progress'
    BY <1>1 DEF Open, exchange, bronze, silver
<1>2. ASSUME NEW l \in Legs, Close(l) PROVE Progress'
    BY <1>2 DEF Close, exchange, bronze, silver
<1>3. ASSUME NEW c \in Collectors, BeginSnapshot(c) PROVE Progress'
    BY <1>3 DEF BeginSnapshot, exchange, bronze, silver
<1>4. ASSUME NEW c \in Collectors, FetchPositions(c) PROVE Progress'
    <2>1. Fetched(c)
        BY <1>4, FetchStep, Zenon
    <2> QED
        BY <2>1 DEF Fetched, Job
<1>5. ASSUME NEW c \in Collectors, WritePositions(c) PROVE Progress'
    <2>1. Written(c)
        BY <1>5, WriteStep, Zenon
    <2> QED
        BY <2>1 DEF Written, Job
<1>6. ASSUME NEW c \in Collectors, NEW held \in BOOLEAN, WriteBalances(c, held) PROVE Progress'
    <2>1. Ended(c, held)
        BY <1>0, <1>6, Zenon
    <2> QED
        BY <2>1 DEF Ended, Job
<1>7. ASSUME NEW c \in Collectors, FailSnapshot(c) PROVE Progress'
    BY <1>7 DEF FailSnapshot, exchange, bronze, silver
<1>8. ASSUME NEW found \in SUBSET Legs, CollectCloses(found) PROVE Progress'
    BY <1>8 DEF CollectCloses, exchange, bronze, silver
<1>9. CASE ReadPositions
    BY <1>9 DEF ReadPositions, exchange, bronze, silver
<1>10. CASE ReadBalances
    BY <1>10 DEF ReadBalances, exchange, bronze, silver
<1>11. CASE ReadCloses
    BY <1>11 DEF ReadCloses, exchange, bronze, silver
<1>12. CASE Publish
    BY <1>12 DEF Publish, exchange, bronze, silver
<1>13. CASE UNCHANGED vars
    BY <1>13 DEF vars, exchange, bronze, silver
<1> QED
    BY <1>1, <1>2, <1>3, <1>4, <1>5, <1>6, <1>7, <1>8, <1>9, <1>10, <1>11, <1>12, <1>13 DEF Next, SnapshotStep, Pipeline

LEMMA ReadStep == IInv /\ [Next]_vars => ReadAll'
<1> SUFFICES ASSUME IInv, [Next]_vars PROVE ReadAll'
    OBVIOUS
<1>0. ASSUME NEW c \in Collectors, NEW held \in BOOLEAN, WriteBalances(c, held)
      PROVE  Ended(c, held)
    BY <1>0, EndStep DEF IInv
<1> USE DEF IInv, Typed, Jobs, Pipes, PositionRow, BalanceRow, Idle, PipeIdle, Ordered, Exclusive, Busy, ReadAll
<1>1. ASSUME NEW l \in Legs, Open(l) PROVE ReadAll'
    BY <1>1 DEF Open, exchange, bronze, silver
<1>2. ASSUME NEW l \in Legs, Close(l) PROVE ReadAll'
    BY <1>2 DEF Close, exchange, bronze, silver
<1>3. ASSUME NEW c \in Collectors, BeginSnapshot(c) PROVE ReadAll'
    BY <1>3 DEF BeginSnapshot, exchange, bronze, silver
<1>4. ASSUME NEW c \in Collectors, FetchPositions(c) PROVE ReadAll'
    <2>1. Fetched(c)
        BY <1>4, FetchStep, Zenon
    <2> QED
        BY <2>1 DEF Fetched, Job
<1>5. ASSUME NEW c \in Collectors, WritePositions(c) PROVE ReadAll'
    <2>1. Written(c)
        BY <1>5, WriteStep, Zenon
    <2> QED
        BY <2>1 DEF Written, Job
<1>6. ASSUME NEW c \in Collectors, NEW held \in BOOLEAN, WriteBalances(c, held) PROVE ReadAll'
    <2>1. Ended(c, held)
        BY <1>0, <1>6, Zenon
    <2> QED
        BY <2>1 DEF Ended, Job
<1>7. ASSUME NEW c \in Collectors, FailSnapshot(c) PROVE ReadAll'
    BY <1>7 DEF FailSnapshot, exchange, bronze, silver
<1>8. ASSUME NEW found \in SUBSET Legs, CollectCloses(found) PROVE ReadAll'
    BY <1>8 DEF CollectCloses, exchange, bronze, silver
<1>9. CASE ReadPositions
    BY <1>9 DEF ReadPositions, exchange, bronze, silver
<1>10. CASE ReadBalances
    BY <1>10 DEF ReadBalances, exchange, bronze, silver
<1>11. CASE ReadCloses
    BY <1>11 DEF ReadCloses, exchange, bronze, silver
<1>12. CASE Publish
    BY <1>12 DEF Publish, exchange, bronze, silver
<1>13. CASE UNCHANGED vars
    BY <1>13 DEF vars, exchange, bronze, silver
<1> QED
    BY <1>1, <1>2, <1>3, <1>4, <1>5, <1>6, <1>7, <1>8, <1>9, <1>10, <1>11, <1>12, <1>13 DEF Next, SnapshotStep, Pipeline

LEMMA NonEmpty ==
    ASSUME NEW S \in SUBSET Legs, NEW x \in S
    PROVE  Cardinality(S) \in Nat /\ Cardinality(S) > 0
<1>1. IsFiniteSet(S)
    BY SnapshotAssumption, FS_Subset
<1>2. Cardinality(S) \in Nat
    BY <1>1, FS_CardinalityType
<1>3. Cardinality(S) # 0
    BY <1>1, FS_EmptySet
<1> QED
    BY <1>2, <1>3

\* A run that began after a whole snapshot tells which legs that snapshot shows.
LEMMA ReadsLast ==
    ASSUME IInv, pipe.pc = "commit", last.state = "whole", pipe.last = last.run
    PROVE  /\ last.run > 0 /\ pipe.rows = rawPosition
           /\ last.held => \A l \in Legs : l \in last.legs <=>
                  \E r \in Newest(RowsOf(l, pipe.rows)) : r.run \in LatestRuns(pipe)
<1>1. last.run > 0 /\ RowsOfLast(last.legs)
    BY DEF IInv, Exclusive, Progress, Whole
<1>2. pipe.rows = rawPosition /\ pipe.balances = rawBalance
    BY <1>1 DEF IInv, ReadAll, Typed, Lasts
<1>3. ASSUME last.held PROVE LatestRuns(pipe) = {last.run}
    <2>1. PICK b \in rawBalance : b.run = last.run /\ \A q \in rawBalance : q # b => q.at < b.at
        BY <1>3 DEF IInv, Progress, Whole
    <2>2. \A q \in rawBalance : q.at \in Nat
        BY DEF IInv, Typed, BalanceRow
    <2>3. Newest(rawBalance) = {b}
        BY <2>1, <2>2 DEF Newest
    <2> QED
        BY <1>2, <2>1, <2>3 DEF LatestRuns
<1>4. ASSUME NEW l \in Legs
      PROVE  l \in last.legs <=> \E r \in Newest(RowsOf(l, rawPosition)) : r.run = last.run
    BY <1>1 DEF RowsOfLast, Newest, RowsOf
<1> QED
    BY <1>1, <1>2, <1>3, <1>4

LEMMA CalmPublish ==
    ASSUME IInv, Publish, last.state = "whole", pipe.last = last.run
    PROVE  /\ basis' = [run |-> last.run, legs |-> last.legs, held |-> last.held,
                        closes |-> pipe.closes]
           /\ StatusIsRight' /\ CurrentWhenAnyOpen'
<1>1. pipe.pc = "commit"
    BY DEF Publish
<1>2. /\ last.run > 0 /\ pipe.rows = rawPosition
      /\ last.held => \A l \in Legs : l \in last.legs <=>
             \E r \in Newest(RowsOf(l, pipe.rows)) : r.run \in LatestRuns(pipe)
    BY <1>1, ReadsLast
<1>3. basis' = [run |-> last.run, legs |-> last.legs, held |-> last.held, closes |-> pipe.closes]
    BY DEF Publish
<1>4. /\ basis'.run = last.run /\ basis'.legs = last.legs /\ basis'.held = last.held
      /\ basis'.closes = pipe.closes
    BY <1>3
<1>5. last.legs \subseteq Legs /\ pipe.closes \subseteq Legs
    BY DEF IInv, Typed, Lasts, Pipes
<1>6. ASSUME last.held, NEW l \in Legs
      PROVE  /\ leg'[l] = "closed" <=> l \in pipe.closes
             /\ leg'[l] = "open" <=> l \in last.legs \ pipe.closes
    <2>1. leg'[l] = IF Status(l, pipe) = "absent" THEN leg[l] ELSE Status(l, pipe)
        BY DEF Publish
    <2>2. CASE l \in pipe.closes
        BY <2>1, <2>2 DEF Status
    <2>3. CASE l \notin pipe.closes /\ l \in last.legs
        <3>1. Status(l, pipe) = "open"
            BY <1>2, <1>6, <2>3, Zenon DEF Status
        <3> QED
            BY <2>1, <2>3, <3>1
    <2>4. CASE l \notin pipe.closes /\ l \notin last.legs
        <3>1. ~\E r \in Newest(RowsOf(l, pipe.rows)) : r.run \in LatestRuns(pipe)
            BY <1>2, <1>6, <2>4
        <3>2. Status(l, pipe) = IF RowsOf(l, pipe.rows) # {} THEN "stale" ELSE "absent"
            BY <2>4, <3>1, Zenon DEF Status
        <3>3. RowsOf(l, pipe.rows) = {} => leg[l] = "absent"
            BY <1>1, <1>2, <2>4 DEF IInv, Shown, RowsOf, Typed
        <3> QED
            BY <2>1, <2>4, <3>2, <3>3
    <2> QED
        BY <2>2, <2>3, <2>4
<1>7. StatusIsRight'
    BY <1>4, <1>6 DEF StatusIsRight
<1>8. snapshot' = rawPosition
    BY DEF Publish, IInv, Truth
<1>9. ASSUME last.legs # {} PROVE LatestPositions' = last.legs
    <2>1. RowsOfLast(last.legs)
        BY DEF IInv, Progress, Whole
    <2>2. \A r \in rawPosition : r.at \in Nat /\ r.leg \in Legs
        BY DEF IInv, Typed, PositionRow
    <2>3. PICK n \in rawPosition : n.run = last.run
        BY <1>5, <1>9, <2>1 DEF RowsOfLast
    <2>4. \A r \in rawPosition : r \in Newest(rawPosition) <=> r.run = last.run
        BY <2>1, <2>2, <2>3 DEF RowsOfLast, Newest
    <2>5. LatestPositions' = {r.leg : r \in Newest(rawPosition)}
        BY <1>8 DEF LatestPositions, Newest
    <2> QED
        BY <1>5, <2>1, <2>2, <2>4, <2>5 DEF RowsOfLast, Newest
<1>10. CurrentWhenAnyOpen'
    <2> SUFFICES ASSUME last.legs # {}
                 PROVE  /\ LatestPositions' = last.legs
                        /\ last.held => \A l \in Legs : leg'[l] = "open" =>
                               l \in last.legs /\ StrategySummary(BoxOf[l])'.open > 0
        BY <1>4, <1>9 DEF CurrentWhenAnyOpen
    <2> SUFFICES ASSUME last.held, NEW l \in Legs, leg'[l] = "open"
                 PROVE  l \in last.legs /\ StrategySummary(BoxOf[l])'.open > 0
        BY <1>9
    <2>1. l \in last.legs
        BY <1>6
    <2> DEFINE mine == {m \in last.legs : BoxOf[m] = BoxOf[l]}
    <2>2. StrategySummary(BoxOf[l])'.open = Cardinality(mine)
        BY <1>9 DEF StrategySummary, InBox
    <2>3. l \in mine /\ mine \in SUBSET Legs
        BY <1>5, <2>1
    <2> HIDE DEF mine
    <2> QED
        BY <2>1, <2>2, <2>3, NonEmpty
<1> QED
    BY <1>3, <1>7, <1>10

LEMMA RightStep == IInv /\ [Next]_vars => StatusIsRight' /\ CurrentWhenAnyOpen'
<1> SUFFICES ASSUME IInv, [Next]_vars PROVE StatusIsRight' /\ CurrentWhenAnyOpen'
    OBVIOUS
<1>1. CASE basis' = NotCalm
    BY <1>1 DEF StatusIsRight, CurrentWhenAnyOpen, NotCalm
<1>2. CASE Publish /\ last.state = "whole" /\ last.run = pipe.last
    BY <1>2, CalmPublish
<1>3. CASE Publish /\ ~(last.state = "whole" /\ last.run = pipe.last)
    BY <1>1, <1>3 DEF Publish
<1>4. CASE UNCHANGED vars
    BY <1>4 DEF vars, silver, IInv, StatusIsRight, CurrentWhenAnyOpen, StrategySummary, InBox,
                LatestPositions, DealLedger
<1> QED
    BY <1>1, <1>2, <1>3, <1>4 DEF Next, SnapshotStep, Pipeline, Open, Close, BeginSnapshot,
       FetchPositions, WritePositions, WriteBalances, FailSnapshot, CollectCloses, ReadPositions,
       ReadBalances, ReadCloses

LEMMA Inductive == Spec => []IInv
<1>1. IInv /\ [Next]_vars => IInv'
    BY TypedStep, TruthStep, ShownStep, OrderedStep, ExclusiveStep, ProgressStep, ReadStep,
       RightStep DEF IInv
<1> QED
    BY Initially, <1>1, PTL DEF Spec

\* Every variable has its type, whatever the number of legs, collectors and runs.
THEOREM TypeCorrect == Spec => []TypeOK
<1>1. IInv => TypeOK
    BY DEF IInv, Typed, TypeOK, Jobs, Pipes
<1> QED
    BY Inductive, <1>1, PTL

\* After a calm pipeline run whose newest snapshot has a balance, silver shows as open exactly
\* the legs of that snapshot that are not closed, and as closed exactly those with a
\* collected close (_collect_legs, _upsert_legs).
THEOREM StatusCorrect == Spec => []StatusIsRight
<1>1. IInv => StatusIsRight
    BY DEF IInv
<1> QED
    BY Inductive, <1>1, PTL

\* If anything is open in that snapshot, gold's current positions are its legs.
THEOREM CurrentCorrect == Spec => []CurrentWhenAnyOpen
<1>1. IInv => CurrentWhenAnyOpen
    BY DEF IInv
<1> QED
    BY Inductive, <1>1, PTL

\* Snapshots implements LegLife: silver.position_leg never shows a leg before it is opened,
\* never as closed before it is, never drops one, and never takes a close back.
THEOREM Implements == Spec => LegsLive
<1>1. Init => Life!Init
    BY DEF Init, Life!Init
<1>2. ASSUME IInv, [Next]_vars PROVE [Life!Next]_<<position, leg>>
    <2> USE DEF exchange, bronze, silver
    <2>1. ASSUME NEW l \in Legs, Open(l) \/ Close(l) PROVE Life!Next
        BY <2>1 DEF Open, Close, Life!Next, Life!Trade
    <2>2. CASE Publish
        <3>1. position' = position
            BY <2>2 DEF Publish
        <3>2. leg' \in [Legs -> {"absent", "open", "stale", "closed"}]
            BY <1>2, TypedStep DEF IInv, Typed
        <3>3. ASSUME NEW l \in Legs PROVE Life!Allowed(l, leg'[l])
            <4>1. leg'[l] = IF Status(l, pipe) = "absent" THEN leg[l] ELSE Status(l, pipe)
                BY <2>2 DEF Publish
            <4>2. leg[l] = "closed" => l \in pipe.closes
                BY <1>2, <2>2 DEF IInv, Shown, Publish
            <4>3. leg[l] = "closed" => leg'[l] = "closed"
                BY <4>1, <4>2 DEF Status
            <4>4. Truth' /\ Shown'
                BY <1>2, TruthStep, ShownStep
            <4>5. leg'[l] # "absent" => position[l] # "new"
                BY <3>1, <3>2, <4>4 DEF Truth, Shown
            <4>6. leg'[l] = "closed" => position[l] = "closed"
                BY <3>1, <4>4 DEF Truth, Shown
            <4>7. leg[l] # "absent" => leg'[l] # "absent"
                BY <4>1
            <4> QED
                BY <4>3, <4>5, <4>6, <4>7 DEF Life!Allowed
        <3> QED
            BY <3>1, <3>2, <3>3 DEF Life!Next, Life!Publish
    <2>3. CASE UNCHANGED <<position, leg>>
        BY <2>3
    <2> QED
        BY <1>2, <2>1, <2>2, <2>3 DEF Next, SnapshotStep, Pipeline, vars, BeginSnapshot,
           FetchPositions, WritePositions, WriteBalances, FailSnapshot, CollectCloses,
           ReadPositions, ReadBalances, ReadCloses
<1> QED
    BY <1>1, <1>2, Inductive, PTL DEF Spec, LegsLive, Life!Spec
=============================================================================
