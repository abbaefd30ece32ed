---------------------------- MODULE HistoryProofs ----------------------------
(***************************************************************************)
(* Proofs about module History, for any kinds, instruments, day length,    *)
(* lookback, page size and page limit, and any bound on time, records and  *)
(* faults.                                                                 *)
(***************************************************************************)
EXTENDS History, FiniteSetTheorems, TLAPS

---------------------------------------------------------------------------
(* Days.                                                                   *)

LEMMA Division ==
    ASSUME NEW t \in Int, NEW d \in Int, d > 0
    PROVE  t - (t % d) = (t \div d) * d
<1> QED
    BY Z3T(30)

LEMMA DayBounds ==
    ASSUME NEW t \in Nat
    PROVE  /\ Day(t) \in Nat /\ t % DayLength \in 0..(DayLength - 1)
           /\ t = Day(t) * DayLength + (t % DayLength)
<1>1. DayLength \in Nat /\ DayLength > 0
    BY HistoryAssumption
<1>2. t \div DayLength \in Nat /\ t % DayLength \in 0..(DayLength - 1)
    BY <1>1
<1>3. t = (t \div DayLength) * DayLength + (t % DayLength)
    <2>1. t - (t % DayLength) = (t \div DayLength) * DayLength
        BY <1>1, Division
    <2> QED
        BY <1>1, <1>2, <2>1
<1> QED
    BY <1>2, <1>3 DEF Day

LEMMA Multiples ==
    ASSUME NEW x \in Int, NEW y \in Int, NEW z \in Int, NEW d \in Int, d > 0, x - y <= z
    PROVE  /\ (x * d) - (y * d) <= z * d
           /\ x * d \in Int /\ y * d \in Int /\ z * d \in Int
<1>1. (z - (x - y)) * d >= 0
    BY Z3T(30)
<1>2. (z - (x - y)) * d = (z * d) - ((x * d) - (y * d))
    BY Z3T(30)
<1>3. x * d \in Int /\ y * d \in Int /\ z * d \in Int
    OBVIOUS
<1> QED
    BY <1>1, <1>2, <1>3

\* A window begins on a day whose midnight is at or before any time at most Lookback days
\* ago.
LEMMA WindowReaches ==
    ASSUME NEW t \in Nat, NEW u \in Nat, Day(t) - Day(u) <= Lookback
    PROVE  WindowStart(t) <= u
<1>1. DayLength \in Int /\ DayLength > 0 /\ Lookback \in Int
    BY HistoryAssumption
<1>2. Day(t) \in Int /\ Day(u) \in Int /\ Day(t) - Lookback <= Day(u)
    BY <1>1, DayBounds
<1>3. /\ (Day(t) * DayLength) - (Lookback * DayLength) <= Day(u) * DayLength
      /\ Day(t) * DayLength \in Int /\ Lookback * DayLength \in Int
      /\ Day(u) * DayLength \in Int
    BY <1>1, <1>2, Multiples
<1>4. t % DayLength \in Nat /\ u % DayLength \in Nat
    BY DayBounds, <1>1
<1>5. /\ t = Day(t) * DayLength + (t % DayLength)
      /\ u = Day(u) * DayLength + (u % DayLength)
    BY DayBounds
<1> QED
    BY <1>3, <1>4, <1>5 DEF WindowStart

LEMMA WindowIsInt == ASSUME NEW t \in Nat PROVE WindowStart(t) \in Int
<1>1. Lookback * DayLength \in Int /\ t % DayLength \in Int
    BY HistoryAssumption, DayBounds
<1> QED
    BY <1>1 DEF WindowStart

---------------------------------------------------------------------------
(* Sets of record numbers.                                                 *)

\* A nonempty set of naturals has a least element.
LEMMA LeastOfSet ==
    ASSUME NEW S \in SUBSET Nat, S # {}
    PROVE  \E i \in S : \A j \in S : i <= j
<1> DEFINE Below(i) == 1..i
           T == {Below(i) : i \in S}
           R == StrictSubsetOrdering(Nat)
<1>1. T \subseteq FiniteSubsetsOf(Nat) /\ T # {}
    <2>1. \A i \in S : Below(i) \in SUBSET Nat /\ IsFiniteSet(Below(i))
        BY FS_Interval
    <2> QED
        BY <2>1 DEF FiniteSubsetsOf
<1>2. IsWellFoundedOn(R, FiniteSubsetsOf(Nat))
    BY FS_StrictSubsetOrderingWellFounded
<1>3. \E x \in T : \A y \in T : ~ (<<y, x>> \in R)
    <2> HIDE DEF T, R
    <2> QED
        BY <1>1, <1>2, WFMin
<1>4. PICK i \in S : \A j \in S : ~ (<<Below(j), Below(i)>> \in R)
    BY <1>3
<1>5. ASSUME NEW j \in S, j < i PROVE <<Below(j), Below(i)>> \in R
    <2>1. i \in Below(i) /\ i \notin Below(j)
        BY <1>5
    <2>2. Below(j) \subseteq Below(i) /\ Below(i) \in SUBSET Nat /\ Below(j) \in SUBSET Nat
        BY <1>5
    <2> HIDE DEF Below
    <2>3. <<Below(j), Below(i)>> \in (SUBSET Nat) \X (SUBSET Nat)
        BY <2>2
    <2> QED
        BY <2>1, <2>2, <2>3 DEF StrictSubsetOrdering
<1> HIDE DEF T, R, Below
<1>6. \A j \in S : ~(j < i)
    BY <1>4, <1>5
<1> QED
    BY <1>6

\* A nonempty set of numbers up to N has a greatest element.
LEMMA GreatestOfSet ==
    ASSUME NEW N \in Nat, NEW S \in SUBSET (1..N), S # {}
    PROVE  \E i \in S : \A j \in S : j <= i
<1> DEFINE M == {N - i : i \in S}
<1>1. M \in SUBSET Nat /\ M # {}
    <2>1. \A i \in S : N - i \in Nat
        OBVIOUS
    <2> QED
        BY <2>1
<1>2. PICK m \in M : \A x \in M : m <= x
    <2> HIDE DEF M
    <2> QED
        BY <1>1, LeastOfSet
<1>3. PICK i \in S : m = N - i
    BY <1>2
<1>4. \A j \in S : N - j \in M
    OBVIOUS
<1>5. ASSUME NEW j \in S PROVE j <= i
    <2>1. N - i <= N - j
        BY <1>2, <1>3, <1>4
    <2> QED
        BY <2>1
<1> QED
    BY <1>5

---------------------------------------------------------------------------
(* Pages.                                                                  *)

\* The numbers of the records of a kind.
LEMMA Numbers ==
    ASSUME NEW k \in AllKinds, ledger[k] \in Seq(Record)
    PROVE  /\ Len(ledger[k]) \in Nat /\ DOMAIN ledger[k] = 1..Len(ledger[k])
           /\ \A S \in SUBSET DOMAIN ledger[k] : IsFiniteSet(S) /\ Cardinality(S) \in Nat
           /\ \A S \in SUBSET DOMAIN ledger[k] : Cardinality(S) <= Len(ledger[k])
<1>1. Len(ledger[k]) \in Nat /\ DOMAIN ledger[k] = 1..Len(ledger[k])
    OBVIOUS
<1>2. IsFiniteSet(1..Len(ledger[k])) /\ Cardinality(1..Len(ledger[k])) = Len(ledger[k])
    BY <1>1, FS_Interval
<1>3. ASSUME NEW S \in SUBSET DOMAIN ledger[k]
      PROVE  /\ IsFiniteSet(S) /\ Cardinality(S) \in Nat
             /\ Cardinality(S) <= Len(ledger[k])
    BY <1>1, <1>2, FS_Subset, FS_CardinalityType
<1> QED
    BY <1>1, <1>3

\* A page holds, with a record, every later one that it is asked for.
LEMMA PageIsNewest ==
    ASSUME NEW k \in AllKinds, ledger[k] \in Seq(Record), NEW after,
           NEW n \in Page(k, after), NEW m \in Before(k, after), n < m
    PROVE  m \in Page(k, after)
<1> DEFINE Above(i) == {x \in Before(k, after) : x > i}
<1>1. Before(k, after) \subseteq DOMAIN ledger[k] /\ n \in DOMAIN ledger[k]
    BY DEF Before, Page
<1>2. Above(m) \subseteq Above(n) /\ Above(n) \subseteq DOMAIN ledger[k] /\ n \in Nat /\ m \in Nat
    BY <1>1, Numbers
<1>3. Cardinality(Above(m)) <= Cardinality(Above(n)) /\ Cardinality(Above(m)) \in Nat
      /\ Cardinality(Above(n)) \in Nat
    <2> HIDE DEF Above
    <2>1. IsFiniteSet(Above(n)) /\ Cardinality(Above(n)) \in Nat /\ Cardinality(Above(m)) \in Nat
        BY <1>2, Numbers
    <2> QED
        BY <1>2, <2>1, FS_Subset
<1>4. Cardinality(Above(n)) < PageLimit
    BY DEF Page
<1> HIDE DEF Above
<1>5. Cardinality(Above(m)) < PageLimit
    BY <1>3, <1>4, HistoryAssumption
<1> QED
    BY <1>5 DEF Page, Above

\* Only a full page leaves something out.
LEMMA FullPage ==
    ASSUME NEW k \in AllKinds, ledger[k] \in Seq(Record), NEW after,
           NEW n \in Before(k, after) \ Page(k, after)
    PROVE  /\ PageLimit <= Cardinality(Page(k, after))
           /\ PageLimit < Len(ledger[k])
<1> DEFINE Left == Before(k, after) \ Page(k, after)
           Above(i) == {x \in Before(k, after) : x > i}
<1>1. Before(k, after) \subseteq DOMAIN ledger[k] /\ Page(k, after) \subseteq DOMAIN ledger[k]
    BY DEF Before, Page
<1>2. PICK i \in Left : \A j \in Left : j <= i
    <2>1. Left \in SUBSET (1..Len(ledger[k])) /\ Left # {} /\ Len(ledger[k]) \in Nat
        BY <1>1, Numbers
    <2> HIDE DEF Left
    <2> QED
        BY <2>1, GreatestOfSet
<1>3. i \in 1..Len(ledger[k]) /\ i \notin Page(k, after) /\ i \in Before(k, after)
    BY <1>1, Numbers
<1>4. Above(i) \subseteq Page(k, after) \ {i}
    <2> SUFFICES ASSUME NEW x \in Above(i) PROVE x \in Page(k, after) \ {i}
        OBVIOUS
    <2>1. x \in Nat /\ i \in Nat /\ x \in Before(k, after) /\ x > i
        BY <1>1, <1>3, Numbers
    <2>2. x \notin Left
        BY <1>2, <2>1
    <2> QED
        BY <2>1, <2>2
<1>5. ~(Cardinality(Above(i)) < PageLimit)
    BY <1>3 DEF Page
<1> HIDE DEF Above, Left
<1>6. IsFiniteSet(Page(k, after)) /\ Cardinality(Page(k, after)) \in Nat
    BY <1>1, Numbers
<1>7. Above(i) \subseteq Page(k, after)
    BY <1>4
<1>8. Cardinality(Above(i)) <= Cardinality(Page(k, after))
    BY <1>6, <1>7, FS_Subset
<1>9. Cardinality(Above(i)) \in Nat /\ PageLimit \in Nat
    BY <1>1, <1>7, Numbers, HistoryAssumption
<1>10. PageLimit <= Cardinality(Page(k, after))
    BY <1>5, <1>6, <1>8, <1>9
<1>11. Cardinality(Page(k, after)) + 1 <= Len(ledger[k])
    <2>1. Cardinality(Page(k, after) \cup {i}) = Cardinality(Page(k, after)) + 1
        BY <1>3, <1>6, FS_AddElement
    <2>2. Page(k, after) \cup {i} \subseteq DOMAIN ledger[k]
        BY <1>1, <1>3, Numbers
    <2> QED
        BY <2>1, <2>2, Numbers
<1>12. Len(ledger[k]) \in Nat
    BY Numbers
<1> QED
    BY <1>6, <1>9, <1>10, <1>11, <1>12

\* What a page leaves out is before its oldest record; if it has the time of that record,
\* and is a closed position, it is cut off.
LEMMA LeftOut ==
    ASSUME LedgerOK, NEW k \in AllKinds, ledger[k] \in Seq(Record), NEW after,
           NEW n \in Before(k, after) \ Page(k, after)
    PROVE  LET o == Oldest(Page(k, after))
           IN  /\ o \in Page(k, after) /\ o \in DOMAIN ledger[k] /\ n < o
               /\ ledger[k][n].time <= ledger[k][o].time
               /\ k = "closed" /\ ledger[k][n].time = ledger[k][o].time => CutOff(k, n)
<1> DEFINE P == Page(k, after)
           o == Oldest(P)
<1>1. P \subseteq DOMAIN ledger[k] /\ n \in DOMAIN ledger[k] /\ n \notin P
    BY DEF Before, Page
<1>2. P # {}
    <2>1. PageLimit <= Cardinality(P)
        BY FullPage
    <2>2. PageLimit \in Nat /\ PageLimit >= 1
        BY HistoryAssumption
    <2>3. P = {} => Cardinality(P) = 0
        <3>1. IsFiniteSet(P)
            BY <1>1, Numbers
        <3> HIDE DEF P
        <3> QED
            BY <3>1, FS_EmptySet
    <2> HIDE DEF P
    <2> QED
        BY <2>1, <2>2, <2>3
<1>3. P \in SUBSET Nat
    BY <1>1, Numbers
<1>4. o \in P /\ \A m \in P : o <= m
    <2> HIDE DEF P
    <2>1. \E x \in P : \A m \in P : x <= m
        BY <1>2, <1>3, LeastOfSet
    <2> QED
        BY <2>1 DEF Oldest
<1>5. n < o
    <2>1. n \in Nat /\ o \in Nat /\ n # o
        BY <1>1, <1>3, <1>4, Numbers
    <2>2. ~(o < n)
        <3>1. o \in Page(k, after)
            BY <1>4
        <3> HIDE DEF o, P
        <3> QED
            BY <1>1, <3>1, PageIsNewest DEF P
    <2> QED
        BY <2>1, <2>2
<1>6. ledger[k][n].time <= ledger[k][o].time
    <2> HIDE DEF o
    <2> QED
        BY <1>1, <1>4, <1>5 DEF LedgerOK
<1>7. k = "closed" /\ ledger[k][n].time = ledger[k][o].time => CutOff(k, n)
    <2>1. o + PageLimit <= Len(ledger[k]) + 1
        <3> HIDE DEF o, P
        <3>1. /\ o \in Nat /\ Len(ledger[k]) \in Nat /\ o <= Len(ledger[k])
              /\ DOMAIN ledger[k] = 1..Len(ledger[k])
            BY <1>1, <1>3, <1>4, Numbers
        <3>2. P \subseteq o..Len(ledger[k])
            BY <1>1, <1>3, <1>4, <3>1
        <3>3. /\ IsFiniteSet(o..Len(ledger[k]))
              /\ Cardinality(o..Len(ledger[k])) = Len(ledger[k]) - o + 1
            BY <3>1, FS_Interval
        <3>4. PageLimit <= Cardinality(P) /\ PageLimit \in Nat
            BY FullPage, HistoryAssumption DEF P
        <3>5. /\ Cardinality(P) <= Cardinality(o..Len(ledger[k])) /\ IsFiniteSet(P)
            BY <3>2, <3>3, FS_Subset
        <3>6. Cardinality(P) \in Nat
            BY <3>5, FS_CardinalityType
        <3> QED
            BY <3>1, <3>3, <3>4, <3>5, <3>6
    <2>2. o > n /\ o \in DOMAIN ledger[k]
        BY <1>1, <1>3, <1>4, <1>5, Numbers
    <2> HIDE DEF o
    <2> QED
        BY <2>1, <2>2 DEF CutOff
<1> QED
    BY <1>1, <1>4, <1>5, <1>6, <1>7

---------------------------------------------------------------------------
(* The invariant.                                                          *)

LEMMA InitIInv == Init => IInv
<1> SUFFICES ASSUME Init PROVE IInv
    OBVIOUS
<1> USE DEF Init
<1>1. TypeOK
    <2>1. NoJob \in Job /\ NoJob.pc = "idle"
        BY DEF NoJob, Job
    <2>2. job \in [Jobs -> Job] /\ \A j \in Jobs : job[j].pc = "idle"
        BY <2>1
    <2>3. covered \in [AllKinds -> [upto : Nat, gapless : BOOLEAN]]
        OBVIOUS
    <2>4. /\ now \in 0..Horizon /\ faults \in 0..MaxFaults
          /\ bronze \in [AllKinds -> SUBSET Nat]
        BY HistoryAssumption
    <2>5. ledger \in [AllKinds -> Seq(Record)]
        OBVIOUS
    <2>6. \A k \in AllKinds : bronze[k] \subseteq DOMAIN ledger[k]
        OBVIOUS
    <2> QED
        BY <2>2, <2>3, <2>4, <2>5, <2>6 DEF TypeOK
<1>2. LedgerOK
    BY DEF LedgerOK
<1>3. PagesOK
    BY DEF PagesOK, PageOK, NoJob
<1>4. CoveredOK /\ HistoryHeals
    BY DEF CoveredOK, HistoryHeals
<1> QED
    BY <1>1, <1>2, <1>3, <1>4 DEF IInv

\* The kind a run asks for is one of the kinds.
LEMMA KindIsKnown ==
    ASSUME TypeOK, NEW j \in Jobs, job[j].pc # "idle"
    PROVE  /\ Kind(j) \in AllKinds /\ ledger[Kind(j)] \in Seq(Record)
           /\ job[j] \in Job
<1> QED
    BY DEF TypeOK, AllKinds, Kind, ToSet

LEMMA RecordTypes ==
    ASSUME TypeOK, NEW k \in AllKinds, NEW n \in DOMAIN ledger[k]
    PROVE  /\ ledger[k][n] \in Record /\ ledger[k][n].time \in Nat
           /\ ledger[k][n].inst \in Insts /\ ledger[k][n].number \in Nat /\ n \in Nat
<1>1. ledger[k] \in Seq(Record)
    BY DEF TypeOK
<1>2. ledger[k][n] \in Record /\ n \in Nat
    BY <1>1
<1> QED
    BY <1>2 DEF Record

\* A run that does not move is still right when nothing is recorded.
LEMMA PageStays ==
    ASSUME TypeOK, NEW j \in Jobs, PageOK(j),
           job'[j] = job[j], ledger' = ledger, now' \in Nat, now <= now'
    PROVE  PageOK(j)'
<1>1. Kind(j)' = Kind(j)
    BY DEF Kind
<1>2. /\ Wanted(j)' = Wanted(j) /\ \A n : Found(j, n)' = Found(j, n)
      /\ Before(Kind(j), job[j].after)' = Before(Kind(j), job[j].after)
    BY <1>1 DEF Wanted, Found, CutOff, Before
<1>3. job[j].at \in Nat /\ now \in Nat
    BY HistoryAssumption DEF TypeOK, Job
<1> HIDE DEF TypeOK
<1> QED
    BY <1>1, <1>2, <1>3 DEF PageOK

\* ... and so are the records and what was covered, as time goes on.
LEMMA RecordsStay ==
    ASSUME TypeOK, LedgerOK, CoveredOK, ledger' = ledger, now' \in Nat, now <= now'
    PROVE  /\ LedgerOK'
           /\ \A k \in AllKinds : covered'[k] = covered[k] => covered'[k].upto <= now'
<1>1. now \in Nat
    BY HistoryAssumption DEF TypeOK
<1>2. \A k \in AllKinds : /\ covered[k].upto \in Nat
                          /\ \A n \in DOMAIN ledger[k] : ledger[k][n].time \in Nat
    BY RecordTypes DEF TypeOK
<1>3. \A k \in AllKinds : covered'[k] = covered[k] => covered'[k].upto <= now'
    BY <1>1, <1>2 DEF CoveredOK
<1>4. \A k \in AllKinds : \A i : OfInst(k, i)' = OfInst(k, i)
    BY DEF OfInst
<1> QED
    BY <1>1, <1>2, <1>3, <1>4 DEF LedgerOK

LEMMA TickStep == IInv /\ Tick => IInv'
<1> SUFFICES ASSUME IInv, Tick PROVE IInv'
    OBVIOUS
<1> USE DEF IInv, Tick
<1>1. now \in Nat /\ now' = now + 1 /\ now' \in 0..Horizon
    BY HistoryAssumption DEF TypeOK
<1>2. TypeOK'
    BY <1>1 DEF TypeOK, Kind
<1>3. LedgerOK' /\ CoveredOK'
    BY <1>1, RecordsStay DEF CoveredOK
<1>4. PagesOK'
    BY <1>1, PageStays DEF PagesOK
<1>5. HistoryHeals'
    BY DEF HistoryHeals, CutOff
<1> QED
    BY <1>2, <1>3, <1>4, <1>5

LEMMA HappenStep ==
    ASSUME IInv, NEW k \in AllKinds, NEW i \in Insts, Happen(k, i)
    PROVE  IInv'
<1> USE DEF IInv
<1> DEFINE new == Len(ledger[k]) + 1
           r == [time |-> now, inst |-> i, number |-> Cardinality(OfInst(k, i)) + 1]
<1>1. /\ ledger[k] \in Seq(Record) /\ now \in Nat
      /\ Len(ledger[k]) \in Nat /\ DOMAIN ledger[k] = 1..Len(ledger[k])
    BY HistoryAssumption DEF TypeOK
<1>2. r \in Record /\ IsFiniteSet(OfInst(k, i)) /\ Cardinality(OfInst(k, i)) \in Nat
    <2>1. OfInst(k, i) \in SUBSET DOMAIN ledger[k]
        BY DEF OfInst
    <2>2. IsFiniteSet(OfInst(k, i)) /\ Cardinality(OfInst(k, i)) \in Nat
        BY <1>1, <2>1, Numbers
    <2> QED
        BY <1>1, <2>2 DEF Record
<1>3. /\ ledger' = [ledger EXCEPT ![k] = Append(ledger[k], r)]
      /\ UNCHANGED <<now, bronze, job, faults, covered>>
    BY DEF Happen, OfInst
<1> HIDE DEF r
<1>4. /\ ledger'[k] = Append(ledger[k], r) /\ ledger'[k] \in Seq(Record)
      /\ Len(ledger'[k]) = new /\ DOMAIN ledger'[k] = (DOMAIN ledger[k]) \cup {new}
      /\ ledger'[k][new] = r /\ new \notin DOMAIN ledger[k]
      /\ \A n \in DOMAIN ledger[k] : ledger'[k][n] = ledger[k][n] /\ n < new
    <2>1. ledger'[k] = Append(ledger[k], r)
        BY <1>1, <1>3 DEF TypeOK
    <2> QED
        BY <1>1, <1>2, <2>1
<1>5. \A l \in AllKinds : l # k => ledger'[l] = ledger[l]
    BY <1>3 DEF TypeOK
<1>6. \A l \in AllKinds : \A n : n \in DOMAIN ledger[l] =>
          /\ n \in DOMAIN ledger'[l] /\ ledger'[l][n] = ledger[l][n]
          /\ CutOff(l, n) => CutOff(l, n)'
    <2> SUFFICES ASSUME NEW l \in AllKinds, NEW n \in DOMAIN ledger[l]
                 PROVE  /\ n \in DOMAIN ledger'[l] /\ ledger'[l][n] = ledger[l][n]
                        /\ CutOff(l, n) => CutOff(l, n)'
        OBVIOUS
    <2>1. CASE l # k
        BY <1>5, <2>1 DEF CutOff
    <2>2. CASE l = k
        <3>1. n \in DOMAIN ledger'[l] /\ ledger'[l][n] = ledger[l][n]
            BY <1>4, <2>2
        <3>2. \A m \in Nat : m + PageLimit <= Len(ledger[l]) + 1 => m + PageLimit <= Len(ledger'[l]) + 1
            BY <1>1, <1>4, <2>2, HistoryAssumption
        <3>3. \A m \in DOMAIN ledger[l] : /\ m \in DOMAIN ledger'[l] /\ m \in Nat
                                          /\ ledger'[l][m] = ledger[l][m]
            BY <1>1, <1>4, <2>2
        <3> QED
            BY <3>1, <3>2, <3>3 DEF CutOff
    <2> QED
        BY <2>1, <2>2
<1>7. \A l \in AllKinds : \A n : n \in DOMAIN ledger'[l] =>
          \/ n \in DOMAIN ledger[l]
          \/ l = k /\ n = new /\ ledger'[l][n].time = now
    BY <1>4, <1>5 DEF r
<1>8. \A j \in Jobs : Kind(j)' = Kind(j)
    BY <1>3 DEF Kind
<1>9. TypeOK'
    <2>1. ledger' \in [AllKinds -> Seq(Record)]
        BY <1>3, <1>4 DEF TypeOK
    <2>2. \A l \in AllKinds : bronze'[l] \subseteq DOMAIN ledger'[l]
        BY <1>3, <1>6 DEF TypeOK
    <2>3. \A j \in Jobs : job'[j].pc # "idle" =>
             job'[j].nth \in DOMAIN Kinds /\ job'[j].got \subseteq DOMAIN ledger'[Kind(j)']
        BY <1>3, <1>6, <1>8, KindIsKnown DEF TypeOK
    <2>4. /\ now' \in 0..Horizon /\ faults' \in 0..MaxFaults
          /\ bronze' \in [AllKinds -> SUBSET Nat] /\ job' \in [Jobs -> Job]
          /\ covered' \in [AllKinds -> [upto : Nat, gapless : BOOLEAN]]
        BY <1>3 DEF TypeOK
    <2> QED
        BY <2>1, <2>2, <2>3, <2>4 DEF TypeOK
<1>10. LedgerOK'
    <2> DEFINE After(l, x) == {n \in DOMAIN ledger'[l] : ledger'[l][n].inst = x}
    <2>1. ASSUME NEW l \in AllKinds, l # k
          PROVE  \A x : After(l, x) = OfInst(l, x)
        BY <1>5, <2>1 DEF OfInst
    <2>2. /\ After(k, i) = OfInst(k, i) \cup {new} /\ new \notin OfInst(k, i)
          /\ \A x : x # i => After(k, x) = OfInst(k, x)
        BY <1>4 DEF OfInst, r
    <2> HIDE DEF After
    <2>3. Cardinality(After(k, i)) = Cardinality(OfInst(k, i)) + 1
        <3> HIDE DEF new
        <3>1. Cardinality(OfInst(k, i) \cup {new}) = Cardinality(OfInst(k, i)) + 1
            BY <1>2, <2>2, FS_AddElement, Zenon
        <3> QED
            BY <2>2, <3>1, Zenon
    <2>4. ASSUME NEW l \in AllKinds, NEW n \in DOMAIN ledger'[l]
          PROVE  /\ ledger'[l][n].time <= now'
                 /\ ledger'[l][n].number <= Cardinality(After(l, ledger'[l][n].inst))
        <3>1. CASE l # k
            BY <1>3, <1>5, <2>1, <2>4, <3>1 DEF LedgerOK
        <3>2. CASE l = k /\ n = new
            <4>1. r.time = now /\ r.inst = i /\ r.number = Cardinality(OfInst(k, i)) + 1
                BY DEF r
            <4>2. r.number <= Cardinality(After(k, i))
                BY <1>2, <2>3, <4>1
            <4> QED
                BY <1>1, <1>3, <1>4, <3>2, <4>1, <4>2
        <3>3. CASE l = k /\ n \in DOMAIN ledger[k]
            <4>1. /\ ledger'[k][n] = ledger[k][n] /\ ledger[k][n].time <= now
                  /\ ledger[k][n].number <= Cardinality(OfInst(k, ledger[k][n].inst))
                BY <1>4, <3>3 DEF LedgerOK
            <4>2. ledger[k][n].number \in Nat
                BY <3>3, RecordTypes
            <4>3. CASE ledger[k][n].inst = i
                <5>1. ledger[k][n].number <= Cardinality(OfInst(k, i))
                    BY <4>1, <4>3
                <5>2. ledger[k][n].number <= Cardinality(After(k, i))
                    BY <1>2, <2>3, <4>2, <5>1
                <5> QED
                    BY <1>3, <3>3, <4>1, <4>3, <5>2
            <4>4. CASE ledger[k][n].inst # i
                BY <1>3, <2>2, <3>3, <4>1, <4>4
            <4> QED
                BY <4>3, <4>4
        <3> QED
            BY <1>7, <3>1, <3>2, <3>3
    <2>5. ASSUME NEW l \in AllKinds, NEW m \in DOMAIN ledger'[l], NEW n \in DOMAIN ledger'[l],
                 m < n
          PROVE  /\ ledger'[l][m].time <= ledger'[l][n].time
                 /\ <<ledger'[l][m].inst, ledger'[l][m].number>>
                       # <<ledger'[l][n].inst, ledger'[l][n].number>>
        <3>1. CASE l # k
            BY <1>5, <2>5, <3>1 DEF LedgerOK
        <3>2. CASE l = k /\ n # new
            <4>1. m \in DOMAIN ledger[k] /\ n \in DOMAIN ledger[k]
                BY <1>1, <1>4, <2>5, <3>2
            <4> QED
                BY <1>4, <2>5, <3>2, <4>1 DEF LedgerOK
        <3>3. CASE l = k /\ n = new
            <4>1. m \in DOMAIN ledger[k] /\ ledger'[k][m] = ledger[k][m]
                BY <1>1, <1>4, <2>5, <3>3
            <4>2. /\ ledger[k][m].time <= now
                  /\ ledger[k][m].number <= Cardinality(OfInst(k, ledger[k][m].inst))
                BY <4>1 DEF LedgerOK
            <4>3. ledger[k][m].number \in Nat
                BY <4>1, RecordTypes
            <4>4. r.time = now /\ r.inst = i /\ r.number = Cardinality(OfInst(k, i)) + 1
                BY DEF r
            <4>5. ledger[k][m].inst = i => ledger[k][m].number # r.number
                BY <1>2, <4>2, <4>3, <4>4
            <4> QED
                BY <1>4, <3>3, <4>1, <4>2, <4>4, <4>5
        <3> QED
            BY <3>1, <3>2, <3>3
    <2> QED
        BY <2>4, <2>5 DEF LedgerOK, OfInst, After
<1>11. PagesOK'
    <2> SUFFICES ASSUME NEW j \in Jobs, job[j].pc # "idle" PROVE PageOK(j)'
        BY <1>3 DEF PagesOK, PageOK
    <2>1. /\ PageOK(j) /\ Kind(j) \in AllKinds /\ job[j].at \in Nat /\ job[j].at <= now
        BY KindIsKnown DEF PagesOK, PageOK, Job
    <2>2. ASSUME NEW n \in Wanted(j)' PROVE n \in Wanted(j)
        <3>1. /\ n \in DOMAIN ledger'[Kind(j)] /\ ledger'[Kind(j)][n].time < job[j].at
              /\ job[j].since <= ledger'[Kind(j)][n].time
            BY <1>3, <1>8 DEF Wanted
        <3>2. n \in DOMAIN ledger[Kind(j)]
            BY <1>1, <1>7, <2>1, <3>1
        <3> QED
            BY <1>6, <2>1, <3>1, <3>2 DEF Wanted
    <2>3. ASSUME NEW n \in Wanted(j), Found(j, n) PROVE Found(j, n)'
        BY <1>3, <1>6, <1>8, <2>1, <2>3 DEF Found, Wanted
    <2>4. ASSUME NEW n \in Wanted(j), n \in Before(Kind(j), job[j].after)
          PROVE  n \in Before(Kind(j), job[j].after)'
        <3>1. n \in DOMAIN ledger'[Kind(j)] /\ ledger'[Kind(j)][n] = ledger[Kind(j)][n]
            BY <1>6, <2>1 DEF Wanted
        <3> QED
            BY <1>3, <1>8, <2>4, <3>1 DEF Before
    <2>5. /\ job[j].since = IF j = "backfill" THEN 0 ELSE WindowStart(job[j].at)
          /\ job[j].pc = "page" =>
                \A n \in Wanted(j) \ Before(Kind(j), job[j].after) : Found(j, n)
          /\ job[j].pc = "write" /\ job[j].whole => \A n \in Wanted(j) : Found(j, n)
        BY <2>1 DEF PageOK
    <2>6. job'[j] = job[j] /\ now' = now
        BY <1>3
    <2>7. job[j].pc = "page" =>
              \A n \in Wanted(j)' : n \notin Before(Kind(j), job[j].after)' => Found(j, n)'
        BY <2>2, <2>3, <2>4, <2>5
    <2>8. job[j].pc = "write" /\ job[j].whole => \A n \in Wanted(j)' : Found(j, n)'
        BY <2>2, <2>3, <2>5
    <2> QED
        BY <2>1, <2>5, <2>6, <2>7, <2>8 DEF PageOK
<1>12. CoveredOK'
    BY <1>3 DEF CoveredOK
<1>13. HistoryHeals'
    <2> SUFFICES ASSUME NEW l \in AllKinds, covered'[l].gapless, NEW n \in DOMAIN ledger'[l],
                        ledger'[l][n].time < covered'[l].upto
                 PROVE  n \in bronze'[l] \/ CutOff(l, n)'
        BY DEF HistoryHeals
    <2>1. covered'[l] = covered[l] /\ covered[l].upto <= now /\ covered[l].upto \in Nat
          /\ bronze'[l] = bronze[l]
        BY <1>3 DEF CoveredOK, TypeOK
    <2>2. n \in DOMAIN ledger[l]
        BY <1>1, <1>7, <2>1
    <2>3. n \in bronze[l] \/ CutOff(l, n)
        BY <1>6, <2>1, <2>2 DEF HistoryHeals
    <2> QED
        BY <1>6, <2>1, <2>2, <2>3
<1> QED
    BY <1>9, <1>10, <1>11, <1>12, <1>13

\* A step of one run: it suffices to look at that run, when neither the clock nor the
\* records move.
LEMMA OneRunMoves ==
    ASSUME IInv, NEW j \in Jobs, UNCHANGED <<now, ledger, bronze, covered>>,
           faults' \in 0..MaxFaults,
           NEW next \in Job, job' = [job EXCEPT ![j] = next],
           next.pc # "idle" =>
               next.nth \in DOMAIN Kinds /\ next.got \subseteq DOMAIN ledger[Kind(j)'],
           PageOK(j)'
    PROVE  IInv'
<1> USE DEF IInv
<1>1. job'[j] = next /\ \A d \in Jobs \ {j} : job'[d] = job[d]
    BY DEF TypeOK
<1>2. now \in Nat
    BY HistoryAssumption DEF TypeOK
<1>3. TypeOK'
    <2>1. ASSUME NEW d \in Jobs, job'[d].pc # "idle"
          PROVE  job'[d].nth \in DOMAIN Kinds /\ job'[d].got \subseteq DOMAIN ledger'[Kind(d)']
        <3>1. CASE d = j
            BY <1>1, <2>1, <3>1
        <3>2. CASE d # j
            BY <1>1, <2>1, <3>2 DEF TypeOK, Kind
        <3> QED
            BY <3>1, <3>2
    <2>2. job' \in [Jobs -> Job]
        BY DEF TypeOK
    <2> QED
        BY <2>1, <2>2 DEF TypeOK
<1>4. LedgerOK' /\ CoveredOK'
    BY <1>2, RecordsStay DEF CoveredOK
<1>5. PagesOK'
    BY <1>1, <1>2, PageStays DEF PagesOK
<1>6. HistoryHeals'
    BY DEF HistoryHeals, CutOff
<1> QED
    BY <1>3, <1>4, <1>5, <1>6

LEMMA BeginStep ==
    ASSUME IInv, NEW j \in Jobs, Begin(j)
    PROVE  IInv'
<1> DEFINE since == IF j = "backfill" THEN 0 ELSE WindowStart(now)
           next == [NoJob EXCEPT !.pc = "page", !.nth = 1, !.at = now, !.since = since]
<1>1. now \in Nat /\ faults \in 0..MaxFaults /\ WindowStart(now) \in Int
    BY HistoryAssumption, WindowIsInt DEF IInv, TypeOK
<1>2. /\ next.pc = "page" /\ next.nth = 1 /\ next.at = now /\ next.after = 0
      /\ next.since = (IF j = "backfill" THEN 0 ELSE WindowStart(now)) /\ next.got = {}
    BY DEF NoJob
<1>3. next \in Job
    <2>1. since \in Int
        BY <1>1
    <2> HIDE DEF since
    <2> QED
        BY <1>1, <2>1 DEF NoJob, Job
<1>4. 1 \in DOMAIN Kinds
    BY HistoryAssumption
<1>5. job' = [job EXCEPT ![j] = next] /\ job'[j] = next
      /\ UNCHANGED <<now, ledger, bronze, faults, covered>>
    BY DEF Begin, IInv, TypeOK
<1> HIDE DEF next
<1>6. PageOK(j)'
    <2>1. Wanted(j)' \subseteq Before(Kind(j), job[j].after)'
        BY <1>2, <1>5 DEF Wanted, Before
    <2> QED
        BY <1>1, <1>2, <1>5, <2>1 DEF PageOK
<1> QED
    BY <1>1, <1>2, <1>3, <1>4, <1>5, <1>6, OneRunMoves

LEMMA FailStep ==
    ASSUME IInv, NEW j \in Jobs, Fail(j)
    PROVE  IInv'
<1>1. /\ job' = [job EXCEPT ![j] = NoJob] /\ job'[j] = NoJob
      /\ UNCHANGED <<now, ledger, bronze, covered>> /\ faults' \in 0..MaxFaults
    BY HistoryAssumption DEF Fail, IInv, TypeOK
<1>2. NoJob \in Job /\ NoJob.pc = "idle"
    BY DEF NoJob, Job
<1>3. PageOK(j)'
    BY <1>1, <1>2 DEF PageOK
<1> QED
    BY <1>1, <1>2, <1>3, OneRunMoves

LEMMA TransientStep ==
    ASSUME IInv, NEW j \in Jobs, Transient(j)
    PROVE  IInv'
<1> DEFINE next == [job[j] EXCEPT !.pc = "write", !.pages = 0, !.after = 0, !.whole = FALSE]
<1>1. /\ job' = [job EXCEPT ![j] = next] /\ job'[j] = next
      /\ UNCHANGED <<now, ledger, bronze, covered>> /\ faults' \in 0..MaxFaults
      /\ job[j].pc = "page" /\ job[j] \in Job
    BY HistoryAssumption DEF Transient, IInv, TypeOK
<1>2. /\ next \in Job /\ next.pc = "write" /\ next.nth = job[j].nth /\ next.got = job[j].got
      /\ next.at = job[j].at /\ next.since = job[j].since /\ next.whole = FALSE
    BY <1>1 DEF Job
<1> HIDE DEF next
<1>3. Kind(j)' = Kind(j)
    BY <1>1, <1>2 DEF Kind
<1>4. next.nth \in DOMAIN Kinds /\ next.got \subseteq DOMAIN ledger[Kind(j)']
    BY <1>1, <1>2, <1>3 DEF IInv, TypeOK
<1>5. PageOK(j)'
    BY <1>1, <1>2 DEF PageOK, PagesOK, IInv
<1> QED
    BY <1>1, <1>2, <1>4, <1>5, OneRunMoves

LEMMA FetchPageStep ==
    ASSUME IInv, NEW j \in Jobs, FetchPage(j)
    PROVE  IInv'
<1> DEFINE k == Kind(j)
           page == Page(k, job[j].after)
           last == LastPage(j, page)
           full == job[j].pages + 1 = MaxPages
           next == [job[j] EXCEPT
                      !.got = job[j].got \cup page,
                      !.pc = IF last \/ full THEN "write" ELSE "page",
                      !.pages = IF last \/ full THEN 0 ELSE job[j].pages + 1,
                      !.after = IF last \/ full THEN 0 ELSE Cursor(k, Oldest(page)),
                      !.whole = job[j].whole /\ (last \/ ~full)]
<1>1. /\ job[j].pc = "page" /\ job[j] \in Job /\ k \in AllKinds
      /\ ledger[k] \in Seq(Record) /\ job[j].nth \in DOMAIN Kinds
      /\ job[j].got \subseteq DOMAIN ledger[k]
    BY KindIsKnown DEF FetchPage, IInv, TypeOK
<1>2. /\ job' = [job EXCEPT ![j] = next] /\ job'[j] = next
      /\ UNCHANGED <<now, ledger, bronze, faults, covered>>
    BY DEF FetchPage, IInv, TypeOK
<1>3. page \subseteq DOMAIN ledger[k] /\ page \subseteq Before(k, job[j].after)
    BY DEF Page, Before
<1>4. ~last => Oldest(page) \in page /\ Cursor(k, Oldest(page)) \in Nat \ {0}
    <2> SUFFICES ASSUME ~last
                 PROVE  Oldest(page) \in page /\ Cursor(k, Oldest(page)) \in Nat \ {0}
        OBVIOUS
    <2>1. ~(Cardinality(page) < PageLimit)
        BY DEF LastPage
    <2>2. page # {}
        <3>1. page = {} => Cardinality(page) = 0
            <4>1. IsFiniteSet(page)
                BY <1>1, <1>3, Numbers
            <4> HIDE DEF page
            <4> QED
                BY <4>1, FS_EmptySet
        <3> HIDE DEF page
        <3> QED
            BY <2>1, <3>1, HistoryAssumption
    <2>3. page \in SUBSET Nat
        BY <1>1, <1>3, Numbers
    <2>4. Oldest(page) \in page
        <3> HIDE DEF page
        <3>1. \E x \in page : \A m \in page : x <= m
            BY <2>2, <2>3, LeastOfSet
        <3> QED
            BY <3>1 DEF Oldest
    <2>5. Oldest(page) \in DOMAIN ledger[k] /\ Oldest(page) \in 1..Len(ledger[k])
        BY <1>1, <1>3, <2>4, Numbers
    <2>6. ledger[k][Oldest(page)].time \in Nat
        BY <1>1, <2>5, RecordTypes DEF IInv
    <2> HIDE DEF page, k
    <2> QED
        BY <1>1, <2>4, <2>5, <2>6, Numbers DEF Cursor
<1>5. next \in Job
    <2>1. last \/ full \/ Cursor(k, Oldest(page)) \in Nat
        BY <1>4
    <2>2. job[j].got \cup page \in SUBSET Nat
        BY <1>1, <1>3, Numbers
    <2>3. job[j].whole \in BOOLEAN /\ job[j].pages + 1 \in Nat
        BY <1>1 DEF Job
    <2> HIDE DEF k, page, last, full
    <2> QED
        BY <1>1, <2>1, <2>2, <2>3 DEF Job
<1>6. /\ next.nth = job[j].nth /\ next.at = job[j].at /\ next.since = job[j].since
      /\ next.got = job[j].got \cup page
      /\ next.pc = IF last \/ full THEN "write" ELSE "page"
      /\ ~(last \/ full) => next.after = Cursor(k, Oldest(page))
      /\ next.pc = "write" /\ next.whole => last
    <2> HIDE DEF k, page, last, full
    <2> QED
        BY <1>1 DEF Job
<1> HIDE DEF next
<1>7. Kind(j)' = k
    BY <1>2, <1>6 DEF Kind
<1>8. next.nth \in DOMAIN Kinds /\ next.got \subseteq DOMAIN ledger[k]
    BY <1>1, <1>3, <1>6
<1>9. /\ Wanted(j)' = Wanted(j) /\ Wanted(j) \subseteq DOMAIN ledger[k]
      /\ \A n : Found(j, n)' <=> n \in next.got \/ CutOff(k, n)
    <2> HIDE DEF k
    <2>1. Wanted(j) = {n \in DOMAIN ledger[k] :
              job[j].since <= ledger[k][n].time /\ ledger[k][n].time < job[j].at}
        BY DEF Wanted, k
    <2>2. Wanted(j)' = Wanted(j)
        BY <1>2, <1>6, <1>7, <2>1 DEF Wanted
    <2>3. ASSUME NEW n PROVE Found(j, n)' <=> n \in next.got \/ CutOff(k, n)
        <3>1. Found(j, n)' <=> n \in job'[j].got \/ CutOff(Kind(j), n)'
            BY DEF Found
        <3>2. CutOff(Kind(j), n)' <=> CutOff(k, n)
            BY <1>2, <1>7 DEF CutOff
        <3> QED
            BY <1>2, <3>1, <3>2
    <2> QED
        BY <2>1, <2>2, <2>3
<1>10. \A n \in Wanted(j) : \/ n \in next.got \/ CutOff(k, n)
                           \/ n \in Before(k, job[j].after) \ page
    BY <1>1, <1>6 DEF IInv, PagesOK, PageOK, Found
<1>11. ASSUME NEW n \in Wanted(j), n \in Before(k, job[j].after) \ page
       PROVE  /\ Oldest(page) \in page /\ n < Oldest(page)
              /\ PageLimit <= Cardinality(page)
              /\ ledger[k][n].time <= ledger[k][Oldest(page)].time
              /\ k = "closed" /\ ledger[k][n].time = ledger[k][Oldest(page)].time
                    => CutOff(k, n)
    <2> HIDE DEF k
    <2> QED
        BY <1>1, <1>11, LeftOut, FullPage DEF IInv
<1>12. last => \A n \in Wanted(j) : n \in next.got \/ CutOff(k, n)
    <2> SUFFICES ASSUME last, NEW n \in Wanted(j), n \in Before(k, job[j].after) \ page
                 PROVE  FALSE
        BY <1>10
    <2>1. ~(Cardinality(page) < PageLimit)
        <3>1. Cardinality(page) \in Nat
            BY <1>1, <1>3, Numbers
        <3> HIDE DEF page
        <3> QED
            BY <1>11, <3>1, HistoryAssumption
    <2>2. ledger[k][Oldest(page)].time < job[j].since
        BY <2>1 DEF LastPage
    <2>3. job[j].since <= ledger[k][n].time /\ job[j].since \in Int
        BY <1>1 DEF Wanted, Job
    <2>4. ledger[k][n].time \in Nat /\ ledger[k][Oldest(page)].time \in Nat
        BY <1>1, <1>3, <1>9, <1>11, RecordTypes DEF IInv
    <2> HIDE DEF k, page
    <2> QED
        BY <1>11, <2>2, <2>3, <2>4
<1>13. ~(last \/ full) => \A n \in Wanted(j) :
           \/ n \in next.got \/ CutOff(k, n)
           \/ n \in Before(k, Cursor(k, Oldest(page)))
    <2> SUFFICES ASSUME ~(last \/ full),
                        NEW n \in Wanted(j), n \in Before(k, job[j].after) \ page,
                        ~CutOff(k, n)
                 PROVE  n \in Before(k, Cursor(k, Oldest(page)))
        BY <1>10
    <2>1. ledger[k][n].time \in Nat /\ ledger[k][Oldest(page)].time \in Nat
        BY <1>1, <1>3, <1>9, <1>11, RecordTypes DEF IInv
    <2>2. n \in DOMAIN ledger[k]
        BY <1>9
    <2> HIDE DEF k, page
    <2>3. CASE k = "closed"
        <3>1. ledger[k][n].time < ledger[k][Oldest(page)].time
            BY <1>11, <2>1, <2>3
        <3>2. ledger[k][n].time + 1 < Cursor(k, Oldest(page))
            BY <2>1, <2>3, <3>1 DEF Cursor
        <3> QED
            BY <2>2, <2>3, <3>2 DEF Before
    <2>4. CASE k # "closed"
        BY <1>11, <2>2, <2>4 DEF Before, Cursor
    <2> QED
        BY <2>3, <2>4
<1>14. PageOK(j)'
    <2>1. job[j].at <= now
          /\ job[j].since = IF j = "backfill" THEN 0 ELSE WindowStart(job[j].at)
        BY <1>1 DEF IInv, PagesOK, PageOK
    <2>2. (job[j].at <= now)'
          /\ (job[j].since = IF j = "backfill" THEN 0 ELSE WindowStart(job[j].at))'
        BY <1>2, <1>6, <2>1
    <2>3. ASSUME job'[j].pc = "page", NEW n \in Wanted(j)',
                 n \notin Before(Kind(j), job[j].after)'
          PROVE  Found(j, n)'
        <3>1. ~(last \/ full) /\ job'[j].after = Cursor(k, Oldest(page))
            BY <1>2, <1>6, <2>3
        <3>2. Before(Kind(j), job[j].after)' = Before(k, Cursor(k, Oldest(page)))
            <4> HIDE DEF k, page
            <4> QED
                BY <1>2, <1>7, <3>1 DEF Before
        <3> QED
            BY <1>9, <1>13, <2>3, <3>1, <3>2
    <2>4. ASSUME job'[j].pc = "write", job'[j].whole, NEW n \in Wanted(j)'
          PROVE  Found(j, n)'
        BY <1>2, <1>6, <1>9, <1>12, <2>4
    <2> QED
        BY <2>2, <2>3, <2>4 DEF PageOK
<1> QED
    <2>1. faults' \in 0..MaxFaults
        BY <1>2 DEF IInv, TypeOK
    <2>2. next.pc # "idle" =>
              next.nth \in DOMAIN Kinds /\ next.got \subseteq DOMAIN ledger[Kind(j)']
        BY <1>7, <1>8
    <2> QED
        BY <1>2, <1>5, <1>14, <2>1, <2>2, OneRunMoves

\* What is written: everything found in the window, for no two records have one key.
LEMMA NothingSkipped ==
    ASSUME IInv, NEW k \in AllKinds, NEW rows \in SUBSET DOMAIN ledger[k]
    PROVE  Kept(k, rows) = rows
<1> SUFFICES ASSUME NEW n \in rows, NEW m \in DOMAIN ledger[k], Key(k, m) = Key(k, n)
             PROVE  m = n
    BY DEF Kept, IInv, TypeOK
<1>1. n \in DOMAIN ledger[k] /\ m \in Nat /\ n \in Nat
    BY RecordTypes DEF IInv
<1>2. CASE k = "bills"
    BY <1>2 DEF Key
<1>3. CASE k # "bills"
    <2>1. <<ledger[k][m].inst, ledger[k][m].number>> = <<ledger[k][n].inst, ledger[k][n].number>>
        BY <1>3 DEF Key
    <2>2. ~(m < n) /\ ~(n < m)
        BY <1>1, <2>1 DEF IInv, LedgerOK
    <2> QED
        BY <1>1, <2>2
<1> QED
    BY <1>2, <1>3

LEMMA WriteStep ==
    ASSUME IInv, NEW j \in Jobs, Write(j)
    PROVE  IInv'
<1> DEFINE k == Kind(j)
           rows == {n \in job[j].got : ledger[k][n].time >= job[j].since}
           next == IF LastKind(j) THEN NoJob
                   ELSE [NoJob EXCEPT !.pc = "page", !.nth = job[j].nth + 1,
                                      !.at = job[j].at, !.since = job[j].since]
           c == covered[k]
<1>1. /\ job[j].pc = "write" /\ job[j] \in Job /\ k \in AllKinds
      /\ ledger[k] \in Seq(Record) /\ job[j].nth \in DOMAIN Kinds
      /\ job[j].got \subseteq DOMAIN ledger[k]
    BY KindIsKnown DEF Write, IInv, TypeOK
<1>2. /\ now \in Nat /\ job[j].at \in Nat /\ job[j].since \in Int /\ job[j].at <= now
      /\ job[j].since = IF j = "backfill" THEN 0 ELSE WindowStart(job[j].at)
      /\ c \in [upto : Nat, gapless : BOOLEAN] /\ c.upto \in Nat /\ c.upto <= now
    <2>1. now \in Nat /\ job[j].at \in Nat /\ job[j].since \in Int
        BY <1>1, HistoryAssumption DEF IInv, TypeOK, Job
    <2>2. /\ job[j].at <= now
          /\ job[j].since = IF j = "backfill" THEN 0 ELSE WindowStart(job[j].at)
        BY <1>1 DEF IInv, PagesOK, PageOK
    <2>3. c \in [upto : Nat, gapless : BOOLEAN] /\ c.upto <= now
        BY <1>1 DEF IInv, TypeOK, CoveredOK
    <2> QED
        BY <2>1, <2>2, <2>3
<1>3. /\ bronze' = [bronze EXCEPT ![k] = bronze[k] \cup rows]
      /\ covered' = [covered EXCEPT ![k] = CoveredAfter(j)]
      /\ job' = [job EXCEPT ![j] = next]
      /\ UNCHANGED <<now, ledger, faults>>
    <2>1. rows \in SUBSET DOMAIN ledger[k]
        BY <1>1
    <2>2. Kept(k, rows) = rows
        <3> HIDE DEF k, rows
        <3> QED
            BY <1>1, <2>1, NothingSkipped
    <2> QED
        BY <2>2 DEF Write
<1>4. /\ bronze'[k] = bronze[k] \cup rows /\ covered'[k] = CoveredAfter(j) /\ job'[j] = next
      /\ \A l \in AllKinds : l # k => bronze'[l] = bronze[l] /\ covered'[l] = covered[l]
      /\ \A d \in Jobs : d # j => job'[d] = job[d]
    <2> HIDE DEF k, rows, next
    <2> QED
        BY <1>1, <1>3 DEF IInv, TypeOK
<1>5. /\ CoveredAfter(j) \in [upto : Nat, gapless : BOOLEAN]
      /\ CoveredAfter(j).upto <= now
    <2>1. CASE ~job[j].whole
        BY <1>2, <2>1 DEF CoveredAfter
    <2>2. CASE job[j].whole /\ j = "backfill"
        BY <1>2, <2>2 DEF CoveredAfter
    <2>3. CASE job[j].whole /\ j # "backfill"
        <3> DEFINE upto == IF c.upto > job[j].at THEN c.upto ELSE job[j].at
                   gapless == c.gapless /\ Day(job[j].at) - Day(c.upto) <= Lookback
        <3>1. upto \in Nat /\ upto <= now /\ gapless \in BOOLEAN
            BY <1>2
        <3>2. CoveredAfter(j) = [upto |-> upto, gapless |-> gapless]
            BY <2>3 DEF CoveredAfter
        <3> HIDE DEF upto, gapless
        <3> QED
            BY <3>1, <3>2
    <2> QED
        BY <2>1, <2>2, <2>3
<1>6. /\ next \in Job /\ next.pc # "write" /\ next.got = {}
      /\ next.pc # "idle" => /\ next.nth \in DOMAIN Kinds /\ next.after = 0
                             /\ next.at = job[j].at /\ next.since = job[j].since
    <2>1. CASE LastKind(j)
        BY <2>1 DEF NoJob, Job
    <2>2. CASE ~LastKind(j)
        <3>1. next = [pc |-> "page", nth |-> job[j].nth + 1, since |-> job[j].since,
                      at |-> job[j].at, after |-> 0, pages |-> 0, got |-> {}, whole |-> TRUE]
            BY <2>2 DEF NoJob
        <3>2. job[j].nth + 1 \in DOMAIN Kinds /\ job[j].nth + 1 \in Nat
            BY <1>1, <2>2, HistoryAssumption DEF LastKind
        <3> HIDE DEF next
        <3> QED
            BY <1>2, <3>1, <3>2 DEF Job
    <2> QED
        BY <2>1, <2>2
<1> HIDE DEF next
<1>7. TypeOK'
    <2>1. /\ bronze' \in [AllKinds -> SUBSET Nat]
          /\ \A l \in AllKinds : bronze'[l] \subseteq DOMAIN ledger'[l]
        <3>1. rows \subseteq DOMAIN ledger[k] /\ rows \subseteq Nat
            BY <1>1, Numbers
        <3>2. \A l \in AllKinds : bronze[l] \subseteq Nat /\ bronze[l] \subseteq DOMAIN ledger[l]
            BY DEF IInv, TypeOK
        <3>3. bronze \in [AllKinds -> SUBSET Nat]
            BY DEF IInv, TypeOK
        <3> HIDE DEF rows, k
        <3> QED
            BY <1>1, <1>3, <1>4, <3>1, <3>2, <3>3
    <2>2. covered' \in [AllKinds -> [upto : Nat, gapless : BOOLEAN]]
        BY <1>3, <1>5 DEF IInv, TypeOK
    <2>3. job' \in [Jobs -> Job]
        BY <1>3, <1>6 DEF IInv, TypeOK
    <2>4. ASSUME NEW d \in Jobs, job'[d].pc # "idle"
          PROVE  job'[d].nth \in DOMAIN Kinds /\ job'[d].got \subseteq DOMAIN ledger'[Kind(d)']
        <3>1. CASE d = j
            BY <1>4, <1>6, <2>4, <3>1
        <3>2. CASE d # j
            BY <1>3, <1>4, <2>4, <3>2 DEF IInv, TypeOK, Kind
        <3> QED
            BY <3>1, <3>2
    <2> QED
        BY <1>3, <2>1, <2>2, <2>3, <2>4 DEF IInv, TypeOK
<1>8. LedgerOK' /\ CoveredOK'
    BY <1>2, <1>3, <1>4, <1>5, RecordsStay DEF IInv, CoveredOK
<1>9. PagesOK'
    <2> SUFFICES ASSUME NEW d \in Jobs PROVE PageOK(d)'
        BY DEF PagesOK
    <2>1. CASE d # j
        BY <1>2, <1>3, <1>4, <2>1, PageStays DEF IInv, PagesOK
    <2>2. CASE d = j
        <3> SUFFICES ASSUME next.pc # "idle" PROVE PageOK(j)'
            BY <1>4, <2>2 DEF PageOK
        <3>1. Wanted(j)' \subseteq Before(Kind(j), job[j].after)'
            BY <1>4, <1>6 DEF Wanted, Before
        <3>2. (job[j].at <= now)'
              /\ (job[j].since = IF j = "backfill" THEN 0 ELSE WindowStart(job[j].at))'
            BY <1>2, <1>3, <1>4, <1>6
        <3> QED
            BY <1>4, <1>6, <3>1, <3>2 DEF PageOK
    <2> QED
        BY <2>1, <2>2
<1>10. \A l \in AllKinds : \A n : CutOff(l, n)' <=> CutOff(l, n)
    BY <1>3 DEF CutOff
<1>11. ASSUME job[j].whole, CoveredAfter(j).gapless, NEW n \in DOMAIN ledger[k],
              ledger[k][n].time < CoveredAfter(j).upto
       PROVE  n \in bronze[k] \cup rows \/ CutOff(k, n)
    <2>1. ledger[k][n].time \in Nat
        BY <1>1, RecordTypes DEF IInv
    <2>2. ASSUME job[j].since <= ledger[k][n].time, ledger[k][n].time < job[j].at
          PROVE  n \in rows \/ CutOff(k, n)
        <3>1. n \in Wanted(j)
            BY <2>2 DEF Wanted
        <3>2. Found(j, n)
            BY <1>1, <1>11, <3>1 DEF IInv, PagesOK, PageOK
        <3> QED
            BY <1>2, <2>1, <2>2, <3>2 DEF Found
    <2>3. CASE j = "backfill"
        <3>1. CoveredAfter(j).upto = job[j].at /\ job[j].since = 0
            BY <1>2, <1>11, <2>3 DEF CoveredAfter
        <3> HIDE DEF k, rows
        <3> QED
            BY <1>11, <2>1, <2>2, <3>1
    <2>4. CASE j # "backfill"
        <3>1. /\ CoveredAfter(j).upto = IF c.upto > job[j].at THEN c.upto ELSE job[j].at
              /\ c.gapless /\ Day(job[j].at) - Day(c.upto) <= Lookback
            BY <1>2, <1>11, <2>4 DEF CoveredAfter
        <3>2. job[j].since <= c.upto
            BY <1>2, <2>4, <3>1, WindowReaches
        <3>3. CASE ledger[k][n].time < c.upto
            <4>1. n \in bronze[k] \/ CutOff(k, n)
                BY <1>1, <1>11, <3>1, <3>3 DEF IInv, HistoryHeals
            <4> QED
                BY <4>1
        <3>4. CASE c.upto <= ledger[k][n].time
            <4> HIDE DEF k, rows, c
            <4> QED
                BY <1>2, <1>11, <2>1, <2>2, <3>1, <3>2, <3>4
        <3> QED
            BY <1>2, <2>1, <3>3, <3>4
    <2> QED
        BY <2>3, <2>4
<1>12. HistoryHeals'
    <2> SUFFICES ASSUME NEW l \in AllKinds, covered'[l].gapless, NEW n \in DOMAIN ledger[l],
                        ledger[l][n].time < covered'[l].upto
                 PROVE  n \in bronze'[l] \/ CutOff(l, n)
        BY <1>3, <1>10 DEF HistoryHeals
    <2>1. CASE l # k
        BY <1>4, <2>1 DEF IInv, HistoryHeals
    <2>2. CASE l = k /\ ~job[j].whole
        <3>1. covered'[l] = covered[l]
            BY <1>4, <2>2 DEF CoveredAfter
        <3>2. n \in bronze[l] \/ CutOff(l, n)
            BY <3>1 DEF IInv, HistoryHeals
        <3> QED
            BY <1>4, <2>2, <3>2
    <2>3. CASE l = k /\ job[j].whole
        <3> HIDE DEF k, rows
        <3> QED
            BY <1>4, <1>11, <2>3
    <2> QED
        BY <2>1, <2>2, <2>3
<1> QED
    BY <1>7, <1>8, <1>9, <1>12 DEF IInv

LEMMA StutterStep == IInv /\ UNCHANGED vars => IInv'
<1> SUFFICES ASSUME IInv, UNCHANGED vars PROVE IInv'
    OBVIOUS
<1>1. now \in Nat
    BY HistoryAssumption DEF IInv, TypeOK
<1>2. TypeOK'
    BY DEF vars, IInv, TypeOK, Kind
<1>3. LedgerOK' /\ CoveredOK'
    BY <1>1, RecordsStay DEF vars, IInv, CoveredOK
<1>4. PagesOK'
    BY <1>1, PageStays DEF vars, IInv, PagesOK
<1>5. HistoryHeals'
    BY DEF vars, IInv, HistoryHeals, CutOff
<1> QED
    BY <1>2, <1>3, <1>4, <1>5 DEF IInv

LEMMA Inductive == Spec => []IInv
<1>1. IInv /\ [Next]_vars => IInv'
    BY TickStep, HappenStep, BeginStep, FetchPageStep, TransientStep, FailStep, WriteStep,
       StutterStep DEF Next
<1> QED
    BY InitIInv, <1>1, PTL DEF Spec

---------------------------------------------------------------------------
(* The theorems.                                                           *)

\* Every variable has its type.
THEOREM TypeCorrect == Spec => []TypeOK
<1>1. IInv => TypeOK
    BY DEF IInv
<1> QED
    BY Inductive, <1>1, PTL

\* Nothing is lost of the fills, closed positions and bills as long as whole runs are at
\* most Lookback days apart, or a backfill was whole, but closes of equal time that a page
\* cuts (Collector._window_start, the pagination of OKXClient).
THEOREM HistoryHealed == Spec => []HistoryHeals
<1>1. IInv => HistoryHeals
    BY DEF IInv
<1> QED
    BY Inductive, <1>1, PTL

KeysTellRecordsApart ==
    \A k \in AllKinds : \A m, n \in DOMAIN ledger[k] : Key(k, m) = Key(k, n) => m = n

\* The key of an upsert never skips a record that it has no row of
\* (BronzeWriter.write_fills, write_closed_positions, write_bills).
THEOREM KeysCorrect == Spec => []KeysTellRecordsApart
<1>1. IInv => KeysTellRecordsApart
    <2> SUFFICES ASSUME IInv, NEW k \in AllKinds, NEW m \in DOMAIN ledger[k],
                        NEW n \in DOMAIN ledger[k], Key(k, m) = Key(k, n)
                 PROVE  m = n
        BY DEF KeysTellRecordsApart
    <2>1. m \in Nat /\ n \in Nat
        BY RecordTypes DEF IInv
    <2>2. CASE k = "bills"
        BY <2>2 DEF Key
    <2>3. CASE k # "bills"
        BY <2>1, <2>3 DEF Key, IInv, LedgerOK
    <2> QED
        BY <2>2, <2>3
<1> QED
    BY Inductive, <1>1, PTL
=============================================================================
