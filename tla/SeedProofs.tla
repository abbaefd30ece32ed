----------------------------- MODULE SeedProofs -----------------------------
(***************************************************************************)
(* What the seed loader leaves alone (Seed), proved for any files, admins  *)
(* and bounds.                                                             *)
(***************************************************************************)
EXTENDS Seed, FiniteSetTheorems, WellFoundedInduction, TLAPS

---------------------------------------------------------------------------
(* The invariant.                                                          *)

Row == BoxRow \cup RuleRow \cup SettingRow

CoreTables ==
    [box : [Ids -> Box \cup {None}], rule : SUBSET [box : Ids, match : Matches, rank : Nat],
     setting : [Codes -> Values \cup {None}], links : Nat]

Jobs ==
    [pc : {"count", "truncate", "load", "failed"}, rows : Seq(Row), next : Nat, replace : BOOLEAN,
     wipeLinks : BOOLEAN, wiped : SUBSET Tables, begun : Nat]

TypeOK ==
    /\ core \in CoreTables /\ draft \in CoreTables
    /\ job \in Jobs \cup {Idle}
    /\ edits \in Nat /\ loads \in Nat

Running == job.pc # "idle"
Wiped == Running /\ "strategy" \in job.wiped

\* Until it has truncated a table or loaded a row, the load sees the tables as they are.
Clean ==
    /\ job.pc \in {"idle", "count", "truncate"} => draft = core
    /\ job.pc \in {"count", "truncate"} => job.wiped = {}
    /\ Running /\ ~job.replace => job.wiped = {} /\ job.pc # "truncate"

\* a row of the load that no commit has
Added(i) == Exists(draft, i) /\ (~Exists(core, i) \/ Wiped)

\* A box that the load added is active and the only one with its key, although the admins add
\* and restore boxes meanwhile.
AddedAlone ==
    \A i \in Ids : Added(i) =>
        /\ ~draft.box[i].deleted
        /\ \A j \in Ids \ {i} : Exists(draft, j) => draft.box[j].key # draft.box[i].key

\* a box of both, in the one as in the other but for the name, if the files have its key
SameBox(i) ==
    /\ draft.box[i] # None
    /\ draft.box[i].key = core.box[i].key /\ draft.box[i].deleted = core.box[i].deleted
    /\ draft.box[i] # core.box[i] => \E r \in InFiles("strategy") : KeyOf(r) = core.box[i].key

\* what a load without --replace has changed so far is in the files
OnlyFiles ==
    /\ draft.links = core.links
    /\ \A i \in Ids : Exists(core, i) => SameBox(i)
    /\ \A r \in core.rule \ draft.rule : \E q \in InFiles("strategy_rule") : q.match = r.match
    /\ \A c \in Codes : draft.setting[c] # core.setting[c] =>
          \E r \in InFiles("notification_setting") : r.code = c

LeftAlone == Running /\ ~job.replace => OnlyFiles

IInv == TypeOK /\ Clean /\ AddedAlone /\ LeftAlone

---------------------------------------------------------------------------
(* Numbers and keys.                                                       *)

\* A nonempty set of numbers has a least one.
LEMMA LeastOfSet ==
    ASSUME NEW S \in SUBSET Nat, S # {}
    PROVE  \E i \in S : \A j \in S : i <= j
<1> DEFINE Below(i) == 1..i
           T == {Below(i) : i \in S}
           R == StrictSubsetOrdering(Nat)
<1>1. T \subseteq FiniteSubsetsOf(Nat) /\ T # {}
    <2>1. \A i \in S : Below(i) \in SUBSET Nat /\ IsFiniteSet(Below(i))
        BY FS_Interval
    <2> QED
        BY <2>1 DEF FiniteSubsetsOf
<1>2. IsWellFoundedOn(R, FiniteSubsetsOf(Nat))
    BY FS_StrictSubsetOrderingWellFounded
<1>3. \E x \in T : \A y \in T : ~ (<<y, x>> \in R)
    <2> HIDE DEF T, R
    <2> QED
        BY <1>1, <1>2, WFMin
<1>4. PICK i \in S : \A j \in S : ~ (<<Below(j), Below(i)>> \in R)
    BY <1>3
<1>5. ASSUME NEW j \in S, j < i PROVE <<Below(j), Below(i)>> \in R
    <2>1. i \in Below(i) /\ i \notin Below(j)
        BY <1>5
    <2>2. Below(j) \subseteq Below(i) /\ Below(i) \in SUBSET Nat /\ Below(j) \in SUBSET Nat
        BY <1>5
    <2> HIDE DEF Below
    <2>3. <<Below(j), Below(i)>> \in (SUBSET Nat) \X (SUBSET Nat)
        BY <2>2
    <2> QED
        BY <2>1, <2>2, <2>3 DEF StrictSubsetOrdering
<1> HIDE DEF T, R, Below
<1>6. \A j \in S : ~(j < i)
    BY <1>4, <1>5
<1> QED
    BY <1>6

LEMMA MinIn ==
    ASSUME NEW S \in SUBSET Nat, S # {}
    PROVE  Min(S) \in S
<1>1. PICK m \in S : \A j \in S : m <= j
    BY LeastOfSet
<1> QED
    BY <1>1 DEF Min

\* Of one more number than there are boxes one is free, so that a name always gets a key.
LEMMA FreeKeyType ==
    ASSUME NEW base \in Keys, NEW except, core \in CoreTables
    PROVE  FreeKey(base, except) \in Keys
<1> DEFINE N == base[2]..(base[2] + Cardinality(Ids))
           Others == {j \in Ids \ {except} : Active(core, j)}
           taken == {core.box[i].key : i \in Others}
           free == {n \in N : <<base[1], n>> \notin taken}
           f == [n \in N |-> <<base[1], n>>]
           key == [i \in Others |-> core.box[i].key]
<1>1. base[1] \in Names /\ base[2] \in Nat /\ IsFiniteSet(Ids) /\ Cardinality(Ids) \in Nat
    BY SeedAssumption, FS_CardinalityType DEF Keys
<1>2. IsFiniteSet(N) /\ Cardinality(N) = Cardinality(Ids) + 1
    <2> DEFINE lo == base[2]
               hi == base[2] + Cardinality(Ids)
    <2>1. lo \in Int /\ hi \in Int /\ hi - lo = Cardinality(Ids) /\ ~(lo > hi)
        BY <1>1
    <2>2. IsFiniteSet(lo..hi) /\ Cardinality(lo..hi) = hi - lo + 1
        <3> HIDE DEF lo, hi
        <3> QED
            BY <2>1, FS_Interval
    <2> QED
        BY <1>1, <2>1, <2>2
<1>3. IsFiniteSet(Others) /\ Cardinality(Others) <= Cardinality(Ids)
    <2>1. Others \in SUBSET Ids
        OBVIOUS
    <2> HIDE DEF Others
    <2> QED
        BY <1>1, <2>1, FS_Subset
<1>4. IsFiniteSet(taken) /\ Cardinality(taken) <= Cardinality(Others)
    <2>1. key \in Surjection(Others, taken)
        BY DEF Surjection
    <2> HIDE DEF key, taken, Others
    <2> QED
        BY <1>3, <2>1, FS_Surjection
<1>5. free # {}
    <2>1. SUFFICES ASSUME free = {} PROVE FALSE
        OBVIOUS
    <2>2. f \in [N -> taken]
        BY <2>1
    <2>3. Cardinality(taken) \in Nat /\ Cardinality(Others) \in Nat
        <3> HIDE DEF taken, Others
        <3> QED
            BY <1>3, <1>4, FS_CardinalityType
    <2>4. Cardinality(taken) < Cardinality(N)
        <3> HIDE DEF taken, N, Others
        <3> QED
            BY <1>1, <1>2, <1>3, <1>4, <2>3
    <2>5. PICK x, y \in N : x # y /\ f[x] = f[y]
        <3> HIDE DEF taken, N, f
        <3> QED
            BY <1>2, <1>4, <2>2, <2>4, FS_PigeonHole
    <2> QED
        BY <2>5
<1>6. Min(free) \in free
    <2>1. free \in SUBSET Nat
        BY <1>1
    <2> HIDE DEF free
    <2> QED
        BY <1>5, <2>1, MinIn
<1>7. FreeKey(base, except) = <<base[1], Min(free)>>
    BY DEF FreeKey
<1> QED
    <2>1. Min(free) \in Nat
        BY <1>1, <1>6
    <2> HIDE DEF free
    <2> QED
        BY <1>1, <1>7, <2>1 DEF Keys

\* the box with a key, where there is one
LEMMA FindBoxIs ==
    ASSUME NEW t, NEW key
    PROVE  /\ FindBox(t, key) = None =>
                 \A i \in Ids : Exists(t, i) => t.box[i].key # key
           /\ FindBox(t, key) # None =>
                 /\ FindBox(t, key) \in Ids /\ Exists(t, FindBox(t, key))
                 /\ t.box[FindBox(t, key)].key = key
<1> DEFINE hits == {i \in Ids : Exists(t, i) /\ t.box[i].key = key}
           active == {i \in hits : Active(t, i)}
<1>1. hits \in SUBSET Nat /\ active \in SUBSET Nat
    BY SeedAssumption
<1>2. hits # {} => FindBox(t, key) \in hits
    <2>1. hits # {} => Min(hits) \in hits
        <3> HIDE DEF hits, active
        <3> QED
            BY <1>1, MinIn
    <2>2. active # {} => Min(active) \in active
        <3> HIDE DEF hits, active
        <3> QED
            BY <1>1, MinIn
    <2>3. hits # {} => FindBox(t, key) = IF active # {} THEN Min(active) ELSE Min(hits)
        BY DEF FindBox
    <2> QED
        BY <2>1, <2>2, <2>3
<1>3. hits = {} => FindBox(t, key) = None
    BY DEF FindBox
<1>4. None \notin Ids
    BY SeedAssumption
<1> QED
    BY <1>2, <1>3, <1>4

LEMMA KeyOfType ==
    ASSUME NEW row \in Row, row.table = "strategy"
    PROVE  row \in BoxRow /\ KeyOf(row) \in Keys /\ row.name \in Names
<1>1. row \in BoxRow
    BY DEF Row, BoxRow, RuleRow, SettingRow
<1> QED
    BY <1>1 DEF BoxRow, KeyOf, Keys

LEMMA RowTypes ==
    ASSUME NEW row \in Row
    PROVE  \/ row.table = "strategy" /\ row \in BoxRow
           \/ row.table = "strategy_rule" /\ row \in RuleRow
           \/ row.table = "notification_setting" /\ row \in SettingRow
BY DEF Row, BoxRow, RuleRow, SettingRow

---------------------------------------------------------------------------
(* The admins.                                                             *)

\* what the state is, where the load runs and where it does not
LEMMA JobTypes ==
    ASSUME TypeOK
    PROVE  /\ Running <=> job \in Jobs
           /\ ~Running <=> job = Idle
           /\ Running => /\ job.wiped \in SUBSET Tables /\ job.rows \in Seq(Row)
                         /\ job.replace \in BOOLEAN /\ job.next \in Nat
                         /\ job.pc \in {"count", "truncate", "load", "failed"}
BY DEF TypeOK, Jobs, Idle, Running

LEMMA InitInv == Init => IInv
<1>1. ASSUME Init PROVE TypeOK
    BY <1>1 DEF Init, TypeOK, CoreTables, Idle
<1>2. ASSUME Init PROVE Clean /\ AddedAlone /\ LeftAlone
    BY <1>2 DEF Init, Clean, AddedAlone, Added, Exists, LeftAlone, Running, Wiped, Idle
<1> QED
    BY <1>1, <1>2 DEF IInv

\* the tables with another row of a box, and those with n more links besides
WithBox(t, i, row) == [t EXCEPT !.box = [t.box EXCEPT ![i] = row]]
WithLinks(t, n) == [t EXCEPT !.links = @ + n]

LEMMA BoxSet ==
    ASSUME NEW t \in CoreTables, NEW i \in Ids, NEW row \in Box
    PROVE  /\ WithBox(t, i, row) \in CoreTables
           /\ WithBox(t, i, row).box[i] = row
           /\ \A j \in Ids \ {i} : WithBox(t, i, row).box[j] = t.box[j]
           /\ WithBox(t, i, row).links = t.links
           /\ WithBox(t, i, row).rule = t.rule /\ WithBox(t, i, row).setting = t.setting
BY DEF CoreTables, WithBox

LEMMA LinksSet ==
    ASSUME NEW t \in CoreTables, NEW n \in Nat
    PROVE  /\ WithLinks(t, n) \in CoreTables /\ WithLinks(t, n).links = t.links + n
           /\ WithLinks(t, n).box = t.box
           /\ WithLinks(t, n).rule = t.rule /\ WithLinks(t, n).setting = t.setting
<1>1. t.links + n \in Nat
    BY DEF CoreTables
<1> QED
    BY <1>1 DEF CoreTables, WithLinks

\* An admin changes the row of a box, which keeps its key or gets one that the load has not.
LEMMA SetBoxInv ==
    ASSUME IInv, NEW i \in Ids, NEW row \in Box, NEW n \in Nat, SetBox(i, row, n),
           \/ Exists(core, i) /\ row.key = core.box[i].key
           \/ ~KeyInLoad(row.key)
    PROVE  IInv'
<1>1. /\ core' = WithLinks(WithBox(core, i, row), n)
      /\ draft' = WithLinks(WithBox(draft, i, row), n)
      /\ job' = job /\ loads' = loads /\ edits' = edits + 1
    BY DEF SetBox, Edit, WithBox, WithLinks
<1>2. TypeOK /\ Clean /\ AddedAlone /\ LeftAlone
    BY DEF IInv
<1>3. /\ core' \in CoreTables /\ core'.box[i] = row /\ core'.links = core.links + n
      /\ \A j \in Ids \ {i} : core'.box[j] = core.box[j]
      /\ core'.rule = core.rule /\ core'.setting = core.setting
    BY <1>1, <1>2, BoxSet, LinksSet DEF TypeOK
<1>4. /\ draft' \in CoreTables /\ draft'.box[i] = row /\ draft'.links = draft.links + n
      /\ \A j \in Ids \ {i} : draft'.box[j] = draft.box[j]
      /\ draft'.rule = draft.rule /\ draft'.setting = draft.setting
    BY <1>1, <1>2, BoxSet, LinksSet DEF TypeOK
<1>5. row # None
    BY SeedAssumption
<1>6. ~Wiped /\ draft.box[i] = core.box[i]
    <2>1. Running /\ "strategy" \in job.wiped => Truncated("strategy")
        BY <1>2, JobTypes DEF Clean, Truncated
    <2>2. ~Truncated("strategy") /\ FreeBox(i)
        BY DEF SetBox
    <2> QED
        BY <1>2, <2>1, <2>2 DEF Wiped, FreeBox, Clean
<1>7. TypeOK'
    BY <1>1, <1>2, <1>3, <1>4 DEF TypeOK
<1>8. Clean'
    BY <1>1, <1>2 DEF Clean, Running
<1>9. AddedAlone'
    <2>1. SUFFICES ASSUME NEW k \in Ids, Added(k)',
                          NEW j \in Ids \ {k}, Exists(draft, j)'
                   PROVE  ~draft'.box[k].deleted /\ draft'.box[j].key # draft'.box[k].key
        <3>1. ASSUME NEW k \in Ids, Added(k)' PROVE ~draft'.box[k].deleted
            <4>1. k # i
                BY <1>1, <1>3, <1>5, <1>6, <3>1 DEF Added, Exists, Wiped, Running
            <4>2. Added(k)
                BY <1>1, <1>3, <1>4, <1>6, <3>1, <4>1 DEF Added, Exists, Wiped, Running
            <4> QED
                BY <1>2, <1>4, <4>1, <4>2 DEF AddedAlone
        <3> QED
            BY <3>1 DEF AddedAlone
    <2>2. k # i
        BY <1>1, <1>3, <1>5, <1>6, <2>1 DEF Added, Exists, Wiped, Running
    <2>3. Added(k) /\ draft'.box[k] = draft.box[k]
        BY <1>1, <1>3, <1>4, <1>6, <2>1, <2>2 DEF Added, Exists, Wiped, Running
    <2>4. ~draft.box[k].deleted
        BY <1>2, <2>3 DEF AddedAlone
    <2>5. CASE j # i
        <3>1. Exists(draft, j) /\ draft'.box[j] = draft.box[j]
            BY <1>4, <2>1, <2>5 DEF Exists
        <3> QED
            BY <1>2, <2>3, <2>4, <3>1 DEF AddedAlone
    <2>6. CASE j = i
        <3>1. draft'.box[j].key = row.key
            BY <1>4, <2>6
        <3>2. Exists(draft, k)
            BY <2>3 DEF Added
        <3>3. ~KeyInLoad(row.key) => draft.box[k].key # row.key
            BY <2>4, <3>2 DEF KeyInLoad, Active
        <3>4. Exists(core, i) /\ row.key = core.box[i].key => draft.box[k].key # row.key
            BY <1>2, <1>6, <2>2, <2>3 DEF AddedAlone, Exists
        <3> QED
            BY <2>3, <2>4, <3>1, <3>3, <3>4
    <2> QED
        BY <2>5, <2>6
<1>10. LeftAlone'
    <2>1. SUFFICES ASSUME Running, ~job.replace PROVE OnlyFiles'
        BY <1>1 DEF LeftAlone, Running
    <2>2. OnlyFiles
        BY <1>2, <2>1 DEF LeftAlone
    <2>3. draft'.links = core'.links
        BY <1>3, <1>4, <2>2 DEF OnlyFiles
    <2>4. ASSUME NEW j \in Ids, Exists(core, j)' PROVE SameBox(j)'
        <3>1. CASE j = i
            BY <1>3, <1>4, <1>5, <3>1 DEF SameBox
        <3>2. CASE j # i
            <4>1. Exists(core, j) /\ core'.box[j] = core.box[j] /\ draft'.box[j] = draft.box[j]
                BY <1>3, <1>4, <2>4, <3>2 DEF Exists
            <4> QED
                BY <1>1, <2>2, <4>1 DEF OnlyFiles, SameBox, InFiles
        <3> QED
            BY <3>1, <3>2
    <2> QED
        BY <1>1, <1>3, <1>4, <2>2, <2>3, <2>4 DEF OnlyFiles, InFiles
<1> QED
    BY <1>7, <1>8, <1>9, <1>10 DEF IInv

LEMMA BoxTypes ==
    ASSUME TypeOK, NEW i \in Ids
    PROVE  /\ Exists(core, i) => core.box[i] \in Box
           /\ Exists(draft, i) => draft.box[i] \in Box
BY DEF TypeOK, CoreTables, Exists

LEMMA CreateInv == ASSUME IInv, NEW name \in Names, Create(name) PROVE IInv'
<1> DEFINE i == Min(Unused)
           key == FreeKey(<<name, 1>>, None)
           row == [key |-> key, name |-> name, deleted |-> FALSE]
<1>1. Unused # {} /\ ~KeyInLoad(key) /\ SetBox(i, row, 0)
    BY DEF Create
<1>2. Unused \in SUBSET Nat /\ Unused \subseteq Ids
    BY SeedAssumption DEF Unused
<1>3. i \in Ids
    BY <1>1, <1>2, MinIn
<1>4. key \in Keys
    <2>1. <<name, 1>> \in Keys
        BY DEF Keys
    <2> QED
        BY <2>1, FreeKeyType DEF IInv, TypeOK
<1>5. row \in Box /\ row.key = key
    BY <1>4 DEF Box
<1> HIDE DEF i, key, row
<1> QED
    BY <1>1, <1>3, <1>5, SetBoxInv

LEMMA RenameInv == ASSUME IInv, NEW i \in Ids, NEW name \in Names, Rename(i, name) PROVE IInv'
<1> DEFINE row == [core.box[i] EXCEPT !.name = name]
<1>1. Exists(core, i) /\ SetBox(i, row, 0)
    BY DEF Rename, Active
<1>2. core.box[i] \in Box
    BY <1>1, BoxTypes DEF IInv
<1>3. row \in Box /\ row.key = core.box[i].key
    BY <1>2 DEF Box
<1> HIDE DEF row
<1> QED
    BY <1>1, <1>3, SetBoxInv

LEMMA DeleteInv == ASSUME IInv, NEW i \in Ids, NEW n \in 0..1, Delete(i, n) PROVE IInv'
<1> DEFINE row == [core.box[i] EXCEPT !.deleted = TRUE]
<1>1. Exists(core, i) /\ SetBox(i, row, n) /\ n \in Nat
    BY DEF Delete, Active
<1>2. core.box[i] \in Box
    BY <1>1, BoxTypes DEF IInv
<1>3. row \in Box /\ row.key = core.box[i].key
    BY <1>2 DEF Box
<1> HIDE DEF row
<1> QED
    BY <1>1, <1>3, SetBoxInv

LEMMA RestoreInv == ASSUME IInv, NEW i \in Ids, Restore(i) PROVE IInv'
<1> DEFINE key == FreeKey(core.box[i].key, i)
           row == [core.box[i] EXCEPT !.deleted = FALSE, !.key = key]
<1>1. Exists(core, i) /\ ~KeyInLoad(key) /\ SetBox(i, row, 0)
    BY DEF Restore
<1>2. core.box[i] \in Box
    BY <1>1, BoxTypes DEF IInv
<1>3. key \in Keys
    <2>1. core.box[i].key \in Keys
        BY <1>2 DEF Box
    <2> QED
        BY <2>1, FreeKeyType DEF IInv, TypeOK
<1>4. row \in Box /\ row.key = key
    BY <1>2, <1>3 DEF Box
<1> HIDE DEF row, key
<1> QED
    BY <1>1, <1>4, SetBoxInv

LEMMA PinInv == ASSUME IInv, NEW i \in Ids, Pin(i) PROVE IInv'
<1>1. Exists(core, i) /\ SetBox(i, core.box[i], 1)
    BY DEF Pin, Active
<1>2. core.box[i] \in Box
    BY <1>1, BoxTypes DEF IInv
<1> QED
    BY <1>1, <1>2, SetBoxInv

LEMMA SetInv == ASSUME IInv, NEW c \in Codes, NEW v \in Values \cup {None}, Set(c, v) PROVE IInv'
<1>1. /\ core' = [core EXCEPT !.setting[c] = v] /\ draft' = [draft EXCEPT !.setting[c] = v]
      /\ job' = job /\ loads' = loads /\ edits' = edits + 1
    BY DEF Set, Edit
<1>2. TypeOK /\ Clean /\ AddedAlone /\ LeftAlone
    BY DEF IInv
<1>3. /\ core' \in CoreTables /\ core'.box = core.box /\ core'.rule = core.rule
      /\ core'.links = core.links /\ core'.setting[c] = v
      /\ \A d \in Codes \ {c} : core'.setting[d] = core.setting[d]
    BY <1>1, <1>2 DEF TypeOK, CoreTables
<1>4. /\ draft' \in CoreTables /\ draft'.box = draft.box /\ draft'.rule = draft.rule
      /\ draft'.links = draft.links /\ draft'.setting[c] = v
      /\ \A d \in Codes \ {c} : draft'.setting[d] = draft.setting[d]
    BY <1>1, <1>2 DEF TypeOK, CoreTables
<1>5. TypeOK'
    BY <1>1, <1>2, <1>3, <1>4 DEF TypeOK
<1>6. Clean' /\ AddedAlone'
    <2>1. \A i \in Ids : Added(i)' <=> Added(i)
        BY <1>1, <1>3, <1>4 DEF Added, Exists, Wiped, Running
    <2> QED
        BY <1>1, <1>2, <1>4, <2>1 DEF Clean, AddedAlone, Exists, Running
<1>7. LeftAlone'
    BY <1>1, <1>2, <1>3, <1>4 DEF LeftAlone, OnlyFiles, SameBox, Exists, InFiles, Running
<1> QED
    BY <1>5, <1>6, <1>7 DEF IInv

---------------------------------------------------------------------------
(* The load.                                                               *)

LEMMA RowsType ==
    ASSUME NEW folder \in Folders, NEW only \in Tables \cup {None}
    PROVE  RowsOf(folder, only) \in Seq(Row)
<1>1. folder \in [Tables -> Seq(Row)]
    BY SeedAssumption DEF Row
<1>2. /\ folder["strategy"] \in Seq(Row) /\ folder["strategy_rule"] \in Seq(Row)
      /\ folder["notification_setting"] \in Seq(Row)
    BY <1>1 DEF Tables
<1>3. only # None => folder[only] \in Seq(Row)
    BY <1>1
<1> HIDE DEF Row
<1> QED
    BY <1>2, <1>3 DEF RowsOf

LEMMA StartInv ==
    ASSUME IInv, NEW folder \in Folders, NEW only \in Tables \cup {None},
           NEW replace \in BOOLEAN, NEW wipeLinks \in BOOLEAN,
           Start(folder, only, replace, wipeLinks)
    PROVE  IInv'
<1>1. TypeOK
    BY DEF IInv
<1>2. job' \in Jobs /\ job'.pc = "count" /\ job'.wiped = {}
    BY <1>1, RowsType DEF Start, TypeOK, Jobs
<1>3. draft' = core /\ core' = core /\ edits' = edits /\ loads' = loads + 1
    BY DEF Start
<1>4. TypeOK'
    BY <1>1, <1>2, <1>3 DEF TypeOK
<1>5. Clean' /\ AddedAlone'
    BY <1>2, <1>3 DEF Clean, AddedAlone, Added, Exists, Wiped, Running
<1>6. LeftAlone'
    BY <1>2, <1>3 DEF LeftAlone, OnlyFiles, SameBox, Exists
<1> QED
    BY <1>4, <1>5, <1>6 DEF IInv

LEMMA RollbackInv == ASSUME IInv, Rollback PROVE IInv'
<1>1. job' = Idle /\ draft' = core /\ core' = core /\ edits' = edits /\ loads' = loads
    BY DEF Rollback, End
<1>2. TypeOK'
    BY <1>1 DEF IInv, TypeOK
<1>3. Clean' /\ AddedAlone' /\ LeftAlone'
    BY <1>1 DEF Clean, AddedAlone, Added, LeftAlone, Exists, Wiped, Running, Idle
<1> QED
    BY <1>2, <1>3 DEF IInv

LEMMA PassInv == ASSUME IInv, Pass PROVE IInv'
<1>1. /\ TypeOK /\ Clean /\ AddedAlone /\ LeftAlone /\ Running /\ job \in Jobs
      /\ job.pc = "count" /\ draft = core
    BY JobTypes DEF IInv, Pass, Running, Clean
<1>2. /\ job' = [job EXCEPT !.pc = IF job.replace THEN "truncate" ELSE "load"]
      /\ core' = core /\ draft' = draft /\ edits' = edits /\ loads' = loads
    BY DEF Pass
<1>3. /\ job' \in Jobs /\ job'.wiped = {} /\ job'.rows = job.rows /\ job'.replace = job.replace
      /\ job'.pc = IF job.replace THEN "truncate" ELSE "load"
    BY <1>1, <1>2 DEF Jobs, Clean
<1>4. TypeOK'
    BY <1>1, <1>2, <1>3 DEF TypeOK
<1>5. Clean' /\ AddedAlone'
    BY <1>1, <1>2, <1>3 DEF Clean, AddedAlone, Added, Exists, Wiped, Running
<1>6. LeftAlone'
    BY <1>1, <1>2, <1>3 DEF LeftAlone, OnlyFiles, SameBox, Exists
<1> QED
    BY <1>4, <1>5, <1>6 DEF IInv

LEMMA TruncateInv == ASSUME IInv, Truncate PROVE IInv'
<1> DEFINE tables == {r.table : r \in ToSet(job.rows)}
<1>1. /\ TypeOK /\ Clean /\ Running /\ job \in Jobs /\ job.pc = "truncate" /\ draft = core
    BY JobTypes DEF IInv, Truncate, Running, Clean
<1>2. job.replace
    BY <1>1 DEF Clean
<1>3. tables \in SUBSET Tables
    <2>1. job.rows \in Seq(Row)
        BY <1>1 DEF Jobs
    <2>2. \A r \in ToSet(job.rows) : r \in Row
        BY <2>1 DEF ToSet
    <2> QED
        BY <2>2, RowTypes DEF Tables
<1>4. /\ job' = [job EXCEPT !.pc = "load", !.wiped = tables]
      /\ core' = core /\ edits' = edits /\ loads' = loads
    BY DEF Truncate
<1>5. draft' = [box |-> IF "strategy" \in tables THEN [i \in Ids |-> None] ELSE draft.box,
                rule |-> IF "strategy" \in tables \/ "strategy_rule" \in tables
                         THEN {} ELSE draft.rule,
                setting |-> IF "notification_setting" \in tables
                            THEN [c \in Codes |-> None] ELSE draft.setting,
                links |-> IF "strategy" \in tables THEN 0 ELSE draft.links]
    BY DEF Truncate
<1> HIDE DEF tables
<1>6. job' \in Jobs /\ job'.pc = "load" /\ job'.replace /\ job'.wiped = tables
    BY <1>1, <1>2, <1>3, <1>4 DEF Jobs
<1>7. TypeOK'
    <2>1. draft' \in CoreTables
        BY <1>1, <1>5 DEF TypeOK, CoreTables
    <2> QED
        BY <1>1, <1>4, <1>6, <2>1 DEF TypeOK
<1>8. Clean' /\ LeftAlone'
    BY <1>6 DEF Clean, LeftAlone, Running
<1>9. AddedAlone'
    <2>1. ASSUME NEW i \in Ids PROVE ~Added(i)'
        BY <1>1, <1>4, <1>5, <1>6 DEF Added, Exists, Wiped
    <2> QED
        BY <2>1 DEF AddedAlone
<1> QED
    BY <1>7, <1>8, <1>9 DEF IInv

\* what a row that loads changes besides the tables
Onward ==
    /\ job.pc = "load" /\ job.next \in DOMAIN job.rows
    /\ job' = [job EXCEPT !.next = @ + 1]
    /\ core' = core /\ edits' = edits /\ loads' = loads

LEMMA OnwardIs ==
    ASSUME TypeOK, Clean, Onward
    PROVE  /\ job' \in Jobs /\ job'.pc = "load" /\ job'.rows = job.rows
           /\ job'.replace = job.replace /\ job'.wiped = job.wiped
           /\ Running /\ Running' /\ Wiped' = Wiped /\ Clean'
           /\ \A table \in Tables : InFiles(table)' = InFiles(table)
<1>1. job \in Jobs /\ Running
    BY JobTypes DEF Onward, Running
<1>2. /\ job' \in Jobs /\ job'.pc = "load" /\ job'.rows = job.rows
      /\ job'.replace = job.replace /\ job'.wiped = job.wiped
    <2>1. job.next + 1 \in Nat
        BY <1>1 DEF Jobs
    <2> QED
        BY <1>1, <2>1 DEF Onward, Jobs
<1> QED
    BY <1>1, <1>2 DEF Running, Wiped, Clean, InFiles, Onward

\* a box of the tables is renamed, whose key the files have
LEMMA RenamedInv ==
    ASSUME IInv, Onward, NEW row \in ToSet(job.rows), row \in BoxRow, NEW i \in Ids,
           Exists(draft, i), draft.box[i].key = KeyOf(row),
           draft' = WithBox(draft, i, [draft.box[i] EXCEPT !.name = row.name])
    PROVE  IInv'
<1> DEFINE new == [draft.box[i] EXCEPT !.name = row.name]
<1>1. TypeOK /\ Clean /\ AddedAlone /\ LeftAlone
    BY DEF IInv
<1>2. new \in Box /\ new.key = draft.box[i].key /\ new.deleted = draft.box[i].deleted
    BY <1>1, BoxTypes DEF Box, BoxRow
<1> HIDE DEF new
<1>3. /\ draft' \in CoreTables /\ draft'.box[i] = new
      /\ \A j \in Ids \ {i} : draft'.box[j] = draft.box[j]
      /\ draft'.links = draft.links /\ draft'.rule = draft.rule /\ draft'.setting = draft.setting
    BY <1>1, <1>2, BoxSet DEF TypeOK, new
<1>4. new # None
    BY <1>2, SeedAssumption
<1>5. /\ job' \in Jobs /\ job'.rows = job.rows /\ job'.replace = job.replace
      /\ Running /\ Running' /\ Wiped' = Wiped /\ Clean' /\ core' = core
      /\ edits' = edits /\ loads' = loads
      /\ \A table \in Tables : InFiles(table)' = InFiles(table)
    BY <1>1, OnwardIs DEF Onward
<1>6. \A j \in Ids : /\ Exists(draft, j)' <=> Exists(draft, j)
                     /\ Exists(draft, j) => /\ draft'.box[j].key = draft.box[j].key
                                            /\ draft'.box[j].deleted = draft.box[j].deleted
    BY <1>2, <1>3, <1>4 DEF Exists
<1>7. TypeOK'
    BY <1>1, <1>3, <1>5 DEF TypeOK
<1>8. AddedAlone'
    <2>1. \A j \in Ids : Added(j)' => Added(j)
        BY <1>5, <1>6 DEF Added, Exists
    <2>2. \A j \in Ids : Added(j) => Exists(draft, j)
        BY DEF Added
    <2> QED
        BY <1>1, <1>6, <2>1, <2>2 DEF AddedAlone
<1>9. LeftAlone'
    <2>1. SUFFICES ASSUME ~job.replace PROVE OnlyFiles'
        BY <1>5 DEF LeftAlone
    <2>2. OnlyFiles
        BY <1>1, <1>5, <2>1 DEF LeftAlone
    <2>3. row \in InFiles("strategy")
        BY DEF InFiles, BoxRow
    <2>4. ASSUME NEW j \in Ids, Exists(core, j)' PROVE SameBox(j)'
        <3>1. SameBox(j)
            BY <1>5, <2>2, <2>4 DEF OnlyFiles, Exists
        <3>2. InFiles("strategy")' = InFiles("strategy")
            BY <1>5 DEF Tables
        <3>3. Exists(draft, j)
            BY <3>1 DEF SameBox, Exists
        <3>4. CASE j = i
            <4>1. KeyOf(row) = core.box[j].key
                BY <3>1, <3>4 DEF SameBox
            <4> QED
                BY <1>3, <1>4, <1>5, <1>6, <2>3, <3>1, <3>2, <3>3, <3>4, <4>1 DEF SameBox
        <3>5. CASE j # i
            BY <1>3, <1>5, <3>1, <3>2, <3>5 DEF SameBox
        <3> QED
            BY <3>4, <3>5
    <2> QED
        BY <1>3, <1>5, <2>2, <2>4 DEF OnlyFiles, Tables
<1> QED
    BY <1>5, <1>7, <1>8, <1>9 DEF IInv

\* a box is added, as none of the tables has its key
LEMMA AddedInv ==
    ASSUME IInv, Onward, NEW i \in Unused, NEW new \in Box, ~new.deleted,
           \A j \in Ids : Exists(draft, j) => draft.box[j].key # new.key,
           draft' = WithBox(draft, i, new)
    PROVE  IInv'
<1>1. TypeOK /\ Clean /\ AddedAlone /\ LeftAlone
    BY DEF IInv
<1>2. i \in Ids /\ ~Exists(draft, i) /\ (Exists(core, i) => Wiped)
    BY DEF Unused, Truncated, Wiped, Running
<1>3. /\ draft' \in CoreTables /\ draft'.box[i] = new
      /\ \A j \in Ids \ {i} : draft'.box[j] = draft.box[j]
      /\ draft'.links = draft.links /\ draft'.rule = draft.rule /\ draft'.setting = draft.setting
    BY <1>1, <1>2, BoxSet DEF TypeOK
<1>4. /\ job' \in Jobs /\ job'.rows = job.rows /\ job'.replace = job.replace
      /\ Running /\ Running' /\ Wiped' = Wiped /\ Clean' /\ core' = core
      /\ edits' = edits /\ loads' = loads
      /\ \A table \in Tables : InFiles(table)' = InFiles(table)
    BY <1>1, OnwardIs DEF Onward
<1>5. TypeOK'
    BY <1>1, <1>3, <1>4 DEF TypeOK
<1>6. AddedAlone'
    <2>1. SUFFICES ASSUME NEW k \in Ids, Added(k)'
                   PROVE  /\ ~draft'.box[k].deleted
                          /\ \A j \in Ids \ {k} : Exists(draft, j)' =>
                                draft'.box[j].key # draft'.box[k].key
        BY DEF AddedAlone
    <2>2. CASE k = i
        BY <1>3, <2>2 DEF Exists
    <2>3. CASE k # i
        <3>1. Added(k) /\ Exists(draft, k)
            BY <1>3, <1>4, <2>1, <2>3 DEF Added, Exists
        <3> QED
            BY <1>1, <1>3, <2>3, <3>1 DEF AddedAlone, Exists
    <2> QED
        BY <2>2, <2>3
<1>7. LeftAlone'
    <2>1. SUFFICES ASSUME ~job.replace PROVE OnlyFiles'
        BY <1>4 DEF LeftAlone
    <2>2. OnlyFiles
        BY <1>1, <1>4, <2>1 DEF LeftAlone
    <2>3. ASSUME NEW j \in Ids, Exists(core, j)' PROVE SameBox(j)'
        <3>1. SameBox(j)
            BY <1>4, <2>2, <2>3 DEF OnlyFiles, Exists
        <3>2. j # i
            BY <1>2, <3>1 DEF SameBox, Exists
        <3>3. InFiles("strategy")' = InFiles("strategy")
            BY <1>4 DEF Tables
        <3> QED
            BY <1>3, <1>4, <3>1, <3>2, <3>3 DEF SameBox
    <2> QED
        BY <1>3, <1>4, <2>2, <2>3 DEF OnlyFiles, Tables
<1> QED
    BY <1>4, <1>5, <1>6, <1>7 DEF IInv

\* The other tables.
LEMMA BoxesKept ==
    ASSUME IInv, Onward, draft' \in CoreTables, draft'.box = draft.box, draft'.links = draft.links,
           ~job.replace /\ OnlyFiles =>
              /\ \A r \in core.rule \ draft'.rule :
                    \E q \in InFiles("strategy_rule") : q.match = r.match
              /\ \A c \in Codes : draft'.setting[c] # core.setting[c] =>
                    \E r \in InFiles("notification_setting") : r.code = c
    PROVE  IInv'
<1>1. TypeOK /\ Clean /\ AddedAlone /\ LeftAlone
    BY DEF IInv
<1>2. /\ job' \in Jobs /\ job'.rows = job.rows /\ job'.replace = job.replace
      /\ Running /\ Running' /\ Wiped' = Wiped /\ Clean' /\ core' = core
      /\ edits' = edits /\ loads' = loads
      /\ \A table \in Tables : InFiles(table)' = InFiles(table)
    BY <1>1, OnwardIs DEF Onward
<1>3. TypeOK'
    BY <1>1, <1>2 DEF TypeOK
<1>4. AddedAlone'
    BY <1>1, <1>2 DEF AddedAlone, Added, Exists
<1>5. LeftAlone'
    <2>1. SUFFICES ASSUME ~job.replace PROVE OnlyFiles'
        BY <1>2 DEF LeftAlone
    <2>2. OnlyFiles
        BY <1>1, <1>2, <2>1 DEF LeftAlone
    <2>3. InFiles("strategy")' = InFiles("strategy")
          /\ InFiles("strategy_rule")' = InFiles("strategy_rule")
          /\ InFiles("notification_setting")' = InFiles("notification_setting")
        BY <1>2 DEF Tables
    <2>4. \A i \in Ids : SameBox(i)' <=> SameBox(i)
        BY <1>2, <2>3 DEF SameBox
    <2> QED
        BY <1>2, <2>1, <2>2, <2>3, <2>4 DEF OnlyFiles, Exists
<1> QED
    BY <1>2, <1>3, <1>4, <1>5 DEF IInv

LEMMA LoadBoxInv ==
    ASSUME IInv, Onward, NEW row \in ToSet(job.rows), row \in Row, row.table = "strategy",
           Room(row), draft' = LoadBox(draft, row)
    PROVE  IInv'
<1> DEFINE i == FindBox(draft, KeyOf(row))
           new == [key |-> KeyOf(row), name |-> row.name, deleted |-> FALSE]
<1>1. row \in BoxRow /\ KeyOf(row) \in Keys /\ row.name \in Names
    BY KeyOfType
<1>2. CASE i # None
    <2>1. i \in Ids /\ Exists(draft, i) /\ draft.box[i].key = KeyOf(row)
        BY <1>2, FindBoxIs
    <2>2. draft' = WithBox(draft, i, [draft.box[i] EXCEPT !.name = row.name])
        BY <1>2 DEF LoadBox, WithBox
    <2> HIDE DEF i
    <2> QED
        BY <1>1, <2>1, <2>2, RenamedInv
<1>3. CASE i = None
    <2>1. \A j \in Ids : Exists(draft, j) => draft.box[j].key # KeyOf(row)
        BY <1>3, FindBoxIs
    <2>2. Min(Unused) \in Unused
        <3>1. Unused # {}
            BY <1>3 DEF Room
        <3>2. Unused \in SUBSET Nat
            BY SeedAssumption DEF Unused
        <3> QED
            BY <3>1, <3>2, MinIn
    <2>3. draft' = WithBox(draft, Min(Unused), new)
        BY <1>3 DEF LoadBox, WithBox
    <2>4. new \in Box /\ ~new.deleted /\ new.key = KeyOf(row)
        BY <1>1 DEF Box
    <2> HIDE DEF i, new
    <2> QED
        BY <2>1, <2>2, <2>3, <2>4, AddedInv
<1> QED
    BY <1>2, <1>3

LEMMA LoadRuleInv ==
    ASSUME IInv, Onward, NEW row \in ToSet(job.rows), row \in RuleRow, ~Bad(row),
           draft' = LoadRule(draft, row)
    PROVE  IInv'
<1> DEFINE i == FindBox(draft, row.key)
           kept == {r \in draft.rule : r.box # i \/ r.match # row.match}
           new == [box |-> i, match |-> row.match, rank |-> row.rank]
<1>1. row.table = "strategy_rule" /\ row.match \in Matches /\ row.rank \in Nat
    BY DEF RuleRow
<1>2. i \in Ids
    BY <1>1, FindBoxIs DEF Bad
<1>3. draft' = [draft EXCEPT !.rule = kept \cup {new}] /\ draft \in CoreTables
    BY DEF LoadRule, IInv, TypeOK
<1>4. kept \cup {new} \in SUBSET [box : Ids, match : Matches, rank : Nat]
    BY <1>1, <1>2, <1>3 DEF CoreTables
<1>5. \A r \in draft.rule \ (kept \cup {new}) : r.match = row.match
    OBVIOUS
<1> HIDE DEF i, kept, new
<1>6. /\ draft' \in CoreTables /\ draft'.box = draft.box /\ draft'.links = draft.links
      /\ draft'.rule = kept \cup {new} /\ draft'.setting = draft.setting
    BY <1>3, <1>4 DEF CoreTables
<1>7. row \in InFiles("strategy_rule")
    BY <1>1 DEF InFiles
<1>8. OnlyFiles => \A r \in core.rule \ draft'.rule :
                      \E q \in InFiles("strategy_rule") : q.match = r.match
    BY <1>5, <1>6, <1>7 DEF OnlyFiles
<1>9. OnlyFiles => \A c \in Codes : draft'.setting[c] # core.setting[c] =>
                      \E r \in InFiles("notification_setting") : r.code = c
    BY <1>6 DEF OnlyFiles
<1> QED
    BY <1>6, <1>8, <1>9, BoxesKept

LEMMA LoadSettingInv ==
    ASSUME IInv, Onward, NEW row \in ToSet(job.rows), row \in SettingRow,
           draft' = LoadSetting(draft, row)
    PROVE  IInv'
<1>1. row.table = "notification_setting" /\ row.code \in Codes /\ row.value \in Values
    BY DEF SettingRow
<1>2. draft' = [draft EXCEPT !.setting[row.code] = row.value] /\ draft \in CoreTables
    BY DEF LoadSetting, IInv, TypeOK
<1>3. /\ draft' \in CoreTables /\ draft'.box = draft.box /\ draft'.links = draft.links
      /\ draft'.rule = draft.rule
      /\ \A c \in Codes \ {row.code} : draft'.setting[c] = draft.setting[c]
    BY <1>1, <1>2 DEF CoreTables
<1>4. row \in InFiles("notification_setting")
    BY <1>1 DEF InFiles
<1>5. OnlyFiles => \A r \in core.rule \ draft'.rule :
                      \E q \in InFiles("strategy_rule") : q.match = r.match
    BY <1>3 DEF OnlyFiles
<1>6. OnlyFiles => \A c \in Codes : draft'.setting[c] # core.setting[c] =>
                      \E r \in InFiles("notification_setting") : r.code = c
    BY <1>3, <1>4 DEF OnlyFiles
<1> QED
    BY <1>3, <1>5, <1>6, BoxesKept

LEMMA LoadRowInv == ASSUME IInv, LoadRow PROVE IInv'
<1> DEFINE row == job.rows[job.next]
<1>1. TypeOK /\ Clean /\ Running /\ job \in Jobs /\ job.pc = "load"
    BY JobTypes DEF IInv, LoadRow, Running
<1>2. row \in Row /\ row \in ToSet(job.rows)
    BY <1>1 DEF LoadRow, Jobs, ToSet
<1>3. CASE Bad(row)
    <2>1. /\ job' = [job EXCEPT !.pc = "failed"] /\ draft' = draft /\ core' = core
          /\ edits' = edits /\ loads' = loads
        BY <1>3 DEF LoadRow
    <2>2. /\ job' \in Jobs /\ job'.pc = "failed" /\ job'.wiped = job.wiped
          /\ job'.rows = job.rows /\ job'.replace = job.replace
        BY <1>1, <2>1 DEF Jobs
    <2>3. TypeOK'
        BY <1>1, <2>1, <2>2 DEF TypeOK
    <2>4. Clean' /\ AddedAlone'
        BY <1>1, <2>1, <2>2 DEF IInv, Clean, AddedAlone, Added, Exists, Wiped, Running
    <2>5. LeftAlone'
        BY <1>1, <2>1, <2>2 DEF IInv, LeftAlone, OnlyFiles, SameBox, Exists, InFiles
    <2> QED
        BY <2>3, <2>4, <2>5 DEF IInv
<1>4. CASE ~Bad(row)
    <2>1. Onward /\ draft' = Loaded(draft, row) /\ Room(row)
        BY <1>4 DEF LoadRow, Onward
    <2> HIDE DEF row
    <2>2. CASE row.table = "strategy"
        <3>1. draft' = LoadBox(draft, row)
            BY <2>1, <2>2 DEF Loaded
        <3> QED
            BY <1>2, <2>1, <2>2, <3>1, LoadBoxInv
    <2>3. CASE row.table = "strategy_rule"
        <3>1. draft' = LoadRule(draft, row) /\ row \in RuleRow
            BY <1>2, <2>1, <2>3, RowTypes DEF Loaded
        <3> QED
            BY <1>2, <1>4, <2>1, <3>1, LoadRuleInv
    <2>4. CASE row.table = "notification_setting"
        <3>1. draft' = LoadSetting(draft, row) /\ row \in SettingRow
            BY <1>2, <2>1, <2>4, RowTypes DEF Loaded
        <3> QED
            BY <1>2, <2>1, <3>1, LoadSettingInv
    <2> QED
        BY <1>2, <2>2, <2>3, <2>4, RowTypes
<1> QED
    BY <1>3, <1>4

LEMMA CommitInv == ASSUME IInv, Commit PROVE IInv'
<1>1. job' = Idle /\ core' = draft /\ draft' = draft /\ edits' = edits /\ loads' = loads
    BY DEF Commit, End
<1>2. TypeOK'
    BY <1>1 DEF IInv, TypeOK
<1>3. Clean' /\ AddedAlone' /\ LeftAlone'
    BY <1>1 DEF Clean, AddedAlone, Added, LeftAlone, Exists, Wiped, Running, Idle
<1> QED
    BY <1>2, <1>3 DEF IInv

LEMMA StepInv == IInv /\ [Next]_vars => IInv'
<1>1. SUFFICES ASSUME IInv, [Next]_vars PROVE IInv'
    OBVIOUS
<1>2. CASE UNCHANGED vars
    BY <1>1, <1>2 DEF vars, IInv, TypeOK, Clean, AddedAlone, Added, LeftAlone, OnlyFiles, SameBox,
        Exists, Wiped, Running, InFiles
<1>3. CASE \E name \in Names : Create(name) \/ \E i \in Ids : Rename(i, name)
    BY <1>1, <1>3, CreateInv, RenameInv
<1>4. CASE \E i \in Ids : Restore(i) \/ Pin(i) \/ \E n \in 0..1 : Delete(i, n)
    BY <1>1, <1>4, RestoreInv, PinInv, DeleteInv
<1>5. CASE \E c \in Codes, value \in Values \cup {None} : Set(c, value)
    BY <1>1, <1>5, SetInv
<1>6. CASE \E folder \in Folders, only \in Tables \cup {None}, replace, wipeLinks \in BOOLEAN :
              Start(folder, only, replace, wipeLinks)
    BY <1>1, <1>6, StartInv
<1>7. CASE Load
    <2>1. Refuse \/ Abort => Rollback
        BY DEF Refuse, Abort
    <2> QED
        BY <1>1, <1>7, <2>1, RollbackInv, PassInv, TruncateInv, LoadRowInv, CommitInv DEF Load
<1> QED
    BY <1>1, <1>2, <1>3, <1>4, <1>5, <1>6, <1>7 DEF Next

\* Whatever the files hold and the admins do meanwhile: what a load has added is alone with its
\* key, and without --replace it has changed what the files have, and nothing else.
THEOREM Inductive == Spec => []IInv
BY InitInv, StepInv, PTL DEF Spec

\* The tables stay well formed, for any files, edits and loads.
THEOREM TypeCorrect == Spec => []TypeOK
<1>1. IInv => TypeOK
    BY DEF IInv
<1> QED
    BY <1>1, Inductive, PTL

\* A load that commits (seed_loader.py) adds no box beside one with its key, and without
\* --replace leaves alone what is only in the database, with any admins beside it.
THEOREM LeavesAlone == Spec => RestLeftAlone
<1>1. ASSUME IInv, Commit
      PROVE  \A i, j \in Ids :
                i # j /\ ~Exists(core, i) /\ Exists(core', i) /\ Exists(core', j) =>
                    core'.box[i].key # core'.box[j].key
    BY <1>1 DEF IInv, AddedAlone, Added, Commit, Exists
<1>2. ASSUME IInv, Commit, ~job.replace
      PROVE  /\ core'.links = core.links
             /\ \A i \in Ids : Exists(core, i) =>
                   /\ Exists(core', i)
                   /\ [core'.box[i] EXCEPT !.name = core.box[i].name] = core.box[i]
                   /\ core'.box[i] # core.box[i] =>
                         \E r \in InFiles("strategy") : KeyOf(r) = core.box[i].key
             /\ \A r \in core.rule \ core'.rule :
                   \E q \in InFiles("strategy_rule") : q.match = r.match
             /\ \A c \in Codes : core'.setting[c] # core.setting[c] =>
                   \E r \in InFiles("notification_setting") : r.code = c
    <2>1. core' = draft /\ Running
        BY <1>2 DEF Commit, Running
    <2>2. OnlyFiles /\ TypeOK
        BY <1>2, <2>1 DEF IInv, LeftAlone
    <2>3. ASSUME NEW i \in Ids, Exists(core, i)
          PROVE  /\ Exists(draft, i)
                 /\ [draft.box[i] EXCEPT !.name = core.box[i].name] = core.box[i]
                 /\ draft.box[i] # core.box[i] =>
                       \E r \in InFiles("strategy") : KeyOf(r) = core.box[i].key
        <3>1. SameBox(i)
            BY <2>2, <2>3 DEF OnlyFiles
        <3>2. Exists(draft, i)
            BY <3>1 DEF SameBox, Exists
        <3>3. core.box[i] \in Box /\ draft.box[i] \in Box
            BY <2>2, <2>3, <3>2, BoxTypes
        <3>4. [draft.box[i] EXCEPT !.name = core.box[i].name] = core.box[i]
            BY <3>1, <3>3 DEF SameBox, Box
        <3> QED
            BY <3>1, <3>2, <3>4 DEF SameBox
    <2> QED
        BY <2>1, <2>2, <2>3 DEF OnlyFiles, Exists
<1>3. ASSUME IInv
      PROVE  [Commit =>
                /\ \A i, j \in Ids :
                      i # j /\ ~Exists(core, i) /\ Exists(core', i) /\ Exists(core', j)
                      => core'.box[i].key # core'.box[j].key
                /\ ~job.replace =>
                      /\ core'.links = core.links
                      /\ \A i \in Ids : Exists(core, i) =>
                            /\ Exists(core', i)
                            /\ [core'.box[i] EXCEPT !.name = core.box[i].name] = core.box[i]
                            /\ core'.box[i] # core.box[i] =>
                                  \E r \in InFiles("strategy") : KeyOf(r) = core.box[i].key
                      /\ \A r \in core.rule \ core'.rule :
                            \E q \in InFiles("strategy_rule") : q.match = r.match
                      /\ \A c \in Codes : core'.setting[c] # core.setting[c] =>
                            \E r \in InFiles("notification_setting") : r.code = c]_vars
    BY <1>1, <1>2, <1>3
<1> QED
    BY <1>3, Inductive, PTL DEF RestLeftAlone
=============================================================================
