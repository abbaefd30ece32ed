-------------------------- MODULE BoxBuilderProofs --------------------------
(***************************************************************************)
(* Proofs about module BoxBuilder, for any number of admins, legs, boxes,  *)
(* rules and changesets.                                                   *)
(***************************************************************************)
EXTENDS BoxBuilder, TLAPS, FiniteSetTheorems

---------------------------------------------------------------------------
(* Choosing the first match, and the free key.                             *)

\* A nonempty set of naturals has a least element (the smaller of two
\* elements has the strictly smaller initial segment).
LEMMA LeastExists ==
    ASSUME NEW S \in SUBSET Nat, S # {}
    PROVE  \E i \in S : \A j \in S : i <= j
<1> DEFINE Below(i) == 1..i
           T == {Below(i) : i \in S}
           R == StrictSubsetOrdering(Nat)
<1>1. T \subseteq FiniteSubsetsOf(Nat) /\ T # {}
    <2>1. \A i \in S : Below(i) \in SUBSET Nat /\ IsFiniteSet(Below(i))
        BY FS_Interval
    <2>2. QED
        BY <2>1 DEF FiniteSubsetsOf
<1>2. IsWellFoundedOn(R, FiniteSubsetsOf(Nat))
    BY FS_StrictSubsetOrderingWellFounded
<1>3. \E x \in T : \A y \in T : ~ (<<y, x>> \in R)
    <2> HIDE DEF T, R
    <2>1. QED
        BY <1>1, <1>2, WFMin
<1>4. PICK i \in S : \A j \in S : ~ (<<Below(j), Below(i)>> \in R)
    BY <1>3
<1>5. ASSUME NEW j \in S, j < i PROVE <<Below(j), Below(i)>> \in R
    <2>1. i \in Below(i) /\ i \notin Below(j)
        BY <1>5
    <2>2. Below(j) \subseteq Below(i) /\ Below(i) \in SUBSET Nat /\ Below(j) \in SUBSET Nat
        BY <1>5
    <2> HIDE DEF Below
    <2>3. <<Below(j), Below(i)>> \in (SUBSET Nat) \X (SUBSET Nat)
        BY <2>2
    <2>4. Below(j) # Below(i)
        BY <2>1
    <2>5. QED
        BY <2>2, <2>3, <2>4 DEF StrictSubsetOrdering
<1> HIDE DEF T, R, Below
<1>6. \A j \in S : ~(j < i)
    BY <1>4, <1>5
<1>7. QED
    BY <1>6

\* The keys of the active boxes are at most NumBoxes many.
LEMMA TakenKeysBounded ==
    ASSUME box \in [Boxes -> BoxState], NEW except
    PROVE  IsFiniteSet(TakenKeys(except)) /\ Cardinality(TakenKeys(except)) <= NumBoxes
<1> DEFINE All == {box[b].key : b \in Boxes}
           f == [b \in Boxes |-> box[b].key]
<1>1. IsFiniteSet(Boxes) /\ Cardinality(Boxes) = NumBoxes
    BY FS_Interval, BoundsAssumption DEF Boxes
<1>2. f \in Surjection(Boxes, All)
    BY DEF Surjection
<1>3. IsFiniteSet(All) /\ Cardinality(All) <= NumBoxes
    <2> HIDE DEF f, All
    <2>1. QED
        BY <1>1, <1>2, FS_Surjection
<1>4. TakenKeys(except) \in SUBSET All
    BY DEF TakenKeys, Active
<1>5. QED
    <2> HIDE DEF f, All
    <2>1. IsFiniteSet(TakenKeys(except)) /\ Cardinality(TakenKeys(except)) <= Cardinality(All)
        BY <1>3, <1>4, FS_Subset
    <2>2. Cardinality(TakenKeys(except)) \in Nat /\ Cardinality(All) \in Nat
        BY <1>3, <2>1, FS_CardinalityType
    <2>3. QED
        BY <1>3, <2>1, <2>2, BoundsAssumption

LEMMA SuffixedType ==
    ASSUME NEW base \in Keys, NEW i \in Nat
    PROVE  Suffixed(base, i) \in Keys
<1>1. base.suffix \in Seq(Nat)
    BY DEF Keys
<1>2. Append(base.suffix, i) \in Seq(Nat)
    BY <1>1
<1>3. \A s \in Seq(Nat) : [base EXCEPT !.suffix = s] \in Keys
    BY DEF Keys
<1>4. QED
    BY <1>2, <1>3 DEF Suffixed

LEMMA SuffixedInjective ==
    ASSUME NEW base \in Keys, NEW i \in Nat, NEW j \in Nat, i # j
    PROVE  Suffixed(base, i) # Suffixed(base, j)
<1> DEFINE s == base.suffix
<1>1. s \in Seq(Nat)
    BY DEF Keys
<1>2. \A k \in Nat : Append(s, k)[Len(s) + 1] = k /\ Len(Append(s, k)) = Len(s) + 1
    BY <1>1
<1>3. \A k \in Nat : k # 1 => Suffixed(base, k).suffix = Append(s, k)
    BY DEF Suffixed, Keys
<1>4. Suffixed(base, 1).suffix = s
    BY DEF Suffixed
<1>5. QED
    BY <1>1, <1>2, <1>3, <1>4

\* The loop of _free_key ends, with a key no other active box has.
LEMMA FreeKeyIsFree ==
    ASSUME box \in [Boxes -> BoxState], NEW base \in Keys, NEW except
    PROVE  FreeKey(base, except) \in Keys /\ FreeKey(base, except) \notin TakenKeys(except)
<1> DEFINE N == NumBoxes + 1
           taken == TakenKeys(except)
           free == FreeSuffixes(base, except)
           f == [i \in 1..N |-> Suffixed(base, i)]
<1>0. NumBoxes \in Nat
    BY BoundsAssumption
<1>1. IsFiniteSet(1..N) /\ Cardinality(1..N) = NumBoxes + 1
    BY <1>0, FS_Interval
<1>2. IsFiniteSet(taken) /\ Cardinality(taken) <= NumBoxes /\ Cardinality(taken) \in Nat
    BY TakenKeysBounded, FS_CardinalityType
<1>3. free # {}
    <2>1. SUFFICES ASSUME free = {} PROVE FALSE
        OBVIOUS
    <2>2. f \in [1..N -> taken]
        BY <2>1 DEF FreeSuffixes
    <2>3. Cardinality(taken) < Cardinality(1..N)
        BY <1>0, <1>1, <1>2
    <2>4. \E i, j \in 1..N : i # j /\ f[i] = f[j]
        <3> HIDE DEF f, taken, N
        <3>1. QED
            BY <1>1, <1>2, <2>2, <2>3, FS_PigeonHole
    <2>5. QED
        BY <1>0, <2>4, SuffixedInjective
<1>4. free \in SUBSET Nat
    BY <1>0 DEF FreeSuffixes
<1>5. \E i \in free : \A j \in free : i <= j
    <2> HIDE DEF free
    <2>1. QED
        BY <1>3, <1>4, LeastExists
<1>6. PICK i \in free : FreeKey(base, except) = Suffixed(base, i)
    BY <1>5 DEF FreeKey
<1>7. QED
    BY <1>4, <1>6, SuffixedType DEF FreeSuffixes

---------------------------------------------------------------------------
(* Types of the operators.                                                 *)

LEMMA UnassignedType == Unassigned \in Boxes /\ Unassigned \in 1..NumSeeded
    BY BoundsAssumption DEF Unassigned, Boxes

LEMMA CurrentAtType ==
    ASSUME TypeOK, NEW l \in Legs
    PROVE  /\ CurrentAt(l) \in Nat
           /\ CurrentAt(l) # 0 => CurrentAt(l) \in DOMAIN links[l]
           /\ CurrentLink(l) \in [action : {"pin", "unpin", "none"}, box : Boxes \cup {NoBox}]
<1>1. links[l] \in Seq(LinkRow)
    BY DEF TypeOK
<1>2. CurrentAt(l) \in Nat /\ (CurrentAt(l) # 0 => CurrentAt(l) \in DOMAIN links[l])
    BY <1>1 DEF CurrentAt, CurrentRows
<1>3. CurrentAt(l) # 0 => links[l][CurrentAt(l)] \in LinkRow
    BY <1>1, <1>2
<1>4. QED
    BY <1>2, <1>3 DEF CurrentLink, RowAt, NoRow, LinkRow

LEMMA RuleBoxType ==
    ASSUME NEW l \in Legs
    PROVE  /\ RuleHits(l) = {} => RuleBox(l) = NoBox
           /\ RuleHits(l) # {} => \E i \in RuleHits(l) : RuleBox(l) = RulePref[l][i]
           /\ RuleBox(l) \in Boxes \cup {NoBox}
<1>1. RulePref[l] \in Seq(1..NumSeeded)
    BY BoundsAssumption
<1>2. RuleHits(l) \in SUBSET Nat
    BY <1>1 DEF RuleHits
<1>3. ASSUME RuleHits(l) # {} PROVE \E i \in RuleHits(l) : RuleBox(l) = RulePref[l][i]
    <2>1. \E i \in RuleHits(l) : \A j \in RuleHits(l) : i <= j
        BY <1>2, <1>3, LeastExists
    <2>2. QED
        BY <1>3, <2>1 DEF RuleBox
<1>4. \A i \in RuleHits(l) : RulePref[l][i] \in Boxes
    BY DEF RuleHits, Active
<1>5. QED
    BY <1>3, <1>4 DEF RuleBox

LEMMA ResolveType ==
    ASSUME TypeOK, NEW l \in Legs
    PROVE  Resolve(l) \in Resolution
    BY CurrentAtType, RuleBoxType, UnassignedType DEF Resolve, Resolution, PinBox, Active

LEMMA ActiveType == Active \subseteq Boxes
    BY DEF Active

LEMMA IdleType == Idle \in Txn
<1>1. NoBoxWrite \in BoxWrite
    BY DEF BoxWrite
<1>2. QED
    BY <1>1, BoundsAssumption DEF Idle, Txn

LEMMA PlanRowType ==
    ASSUME TypeOK, NEW l \in Legs, NEW action \in {"pin", "unpin"},
           NEW b \in Boxes \cup {NoBox}
    PROVE  PlanRow(l, action, b) \in PlannedRow
    BY CurrentAtType DEF PlanRow, PlannedRow

---------------------------------------------------------------------------
(* Type correctness.                                                       *)

LEMMA InitType == Init => TypeOK
<1> SUFFICES ASSUME Init PROVE TypeOK
    OBVIOUS
<1> USE BoundsAssumption DEF Init
<1>1. box \in [Boxes -> BoxState]
    <2>1. \A n \in Names : Typed(n) \in BoxNames /\ KeyOf(Typed(n)) \in Keys
        BY DEF Typed, KeyOf, BoxNames, Keys
    <2>2. \A b \in 1..NumSeeded : SeedName[b] \in Names
        OBVIOUS
    <2>3. \A b \in Boxes : b <= NumSeeded => b \in 1..NumSeeded
        BY DEF Boxes
    <2>4. QED
        BY <2>1, <2>2, <2>3, UnassignedType DEF BoxState
<1>2. txn \in [Admins -> Txn]
    BY IdleType
<1>3. links \in [Legs -> Seq(LinkRow)]
    OBVIOUS
<1>4. gold \in [Legs -> Resolution]
    BY DEF NoLeg, Resolution
<1>5. \A l \in Legs : Resolve(l) \in Resolution
    <2>1. \A l \in Legs : CurrentLink(l) = NoRow
        BY DEF CurrentLink, CurrentAt, CurrentRows, RowAt
    <2>2. QED
        BY <2>1, RuleBoxType, UnassignedType DEF Resolve, Resolution, PinBox, NoRow
<1>6. changesets \in 0..MaxChangesets /\ goldBoxes \subseteq Boxes /\ recompute \in BOOLEAN
    <2>1. 1..NumSeeded \subseteq Boxes
        BY DEF Boxes
    <2>2. goldBoxes \subseteq Boxes
        BY <2>1
    <2>3. changesets \in 0..MaxChangesets
        OBVIOUS
    <2>4. recompute \in BOOLEAN
        OBVIOUS
    <2>5. QED
        BY <2>2, <2>3, <2>4
<1>7. last \in [op : {"none", "apply", "reset", "delete", "undo"},
                before : [Legs -> Resolution]]
    BY <1>5
<1>8. QED
    BY <1>1, <1>2, <1>3, <1>4, <1>6, <1>7 DEF TypeOK

\* A transaction that starts with a well-formed record keeps the types.
LEMMA StartType ==
    ASSUME TypeOK, NEW a \in Admins, NEW t \in Txn, Start(a, t)
    PROVE  TypeOK'
    BY DEF TypeOK, Start

LEMMA BeginApplyType ==
    ASSUME TypeOK, NEW a \in Admins, BeginApply(a) PROVE TypeOK'
<1>0. PICK moved \in SUBSET OnBoard : \E target \in [moved -> Active] :
        Start(a, [Idle EXCEPT !.op = "apply",
                     !.plan = {PlanRow(l, "pin", target[l]) :
                                 l \in {m \in moved : Writes(m, "pin", target[m])}}])
    BY DEF BeginApply
<1>1. PICK target \in [moved -> Active] :
        Start(a, [Idle EXCEPT !.op = "apply",
                     !.plan = {PlanRow(l, "pin", target[l]) :
                                 l \in {m \in moved : Writes(m, "pin", target[m])}}])
    BY <1>0
<1> DEFINE plan == {PlanRow(l, "pin", target[l]) :
                      l \in {m \in moved : Writes(m, "pin", target[m])}}
<1>2. plan \subseteq PlannedRow
    <2>1. \A l \in moved : l \in Legs /\ target[l] \in Boxes
        BY ActiveType DEF OnBoard
    <2>2. QED
        BY <2>1, PlanRowType
<1> HIDE DEF plan
<1>3. [Idle EXCEPT !.op = "apply", !.plan = plan] \in Txn
    BY <1>2, IdleType DEF Txn
<1>4. QED
    BY <1>1, <1>3, StartType DEF plan

LEMMA BeginResetType ==
    ASSUME TypeOK, NEW a \in Admins, BeginReset(a) PROVE TypeOK'
<1>1. PICK chosen \in SUBSET OnBoard :
        Start(a, [Idle EXCEPT !.op = "reset",
                     !.plan = {PlanRow(l, "unpin", NoBox) :
                                 l \in {m \in chosen : Writes(m, "unpin", NoBox)}}])
    BY DEF BeginReset
<1> DEFINE plan == {PlanRow(l, "unpin", NoBox) :
                      l \in {m \in chosen : Writes(m, "unpin", NoBox)}}
<1>2. plan \subseteq PlannedRow
    BY PlanRowType DEF OnBoard
<1> HIDE DEF plan
<1>3. [Idle EXCEPT !.op = "reset", !.plan = plan] \in Txn
    BY <1>2, IdleType DEF Txn
<1>4. QED
    BY <1>1, <1>3, StartType DEF plan

LEMMA BeginDeleteType ==
    ASSUME TypeOK, NEW a \in Admins, BeginDelete(a) PROVE TypeOK'
<1>1. PICK b \in Active \ {Unassigned} :
        Start(a, [Idle EXCEPT !.op = "delete",
                     !.plan = {PlanRow(l, "pin", Unassigned) :
                                 l \in {m \in {k \in OnBoard : Effective(k).sid = b} :
                                            Writes(m, "pin", Unassigned)}},
                     !.boxw = [kind |-> "delete", id |-> b],
                     !.saw = OnBoard, !.fresh = goldBoxes = Active])
    BY DEF BeginDelete
<1> DEFINE plan == {PlanRow(l, "pin", Unassigned) :
                      l \in {m \in {k \in OnBoard : Effective(k).sid = b} :
                                 Writes(m, "pin", Unassigned)}}
           fresh == goldBoxes = Active
<1>2. plan \subseteq PlannedRow
    BY PlanRowType, UnassignedType DEF OnBoard
<1>3. fresh \in BOOLEAN /\ OnBoard \subseteq Legs /\ b \in Boxes
    BY ActiveType DEF OnBoard
<1> HIDE DEF plan, fresh
<1>4. [Idle EXCEPT !.op = "delete", !.plan = plan, !.boxw = [kind |-> "delete", id |-> b],
                   !.saw = OnBoard, !.fresh = fresh] \in Txn
    <2>1. [kind |-> "delete", id |-> b] \in BoxWrite
        BY <1>3 DEF BoxWrite
    <2>2. QED
        BY <1>2, <1>3, <2>1, IdleType DEF Txn
<1>5. QED
    BY <1>1, <1>4, StartType DEF plan, fresh

LEMMA RestoreType ==
    ASSUME TypeOK, NEW b \in Boxes
    PROVE  RestoreOf(b) \in BoxWrite
<1>1. box[b] \in BoxState /\ box[b].name \in BoxNames /\ box[b].key \in Keys
    BY DEF TypeOK, BoxState
<1>2. [box[b].name EXCEPT !.restored = @ + 1] \in BoxNames
    BY <1>1 DEF BoxNames
<1>3. FreeKey(box[b].key, {b}) \in Keys
    BY <1>1, FreeKeyIsFree DEF TypeOK
<1> HIDE DEF BoxState
<1>4. QED
    BY <1>1, <1>2, <1>3 DEF RestoreOf, BoxWrite

LEMMA RevertRowType ==
    ASSUME TypeOK, NEW l \in Legs, NEW i \in DOMAIN links[l]
    PROVE  RevertRow(l, i) \in PlannedRow
<1>1. links[l] \in Seq(LinkRow) /\ i \in Nat
    BY DEF TypeOK
<1>2. i - 1 # 0 => i - 1 \in DOMAIN links[l] /\ links[l][i - 1] \in LinkRow
    BY <1>1
<1>3. i - 1 # 0 => RowAt(l, i - 1).box \in Boxes \cup {NoBox}
    BY <1>2 DEF RowAt, LinkRow
<1>4. i - 1 = 0 => RowAt(l, i - 1).action = "none"
    BY DEF RowAt, NoRow
<1>5. QED
    BY <1>1, <1>3, <1>4 DEF RevertRow, PlannedRow, NoBox

LEMMA BeginUndoType ==
    ASSUME TypeOK, NEW a \in Admins, BeginUndo(a) PROVE TypeOK'
<1> DEFINE rows(cs) == {r \in Legs \X (1..MaxChangesets) :
                          /\ r[2] \in DOMAIN links[r[1]]
                          /\ links[r[1]][r[2]].cs = cs
                          /\ links[r[1]][r[2]].current}
           plan(cs) == {p \in {RevertRow(r[1], r[2]) : r \in rows(cs)} :
                          p.box \in PinBackTo(DeletedBy(cs))}
           boxw(cs) == IF DeletedBy(cs) = {} THEN NoBoxWrite
                       ELSE RestoreOf(CHOOSE b \in DeletedBy(cs) : TRUE)
<1>1. PICK cs \in 1..changesets :
        Start(a, [Idle EXCEPT !.op = "undo", !.plan = plan(cs), !.undoes = cs,
                              !.boxw = boxw(cs)])
    BY DEF BeginUndo
<1>2. plan(cs) \subseteq PlannedRow
    BY RevertRowType
<1>3. boxw(cs) \in BoxWrite
    <2>1. DeletedBy(cs) # {} => (CHOOSE b \in DeletedBy(cs) : TRUE) \in Boxes
        BY DEF DeletedBy
    <2>2. NoBoxWrite \in BoxWrite
        BY DEF BoxWrite
    <2>3. QED
        BY <2>1, <2>2, RestoreType
<1>4. cs \in 0..MaxChangesets
    BY BoundsAssumption DEF TypeOK
<1> HIDE DEF plan, boxw
<1>5. [Idle EXCEPT !.op = "undo", !.plan = plan(cs), !.undoes = cs, !.boxw = boxw(cs)] \in Txn
    BY <1>2, <1>3, <1>4, IdleType DEF Txn
<1>6. QED
    BY <1>1, <1>5, StartType

LEMMA TypedType ==
    ASSUME NEW n \in Names
    PROVE  Typed(n) \in BoxNames /\ KeyOf(Typed(n)) \in Keys
    BY DEF Typed, KeyOf, BoxNames, Keys

LEMMA BeginCreateType ==
    ASSUME TypeOK, NEW a \in Admins, BeginCreate(a) PROVE TypeOK'
<1>1. PICK n \in Names :
        Start(a, [Idle EXCEPT !.op = "create",
                     !.boxw = [kind |-> "insert", id |-> NoBox, name |-> Typed(n),
                               key |-> FreeKey(KeyOf(Typed(n)), {})]])
    BY DEF BeginCreate
<1>2. FreeKey(KeyOf(Typed(n)), {}) \in Keys
    BY TypedType, FreeKeyIsFree DEF TypeOK
<1>3. [kind |-> "insert", id |-> NoBox, name |-> Typed(n),
       key |-> FreeKey(KeyOf(Typed(n)), {})] \in BoxWrite
    BY <1>2, TypedType DEF BoxWrite
<1>4. [Idle EXCEPT !.op = "create",
          !.boxw = [kind |-> "insert", id |-> NoBox, name |-> Typed(n),
                    key |-> FreeKey(KeyOf(Typed(n)), {})]] \in Txn
    BY <1>3, IdleType DEF Txn
<1>5. QED
    BY <1>1, <1>4, StartType

LEMMA BeginUpdateType ==
    ASSUME TypeOK, NEW a \in Admins, BeginUpdate(a) PROVE TypeOK'
<1>1. PICK b \in Active, n \in Names :
        Start(a, [Idle EXCEPT !.op = "update",
                     !.boxw = [kind |-> "rename", id |-> b, name |-> Typed(n)]])
    BY DEF BeginUpdate
<1>2. [kind |-> "rename", id |-> b, name |-> Typed(n)] \in BoxWrite
    BY TypedType, ActiveType DEF BoxWrite
<1>3. [Idle EXCEPT !.op = "update",
          !.boxw = [kind |-> "rename", id |-> b, name |-> Typed(n)]] \in Txn
    BY <1>2, IdleType DEF Txn
<1>4. QED
    BY <1>1, <1>3, StartType

\* What a commit does to the tables of the database.
LEMMA AppendLinkType ==
    ASSUME NEW rows \in Seq(LinkRow), NEW p \in PlannedRow, NEW cs \in 1..MaxChangesets
    PROVE  /\ AppendLink(rows, p, cs) \in Seq(LinkRow)
           /\ Len(AppendLink(rows, p, cs)) = Len(rows) + 1
           /\ \A i \in DOMAIN rows :
                 AppendLink(rows, p, cs)[i] =
                    IF i = p.old THEN [rows[i] EXCEPT !.current = FALSE] ELSE rows[i]
           /\ AppendLink(rows, p, cs)[Len(rows) + 1] =
                    [action |-> p.action, box |-> p.box, cs |-> cs, current |-> TRUE]
<1> DEFINE new == [action |-> p.action, box |-> p.box, cs |-> cs, current |-> TRUE]
           old == [i \in DOMAIN rows |-> IF i = p.old THEN [rows[i] EXCEPT !.current = FALSE]
                                         ELSE rows[i]]
<1>1. new \in LinkRow
    BY DEF LinkRow, PlannedRow
<1>2. \A i \in DOMAIN rows : old[i] \in LinkRow
    <2>1. \A i \in DOMAIN rows : rows[i] \in LinkRow
        OBVIOUS
    <2>2. \A r \in LinkRow : [r EXCEPT !.current = FALSE] \in LinkRow
        BY DEF LinkRow
    <2>3. QED
        BY <2>1, <2>2
<1>3. old \in Seq(LinkRow) /\ Len(old) = Len(rows)
    <2>1. DOMAIN rows = 1..Len(rows) /\ Len(rows) \in Nat
        OBVIOUS
    <2>2. old \in [1..Len(rows) -> LinkRow]
        BY <1>2, <2>1
    <2> HIDE DEF old
    <2>3. QED
        BY <2>1, <2>2
<1>4. AppendLink(rows, p, cs) = Append(old, new)
    BY DEF AppendLink
<1>5. \A i \in DOMAIN rows : old[i] = IF i = p.old THEN [rows[i] EXCEPT !.current = FALSE]
                                     ELSE rows[i]
    OBVIOUS
<1> HIDE DEF old, new
<1>6. QED
    BY <1>1, <1>3, <1>4, <1>5 DEF new

LEMMA NextIdFree ==
    ASSUME FreeRows # {}
    PROVE  NextId \in FreeRows
<1>1. FreeRows \in SUBSET Nat
    BY DEF FreeRows, Boxes
<1>2. \E b \in FreeRows : \A c \in FreeRows : b <= c
    BY <1>1, LeastExists
<1>3. QED
    BY <1>2 DEF NextId

LEMMA WriteBoxType ==
    ASSUME TypeOK, NEW w \in BoxWrite, NEW cs,
           w.kind = "delete" => cs \in 0..MaxChangesets,
           w.kind = "insert" => FreeRows # {}
    PROVE  WriteBox(w, cs) \in [Boxes -> BoxState]
<1>0. box \in [Boxes -> BoxState] /\ 0 \in 0..MaxChangesets
    BY BoundsAssumption DEF TypeOK
<1>1. CASE w.kind = "none"
    BY <1>0, <1>1 DEF WriteBox
<1>2. CASE w.kind = "insert"
    <2>1. NextId \in Boxes
        BY <1>2, NextIdFree DEF FreeRows
    <2>2. w.name \in BoxNames /\ w.key \in Keys
        BY <1>2 DEF BoxWrite, NoBoxWrite
    <2>3. [state |-> "active", name |-> w.name, key |-> w.key, delCs |-> 0] \in BoxState
        BY <1>0, <2>2 DEF BoxState
    <2>4. WriteBox(w, cs) = [box EXCEPT ![NextId] =
             [state |-> "active", name |-> w.name, key |-> w.key, delCs |-> 0]]
        BY <1>2 DEF WriteBox
    <2>5. QED
        BY <1>0, <2>1, <2>3, <2>4
<1>3. CASE w.kind = "rename"
    <2>1. w.id \in Boxes /\ w.name \in BoxNames
        BY <1>3 DEF BoxWrite, NoBoxWrite
    <2>2. WriteBox(w, cs) = [box EXCEPT ![w.id].name = w.name]
        BY <1>3 DEF WriteBox
    <2>3. \A r \in BoxState : [r EXCEPT !.name = w.name] \in BoxState
        BY <2>1 DEF BoxState
    <2>4. QED
        BY <1>0, <2>1, <2>2, <2>3
<1>4. CASE w.kind = "delete"
    <2>1. w.id \in Boxes
        BY <1>4 DEF BoxWrite, NoBoxWrite
    <2>2. WriteBox(w, cs) = [box EXCEPT ![w.id] =
                               [box[w.id] EXCEPT !.state = "deleted", !.delCs = cs]]
        BY <1>4 DEF WriteBox
    <2>3. [box[w.id] EXCEPT !.state = "deleted", !.delCs = cs] \in BoxState
        <3>1. box[w.id] \in BoxState
            BY <1>0, <2>1
        <3>2. QED
            BY <1>4, <3>1 DEF BoxState
    <2>4. QED
        BY <1>0, <2>1, <2>2, <2>3
<1>5. CASE w.kind = "restore"
    <2>1. w.id \in Boxes /\ w.name \in BoxNames /\ w.key \in Keys
        BY <1>5 DEF BoxWrite, NoBoxWrite
    <2>2. NameWritten(w) \in BoxNames /\ KeyWritten(w) \in Keys
        <3>1. box[w.id].name \in BoxNames /\ box[w.id].key \in Keys
            BY <1>0, <2>1 DEF BoxState
        <3>2. QED
            BY <2>1, <3>1 DEF NameWritten, KeyWritten
    <2>3. [state |-> "active", name |-> NameWritten(w), key |-> KeyWritten(w), delCs |-> 0]
            \in BoxState
        BY <1>0, <2>2 DEF BoxState
    <2>4. WriteBox(w, cs) = [box EXCEPT ![w.id] = [state |-> "active",
             name |-> NameWritten(w), key |-> KeyWritten(w), delCs |-> 0]]
        BY <1>5 DEF WriteBox
    <2>5. QED
        BY <1>0, <2>1, <2>3, <2>4
<1>6. QED
    BY <1>1, <1>2, <1>3, <1>4, <1>5 DEF BoxWrite, NoBoxWrite

\* A commit appends to each planned leg the row of one plan entry and leaves
\* the other legs alone.
LEMMA CommitLinks ==
    ASSUME TypeOK, OpsOK, NEW a \in Admins, Commit(a), NEW l \in Legs
    PROVE  \/ links'[l] = links[l]
           \/ \E p \in txn[a].plan :
                 /\ p.leg = l /\ p \in PlannedRow /\ LinkIndexFree(p)
                 /\ changesets + 1 \in 1..MaxChangesets
                 /\ links'[l] = AppendLink(links[l], p, changesets + 1)
<1> DEFINE t == txn[a]
           PlanOf(k) == CHOOSE p \in t.plan : p.leg = k
<1>1. t \in Txn
    BY DEF TypeOK
<1>2. links'[l] = IF l \in {p.leg : p \in t.plan}
                  THEN AppendLink(links[l], PlanOf(l), changesets + 1) ELSE links[l]
    BY DEF Commit
<1>3. ASSUME l \in {p.leg : p \in t.plan} PROVE PlanOf(l) \in t.plan /\ PlanOf(l).leg = l
    BY <1>3
<1>4. t.plan # {} => changesets + 1 \in 1..MaxChangesets
    <2>1. SUFFICES ASSUME t.plan # {} PROVE changesets + 1 \in 1..MaxChangesets
        OBVIOUS
    <2>2. MakesChangeset(t)
        BY <2>1 DEF Commit, OpsOK, MakesChangeset
    <2>3. QED
        BY <2>2, BoundsAssumption DEF Commit, TypeOK
<1>5. QED
    BY <1>1, <1>2, <1>3, <1>4 DEF Commit, Txn

LEMMA CommitType ==
    ASSUME TypeOK, OpsOK, NEW a \in Admins, Commit(a) PROVE TypeOK'
<1> DEFINE t == txn[a]
<1>1. t \in Txn /\ t.boxw \in BoxWrite
    BY DEF TypeOK, Txn
<1>2. links' \in [Legs -> Seq(LinkRow)]
    <2>1. \A l \in Legs : links'[l] \in Seq(LinkRow)
        <3>1. SUFFICES ASSUME NEW l \in Legs PROVE links'[l] \in Seq(LinkRow)
            OBVIOUS
        <3>2. links[l] \in Seq(LinkRow)
            BY DEF TypeOK
        <3>3. ASSUME links'[l] # links[l] PROVE links'[l] \in Seq(LinkRow)
            <4>1. PICK p \in txn[a].plan :
                    /\ p.leg = l /\ p \in PlannedRow /\ LinkIndexFree(p)
                    /\ changesets + 1 \in 1..MaxChangesets
                    /\ links'[l] = AppendLink(links[l], p, changesets + 1)
                BY <3>3, CommitLinks
            <4>2. AppendLink(links[l], p, changesets + 1) \in Seq(LinkRow)
                BY <3>2, <4>1, AppendLinkType
            <4>3. QED
                BY <4>1, <4>2
        <3>4. QED
            BY <3>2, <3>3
    <2>2. \E f : links' = [l \in Legs |-> f[l]]
        BY DEF Commit
    <2>3. QED
        BY <2>1, <2>2
<1>3. MakesChangeset(t) => changesets + 1 \in 0..MaxChangesets
    BY BoundsAssumption DEF Commit, TypeOK
<1>4. box' \in [Boxes -> BoxState]
    <2>1. t.boxw.kind = "delete" => MakesChangeset(t)
        BY DEF Commit, OpsOK, MakesChangeset
    <2>2. t.boxw.kind = "insert" => FreeRows # {}
        BY DEF Commit
    <2>3. box' = WriteBox(t.boxw, changesets + 1)
        BY DEF Commit
    <2>4. QED
        BY <1>1, <1>3, <2>1, <2>2, <2>3, WriteBoxType
<1>5. txn' \in [Admins -> Txn]
    <2>1. [Idle EXCEPT !.op = "committed"] \in Txn
        BY IdleType DEF Txn
    <2>2. txn' = [txn EXCEPT ![a] = [Idle EXCEPT !.op = "committed"]]
            \/ txn' = [txn EXCEPT ![a] = Idle]
        BY DEF Commit
    <2>3. QED
        BY <2>1, <2>2, IdleType DEF TypeOK
<1>6. changesets' \in 0..MaxChangesets
    BY <1>3 DEF Commit, TypeOK
<1>7. last' \in [op : {"none", "apply", "reset", "delete", "undo"},
                 before : [Legs -> Resolution]]
    <2>1. CASE MakesChangeset(t)
        <3>1. last' = [op |-> t.op, before |-> [l \in Legs |-> Resolve(l)]]
            BY <2>1 DEF Commit
        <3>2. [l \in Legs |-> Resolve(l)] \in [Legs -> Resolution]
            BY ResolveType
        <3>3. t.op \in {"none", "apply", "reset", "delete", "undo"}
            BY <2>1 DEF MakesChangeset
        <3>4. QED
            BY <3>1, <3>2, <3>3
    <2>2. CASE ~MakesChangeset(t)
        BY <2>2 DEF Commit, TypeOK
    <2>3. QED
        BY <2>1, <2>2
<1>8. gold' = gold /\ recompute' = recompute /\ goldBoxes' = goldBoxes
    BY DEF Commit
<1>9. QED
    BY <1>2, <1>4, <1>5, <1>6, <1>7, <1>8 DEF TypeOK

LEMMA TypeStep == TypeOK /\ OpsOK /\ [Next]_vars => TypeOK'
<1> SUFFICES ASSUME TypeOK, OpsOK, [Next]_vars PROVE TypeOK'
    OBVIOUS
<1>1. ASSUME NEW a \in Admins, Abort(a) PROVE TypeOK'
    BY <1>1, IdleType DEF Abort, TypeOK
<1>2. ASSUME NEW a \in Admins, RequestRecompute(a) PROVE TypeOK'
    BY <1>2, IdleType DEF RequestRecompute, TypeOK
<1>3. ASSUME Pipeline PROVE TypeOK'
    <2>1. gold' \in [Legs -> Resolution]
        <3>1. NoLeg \in Resolution
            BY DEF NoLeg, Resolution
        <3>2. QED
            BY <1>3, <3>1, ResolveType DEF Pipeline
    <2>2. goldBoxes' \subseteq Boxes /\ recompute' = FALSE
        BY <1>3, ActiveType DEF Pipeline
    <2>3. UNCHANGED <<box, links, txn, changesets, last>>
        BY <1>3 DEF Pipeline
    <2>4. QED
        BY <2>1, <2>2, <2>3 DEF TypeOK
<1>4. ASSUME UNCHANGED vars PROVE TypeOK'
    BY <1>4 DEF vars, TypeOK
<1>5. QED
    BY <1>1, <1>2, <1>3, <1>4, BeginApplyType, BeginResetType, BeginDeleteType,
       BeginUndoType, BeginCreateType, BeginUpdateType, CommitType DEF Next

---------------------------------------------------------------------------
(* What a transaction in progress may hold.                                *)

\* Each Begin action opens a transaction and touches nothing else.
LEMMA BeginStarts ==
    ASSUME NEW a \in Admins,
           \/ BeginApply(a) \/ BeginReset(a) \/ BeginDelete(a)
           \/ BeginUndo(a) \/ BeginCreate(a) \/ BeginUpdate(a)
    PROVE  \E t : /\ Start(a, t)
                  /\ t.op \in {"apply", "reset", "delete", "undo", "create", "update"}
                  /\ t.op \in {"create", "update"} =>
                        t.plan = {} /\ t.boxw.kind \in {"insert", "rename"}
<1>1. CASE BeginApply(a)
    <2>1. \E plan : Start(a, [Idle EXCEPT !.op = "apply", !.plan = plan])
        BY <1>1 DEF BeginApply
    <2>2. \A plan : [Idle EXCEPT !.op = "apply", !.plan = plan].op = "apply"
        BY DEF Idle
    <2>3. QED
        BY <2>1, <2>2
<1>2. CASE BeginReset(a)
    <2>1. \E plan : Start(a, [Idle EXCEPT !.op = "reset", !.plan = plan])
        BY <1>2 DEF BeginReset
    <2>2. \A plan : [Idle EXCEPT !.op = "reset", !.plan = plan].op = "reset"
        BY DEF Idle
    <2>3. QED
        BY <2>1, <2>2
<1>3. CASE BeginDelete(a)
    <2>1. \E plan, boxw, saw, fresh : Start(a, [Idle EXCEPT !.op = "delete", !.plan = plan, !.boxw = boxw, !.saw = saw, !.fresh = fresh])
        BY <1>3 DEF BeginDelete
    <2>2. \A plan, boxw, saw, fresh : [Idle EXCEPT !.op = "delete", !.plan = plan, !.boxw = boxw, !.saw = saw, !.fresh = fresh].op = "delete"
        BY DEF Idle
    <2>3. QED
        BY <2>1, <2>2
<1>4. CASE BeginUndo(a)
    <2>1. \E plan, cs, boxw : Start(a, [Idle EXCEPT !.op = "undo", !.plan = plan, !.undoes = cs, !.boxw = boxw])
        BY <1>4 DEF BeginUndo
    <2>2. \A plan, cs, boxw : [Idle EXCEPT !.op = "undo", !.plan = plan, !.undoes = cs, !.boxw = boxw].op = "undo"
        BY DEF Idle
    <2>3. QED
        BY <2>1, <2>2
<1>5. CASE BeginCreate(a)
    <2>1. PICK boxw : boxw.kind = "insert" /\ Start(a, [Idle EXCEPT !.op = "create", !.boxw = boxw])
        BY <1>5 DEF BeginCreate
    <2> DEFINE t == [Idle EXCEPT !.op = "create", !.boxw = boxw]
    <2>2. t.op = "create" /\ t.plan = {} /\ t.boxw = boxw
        BY DEF Idle
    <2>3. Start(a, t)
        BY <2>1
    <2> HIDE DEF t
    <2>4. QED
        BY <2>1, <2>2, <2>3
<1>6. CASE BeginUpdate(a)
    <2>1. PICK boxw : boxw.kind = "rename" /\ Start(a, [Idle EXCEPT !.op = "update", !.boxw = boxw])
        BY <1>6 DEF BeginUpdate
    <2> DEFINE t == [Idle EXCEPT !.op = "update", !.boxw = boxw]
    <2>2. t.op = "update" /\ t.plan = {} /\ t.boxw = boxw
        BY DEF Idle
    <2>3. Start(a, t)
        BY <2>1
    <2> HIDE DEF t
    <2>4. QED
        BY <2>1, <2>2, <2>3
<1>7. QED
    BY <1>1, <1>2, <1>3, <1>4, <1>5, <1>6

LEMMA OpsStep == TypeOK /\ OpsOK /\ [Next]_vars => OpsOK'
<1> SUFFICES ASSUME TypeOK, OpsOK, [Next]_vars PROVE OpsOK'
    OBVIOUS
<1> USE DEF OpsOK
<1>1. Idle.op = "idle"
    BY DEF Idle
<1>2. ASSUME NEW a \in Admins, NEW t, Start(a, t),
             t.op \in {"create", "update"} =>
                t.plan = {} /\ t.boxw.kind \in {"insert", "rename"}
      PROVE  OpsOK'
    BY <1>2 DEF Start, TypeOK
<1>3. ASSUME NEW a \in Admins, Commit(a) \/ Abort(a) \/ RequestRecompute(a)
      PROVE  OpsOK'
    <2>1. PICK t : txn' = [txn EXCEPT ![a] = t] /\ t.op \in {"idle", "committed"}
        <3>1. [Idle EXCEPT !.op = "committed"].op = "committed"
            BY DEF Idle
        <3>2. QED
            BY <1>1, <1>3, <3>1 DEF Commit, Abort, RequestRecompute
    <2>2. QED
        BY <2>1 DEF TypeOK
<1>4. ASSUME Pipeline \/ UNCHANGED vars PROVE OpsOK'
    BY <1>4 DEF Pipeline, vars
<1>5. QED
    BY <1>2, <1>3, <1>4, BeginStarts DEF Next

---------------------------------------------------------------------------
(* The history of a leg's links.                                           *)

\* Only a commit touches the links.
LEMMA OnlyCommitWritesLinks ==
    ASSUME [Next]_vars, \A a \in Admins : ~Commit(a)
    PROVE  UNCHANGED links
<1>1. ASSUME NEW a \in Admins, NEW t, Start(a, t) PROVE UNCHANGED links
    BY <1>1 DEF Start
<1>2. ASSUME NEW a \in Admins, Abort(a) \/ RequestRecompute(a) PROVE UNCHANGED links
    BY <1>2 DEF Abort, RequestRecompute
<1>3. ASSUME Pipeline \/ UNCHANGED vars PROVE UNCHANGED links
    BY <1>3 DEF Pipeline, vars
<1>4. QED
    BY <1>1, <1>2, <1>3, BeginStarts DEF Next

LEMMA AppendedRow ==
    ASSUME TypeOK, NEW l \in Legs, NEW p \in PlannedRow, NEW cs \in 1..MaxChangesets,
           links'[l] = AppendLink(links[l], p, cs)
    PROVE  /\ links'[l] \in Seq(LinkRow)
           /\ Len(links'[l]) = Len(links[l]) + 1
           /\ \A i \in DOMAIN links[l] :
                 links'[l][i] = IF i = p.old THEN [links[l][i] EXCEPT !.current = FALSE]
                                ELSE links[l][i]
           /\ links'[l][Len(links[l]) + 1] =
                 [action |-> p.action, box |-> p.box, cs |-> cs, current |-> TRUE]
<1> DEFINE rows == links[l]
<1>1. rows \in Seq(LinkRow)
    BY DEF TypeOK
<1> HIDE DEF rows
<1>2. /\ AppendLink(rows, p, cs) \in Seq(LinkRow)
      /\ Len(AppendLink(rows, p, cs)) = Len(rows) + 1
      /\ \A i \in DOMAIN rows :
            AppendLink(rows, p, cs)[i] =
               IF i = p.old THEN [rows[i] EXCEPT !.current = FALSE] ELSE rows[i]
      /\ AppendLink(rows, p, cs)[Len(rows) + 1] =
               [action |-> p.action, box |-> p.box, cs |-> cs, current |-> TRUE]
    BY <1>1, AppendLinkType
<1>3. QED
    BY <1>2, Zenon DEF rows

\* The unique index lets a commit supersede only the newest row of a leg.
LEMMA NewestStep ==
    TypeOK /\ OpsOK /\ NewestLinkIsCurrent /\ [Next]_vars => NewestLinkIsCurrent'
<1> SUFFICES ASSUME TypeOK, OpsOK, NewestLinkIsCurrent, [Next]_vars
             PROVE  NewestLinkIsCurrent'
    OBVIOUS
<1>1. ASSUME NEW a \in Admins, Commit(a), NEW l \in Legs, NEW i \in DOMAIN links'[l]
      PROVE  links'[l][i].current <=> i = Len(links'[l])
    <2>1. links[l] \in Seq(LinkRow) /\ Len(links[l]) \in Nat
        BY DEF TypeOK
    <2>2. CASE links'[l] = links[l]
        BY <1>1, <2>2 DEF NewestLinkIsCurrent
    <2>3. CASE links'[l] # links[l]
        <3>1. PICK p \in txn[a].plan :
                /\ p.leg = l /\ p \in PlannedRow /\ LinkIndexFree(p)
                /\ changesets + 1 \in 1..MaxChangesets
                /\ links'[l] = AppendLink(links[l], p, changesets + 1)
            BY <1>1, <2>3, CommitLinks
        <3>2. \A k \in DOMAIN links[l] : links[l][k].current => k = p.old
            BY <3>1 DEF LinkIndexFree
        <3>3. Len(links'[l]) = Len(links[l]) + 1 /\ links'[l] \in Seq(LinkRow)
            BY <2>1, <3>1, AppendedRow
        <3>4. CASE i = Len(links[l]) + 1
            <4>1. links'[l][i] = [action |-> p.action, box |-> p.box,
                                  cs |-> changesets + 1, current |-> TRUE]
                BY <2>1, <3>1, <3>4, AppendedRow
            <4>2. QED
                BY <3>3, <3>4, <4>1
        <3>5. CASE i \in DOMAIN links[l]
            <4>1. links'[l][i] = IF i = p.old THEN [links[l][i] EXCEPT !.current = FALSE]
                                ELSE links[l][i]
                BY <2>1, <3>1, <3>5, AppendedRow
            <4>2. links[l][i] \in LinkRow
                BY <2>1, <3>5
            <4>3. links'[l][i].current = FALSE
                BY <3>2, <3>5, <4>1, <4>2 DEF LinkRow
            <4>4. QED
                BY <2>1, <3>3, <3>5, <4>3
        <3>6. QED
            BY <1>1, <2>1, <3>3, <3>4, <3>5
    <2>4. QED
        BY <2>2, <2>3
<1>2. ASSUME UNCHANGED links PROVE NewestLinkIsCurrent'
    BY <1>2 DEF NewestLinkIsCurrent
<1>3. QED
    BY <1>1, <1>2, OnlyCommitWritesLinks DEF NewestLinkIsCurrent

\* No step rewrites, removes or revives a link row.
LEMMA AppendOnlyStep ==
    ASSUME TypeOK, OpsOK, [Next]_vars, NEW l \in Legs
    PROVE  /\ Len(links'[l]) >= Len(links[l])
           /\ \A i \in DOMAIN links[l] :
                /\ links'[l][i].action = links[l][i].action
                /\ links'[l][i].box = links[l][i].box
                /\ links'[l][i].cs = links[l][i].cs
                /\ links'[l][i].current => links[l][i].current
<1>1. links[l] \in Seq(LinkRow) /\ Len(links[l]) \in Nat
    BY DEF TypeOK
<1>2. CASE links'[l] = links[l]
    BY <1>1, <1>2
<1>3. CASE links'[l] # links[l]
    <2>1. PICK a \in Admins : Commit(a)
        BY <1>3, OnlyCommitWritesLinks
    <2>2. PICK p \in txn[a].plan :
            /\ p \in PlannedRow /\ changesets + 1 \in 1..MaxChangesets
            /\ links'[l] = AppendLink(links[l], p, changesets + 1)
        BY <1>3, <2>1, CommitLinks
    <2>3. Len(links'[l]) = Len(links[l]) + 1
        BY <1>1, <2>2, AppendedRow
    <2>4. ASSUME NEW i \in DOMAIN links[l]
          PROVE  /\ links'[l][i].action = links[l][i].action
                 /\ links'[l][i].box = links[l][i].box
                 /\ links'[l][i].cs = links[l][i].cs
                 /\ links'[l][i].current => links[l][i].current
        <3>1. links'[l][i] = IF i = p.old THEN [links[l][i] EXCEPT !.current = FALSE]
                            ELSE links[l][i]
            BY <1>1, <2>2, AppendedRow
        <3>2. links[l][i] \in LinkRow
            BY <1>1
        <3>3. QED
            BY <3>1, <3>2 DEF LinkRow
    <2>5. QED
        BY <1>1, <2>3, <2>4
<1>4. QED
    BY <1>2, <1>3

---------------------------------------------------------------------------
(* Rows of core.strategy are never taken away again.                       *)

LEMMA BoxesStayInUse ==
    ASSUME TypeOK, OpsOK, [Next]_vars, NEW b \in Boxes, box[b].state # "free"
    PROVE  box'[b].state # "free"
<1>1. ASSUME NEW a \in Admins, Commit(a) PROVE box'[b].state # "free"
    <2> DEFINE w == txn[a].boxw
    <2>1. box' = WriteBox(w, changesets + 1) /\ box \in [Boxes -> BoxState]
        BY <1>1 DEF Commit, TypeOK
    <2>2. w \in BoxWrite
        BY DEF TypeOK, Txn
    <2>3. box[b] \in BoxState
        BY <2>1
    <2>4. CASE w.kind = "none"
        BY <2>1, <2>4 DEF WriteBox
    <2>5. CASE w.kind = "insert"
        <3>1. box' = [box EXCEPT ![NextId] = [state |-> "active", name |-> w.name,
                                              key |-> w.key, delCs |-> 0]]
            BY <2>1, <2>5 DEF WriteBox
        <3>2. QED
            BY <2>1, <3>1
    <2>6. CASE w.kind = "rename"
        <3>1. box' = [box EXCEPT ![w.id].name = w.name]
            BY <2>1, <2>6 DEF WriteBox
        <3>2. [box[b] EXCEPT !.name = w.name].state = box[b].state
            BY <2>3 DEF BoxState
        <3>3. QED
            BY <2>1, <3>1, <3>2
    <2>7. CASE w.kind = "delete"
        <3>1. box' = [box EXCEPT ![w.id] = [box[w.id] EXCEPT !.state = "deleted",
                                                            !.delCs = changesets + 1]]
            BY <2>1, <2>7 DEF WriteBox
        <3>2. [box[b] EXCEPT !.state = "deleted", !.delCs = changesets + 1].state = "deleted"
            BY <2>3 DEF BoxState
        <3>3. box'[b] = IF b = w.id THEN [box[b] EXCEPT !.state = "deleted",
                                                       !.delCs = changesets + 1]
                        ELSE box[b]
            BY <2>1, <3>1
        <3>4. QED
            BY <3>2, <3>3
    <2>8. CASE w.kind = "restore"
        <3>1. box' = [box EXCEPT ![w.id] = [state |-> "active", name |-> NameWritten(w),
                                            key |-> KeyWritten(w), delCs |-> 0]]
            BY <2>1, <2>8 DEF WriteBox
        <3>2. QED
            BY <2>1, <3>1
    <2>9. QED
        BY <2>2, <2>4, <2>5, <2>6, <2>7, <2>8 DEF BoxWrite, NoBoxWrite
<1>2. ASSUME UNCHANGED box PROVE box'[b].state # "free"
    BY <1>2
<1>3. ASSUME NEW a \in Admins, NEW t, Start(a, t) PROVE UNCHANGED box
    BY <1>3 DEF Start
<1>4. ASSUME NEW a \in Admins, Abort(a) \/ RequestRecompute(a) PROVE UNCHANGED box
    BY <1>4 DEF Abort, RequestRecompute
<1>5. ASSUME Pipeline \/ UNCHANGED vars PROVE UNCHANGED box
    BY <1>5 DEF Pipeline, vars
<1>6. QED
    BY <1>1, <1>2, <1>3, <1>4, <1>5, BeginStarts DEF Next

\* A row of core.strategy stays one.
LEMMA InUseGrows ==
    ASSUME TypeOK, OpsOK, [Next]_vars
    PROVE  InUse \subseteq InUse'
    BY BoxesStayInUse DEF InUse

LEMMA BeginApplyRefs ==
    ASSUME RefsOK, NEW a \in Admins, BeginApply(a)
    PROVE  \E t : Start(a, t) /\ NamesRows(t, InUse)
<1>0. PICK moved \in SUBSET OnBoard : \E target \in [moved -> Active] :
        Start(a, [Idle EXCEPT !.op = "apply",
                     !.plan = {PlanRow(l, "pin", target[l]) :
                                 l \in {m \in moved : Writes(m, "pin", target[m])}}])
    BY DEF BeginApply
<1>1. PICK target \in [moved -> Active] :
        Start(a, [Idle EXCEPT !.op = "apply",
                     !.plan = {PlanRow(l, "pin", target[l]) :
                                 l \in {m \in moved : Writes(m, "pin", target[m])}}])
    BY <1>0
<1> DEFINE plan == {PlanRow(l, "pin", target[l]) :
                      l \in {m \in moved : Writes(m, "pin", target[m])}}
           t == [Idle EXCEPT !.op = "apply", !.plan = plan]
<1>2. \A p \in plan : p.box \in InUse
    BY DEF PlanRow, InUse, Active
<1>3. Start(a, t)
    BY <1>1
<1> HIDE DEF plan
<1>4. t.plan = plan /\ t.boxw.id = NoBox
    BY DEF Idle, NoBoxWrite
<1> HIDE DEF t
<1>5. QED
    BY <1>2, <1>3, <1>4 DEF NamesRows, InUse

LEMMA BeginResetRefs ==
    ASSUME RefsOK, NEW a \in Admins, BeginReset(a)
    PROVE  \E t : Start(a, t) /\ NamesRows(t, InUse)
<1>1. PICK chosen \in SUBSET OnBoard :
        Start(a, [Idle EXCEPT !.op = "reset",
                     !.plan = {PlanRow(l, "unpin", NoBox) :
                                 l \in {m \in chosen : Writes(m, "unpin", NoBox)}}])
    BY DEF BeginReset
<1> DEFINE plan == {PlanRow(l, "unpin", NoBox) :
                      l \in {m \in chosen : Writes(m, "unpin", NoBox)}}
           t == [Idle EXCEPT !.op = "reset", !.plan = plan]
<1>2. \A p \in plan : p.box \in InUse
    BY DEF PlanRow, InUse
<1>3. Start(a, t)
    BY <1>1
<1> HIDE DEF plan
<1>4. t.plan = plan /\ t.boxw.id = NoBox
    BY DEF Idle, NoBoxWrite
<1> HIDE DEF t
<1>5. QED
    BY <1>2, <1>3, <1>4 DEF NamesRows, InUse

LEMMA BeginDeleteRefs ==
    ASSUME RefsOK, NEW a \in Admins, BeginDelete(a)
    PROVE  \E t : Start(a, t) /\ NamesRows(t, InUse)
<1>1. PICK b \in Active \ {Unassigned} :
        Start(a, [Idle EXCEPT !.op = "delete",
                     !.plan = {PlanRow(l, "pin", Unassigned) :
                                 l \in {m \in {k \in OnBoard : Effective(k).sid = b} :
                                            Writes(m, "pin", Unassigned)}},
                     !.boxw = [kind |-> "delete", id |-> b],
                     !.saw = OnBoard, !.fresh = goldBoxes = Active])
    BY DEF BeginDelete
<1> DEFINE plan == {PlanRow(l, "pin", Unassigned) :
                      l \in {m \in {k \in OnBoard : Effective(k).sid = b} :
                                 Writes(m, "pin", Unassigned)}}
           fresh == goldBoxes = Active
           t == [Idle EXCEPT !.op = "delete", !.plan = plan,
                    !.boxw = [kind |-> "delete", id |-> b],
                    !.saw = OnBoard, !.fresh = fresh]
<1>2. \A p \in plan : p.box \in InUse
    BY UnassignedType DEF PlanRow, RefsOK
<1>3. Start(a, t)
    BY <1>1
<1> HIDE DEF plan, fresh
<1>4. t.plan = plan /\ t.boxw.id = b
    BY DEF Idle
<1>5. b \in InUse
    BY DEF Active, InUse
<1> HIDE DEF t
<1>6. QED
    BY <1>2, <1>3, <1>4, <1>5 DEF NamesRows

LEMMA BeginUndoRefs ==
    ASSUME RefsOK, NEW a \in Admins, BeginUndo(a)
    PROVE  \E t : Start(a, t) /\ NamesRows(t, InUse)
<1> DEFINE rows(cs) == {r \in Legs \X (1..MaxChangesets) :
                          /\ r[2] \in DOMAIN links[r[1]]
                          /\ links[r[1]][r[2]].cs = cs
                          /\ links[r[1]][r[2]].current}
           plan(cs) == {p \in {RevertRow(r[1], r[2]) : r \in rows(cs)} :
                          p.box \in PinBackTo(DeletedBy(cs))}
           boxw(cs) == IF DeletedBy(cs) = {} THEN NoBoxWrite
                       ELSE RestoreOf(CHOOSE b \in DeletedBy(cs) : TRUE)
<1>1. PICK cs \in 1..changesets :
        Start(a, [Idle EXCEPT !.op = "undo", !.plan = plan(cs), !.undoes = cs,
                              !.boxw = boxw(cs)])
    BY DEF BeginUndo
<1> DEFINE t == [Idle EXCEPT !.op = "undo", !.plan = plan(cs), !.undoes = cs,
                             !.boxw = boxw(cs)]
<1>2. DeletedBy(cs) \subseteq InUse
    BY DEF DeletedBy, InUse
<1>3. \A p \in plan(cs) : p.box \in InUse
    BY <1>2 DEF PinBackTo, Active, InUse
<1>4. boxw(cs).id \in InUse
    <2>1. CASE DeletedBy(cs) = {}
        BY <2>1 DEF NoBoxWrite, InUse
    <2>2. CASE DeletedBy(cs) # {}
        <3>1. PICK b \in DeletedBy(cs) : boxw(cs) = RestoreOf(b)
            BY <2>2
        <3> HIDE DEF boxw
        <3>2. boxw(cs).id = b
            BY <3>1 DEF RestoreOf
        <3>3. QED
            BY <1>2, <3>2
    <2>3. QED
        BY <2>1, <2>2
<1>5. Start(a, t)
    BY <1>1
<1> HIDE DEF plan, boxw
<1>6. t.plan = plan(cs) /\ t.boxw = boxw(cs)
    BY DEF Idle
<1> HIDE DEF t
<1>7. QED
    BY <1>3, <1>4, <1>5, <1>6 DEF NamesRows

\* What a transaction plans to write only names rows of core.strategy.
LEMMA BeginRefs ==
    ASSUME RefsOK, NEW a \in Admins,
           \/ BeginApply(a) \/ BeginReset(a) \/ BeginDelete(a)
           \/ BeginUndo(a) \/ BeginCreate(a) \/ BeginUpdate(a)
    PROVE  \E t : Start(a, t) /\ NamesRows(t, InUse)
<1>1. CASE BeginCreate(a)
    <2>1. PICK boxw : boxw.kind = "insert"
                      /\ Start(a, [Idle EXCEPT !.op = "create", !.boxw = boxw])
        BY <1>1 DEF BeginCreate
    <2> DEFINE t == [Idle EXCEPT !.op = "create", !.boxw = boxw]
    <2>2. t.plan = {} /\ t.boxw = boxw
        BY DEF Idle
    <2>3. Start(a, t)
        BY <2>1
    <2> HIDE DEF t
    <2>4. QED
        BY <2>1, <2>2, <2>3 DEF NamesRows
<1>2. CASE BeginUpdate(a)
    <2>1. PICK b \in Active : \E boxw :
            boxw.id = b /\ Start(a, [Idle EXCEPT !.op = "update", !.boxw = boxw])
        BY <1>2 DEF BeginUpdate
    <2>2. PICK boxw :
            boxw.id = b /\ Start(a, [Idle EXCEPT !.op = "update", !.boxw = boxw])
        BY <2>1
    <2> DEFINE t == [Idle EXCEPT !.op = "update", !.boxw = boxw]
    <2>3. t.plan = {} /\ t.boxw = boxw
        BY DEF Idle
    <2>4. Start(a, t)
        BY <2>2
    <2> HIDE DEF t
    <2>5. QED
        BY <2>2, <2>3, <2>4 DEF NamesRows, Active, InUse
<1>3. QED
    BY <1>1, <1>2, BeginApplyRefs, BeginResetRefs, BeginDeleteRefs, BeginUndoRefs

LEMMA RefsStep == TypeOK /\ OpsOK /\ RefsOK /\ [Next]_vars => RefsOK'
<1> SUFFICES ASSUME TypeOK, OpsOK, RefsOK, [Next]_vars PROVE RefsOK'
    OBVIOUS
<1>0. InUse \subseteq InUse'
    BY InUseGrows
<1>1. 1..NumSeeded \subseteq InUse'
    BY <1>0 DEF RefsOK
<1>2. ASSUME NEW l \in Legs, NEW i \in DOMAIN links'[l]
      PROVE  links'[l][i].box \in InUse'
    <2>1. links[l] \in Seq(LinkRow)
        BY DEF TypeOK
    <2>2. \A k \in DOMAIN links[l] : links[l][k].box \in InUse'
        BY <1>0 DEF RefsOK
    <2>3. CASE links'[l] = links[l]
        BY <1>2, <2>2, <2>3
    <2>4. CASE links'[l] # links[l]
        <3>1. PICK a \in Admins : Commit(a)
            BY <2>4, OnlyCommitWritesLinks
        <3>2. PICK p \in txn[a].plan :
                /\ p \in PlannedRow /\ changesets + 1 \in 1..MaxChangesets
                /\ links'[l] = AppendLink(links[l], p, changesets + 1)
            BY <2>4, <3>1, CommitLinks
        <3>3. Len(links'[l]) = Len(links[l]) + 1 /\ links'[l] \in Seq(LinkRow)
            BY <3>2, AppendedRow
        <3>4. CASE i \in DOMAIN links[l]
            <4>1. links'[l][i].box = links[l][i].box
                BY <3>4, AppendOnlyStep
            <4>2. QED
                BY <2>2, <3>4, <4>1
        <3>5. CASE i = Len(links[l]) + 1
            <4>1. links'[l][i] = [action |-> p.action, box |-> p.box,
                                  cs |-> changesets + 1, current |-> TRUE]
                BY <2>1, <3>2, <3>5, AppendedRow
            <4>2. p.box \in InUse
                BY <3>1, <3>2 DEF RefsOK, NamesRows
            <4>3. QED
                BY <1>0, <4>1, <4>2
        <3>6. QED
            BY <1>2, <2>1, <3>3, <3>4, <3>5
    <2>5. QED
        BY <2>3, <2>4
<1>3. ASSUME NEW a \in Admins PROVE NamesRows(txn'[a], InUse')
    <2>1. NamesRows(Idle, InUse) /\ NamesRows([Idle EXCEPT !.op = "committed"], InUse)
        BY DEF Idle, NoBoxWrite, InUse, NamesRows
    <2>2. NamesRows(txn[a], InUse)
        BY DEF RefsOK
    <2>3. NamesRows(txn'[a], InUse)
        <3>1. ASSUME NEW c \in Admins, Commit(c) \/ Abort(c) \/ RequestRecompute(c)
              PROVE  NamesRows(txn'[a], InUse)
            <4>1. \/ txn' = [txn EXCEPT ![c] = Idle]
                  \/ txn' = [txn EXCEPT ![c] = [Idle EXCEPT !.op = "committed"]]
                BY <3>1 DEF Commit, Abort, RequestRecompute
            <4>2. txn'[a] \in {txn[a], Idle, [Idle EXCEPT !.op = "committed"]}
                BY <4>1 DEF TypeOK
            <4>3. QED
                BY <2>1, <2>2, <4>2
        <3>2. ASSUME Pipeline \/ UNCHANGED vars PROVE NamesRows(txn'[a], InUse)
            BY <2>2, <3>2 DEF Pipeline, vars
        <3>3. ASSUME NEW c \in Admins,
                     \/ BeginApply(c) \/ BeginReset(c) \/ BeginDelete(c)
                     \/ BeginUndo(c) \/ BeginCreate(c) \/ BeginUpdate(c)
              PROVE  NamesRows(txn'[a], InUse)
            <4>1. PICK t : Start(c, t) /\ NamesRows(t, InUse)
                BY <3>3, BeginRefs
            <4>2. txn'[a] = IF a = c THEN t ELSE txn[a]
                BY <4>1 DEF Start, TypeOK
            <4>3. QED
                BY <2>2, <4>1, <4>2
        <3>4. QED
            BY <3>1, <3>2, <3>3 DEF Next
    <2>4. QED
        BY <1>0, <2>3 DEF NamesRows
<1>4. QED
    BY <1>1, <1>2, <1>3 DEF RefsOK

---------------------------------------------------------------------------
(* A stale board is being recomputed.                                      *)

\* What a leg resolves to depends on its links and on which of the known
\* boxes are active.
LEMMA ResolveKept ==
    ASSUME TypeOK, RefsOK, UNCHANGED links,
           \A b \in InUse : b \in Active <=> b \in Active',
           NEW l \in Legs
    PROVE  Resolve(l)' = Resolve(l)
<1>1. CurrentLink(l)' = CurrentLink(l)
    BY DEF CurrentLink, RowAt, CurrentAt, CurrentRows
<1>2. CurrentLink(l).box \in InUse
    <2>1. CurrentAt(l) # 0 => links[l][CurrentAt(l)].box \in InUse
        BY CurrentAtType DEF RefsOK
    <2>2. QED
        BY <2>1 DEF CurrentLink, RowAt, NoRow, InUse
<1>3. PinBox(l)' = PinBox(l)
    BY <1>1, <1>2 DEF PinBox
<1>4. RulePref[l] \in Seq(1..NumSeeded)
    BY BoundsAssumption
<1>5. \A i \in DOMAIN RulePref[l] : RulePref[l][i] \in InUse
    <2>1. \A S : \A s \in Seq(S) : \A i \in DOMAIN s : s[i] \in S
        OBVIOUS
    <2>2. \A i \in DOMAIN RulePref[l] : RulePref[l][i] \in 1..NumSeeded
        BY <1>4, <2>1, Zenon
    <2>3. QED
        BY <2>2 DEF RefsOK
<1>6. RuleHits(l)' = RuleHits(l)
    BY <1>5 DEF RuleHits
<1>7. RuleBox(l)' = RuleBox(l)
    BY <1>6 DEF RuleBox
<1>8. QED
    BY <1>3, <1>7 DEF Resolve

\* A create or a rename moves no leg: it leaves the known boxes as active as
\* they were, and a new box takes a row nothing refers to.
LEMMA NoChangesetMovesNothing ==
    ASSUME TypeOK, OpsOK, RefsOK, NEW a \in Admins, Commit(a),
           ~MakesChangeset(txn[a]), NEW l \in Legs
    PROVE  Resolve(l)' = Resolve(l)
<1> DEFINE w == txn[a].boxw
<1>1. txn[a].plan = {} /\ w.kind \in {"insert", "rename"}
    BY DEF OpsOK, Commit, MakesChangeset
<1>2. UNCHANGED links
    <2>1. links' = [k \in Legs |-> links[k]]
        BY <1>1 DEF Commit
    <2>2. QED
        BY <2>1 DEF TypeOK
<1>3. box' = WriteBox(w, changesets + 1) /\ box \in [Boxes -> BoxState]
    BY DEF Commit, TypeOK
<1> HIDE DEF BoxState
<1>4. \A b \in InUse : b \in Active <=> b \in Active'
    <2>1. CASE w.kind = "insert"
        <3>1. NextId \in FreeRows
            BY <2>1, NextIdFree DEF Commit
        <3>2. box' = [box EXCEPT ![NextId] = [state |-> "active", name |-> w.name,
                                              key |-> w.key, delCs |-> 0]]
            BY <1>3, <2>1 DEF WriteBox
        <3>3. NextId \in Boxes /\ box[NextId].state = "free"
            BY <3>1 DEF FreeRows
        <3>4. \A b \in Boxes : b # NextId => box'[b] = box[b]
            BY <1>3, <3>2
        <3>5. NoBox \notin Boxes
            BY DEF NoBox, Boxes
        <3> HIDE DEF w
        <3>6. QED
            BY <3>3, <3>4, <3>5 DEF InUse, Active
    <2>2. CASE w.kind = "rename"
        <3>1. box' = [box EXCEPT ![w.id].name = w.name]
            BY <1>3, <2>2 DEF WriteBox
        <3>2. ASSUME NEW b \in Boxes PROVE box'[b].state = box[b].state
            <4>1. box[b] \in BoxState
                BY <1>3
            <4>2. [box[b] EXCEPT !.name = w.name].state = box[b].state
                BY <4>1 DEF BoxState
            <4>3. QED
                BY <1>3, <3>1, <4>2
        <3>3. QED
            BY <3>2 DEF Active
    <2>3. QED
        BY <1>1, <2>1, <2>2
<1>5. QED
    BY <1>2, <1>4, ResolveKept

LEMMA StaleStep ==
    TypeOK /\ OpsOK /\ RefsOK /\ StaleGoldIsSyncing /\ [Next]_vars => StaleGoldIsSyncing'
<1> SUFFICES ASSUME TypeOK, OpsOK, RefsOK, StaleGoldIsSyncing, [Next]_vars
             PROVE  StaleGoldIsSyncing'
    OBVIOUS
<1> DEFINE Coming == recompute \/ \E a \in Admins : txn[a].op = "committed"
<1>1. ASSUME Coming => Coming', UNCHANGED gold,
             \A l \in Legs : Resolve(l)' = Resolve(l)
      PROVE  StaleGoldIsSyncing'
    <2>1. OnBoard' = OnBoard
        BY <1>1 DEF OnBoard
    <2> HIDE DEF Coming
    <2>2. (\E l \in OnBoard : gold[l] # Resolve(l)) => Coming
        BY DEF StaleGoldIsSyncing, Coming
    <2>3. (\E l \in OnBoard' : gold'[l] # Resolve(l)') => Coming'
        BY <1>1, <2>1, <2>2 DEF OnBoard
    <2>4. QED
        BY <2>3 DEF StaleGoldIsSyncing, Coming
<1>2. ASSUME UNCHANGED <<box, links>> PROVE \A l \in Legs : Resolve(l)' = Resolve(l)
    BY <1>2, ResolveKept DEF Active
<1>3. ASSUME NEW a \in Admins, Commit(a), MakesChangeset(txn[a])
      PROVE  StaleGoldIsSyncing'
    <2>1. txn' = [txn EXCEPT ![a] = [Idle EXCEPT !.op = "committed"]]
        BY <1>3 DEF Commit
    <2>2. txn'[a].op = "committed"
        BY <2>1 DEF TypeOK, Idle
    <2>3. QED
        BY <2>2 DEF StaleGoldIsSyncing
<1>4. ASSUME NEW a \in Admins, Commit(a), ~MakesChangeset(txn[a])
      PROVE  StaleGoldIsSyncing'
    <2>1. \A l \in Legs : Resolve(l)' = Resolve(l)
        BY <1>4, NoChangesetMovesNothing
    <2>2. txn' = [txn EXCEPT ![a] = Idle] /\ UNCHANGED <<gold, recompute>>
        BY <1>4 DEF Commit
    <2>3. txn[a].op # "committed"
        BY <1>4 DEF Commit
    <2>4. Coming => Coming'
        BY <2>2, <2>3 DEF TypeOK
    <2>5. QED
        BY <1>1, <2>1, <2>2, <2>4
<1>5. ASSUME NEW a \in Admins, Abort(a) PROVE StaleGoldIsSyncing'
    <2>1. Coming => Coming'
        BY <1>5 DEF Abort, TypeOK
    <2>2. QED
        BY <1>1, <1>2, <1>5, <2>1 DEF Abort
<1>6. ASSUME NEW a \in Admins, RequestRecompute(a) PROVE StaleGoldIsSyncing'
    BY <1>6 DEF RequestRecompute, StaleGoldIsSyncing
<1>7. ASSUME NEW a \in Admins, NEW t, Start(a, t) PROVE StaleGoldIsSyncing'
    <2>1. txn[a].op # "committed"
        BY <1>7 DEF Start, Idle
    <2>2. Coming => Coming'
        BY <1>7, <2>1 DEF Start, TypeOK
    <2>3. QED
        BY <1>1, <1>2, <1>7, <2>2 DEF Start
<1>8. ASSUME Pipeline PROVE StaleGoldIsSyncing'
    <2>1. \A l \in Legs : Resolve(l)' = Resolve(l)
        BY <1>2, <1>8 DEF Pipeline
    <2>2. \A l \in Legs : gold'[l] \in {NoLeg, Resolve(l)}
        BY <1>8 DEF Pipeline
    <2>3. \A l \in OnBoard' : gold'[l] = Resolve(l)'
        BY <2>1, <2>2 DEF OnBoard
    <2>4. QED
        BY <2>3 DEF StaleGoldIsSyncing
<1>9. ASSUME UNCHANGED vars PROVE StaleGoldIsSyncing'
    <2>1. Coming => Coming'
        BY <1>9 DEF vars
    <2>2. QED
        BY <1>1, <1>2, <1>9, <2>1 DEF vars
<1> HIDE DEF Coming
<1>10. QED
    BY <1>3, <1>4, <1>5, <1>6, <1>7, <1>8, <1>9, BeginStarts DEF Next

---------------------------------------------------------------------------
(* The inductive invariant, and the theorems.                              *)

LEMMA InitIInv == Init => IInv
<1> SUFFICES ASSUME Init PROVE IInv
    OBVIOUS
<1>1. TypeOK
    BY InitType
<1>2. NewestLinkIsCurrent
    BY DEF Init, NewestLinkIsCurrent
<1>3. RefsOK
    <2>1. \A b \in 1..NumSeeded : b \in Boxes /\ b <= NumSeeded
        BY BoundsAssumption DEF Boxes
    <2>2. 1..NumSeeded \subseteq InUse
        BY <2>1 DEF Init, InUse
    <2>3. NamesRows(Idle, InUse)
        BY DEF NamesRows, Idle, NoBoxWrite, InUse
    <2>4. QED
        BY <2>2, <2>3 DEF Init, RefsOK
<1>4. OpsOK
    BY DEF Init, OpsOK, Idle
<1>5. StaleGoldIsSyncing
    BY DEF Init, StaleGoldIsSyncing, OnBoard
<1>6. QED
    BY <1>1, <1>2, <1>3, <1>4, <1>5 DEF IInv

\* IInv holds in every reachable state.
LEMMA Inductive == Spec => []IInv
<1>1. IInv /\ [Next]_vars => IInv'
    BY TypeStep, NewestStep, RefsStep, OpsStep, StaleStep DEF IInv
<1>2. QED
    BY InitIInv, <1>1, PTL DEF Spec

\* Every table row and open transaction stays well formed, for any number of
\* concurrent admins.
THEOREM TypeCorrect == Spec => []TypeOK
<1>1. IInv => TypeOK
    BY DEF IInv
<1>2. QED
    BY Inductive, <1>1, PTL

\* However the transactions of concurrent admins interleave, exactly the
\* newest link row of a leg is its current one.
THEOREM Newest == Spec => []NewestLinkIsCurrent
<1>1. IInv => NewestLinkIsCurrent
    BY DEF IInv
<1>2. QED
    BY Inductive, <1>1, PTL

\* The manual links only ever grow: no commit rewrites or revives a row.
THEOREM AppendOnly == Spec => LinksAppendOnly
<1>1. IInv => TypeOK /\ OpsOK
    BY DEF IInv
<1>2. ASSUME TypeOK, OpsOK, [Next]_vars
      PROVE  [\A l \in Legs :
                 /\ Len(links'[l]) >= Len(links[l])
                 /\ \A i \in DOMAIN links[l] :
                       /\ links'[l][i].action = links[l][i].action
                       /\ links'[l][i].box = links[l][i].box
                       /\ links'[l][i].cs = links[l][i].cs
                       /\ links'[l][i].current => links[l][i].current]_vars
    BY <1>2, AppendOnlyStep
<1>3. QED
    BY Inductive, <1>1, <1>2, PTL DEF Spec, LinksAppendOnly

\* A board that no longer agrees with the links and rules always has a
\* recompute on its way, whatever the admins do.
THEOREM Syncing == Spec => []StaleGoldIsSyncing
<1>1. IInv => StaleGoldIsSyncing
    BY DEF IInv
<1>2. QED
    BY Inductive, <1>1, PTL

---------------------------------------------------------------------------
(* What the Box builder promises a single admin, for any number of legs,    *)
(* boxes, rules and changesets, with pipeline runs at any time.  With two   *)
(* admins it is not so: each may decide on a state the other changes.       *)

OneAdmin == \A a, b \in Admins : a = b

\* strategy.csv of each seed folder gives every box a name of its own
SeedNamesDiffer == \A b, c \in 1..NumSeeded : SeedName[b] = SeedName[c] => b = c

---------------------------------------------------------------------------
(* Resolution as a function of the link and the set of active boxes.       *)

HitsIn(l, S) == {i \in DOMAIN RulePref[l] : RulePref[l][i] \in S}
RuleIn(l, S) ==
    IF HitsIn(l, S) = {} THEN NoBox
    ELSE RulePref[l][CHOOSE i \in HitsIn(l, S) : \A j \in HitsIn(l, S) : i <= j]
RuledIn(l, S) == IF RuleIn(l, S) = NoBox THEN Unassigned ELSE RuleIn(l, S)
SourceIn(l, S) == IF RuleIn(l, S) = NoBox THEN "default" ELSE "rule"

ResolveIn(l, link, S) ==
    IF link.action = "pin" /\ link.box \in S
    THEN [sid |-> link.box, src |-> "manual", rule |-> RuledIn(l, S)]
    ELSE [sid |-> RuledIn(l, S), rule |-> RuledIn(l, S), src |-> SourceIn(l, S)]

---------------------------------------------------------------------------
(* The inductive invariant.                                                *)

\* The unassigned box is never deleted.
UnassignedOK == Unassigned \in Active

\* A changeset deletes at most one box, and undoing it brings back that one.
DeletionsOK ==
    /\ \A b \in Boxes : box[b].state = "deleted" => box[b].delCs \in 1..changesets
    /\ \A b, c \in Boxes :
          /\ box[b].state = "deleted" /\ box[c].state = "deleted"
          /\ box[b].delCs = box[c].delCs
          => b = c

\* A leg has at most one row per changeset, in their order.
RowsOK ==
    \A l \in Legs :
        /\ Len(links[l]) <= changesets
        /\ links[l] # <<>> => l \in OnBoard
        /\ \A i \in DOMAIN links[l] :
              /\ links[l][i].cs <= changesets
              /\ links[l][i].action = "pin" => links[l][i].box # NoBox

\* What gold remembers was computed from goldBoxes.
GoldOK ==
    \A l \in OnBoard :
        /\ gold[l].rule = RuledIn(l, goldBoxes)
        /\ gold[l].src = "manual" => links[l] # <<>>
        /\ gold[l].src # "manual" =>
              gold[l].sid = RuledIn(l, goldBoxes) /\ gold[l].src = SourceIn(l, goldBoxes)

\* The link of a leg before the newest changeset, and the boxes active then
LastLink(l) == RowAt(l, Len(links[l]))
LinkBefore(l) ==
    IF links[l] # <<>> /\ links[l][Len(links[l])].cs = changesets
    THEN RowAt(l, Len(links[l]) - 1) ELSE LastLink(l)
BoxesBefore == Active \cup DeletedBy(changesets)

\* `last` is what the links and boxes say of the time before the newest changeset.
LastOK ==
    /\ last.op = "none" => changesets = 0
    /\ last.op \in {"apply", "reset", "delete"} =>
          \A l \in Legs :
              /\ last.before[l] = ResolveIn(l, LinkBefore(l), BoxesBefore)
              /\ LinkBefore(l).action = "pin" => LinkBefore(l).box \in BoxesBefore

\* Each operation and the box row it writes
KindOf(t) ==
    /\ t.op \in {"apply", "reset", "idle", "committed"} => t.boxw.kind = "none"
    /\ t.op = "delete" => t.boxw.kind = "delete"
    /\ t.op = "undo" => t.boxw.kind \in {"none", "restore"}
    /\ t.op = "create" => t.boxw.kind = "insert"
    /\ t.op = "update" => t.boxw.kind = "rename"

\* The box row an open transaction is to write still fits the boxes.
BoxReady(w) ==
    /\ KeyIndexFree(w)
    /\ w.kind = "insert" => \A b \in Active : box[b].name # w.name
    /\ w.kind = "rename" => /\ w.id \in Active \ {Unassigned}
                            /\ \A b \in Active \ {w.id} : box[b].name # w.name
    /\ w.kind = "delete" => w.id \in Active \ {Unassigned}
    /\ w.kind = "restore" =>
          /\ w.id \in Boxes /\ w.was = box[w.id] /\ box[w.id].state = "deleted"
          /\ w.name.restored = 0 => \A b \in Active : box[b].name # w.name

\* The link rows an open transaction is to append still fit the links and boxes.
Planned(t, l) == \E p \in t.plan : p.leg = l
PlanReady(t) ==
    /\ \A p \in t.plan :
          /\ p.leg \in OnBoard
          /\ p.action = "pin" =>
                p.box \in Active \cup (IF t.boxw.kind = "restore" THEN {t.boxw.id} ELSE {})
    /\ t.op = "delete" =>
          /\ \A p \in t.plan : p.action = "pin" /\ p.box = Unassigned
          /\ \A l \in Legs : LastLink(l).action = "pin" /\ LastLink(l).box = t.boxw.id
                             => Planned(t, l)
          /\ t.fresh => \A l \in t.saw :
                ResolveIn(l, LastLink(l), Active).sid = t.boxw.id => Planned(t, l)

\* An undo reverts exactly the newest rows of its changeset that it may.
UndoReady(t) ==
    t.op = "undo" =>
        /\ t.undoes # 0
        /\ DeletedBy(t.undoes) = IF t.boxw.kind = "restore" THEN {t.boxw.id} ELSE {}
        /\ \A p \in t.plan :
              /\ links[p.leg] # <<>> /\ links[p.leg][Len(links[p.leg])].cs = t.undoes
              /\ p = RevertRow(p.leg, Len(links[p.leg]))
        /\ \A l \in Legs :
              /\ links[l] # <<>> /\ links[l][Len(links[l])].cs = t.undoes
              /\ RevertRow(l, Len(links[l])).box \in PinBackTo(DeletedBy(t.undoes))
              => Planned(t, l)

Ready(t) == KindOf(t) /\ BoxReady(t.boxw) /\ PlanReady(t) /\ UndoReady(t)
ReadyOK == \A a \in Admins : Ready(txn[a])

OneIInv ==
    /\ UnassignedOK /\ DeletionsOK /\ RowsOK /\ GoldOK /\ LastOK /\ ReadyOK
    /\ PinsAreActive /\ TypedNamesUnique

---------------------------------------------------------------------------
(* Links and resolution.                                                   *)

\* The newest row of a leg is its current one.
LEMMA CurrentIsLast ==
    ASSUME TypeOK, NewestLinkIsCurrent, NEW l \in Legs
    PROVE  CurrentAt(l) = Len(links[l]) /\ CurrentLink(l) = LastLink(l)
<1>1. links[l] \in Seq(LinkRow)
    BY DEF TypeOK
<1>2. CurrentRows(l) = {i \in DOMAIN links[l] : i = Len(links[l])}
    BY DEF CurrentRows, NewestLinkIsCurrent
<1>3. CASE Len(links[l]) = 0
    <2>1. CurrentRows(l) = {}
        BY <1>1, <1>2, <1>3
    <2>2. QED
        BY <1>3, <2>1 DEF CurrentAt, CurrentLink, LastLink
<1>4. CASE Len(links[l]) # 0
    <2>1. CurrentRows(l) = {Len(links[l])}
        BY <1>1, <1>2, <1>4
    <2>2. QED
        BY <2>1 DEF CurrentAt, CurrentLink, LastLink
<1>5. QED
    BY <1>3, <1>4

LEMMA LastLinkType ==
    ASSUME TypeOK, NEW l \in Legs
    PROVE  /\ LastLink(l).action \in {"none", "pin", "unpin"}
           /\ LastLink(l).action = "none" <=> links[l] = <<>>
<1>1. links[l] \in Seq(LinkRow)
    BY DEF TypeOK
<1>2. CASE links[l] = <<>>
    BY <1>2 DEF LastLink, RowAt, NoRow
<1>3. CASE links[l] # <<>>
    <2>1. Len(links[l]) # 0 /\ links[l][Len(links[l])] \in LinkRow
        BY <1>1, <1>3
    <2>2. QED
        BY <1>3, <2>1 DEF LastLink, RowAt, LinkRow
<1>4. QED
    BY <1>2, <1>3

\* Resolve is ResolveIn of the current link and today's boxes.
LEMMA ResolveIs ==
    ASSUME TypeOK, NewestLinkIsCurrent, NEW l \in Legs
    PROVE  Resolve(l) = ResolveIn(l, LastLink(l), Active)
<1>1. RuleHits(l) = HitsIn(l, Active)
    BY DEF RuleHits, HitsIn
<1>2. RuleBox(l) = RuleIn(l, Active)
    BY <1>1 DEF RuleBox, RuleIn
<1>3. CurrentLink(l) = LastLink(l)
    BY CurrentIsLast
<1>4. NoBox \notin Active
    BY DEF NoBox, Active, Boxes
<1>5. QED
    BY <1>2, <1>3, <1>4 DEF Resolve, ResolveIn, PinBox, RuledIn, SourceIn

\* The rules only name boxes that were seeded.
LEMMA RuleAgrees ==
    ASSUME NEW l \in Legs, NEW S, NEW T,
           \A b \in 1..NumSeeded : b \in S <=> b \in T
    PROVE  RuleIn(l, S) = RuleIn(l, T) /\ RuledIn(l, S) = RuledIn(l, T)
           /\ SourceIn(l, S) = SourceIn(l, T)
<1>1. RulePref[l] \in Seq(1..NumSeeded)
    BY BoundsAssumption
<1>2. \A X : \A s \in Seq(X) : \A i \in DOMAIN s : s[i] \in X
    OBVIOUS
<1>3. \A i \in DOMAIN RulePref[l] : RulePref[l][i] \in 1..NumSeeded
    BY <1>1, <1>2, Zenon
<1>4. HitsIn(l, S) = HitsIn(l, T)
    BY <1>3 DEF HitsIn
<1>5. RuleIn(l, S) = RuleIn(l, T)
    BY <1>4 DEF RuleIn
<1>6. QED
    BY <1>5 DEF RuledIn, SourceIn

\* With its link's box known to be active or not, a leg resolves alike.
LEMMA ResolveAgrees ==
    ASSUME NEW l \in Legs, NEW S, NEW T, NEW link,
           \A b \in 1..NumSeeded : b \in S <=> b \in T,
           link.action = "pin" => (link.box \in S <=> link.box \in T)
    PROVE  ResolveIn(l, link, S) = ResolveIn(l, link, T)
    BY RuleAgrees DEF ResolveIn

\* What the board shows is what the next run will make of today's boxes.
LEMMA BoardForesees ==
    ASSUME TypeOK, NewestLinkIsCurrent, GoldOK, PinsAreActive
    PROVE  BoardForeseesPipeline
<1> SUFFICES ASSUME goldBoxes = Active, NEW l \in OnBoard
             PROVE  /\ Effective(l).sid = Resolve(l).sid
                    /\ Effective(l).pending <=> <<gold[l].sid, gold[l].src>>
                                                # <<Resolve(l).sid, Resolve(l).src>>
    BY DEF BoardForeseesPipeline
<1>0. l \in Legs
    BY DEF OnBoard
<1> DEFINE link == LastLink(l)
           r == Resolve(l)
           ruled == RuledIn(l, Active)
           source == SourceIn(l, Active)
<1>1. CurrentLink(l) = link /\ r = ResolveIn(l, link, Active)
    BY <1>0, CurrentIsLast, ResolveIs
<1>2. /\ link.action \in {"none", "pin", "unpin"}
      /\ link.action = "none" <=> links[l] = <<>>
    BY <1>0, LastLinkType
<1>3. /\ gold[l].rule = ruled
      /\ gold[l].src = "manual" => links[l] # <<>>
      /\ gold[l].src # "manual" => gold[l].sid = ruled /\ gold[l].src = source
    BY DEF GoldOK
<1>4. source # "manual"
    BY DEF SourceIn
<1>5. link.action = "pin" => link.box \in Active
    BY <1>0, <1>1 DEF PinsAreActive
<1> HIDE DEF link, r, ruled, source
<1>6. CASE link.action = "pin"
    <2>1. r = [sid |-> link.box, src |-> "manual", rule |-> ruled]
        BY <1>1, <1>5, <1>6 DEF ResolveIn, ruled
    <2> DEFINE changed == link.box # gold[l].sid \/ gold[l].src # "manual"
    <2>2. Effective(l) = [sid |-> link.box, pending |-> changed]
        BY <1>1, <1>6 DEF Effective
    <2>3. changed \in BOOLEAN
        OBVIOUS
    <2>4. changed <=> <<gold[l].sid, gold[l].src>> # <<Resolve(l).sid, Resolve(l).src>>
        BY <2>1 DEF r
    <2>5. Resolve(l).sid = link.box
        BY <2>1 DEF r
    <2> HIDE DEF changed
    <2>6. Effective(l).sid = link.box /\ Effective(l).pending = changed
        BY <2>2
    <2>7. QED
        BY <2>3, <2>4, <2>5, <2>6
<1>7. CASE link.action # "pin"
    <2>1. r = [sid |-> ruled, rule |-> ruled, src |-> source]
        BY <1>1, <1>7 DEF ResolveIn, ruled, source
    <2>2. CASE link.action = "unpin" /\ gold[l].src = "manual"
        <3>1. Effective(l) = [sid |-> gold[l].rule, pending |-> TRUE]
            BY <1>1, <2>2 DEF Effective
        <3>2. QED
            BY <1>3, <1>4, <2>1, <2>2, <3>1 DEF r
    <2>3. CASE ~(link.action = "unpin" /\ gold[l].src = "manual")
        <3>1. Effective(l) = [sid |-> gold[l].sid, pending |-> FALSE]
            BY <1>1, <1>7, <2>3 DEF Effective
        <3>2. gold[l].src # "manual"
            BY <1>2, <1>3, <1>7, <2>3
        <3>3. QED
            BY <1>3, <2>1, <3>1, <3>2 DEF r
    <2>4. QED
        BY <2>2, <2>3
<1>8. QED
    BY <1>6, <1>7
---------------------------------------------------------------------------
(* Steps that change no box and no link.                                   *)

LEMMA ReadyKept ==
    ASSUME UNCHANGED <<box, links>>, OnBoard \subseteq OnBoard', NEW t, Ready(t),
           t.plan \subseteq PlannedRow, t.saw \subseteq Legs
    PROVE  Ready(t)'
<1>1. Active' = Active /\ \A S : (PinBackTo(S)' = PinBackTo(S))
    BY DEF Active, PinBackTo
<1>2. \A l : LastLink(l)' = LastLink(l) /\ \A i : RevertRow(l, i)' = RevertRow(l, i)
    BY DEF LastLink, RowAt, RevertRow
<1>3. \A cs : DeletedBy(cs)' = DeletedBy(cs)
    BY DEF DeletedBy
<1>4. KindOf(t)'
    BY DEF Ready, KindOf
<1>5. BoxReady(t.boxw)'
    BY <1>1 DEF Ready, BoxReady, KeyIndexFree, KeyWritten
<1>6. PlanReady(t)'
    BY <1>1, <1>2 DEF Ready, PlanReady, Planned, ResolveIn
<1>7. UndoReady(t)'
    BY <1>1, <1>2, <1>3 DEF Ready, UndoReady, Planned
<1>8. QED
    BY <1>4, <1>5, <1>6, <1>7 DEF Ready

LEMMA SettledReady ==
    /\ Ready(Idle)
    /\ Ready([Idle EXCEPT !.op = "committed"])
    BY DEF Ready, KindOf, BoxReady, KeyIndexFree, PlanReady, UndoReady, Idle, NoBoxWrite

LEMMA SettledReadyNext ==
    /\ Ready(Idle)'
    /\ Ready([Idle EXCEPT !.op = "committed"])'
    BY DEF Ready, KindOf, BoxReady, KeyIndexFree, PlanReady, UndoReady, Idle, NoBoxWrite

\* The parts of OneIInv that only speak of boxes, links and changesets.
LEMMA QuietStep ==
    ASSUME OneIInv, UNCHANGED <<box, links, changesets, last>>, OnBoard \subseteq OnBoard'
    PROVE  /\ UnassignedOK' /\ DeletionsOK' /\ RowsOK' /\ LastOK'
           /\ PinsAreActive' /\ TypedNamesUnique'
<1>1. Active' = Active
    BY DEF Active
<1>2. UnassignedOK' /\ DeletionsOK' /\ TypedNamesUnique'
    BY <1>1 DEF OneIInv, UnassignedOK, DeletionsOK, TypedNamesUnique
<1>3. RowsOK'
    BY DEF OneIInv, RowsOK
<1>4. PinsAreActive'
    BY <1>1 DEF OneIInv, PinsAreActive, CurrentLink, RowAt, CurrentAt, CurrentRows
<1>5. LastOK'
    <2>1. \A l : LinkBefore(l)' = LinkBefore(l)
        BY DEF LinkBefore, LastLink, RowAt
    <2>2. BoxesBefore' = BoxesBefore
        BY <1>1 DEF BoxesBefore, DeletedBy
    <2>3. QED
        BY <2>1, <2>2 DEF OneIInv, LastOK, ResolveIn
<1>6. QED
    BY <1>2, <1>3, <1>4, <1>5

\* A pipeline run rebuilds gold from today's boxes.
LEMMA PipelineGold ==
    ASSUME IInv, OneIInv, Pipeline
    PROVE  OnBoard \subseteq OnBoard' /\ GoldOK'
<1>1. PICK new \in SUBSET (Legs \ OnBoard) :
        gold' = [l \in Legs |-> IF l \in OnBoard \cup new THEN Resolve(l) ELSE NoLeg]
    BY DEF Pipeline
<1>2. UNCHANGED <<box, links>> /\ goldBoxes' = Active
    BY DEF Pipeline
<1>3. ASSUME NEW l \in Legs
      PROVE  /\ Resolve(l) = ResolveIn(l, LastLink(l), Active)
             /\ Resolve(l) # NoLeg
    <2>1. Resolve(l) = ResolveIn(l, LastLink(l), Active)
        BY ResolveIs DEF IInv
    <2>2. Resolve(l).src # "none" /\ NoLeg.src = "none"
        BY <2>1 DEF ResolveIn, SourceIn, NoLeg
    <2>3. QED
        BY <2>1, <2>2
<1>4. OnBoard \subseteq OnBoard'
    BY <1>1, <1>3 DEF OnBoard
<1>5. ASSUME NEW l \in OnBoard'
      PROVE  /\ gold'[l].rule = RuledIn(l, Active)
             /\ gold'[l].src = "manual" => links'[l] # <<>>
             /\ gold'[l].src # "manual" => gold'[l].sid = RuledIn(l, Active)
                                           /\ gold'[l].src = SourceIn(l, Active)
    <2>1. l \in Legs /\ gold'[l] = Resolve(l)
        BY <1>1, <1>5 DEF OnBoard
    <2>2. gold'[l] = ResolveIn(l, LastLink(l), Active)
        BY <1>3, <2>1
    <2>3. LastLink(l).action = "pin" => links[l] # <<>>
        BY <2>1, LastLinkType DEF IInv
    <2>4. SourceIn(l, Active) # "manual"
        BY DEF SourceIn
    <2>5. QED
        BY <1>2, <2>2, <2>3, <2>4 DEF ResolveIn
<1>6. \A l : RuledIn(l, goldBoxes)' = RuledIn(l, Active) /\ SourceIn(l, goldBoxes)' = SourceIn(l, Active)
    BY <1>2 DEF RuledIn, SourceIn, RuleIn, HitsIn
<1>7. GoldOK'
    BY <1>5, <1>6 DEF GoldOK
<1>8. QED
    BY <1>4, <1>7
---------------------------------------------------------------------------
(* What a transaction decides fits the state it has read.                  *)

LEMMA ApplyReady ==
    ASSUME IInv, OneIInv, NEW a \in Admins, BeginApply(a)
    PROVE  \E t : Start(a, t) /\ Ready(t)
<1>0. PICK moved \in SUBSET OnBoard : \E target \in [moved -> Active] :
        Start(a, [Idle EXCEPT !.op = "apply",
                     !.plan = {PlanRow(l, "pin", target[l]) :
                                 l \in {m \in moved : Writes(m, "pin", target[m])}}])
    BY DEF BeginApply
<1>1. PICK target \in [moved -> Active] :
        Start(a, [Idle EXCEPT !.op = "apply",
                     !.plan = {PlanRow(l, "pin", target[l]) :
                                 l \in {m \in moved : Writes(m, "pin", target[m])}}])
    BY <1>0
<1> DEFINE plan == {PlanRow(l, "pin", target[l]) :
                      l \in {m \in moved : Writes(m, "pin", target[m])}}
           t == [Idle EXCEPT !.op = "apply", !.plan = plan]
<1>2. \A p \in plan : p.leg \in OnBoard /\ p.box \in Active
    BY DEF PlanRow
<1>3. Start(a, t)
    BY <1>1
<1> HIDE DEF plan
<1>4. t.op = "apply" /\ t.plan = plan /\ t.boxw = NoBoxWrite
    BY DEF Idle
<1> HIDE DEF t
<1>5. QED
    BY <1>2, <1>3, <1>4
    DEF Ready, KindOf, BoxReady, KeyIndexFree, PlanReady, UndoReady, NoBoxWrite

LEMMA ResetReady ==
    ASSUME IInv, OneIInv, NEW a \in Admins, BeginReset(a)
    PROVE  \E t : Start(a, t) /\ Ready(t)
<1>1. PICK chosen \in SUBSET OnBoard :
        Start(a, [Idle EXCEPT !.op = "reset",
                     !.plan = {PlanRow(l, "unpin", NoBox) :
                                 l \in {m \in chosen : Writes(m, "unpin", NoBox)}}])
    BY DEF BeginReset
<1> DEFINE plan == {PlanRow(l, "unpin", NoBox) :
                      l \in {m \in chosen : Writes(m, "unpin", NoBox)}}
           t == [Idle EXCEPT !.op = "reset", !.plan = plan]
<1>2. \A p \in plan : p.leg \in OnBoard /\ p.action = "unpin"
    BY DEF PlanRow
<1>3. Start(a, t)
    BY <1>1
<1> HIDE DEF plan
<1>4. t.op = "reset" /\ t.plan = plan /\ t.boxw = NoBoxWrite
    BY DEF Idle
<1> HIDE DEF t
<1>5. QED
    BY <1>2, <1>3, <1>4
    DEF Ready, KindOf, BoxReady, KeyIndexFree, PlanReady, UndoReady, NoBoxWrite

LEMMA DeleteReady ==
    ASSUME IInv, OneIInv, NEW a \in Admins, BeginDelete(a)
    PROVE  \E t : Start(a, t) /\ Ready(t)
<1>1. PICK b \in Active \ {Unassigned} :
        Start(a, [Idle EXCEPT !.op = "delete",
                     !.plan = {PlanRow(l, "pin", Unassigned) :
                                 l \in {m \in {k \in OnBoard : Effective(k).sid = b} :
                                            Writes(m, "pin", Unassigned)}},
                     !.boxw = [kind |-> "delete", id |-> b],
                     !.saw = OnBoard, !.fresh = goldBoxes = Active])
    BY DEF BeginDelete
<1> DEFINE plan == {PlanRow(l, "pin", Unassigned) :
                      l \in {m \in {k \in OnBoard : Effective(k).sid = b} :
                                 Writes(m, "pin", Unassigned)}}
           fresh == goldBoxes = Active
           w == [kind |-> "delete", id |-> b]
           t == [Idle EXCEPT !.op = "delete", !.plan = plan, !.boxw = w,
                             !.saw = OnBoard, !.fresh = fresh]
<1>2. \A p \in plan : p.leg \in OnBoard /\ p.action = "pin" /\ p.box = Unassigned
    BY DEF PlanRow
<1>3. ASSUME NEW l \in OnBoard, Effective(l).sid = b,
             ~(LastLink(l).action = "pin" /\ LastLink(l).box = Unassigned)
      PROVE  \E p \in plan : p.leg = l
    <2>1. l \in Legs /\ CurrentLink(l) = LastLink(l)
        BY CurrentIsLast DEF IInv, OnBoard
    <2>2. Writes(l, "pin", Unassigned)
        BY <1>3, <2>1 DEF Writes
    <2>3. PlanRow(l, "pin", Unassigned) \in plan
        BY <1>3, <2>2
    <2>4. PlanRow(l, "pin", Unassigned).leg = l
        BY DEF PlanRow
    <2>5. QED
        BY <2>3, <2>4
<1>4. ASSUME NEW l \in Legs, LastLink(l).action = "pin", LastLink(l).box = b
      PROVE  \E p \in plan : p.leg = l
    <2>1. links[l] # <<>>
        BY <1>4, LastLinkType DEF IInv
    <2>2. l \in OnBoard
        BY <2>1 DEF OneIInv, RowsOK
    <2>3. CurrentLink(l) = LastLink(l)
        BY CurrentIsLast DEF IInv
    <2>4. Effective(l).sid = b
        BY <1>4, <2>3 DEF Effective
    <2>5. QED
        BY <1>3, <1>4, <2>2, <2>4
<1>5. ASSUME fresh, NEW l \in OnBoard, ResolveIn(l, LastLink(l), Active).sid = b
      PROVE  \E p \in plan : p.leg = l
    <2>1. BoardForeseesPipeline
        BY BoardForesees DEF IInv, OneIInv
    <2>2. l \in Legs /\ Resolve(l) = ResolveIn(l, LastLink(l), Active)
        BY ResolveIs DEF IInv, OnBoard
    <2>3. Effective(l).sid = b
        BY <1>5, <2>1, <2>2 DEF BoardForeseesPipeline
    <2>4. LastLink(l).action = "pin" /\ LastLink(l).box = Unassigned => b = Unassigned
        BY <1>5, <2>2 DEF ResolveIn, OneIInv, UnassignedOK
    <2>5. QED
        BY <1>3, <2>3, <2>4
<1>6. Start(a, t)
    BY <1>1
<1> HIDE DEF plan, fresh, w
<1>7. t.op = "delete" /\ t.plan = plan /\ t.boxw = w /\ t.saw = OnBoard /\ t.fresh = fresh
    BY DEF Idle
<1>8. w.kind = "delete" /\ w.id = b
    BY DEF w
<1> HIDE DEF t
<1>9. KindOf(t) /\ BoxReady(t.boxw) /\ UndoReady(t)
    BY <1>7, <1>8 DEF KindOf, BoxReady, KeyIndexFree, UndoReady
<1>10. PlanReady(t)
    <2>1. Unassigned \in Active
        BY DEF OneIInv, UnassignedOK
    <2>2. QED
        BY <1>2, <1>4, <1>5, <1>7, <1>8, <2>1 DEF PlanReady, Planned
<1>11. QED
    BY <1>6, <1>9, <1>10 DEF Ready

LEMMA CreateReady ==
    ASSUME IInv, OneIInv, NEW a \in Admins, BeginCreate(a)
    PROVE  \E t : Start(a, t) /\ Ready(t)
<1>1. PICK n \in Names :
        /\ ~NameTaken(Typed(n), {})
        /\ Start(a, [Idle EXCEPT !.op = "create",
                     !.boxw = [kind |-> "insert", id |-> NoBox, name |-> Typed(n),
                               key |-> FreeKey(KeyOf(Typed(n)), {})]])
    BY DEF BeginCreate
<1> DEFINE w == [kind |-> "insert", id |-> NoBox, name |-> Typed(n),
                 key |-> FreeKey(KeyOf(Typed(n)), {})]
           t == [Idle EXCEPT !.op = "create", !.boxw = w]
<1>2. w.key \notin TakenKeys({})
    BY TypedType, FreeKeyIsFree DEF IInv, TypeOK
<1>3. \A b \in Active : box[b].key # w.key /\ box[b].name # w.name
    BY <1>1, <1>2 DEF TakenKeys, NameTaken
<1>4. w.kind = "insert"
    OBVIOUS
<1>5. Start(a, t)
    BY <1>1
<1> HIDE DEF w
<1>6. t.op = "create" /\ t.plan = {} /\ t.boxw = w
    BY DEF Idle
<1> HIDE DEF t
<1>7. QED
    BY <1>3, <1>4, <1>5, <1>6 DEF Ready, KindOf, BoxReady, KeyIndexFree, PlanReady, UndoReady

LEMMA UpdateReady ==
    ASSUME IInv, OneIInv, NEW a \in Admins, BeginUpdate(a)
    PROVE  \E t : Start(a, t) /\ Ready(t)
<1>1. PICK b \in Active \ {Unassigned}, n \in Names :
        /\ ~NameTaken(Typed(n), {b})
        /\ Start(a, [Idle EXCEPT !.op = "update",
                     !.boxw = [kind |-> "rename", id |-> b, name |-> Typed(n)]])
    BY DEF BeginUpdate
<1> DEFINE w == [kind |-> "rename", id |-> b, name |-> Typed(n)]
           t == [Idle EXCEPT !.op = "update", !.boxw = w]
<1>2. \A c \in Active \ {b} : box[c].name # w.name
    BY <1>1 DEF NameTaken
<1>3. w.kind = "rename" /\ w.id = b
    OBVIOUS
<1>4. Start(a, t)
    BY <1>1
<1> HIDE DEF w
<1>5. t.op = "update" /\ t.plan = {} /\ t.boxw = w
    BY DEF Idle
<1> HIDE DEF t
<1>6. QED
    BY <1>2, <1>3, <1>4, <1>5 DEF Ready, KindOf, BoxReady, KeyIndexFree, PlanReady, UndoReady
\* A restored box comes back with a key, and if it has its old name with one, nobody has.
LEMMA RestoreReady ==
    ASSUME TypeOK, NEW b \in Boxes, box[b].state = "deleted"
    PROVE  BoxReady(RestoreOf(b)) /\ RestoreOf(b).kind = "restore" /\ RestoreOf(b).id = b
<1> DEFINE w == RestoreOf(b)
           name == IF NameTaken(box[b].name, {})
                   THEN [box[b].name EXCEPT !.restored = @ + 1] ELSE box[b].name
           key == FreeKey(box[b].key, {b})
<1>1. /\ w.kind = "restore" /\ w.id = b /\ w.was = box[b]
      /\ w.name = name /\ w.key = key
    BY DEF RestoreOf
<1>2. box[b].name \in BoxNames /\ box[b].key \in Keys
    BY DEF TypeOK, BoxState
<1>3. key \notin TakenKeys({b})
    BY <1>2, FreeKeyIsFree DEF TypeOK
<1>4. name.restored = 0 => name = box[b].name /\ ~NameTaken(box[b].name, {})
    <2>1. box[b].name.restored \in Nat
        BY <1>2 DEF BoxNames
    <2>2. NameTaken(box[b].name, {}) => name.restored = box[b].name.restored + 1
        BY <1>2 DEF BoxNames
    <2>3. QED
        BY <2>1, <2>2
<1> HIDE DEF w, name, key
<1>5. name.restored = 0 => \A c \in Active : box[c].name # name
    BY <1>4 DEF NameTaken
<1>6. KeyWritten(w) = key
    BY <1>1 DEF KeyWritten
<1>7. \A c \in Active \ {b} : box[c].key # key
    BY <1>3 DEF TakenKeys
<1>8. BoxReady(w)
    BY <1>1, <1>5, <1>6, <1>7 DEF BoxReady, KeyIndexFree
<1>9. QED
    BY <1>1, <1>8 DEF w

LEMMA UndoIsReady ==
    ASSUME IInv, OneIInv, NEW a \in Admins, BeginUndo(a)
    PROVE  \E t : Start(a, t) /\ Ready(t)
<1> DEFINE rows(cs) == {r \in Legs \X (1..MaxChangesets) :
                          /\ r[2] \in DOMAIN links[r[1]]
                          /\ links[r[1]][r[2]].cs = cs
                          /\ links[r[1]][r[2]].current}
           plan(cs) == {p \in {RevertRow(r[1], r[2]) : r \in rows(cs)} :
                          p.box \in PinBackTo(DeletedBy(cs))}
           boxw(cs) == IF DeletedBy(cs) = {} THEN NoBoxWrite
                       ELSE RestoreOf(CHOOSE b \in DeletedBy(cs) : TRUE)
<1>1. PICK cs \in 1..changesets :
        Start(a, [Idle EXCEPT !.op = "undo", !.plan = plan(cs), !.undoes = cs,
                              !.boxw = boxw(cs)])
    BY DEF BeginUndo
<1> DEFINE t == [Idle EXCEPT !.op = "undo", !.plan = plan(cs), !.undoes = cs,
                             !.boxw = boxw(cs)]
<1>2. TypeOK /\ NewestLinkIsCurrent /\ DeletionsOK /\ RowsOK
    BY DEF IInv, OneIInv
<1>3. /\ DeletedBy(cs) = IF boxw(cs).kind = "restore" THEN {boxw(cs).id} ELSE {}
      /\ BoxReady(boxw(cs)) /\ boxw(cs).kind \in {"none", "restore"}
    <2>1. CASE DeletedBy(cs) = {}
        BY <2>1 DEF NoBoxWrite, BoxReady, KeyIndexFree
    <2>2. CASE DeletedBy(cs) # {}
        <3>1. PICK b \in DeletedBy(cs) : boxw(cs) = RestoreOf(b)
            BY <2>2
        <3>2. b \in Boxes /\ box[b].state = "deleted"
            BY DEF DeletedBy
        <3>3. DeletedBy(cs) = {b}
            BY <1>2 DEF DeletedBy, DeletionsOK
        <3> HIDE DEF boxw
        <3>4. QED
            BY <1>2, <3>1, <3>2, <3>3, RestoreReady
    <2>3. QED
        BY <2>1, <2>2
<1>4. ASSUME NEW r \in rows(cs)
      PROVE  /\ r[1] \in Legs /\ links[r[1]] # <<>> /\ r[2] = Len(links[r[1]])
             /\ links[r[1]][Len(links[r[1]])].cs = cs
    <2>1. links[r[1]] \in Seq(LinkRow)
        BY <1>2 DEF TypeOK
    <2>2. r[2] = Len(links[r[1]])
        BY <1>2 DEF NewestLinkIsCurrent
    <2>3. QED
        BY <2>1, <2>2
<1>5. ASSUME NEW l \in Legs, NEW i \in DOMAIN links[l]
      PROVE  /\ RevertRow(l, i).leg = l
             /\ RevertRow(l, i).action = "pin" => RevertRow(l, i).box # NoBox
    <2>1. links[l] \in Seq(LinkRow)
        BY <1>2 DEF TypeOK
    <2>2. RowAt(l, i - 1).action = "pin" => RowAt(l, i - 1).box # NoBox
        BY <1>2, <2>1 DEF RowAt, NoRow, RowsOK
    <2>3. QED
        BY <2>2 DEF RevertRow
<1>6. ASSUME NEW p \in plan(cs)
      PROVE  /\ p.leg \in Legs /\ links[p.leg] # <<>>
             /\ links[p.leg][Len(links[p.leg])].cs = cs
             /\ p = RevertRow(p.leg, Len(links[p.leg]))
             /\ p.action = "pin" => p.box \in Active \cup DeletedBy(cs)
    <2>1. PICK r \in rows(cs) : p = RevertRow(r[1], r[2])
        OBVIOUS
    <2>2. r[1] \in Legs /\ r[2] \in DOMAIN links[r[1]]
        OBVIOUS
    <2>3. p.leg = r[1] /\ (p.action = "pin" => p.box # NoBox)
        BY <1>5, <2>1, <2>2
    <2>4. p.box \in PinBackTo(DeletedBy(cs))
        OBVIOUS
    <2> HIDE DEF rows, plan
    <2>5. QED
        BY <1>4, <2>1, <2>3, <2>4 DEF PinBackTo
<1>7. ASSUME NEW l \in Legs, links[l] # <<>>, links[l][Len(links[l])].cs = cs,
             RevertRow(l, Len(links[l])).box \in PinBackTo(DeletedBy(cs))
      PROVE  \E p \in plan(cs) : p.leg = l
    <2> DEFINE n == Len(links[l])
    <2>1. links[l] \in Seq(LinkRow) /\ n \in DOMAIN links[l] /\ n \in Nat /\ n # 0
        BY <1>2, <1>7 DEF TypeOK
    <2>2. n \in 1..MaxChangesets
        BY <1>2, <2>1, BoundsAssumption DEF RowsOK, TypeOK
    <2>3. links[l][n].current
        BY <1>2, <2>1 DEF NewestLinkIsCurrent
    <2>4. <<l, n>> \in rows(cs)
        BY <1>7, <2>1, <2>2, <2>3
    <2>5. RevertRow(l, n) \in plan(cs)
        BY <1>7, <2>4
    <2>6. QED
        BY <1>5, <2>1, <2>5
<1>8. Start(a, t)
    BY <1>1
<1> HIDE DEF rows, plan, boxw
<1>9. t.op = "undo" /\ t.plan = plan(cs) /\ t.boxw = boxw(cs) /\ t.undoes = cs
    BY DEF Idle
<1> HIDE DEF t
<1>10. \A p \in plan(cs) : p.leg \in OnBoard
    BY <1>2, <1>6 DEF RowsOK
<1>11. PlanReady(t)
    BY <1>3, <1>6, <1>9, <1>10 DEF PlanReady
<1>12. UndoReady(t)
    <2>1. cs # 0
        OBVIOUS
    <2>2. QED
        BY <1>3, <1>6, <1>7, <1>9, <2>1 DEF UndoReady, Planned
<1>13. KindOf(t) /\ BoxReady(t.boxw)
    BY <1>3, <1>9 DEF KindOf
<1>14. QED
    BY <1>8, <1>11, <1>12, <1>13 DEF Ready

LEMMA BeginReady ==
    ASSUME IInv, OneIInv, NEW a \in Admins,
           \/ BeginApply(a) \/ BeginReset(a) \/ BeginDelete(a)
           \/ BeginUndo(a) \/ BeginCreate(a) \/ BeginUpdate(a)
    PROVE  \E t : Start(a, t) /\ Ready(t)
    BY ApplyReady, ResetReady, DeleteReady, UndoIsReady, CreateReady, UpdateReady
---------------------------------------------------------------------------
(* What a commit writes.                                                   *)

\* The rows of core.strategy after a commit
LEMMA CommitBoxes ==
    ASSUME IInv, OneIInv, NEW a \in Admins, Commit(a), NEW b \in Boxes
    PROVE  LET w == txn[a].boxw IN
           /\ w.kind = "none" => box'[b] = box[b]
           /\ w.kind = "insert" =>
                 /\ NextId \in Boxes /\ box[NextId].state = "free"
                 /\ box'[b] = IF b = NextId
                              THEN [state |-> "active", name |-> w.name,
                                    key |-> w.key, delCs |-> 0] ELSE box[b]
           /\ w.kind = "rename" =>
                 box'[b] = IF b = w.id THEN [box[b] EXCEPT !.name = w.name] ELSE box[b]
           /\ w.kind = "delete" =>
                 box'[b] = IF b = w.id
                           THEN [box[b] EXCEPT !.state = "deleted", !.delCs = changesets + 1]
                           ELSE box[b]
           /\ w.kind = "restore" =>
                 box'[b] = IF b = w.id THEN [state |-> "active", name |-> w.name,
                                             key |-> KeyWritten(w), delCs |-> 0]
                           ELSE box[b]
<1> DEFINE w == txn[a].boxw
<1>1. box' = WriteBox(w, changesets + 1) /\ box \in [Boxes -> BoxState]
    BY DEF Commit, IInv, TypeOK
<1>2. ASSUME w.kind = "insert" PROVE NextId \in Boxes /\ box[NextId].state = "free"
    <2>1. NextId \in FreeRows
        BY <1>2, NextIdFree DEF Commit
    <2>2. QED
        BY <2>1 DEF FreeRows
<1>3. ASSUME w.kind = "restore" PROVE NameWritten(w) = w.name
    <2>1. BoxReady(w)
        BY DEF OneIInv, ReadyOK, Ready
    <2>2. w.was = box[w.id]
        BY <1>3, <2>1 DEF BoxReady
    <2>3. QED
        BY <2>2 DEF NameWritten
<1> HIDE DEF w, BoxState
<1>4. CASE w.kind = "none"
    BY <1>1, <1>4 DEF WriteBox, w
<1>5. CASE w.kind = "insert"
    <2>1. box' = [box EXCEPT ![NextId] = [state |-> "active", name |-> w.name,
                                          key |-> w.key, delCs |-> 0]]
        BY <1>1, <1>5 DEF WriteBox
    <2>2. QED
        BY <1>1, <1>2, <1>5, <2>1 DEF w
<1>6. CASE w.kind = "rename"
    <2>1. box' = [box EXCEPT ![w.id].name = w.name]
        BY <1>1, <1>6 DEF WriteBox
    <2>2. QED
        BY <1>1, <1>6, <2>1 DEF w
<1>7. CASE w.kind = "delete"
    <2>1. box' = [box EXCEPT ![w.id] = [box[w.id] EXCEPT !.state = "deleted",
                                                        !.delCs = changesets + 1]]
        BY <1>1, <1>7 DEF WriteBox
    <2>2. QED
        BY <1>1, <1>7, <2>1 DEF w
<1>8. CASE w.kind = "restore"
    <2>1. box' = [box EXCEPT ![w.id] = [state |-> "active", name |-> NameWritten(w),
                                        key |-> KeyWritten(w), delCs |-> 0]]
        BY <1>1, <1>8 DEF WriteBox
    <2>2. QED
        BY <1>1, <1>3, <1>8, <2>1 DEF w
<1>9. CASE w.kind \notin {"none", "insert", "rename", "delete", "restore"}
    BY <1>9 DEF w
<1>10. QED
    BY <1>4, <1>5, <1>6, <1>7, <1>8, <1>9

\* The active boxes and the deleted ones after a commit
LEMMA CommitActive ==
    ASSUME IInv, OneIInv, NEW a \in Admins, Commit(a)
    PROVE  LET w == txn[a].boxw IN
           /\ w.kind \in {"none", "rename"} =>
                 Active' = Active /\ \A cs : DeletedBy(cs)' = DeletedBy(cs)
           /\ w.kind = "insert" =>
                 /\ Active' = Active \cup {NextId} /\ NextId \notin InUse
                 /\ \A cs : DeletedBy(cs)' = DeletedBy(cs)
           /\ w.kind = "delete" =>
                 /\ Active' = Active \ {w.id} /\ w.id \in Active
                 /\ \A cs : DeletedBy(cs)' = DeletedBy(cs) \cup
                               (IF cs = changesets + 1 THEN {w.id} ELSE {})
           /\ w.kind = "restore" =>
                 /\ Active' = Active \cup {w.id} /\ w.id \in Boxes
                 /\ \A cs : DeletedBy(cs)' = DeletedBy(cs) \ {w.id}
<1> DEFINE w == txn[a].boxw
<1>1. box \in [Boxes -> BoxState]
    BY DEF IInv, TypeOK
<1>2. BoxReady(w)
    BY DEF OneIInv, ReadyOK, Ready
<1>3. \A b \in Boxes : box[b] \in BoxState
    BY <1>1
<1> HIDE DEF BoxState, w
<1>4. CASE w.kind = "none"
    <2>1. \A b \in Boxes : box'[b] = box[b]
        BY <1>4, CommitBoxes DEF w
    <2>2. QED
        BY <1>4, <2>1 DEF Active, DeletedBy, w
<1>5. CASE w.kind = "rename"
    <2>1. ASSUME NEW b \in Boxes
          PROVE  box'[b].state = box[b].state /\ box'[b].delCs = box[b].delCs
        <3>1. box'[b] = IF b = w.id THEN [box[b] EXCEPT !.name = w.name] ELSE box[b]
            BY <1>5, CommitBoxes DEF w
        <3>2. QED
            BY <1>3, <3>1 DEF BoxState
    <2>2. QED
        BY <1>5, <2>1 DEF Active, DeletedBy, w
<1>6. CASE w.kind = "insert"
    <2>1. \A b \in Boxes : NextId \in Boxes /\ box[NextId].state = "free"
        BY <1>6, CommitBoxes DEF w
    <2>2. Unassigned \in Boxes
        BY UnassignedType
    <2>3. NextId \in Boxes /\ box[NextId].state = "free"
        BY <2>1, <2>2
    <2>4. \A b \in Boxes : box'[b] = IF b = NextId
                                     THEN [state |-> "active", name |-> w.name,
                                           key |-> w.key, delCs |-> 0] ELSE box[b]
        BY <1>6, CommitBoxes DEF w
    <2>5. NextId # NoBox
        BY <2>3 DEF NoBox, Boxes
    <2>6. QED
        BY <1>6, <2>3, <2>4, <2>5 DEF Active, DeletedBy, InUse, w
<1>7. CASE w.kind = "delete"
    <2>1. \A b \in Boxes : box'[b] = IF b = w.id
                THEN [box[b] EXCEPT !.state = "deleted", !.delCs = changesets + 1] ELSE box[b]
        BY <1>7, CommitBoxes DEF w
    <2>2. w.id \in Boxes /\ box[w.id].state = "active"
        BY <1>2, <1>7 DEF BoxReady, Active
    <2>3. box'[w.id].state = "deleted" /\ box'[w.id].delCs = changesets + 1
        BY <1>3, <2>1, <2>2 DEF BoxState
    <2>4. \A b \in Boxes \ {w.id} : box'[b] = box[b]
        BY <2>1
    <2>5. QED
        BY <1>7, <2>2, <2>3, <2>4 DEF Active, DeletedBy, w
<1>8. CASE w.kind = "restore"
    <2>1. \A b \in Boxes : box'[b] = IF b = w.id
                THEN [state |-> "active", name |-> w.name, key |-> KeyWritten(w), delCs |-> 0]
                ELSE box[b]
        BY <1>8, CommitBoxes DEF w
    <2>2. w.id \in Boxes /\ box[w.id].state = "deleted"
        BY <1>2, <1>8 DEF BoxReady
    <2>3. QED
        BY <1>8, <2>1, <2>2 DEF Active, DeletedBy, w
<1>9. CASE w.kind \notin {"none", "insert", "rename", "delete", "restore"}
    BY <1>9 DEF w
<1>10. QED
    BY <1>4, <1>5, <1>6, <1>7, <1>8, <1>9

\* The rows of a leg after a commit
LEMMA CommitRows ==
    ASSUME IInv, OneIInv, NEW a \in Admins, Commit(a), NEW l \in Legs
    PROVE  \/ ~Planned(txn[a], l) /\ links'[l] = links[l]
           \/ \E p \in txn[a].plan :
                 /\ p.leg = l /\ MakesChangeset(txn[a]) /\ changesets' = changesets + 1
                 /\ links'[l] \in Seq(LinkRow) /\ Len(links'[l]) = Len(links[l]) + 1
                 /\ links'[l][Len(links[l]) + 1] =
                       [action |-> p.action, box |-> p.box, cs |-> changesets + 1,
                        current |-> TRUE]
                 /\ \A i \in DOMAIN links[l] :
                       /\ links'[l][i].action = links[l][i].action
                       /\ links'[l][i].box = links[l][i].box
                       /\ links'[l][i].cs = links[l][i].cs
<1> DEFINE t == txn[a]
           PlanOf(k) == CHOOSE p \in t.plan : p.leg = k
<1>1. t \in Txn /\ TypeOK /\ OpsOK
    BY DEF IInv, TypeOK
<1>2. links'[l] = IF l \in {p.leg : p \in t.plan}
                  THEN AppendLink(links[l], PlanOf(l), changesets + 1) ELSE links[l]
    BY DEF Commit
<1>3. CASE ~Planned(t, l)
    BY <1>2, <1>3 DEF Planned
<1>4. CASE Planned(t, l)
    <2>1. l \in {p.leg : p \in t.plan}
        BY <1>4 DEF Planned
    <2> DEFINE p == PlanOf(l)
    <2>2. p \in t.plan /\ p.leg = l
        BY <2>1
    <2>3. links'[l] = AppendLink(links[l], p, changesets + 1)
        BY <1>2, <2>1
    <2>4. p \in PlannedRow
        BY <1>1, <2>2 DEF Txn
    <2>5. MakesChangeset(t)
        BY <1>1, <2>2 DEF Commit, OpsOK, MakesChangeset
    <2>6. changesets + 1 \in 1..MaxChangesets /\ changesets' = changesets + 1
        BY <1>1, <2>5, BoundsAssumption DEF Commit, TypeOK
    <2> HIDE DEF p, t
    <2>7. /\ links'[l] \in Seq(LinkRow)
          /\ Len(links'[l]) = Len(links[l]) + 1
          /\ links'[l][Len(links[l]) + 1] =
                [action |-> p.action, box |-> p.box, cs |-> changesets + 1, current |-> TRUE]
        BY <1>1, <2>3, <2>4, <2>6, AppendedRow
    <2>8. \A i \in DOMAIN links[l] :
              /\ links'[l][i].action = links[l][i].action
              /\ links'[l][i].box = links[l][i].box
              /\ links'[l][i].cs = links[l][i].cs
        <3>1. [Next]_vars
            BY DEF Next
        <3>2. QED
            BY <1>1, <3>1, AppendOnlyStep
    <2>9. QED
        BY <2>2, <2>5, <2>6, <2>7, <2>8 DEF t
<1>5. QED
    BY <1>3, <1>4

\* ... and its current link
LEMMA CommitLast ==
    ASSUME IInv, OneIInv, NEW a \in Admins, Commit(a), NEW l \in Legs
    PROVE  /\ ~Planned(txn[a], l) => LastLink(l)' = LastLink(l) /\ links'[l] = links[l]
           /\ Planned(txn[a], l) =>
                 /\ MakesChangeset(txn[a]) /\ links'[l] # <<>>
                 /\ \E p \in txn[a].plan :
                       p.leg = l /\ LastLink(l)' = [action |-> p.action, box |-> p.box]
<1>0. links[l] \in Seq(LinkRow)
    BY DEF IInv, TypeOK
<1>1. CASE ~Planned(txn[a], l)
    <2>1. links'[l] = links[l]
        BY <1>1, CommitRows DEF Planned
    <2>2. QED
        BY <1>1, <2>1 DEF LastLink, RowAt
<1>2. CASE Planned(txn[a], l)
    <2>1. PICK p \in txn[a].plan :
                 /\ p.leg = l /\ MakesChangeset(txn[a])
                 /\ links'[l] \in Seq(LinkRow) /\ Len(links'[l]) = Len(links[l]) + 1
                 /\ links'[l][Len(links[l]) + 1] =
                       [action |-> p.action, box |-> p.box, cs |-> changesets + 1,
                        current |-> TRUE]
        BY <1>2, CommitRows
    <2>2. Len(links[l]) + 1 # 0 /\ links'[l] # <<>>
        BY <1>0, <2>1
    <2>3. LastLink(l)' = [action |-> p.action, box |-> p.box]
        BY <2>1, <2>2 DEF LastLink, RowAt
    <2>4. QED
        BY <1>2, <2>1, <2>2, <2>3
<1>3. QED
    BY <1>1, <1>2---------------------------------------------------------------------------
(* A commit preserves each part of OneIInv.                                *)

\* The kind of box row written tells the operation.
LEMMA CommitOps ==
    ASSUME IInv, OneIInv, NEW a \in Admins, Commit(a)
    PROVE  LET t == txn[a] IN
           /\ Ready(t) /\ t.plan \subseteq PlannedRow
           /\ changesets \in Nat
           /\ changesets' = IF MakesChangeset(t) THEN changesets + 1 ELSE changesets
           /\ t.boxw.kind = "delete" => t.op = "delete"
           /\ t.boxw.kind = "restore" => t.op = "undo"
           /\ t.boxw.kind \in {"insert", "rename"} <=> ~MakesChangeset(t)
           /\ t.boxw.kind \in {"none", "insert", "rename", "delete", "restore"}
           /\ gold' = gold /\ goldBoxes' = goldBoxes /\ OnBoard' = OnBoard
<1> DEFINE t == txn[a]
<1>1. t \in Txn /\ changesets \in 0..MaxChangesets
    BY DEF IInv, TypeOK
<1>2. Ready(t)
    BY DEF OneIInv, ReadyOK
<1>3. t.op \in {"apply", "reset", "delete", "undo", "create", "update"}
      /\ gold' = gold /\ goldBoxes' = goldBoxes
      /\ changesets' = IF MakesChangeset(t) THEN changesets + 1 ELSE changesets
    BY DEF Commit
<1>4. KindOf(t)
    BY <1>2 DEF Ready
<1>5. OnBoard' = OnBoard
    BY <1>3 DEF OnBoard
<1>6. t.plan \subseteq PlannedRow
    BY <1>1 DEF Txn
<1>7. changesets \in Nat
    BY <1>1, BoundsAssumption
<1> HIDE DEF t
<1>8. QED
    BY <1>2, <1>3, <1>4, <1>5, <1>6, <1>7 DEF KindOf, MakesChangeset, t

LEMMA CommitUnassigned ==
    ASSUME IInv, OneIInv, NEW a \in Admins, Commit(a)
    PROVE  UnassignedOK'
<1> DEFINE w == txn[a].boxw
<1>1. BoxReady(w) /\ Unassigned \in Active
    BY CommitOps DEF Ready, OneIInv, UnassignedOK
<1>2. w.kind \in {"none", "insert", "rename", "delete", "restore"}
    BY CommitOps
<1>3. \/ Active \subseteq Active'
      \/ w.kind = "delete" /\ Active' = Active \ {w.id}
    BY <1>2, CommitActive
<1> HIDE DEF w
<1>4. QED
    BY <1>1, <1>3 DEF UnassignedOK, BoxReady

LEMMA CommitDeletions ==
    ASSUME IInv, OneIInv, NEW a \in Admins, Commit(a)
    PROVE  DeletionsOK'
<1> DEFINE w == txn[a].boxw
<1>1. DeletionsOK /\ box \in [Boxes -> BoxState] /\ changesets \in Nat
    BY CommitOps DEF OneIInv, IInv, TypeOK
<1>2. /\ changesets' \in Nat /\ changesets <= changesets'
      /\ w.kind = "delete" => changesets' = changesets + 1
    BY CommitOps DEF MakesChangeset
<1>3. \A b \in Boxes : box[b] \in BoxState
    BY <1>1
<1> HIDE DEF BoxState
<1>4. ASSUME NEW b \in Boxes
      PROVE  \/ box'[b].state # "deleted"
             \/ box'[b].state = box[b].state /\ box'[b].delCs = box[b].delCs
             \/ w.kind = "delete" /\ b = w.id /\ box'[b].delCs = changesets + 1
    <2>1. w.kind \in {"none", "insert", "rename", "delete", "restore"}
        BY CommitOps
    <2>2. CASE w.kind = "none"
        BY <2>2, CommitBoxes
    <2>3. CASE w.kind = "insert"
        <3>1. box'[b] = IF b = NextId THEN [state |-> "active", name |-> w.name,
                                            key |-> w.key, delCs |-> 0] ELSE box[b]
            BY <2>3, CommitBoxes
        <3>2. QED
            BY <3>1
    <2>4. CASE w.kind = "rename"
        <3>1. box'[b] = IF b = w.id THEN [box[b] EXCEPT !.name = w.name] ELSE box[b]
            BY <2>4, CommitBoxes
        <3>2. QED
            BY <1>3, <3>1 DEF BoxState
    <2>5. CASE w.kind = "delete"
        <3>1. box'[b] = IF b = w.id THEN [box[b] EXCEPT !.state = "deleted",
                                                        !.delCs = changesets + 1] ELSE box[b]
            BY <2>5, CommitBoxes
        <3>2. QED
            BY <1>3, <2>5, <3>1 DEF BoxState
    <2>6. CASE w.kind = "restore"
        <3>1. box'[b] = IF b = w.id THEN [state |-> "active", name |-> w.name,
                                          key |-> KeyWritten(w), delCs |-> 0] ELSE box[b]
            BY <2>6, CommitBoxes
        <3>2. QED
            BY <3>1
    <2>7. QED
        BY <2>1, <2>2, <2>3, <2>4, <2>5, <2>6
<1> HIDE DEF w
<1>5. ASSUME NEW b \in Boxes, box'[b].state = "deleted"
      PROVE  box'[b].delCs \in 1..changesets'
    BY <1>1, <1>2, <1>4, <1>5 DEF DeletionsOK
<1>6. ASSUME NEW b \in Boxes, NEW c \in Boxes,
             box'[b].state = "deleted", box'[c].state = "deleted",
             box'[b].delCs = box'[c].delCs
      PROVE  b = c
    <2>1. \A d \in Boxes : box[d].state = "deleted" => box[d].delCs \in 1..changesets
        BY <1>1 DEF DeletionsOK
    <2>2. changesets + 1 \notin 1..changesets
        BY <1>1
    <2>3. CASE w.kind = "delete" /\ b = w.id /\ box'[b].delCs = changesets + 1
        BY <1>4, <1>6, <2>1, <2>2, <2>3
    <2>4. CASE w.kind = "delete" /\ c = w.id /\ box'[c].delCs = changesets + 1
        BY <1>4, <1>6, <2>1, <2>2, <2>4
    <2>5. CASE /\ box'[b].state = box[b].state /\ box'[b].delCs = box[b].delCs
               /\ box'[c].state = box[c].state /\ box'[c].delCs = box[c].delCs
        BY <1>1, <1>6, <2>5 DEF DeletionsOK
    <2>6. QED
        BY <1>4, <1>6, <2>3, <2>4, <2>5
<1>7. QED
    BY <1>5, <1>6 DEF DeletionsOK

LEMMA CommitRowsOK ==
    ASSUME IInv, OneIInv, NEW a \in Admins, Commit(a)
    PROVE  RowsOK' /\ GoldOK'
<1> DEFINE t == txn[a]
<1>1. RowsOK /\ GoldOK /\ \A l \in Legs : links[l] \in Seq(LinkRow)
    BY DEF OneIInv, IInv, TypeOK
<1>2. /\ changesets \in Nat /\ changesets' \in Nat /\ changesets <= changesets'
      /\ OnBoard' = OnBoard /\ gold' = gold /\ goldBoxes' = goldBoxes
      /\ Ready(t)
    BY CommitOps
<1>3. ASSUME NEW p \in t.plan
      PROVE  p.leg \in OnBoard /\ (p.action = "pin" => p.box # NoBox)
    <2>1. /\ p.leg \in OnBoard
          /\ p.action = "pin" => p.box \in Active \cup (IF t.boxw.kind = "restore"
                                                        THEN {t.boxw.id} ELSE {})
        BY <1>2 DEF Ready, PlanReady
    <2>2. t.boxw.kind = "restore" => t.boxw.id \in Boxes
        BY <1>2 DEF Ready, BoxReady
    <2>3. NoBox \notin Boxes
        BY DEF NoBox, Boxes
    <2>4. QED
        BY <2>1, <2>2, <2>3, ActiveType
<1> HIDE DEF t
<1>4. ASSUME NEW l \in Legs
      PROVE  /\ Len(links'[l]) <= changesets'
             /\ links'[l] # <<>> => l \in OnBoard
             /\ links[l] # <<>> => links'[l] # <<>>
             /\ \A i \in DOMAIN links'[l] :
                   /\ links'[l][i].cs <= changesets'
                   /\ links'[l][i].action = "pin" => links'[l][i].box # NoBox
    <2>1. /\ links[l] \in Seq(LinkRow) /\ Len(links[l]) <= changesets
          /\ links[l] # <<>> => l \in OnBoard
          /\ \A i \in DOMAIN links[l] :
                /\ links[l][i].cs <= changesets /\ links[l][i].cs \in Nat
                /\ links[l][i].action = "pin" => links[l][i].box # NoBox
        <3>1. \A i \in DOMAIN links[l] : links[l][i] \in LinkRow
            BY <1>1
        <3>2. \A i \in DOMAIN links[l] : links[l][i].cs \in Nat
            BY <3>1, BoundsAssumption DEF LinkRow
        <3>3. QED
            BY <1>1, <3>2 DEF RowsOK
    <2>2. CASE links'[l] = links[l]
        BY <1>2, <2>1, <2>2
    <2>3. CASE links'[l] # links[l]
        <3>1. PICK p \in t.plan :
                 /\ p.leg = l /\ changesets' = changesets + 1
                 /\ links'[l] \in Seq(LinkRow) /\ Len(links'[l]) = Len(links[l]) + 1
                 /\ links'[l][Len(links[l]) + 1] =
                       [action |-> p.action, box |-> p.box, cs |-> changesets + 1,
                        current |-> TRUE]
                 /\ \A i \in DOMAIN links[l] :
                       /\ links'[l][i].action = links[l][i].action
                       /\ links'[l][i].box = links[l][i].box
                       /\ links'[l][i].cs = links[l][i].cs
            BY <2>3, CommitRows DEF t
        <3>2. Len(links[l]) \in Nat /\ DOMAIN links[l] = 1..Len(links[l])
              /\ DOMAIN links'[l] = 1..(Len(links[l]) + 1)
            BY <2>1, <3>1
        <3>3. \A i \in DOMAIN links'[l] : i \in DOMAIN links[l] \/ i = Len(links[l]) + 1
            BY <3>2
        <3>4. Len(links'[l]) <= changesets'
            BY <1>2, <2>1, <3>1, <3>2
        <3>5. ASSUME NEW i \in DOMAIN links'[l]
              PROVE  /\ links'[l][i].cs <= changesets'
                     /\ links'[l][i].action = "pin" => links'[l][i].box # NoBox
            BY <1>2, <1>3, <2>1, <3>1, <3>3
        <3>6. links'[l] # <<>>
            BY <3>2
        <3>7. QED
            BY <1>3, <3>1, <3>4, <3>5, <3>6
    <2>4. QED
        BY <2>2, <2>3
<1>5. RowsOK'
    BY <1>2, <1>4 DEF RowsOK
<1>6. GoldOK'
    <2>1. \A l \in OnBoard : l \in Legs
        BY DEF OnBoard
    <2>2. QED
        BY <1>1, <1>2, <1>4, <2>1 DEF GoldOK, RuledIn, SourceIn, RuleIn, HitsIn
<1>7. QED
    BY <1>5, <1>6
LEMMA CommitReady ==
    ASSUME IInv, OneIInv, OneAdmin, NEW a \in Admins, Commit(a)
    PROVE  ReadyOK'
<1>1. txn \in [Admins -> Txn]
    BY DEF IInv, TypeOK
<1>2. txn'[a] \in {Idle, [Idle EXCEPT !.op = "committed"]}
    BY <1>1 DEF Commit
<1>3. Ready(txn[a])'
    BY <1>2, SettledReadyNext
<1>4. \A b \in Admins : b = a
    BY DEF OneAdmin
<1>5. QED
    BY <1>3, <1>4 DEF ReadyOK

\* CurrentIsLast of the state after a step
LEMMA CurrentIsLastNext ==
    ASSUME TypeOK', NewestLinkIsCurrent', NEW l \in Legs
    PROVE  CurrentAt(l)' = Len(links'[l]) /\ CurrentLink(l)' = LastLink(l)'
<1>1. links'[l] \in Seq(LinkRow)
    BY DEF TypeOK
<1>2. CurrentRows(l)' = {i \in DOMAIN links'[l] : i = Len(links'[l])}
    BY DEF CurrentRows, NewestLinkIsCurrent
<1>3. CASE Len(links'[l]) = 0
    <2>1. CurrentRows(l)' = {}
        BY <1>1, <1>2, <1>3
    <2>2. QED
        BY <1>3, <2>1 DEF CurrentAt, CurrentLink, LastLink
<1>4. CASE Len(links'[l]) # 0
    <2>1. CurrentRows(l)' = {Len(links'[l])}
        BY <1>1, <1>2, <1>4
    <2>2. QED
        BY <2>1 DEF CurrentAt, CurrentLink, LastLink
<1>5. QED
    BY <1>3, <1>4

\* ResolveIs of the state after a step
LEMMA ResolveIsNext ==
    ASSUME TypeOK', NewestLinkIsCurrent', NEW l \in Legs
    PROVE  Resolve(l)' = ResolveIn(l, LastLink(l)', Active')
<1>1. RuleHits(l)' = HitsIn(l, Active')
    BY DEF RuleHits, HitsIn
<1>2. RuleBox(l)' = RuleIn(l, Active')
    BY <1>1 DEF RuleBox, RuleIn
<1>3. CurrentLink(l)' = LastLink(l)'
    BY CurrentIsLastNext
<1>4. NoBox \notin Active'
    BY DEF NoBox, Active, Boxes
<1>5. QED
    BY <1>2, <1>3, <1>4 DEF Resolve, ResolveIn, PinBox, RuledIn, SourceIn

LEMMA CommitPins ==
    ASSUME IInv, OneIInv, TypeOK', NewestLinkIsCurrent', NEW a \in Admins, Commit(a)
    PROVE  PinsAreActive'
<1> DEFINE t == txn[a]
           w == t.boxw
<1>1. SUFFICES ASSUME NEW l \in Legs, LastLink(l)'.action = "pin"
               PROVE  LastLink(l)'.box \in Active'
    BY CurrentIsLastNext DEF PinsAreActive
<1>2. /\ LastLink(l).action = "pin" => LastLink(l).box \in Active
      /\ Unassigned \in Active
    BY CurrentIsLast DEF IInv, OneIInv, PinsAreActive, UnassignedOK
<1>3. /\ PlanReady(t) /\ BoxReady(w)
      /\ w.kind \in {"none", "insert", "rename", "delete", "restore"}
      /\ w.kind = "delete" => t.op = "delete"
    BY CommitOps DEF Ready
<1>4. CASE ~Planned(t, l)
    <2>1. LastLink(l)' = LastLink(l)
        BY <1>4, CommitLast
    <2>2. CASE w.kind = "delete"
        <3>1. LastLink(l).box # w.id
            BY <1>1, <1>3, <1>4, <2>1, <2>2 DEF PlanReady
        <3>2. Active' = Active \ {w.id}
            BY <2>2, CommitActive
        <3>3. QED
            BY <1>1, <1>2, <2>1, <3>1, <3>2
    <2>3. CASE w.kind # "delete"
        <3>1. Active \subseteq Active'
            BY <1>3, <2>3, CommitActive
        <3>2. QED
            BY <1>1, <1>2, <2>1, <3>1
    <2>4. QED
        BY <2>2, <2>3
<1>5. CASE Planned(t, l)
    <2>1. PICK p \in t.plan : LastLink(l)' = [action |-> p.action, box |-> p.box]
        BY <1>5, CommitLast
    <2>2. p.action = "pin" /\ LastLink(l)'.box = p.box
        BY <1>1, <2>1
    <2>3. p.box \in Active \cup (IF w.kind = "restore" THEN {w.id} ELSE {})
        BY <1>3, <2>2 DEF PlanReady
    <2>4. CASE w.kind = "delete"
        <3>1. p.box = Unassigned /\ w.id # Unassigned
            BY <1>3, <2>4 DEF PlanReady, BoxReady
        <3>2. Active' = Active \ {w.id}
            BY <2>4, CommitActive
        <3>3. QED
            BY <1>2, <2>2, <3>1, <3>2
    <2>5. CASE w.kind # "delete"
        <3>1. Active \subseteq Active' /\ (w.kind = "restore" => w.id \in Active')
            BY <1>3, <2>5, CommitActive
        <3>2. QED
            BY <2>2, <2>3, <3>1
    <2>6. QED
        BY <2>4, <2>5
<1>6. QED
    BY <1>4, <1>5

LEMMA CommitNames ==
    ASSUME IInv, OneIInv, NEW a \in Admins, Commit(a)
    PROVE  TypedNamesUnique'
<1> DEFINE w == txn[a].boxw
<1>1. /\ BoxReady(w) /\ TypedNamesUnique /\ \A b \in Boxes : box[b] \in BoxState
      /\ w.kind \in {"none", "insert", "rename", "delete", "restore"}
    BY CommitOps DEF OneIInv, IInv, TypeOK, Ready
<1>2. SUFFICES ASSUME NEW b \in Active', NEW c \in Active',
                      box'[b].name = box'[c].name, box'[b].name.restored = 0
               PROVE  b = c
    BY DEF TypedNamesUnique
<1>3. b \in Boxes /\ c \in Boxes
    BY DEF Active
\* the box given a name by this commit, if any
<1>4. ASSUME NEW new, \A d \in Active' \ {new} : d \in Active /\ box'[d].name = box[d].name,
             box'[new].name.restored = 0 => \A d \in Active \ {new} : box[d].name # box'[new].name
      PROVE  b = c
    <2>1. CASE b = new
        BY <1>2, <1>4, <2>1
    <2>2. CASE c = new
        BY <1>2, <1>4, <2>2
    <2>3. CASE b # new /\ c # new
        BY <1>1, <1>2, <1>4, <2>3 DEF TypedNamesUnique
    <2>4. QED
        BY <2>1, <2>2, <2>3
<1> HIDE DEF w, BoxState
<1>5. CASE w.kind \in {"none", "delete"}
    <2>1. \A d \in Active' : d \in Active /\ box'[d].name = box[d].name
        <3>1. ASSUME NEW d \in Active' PROVE d \in Active /\ box'[d].name = box[d].name
            <4>1. d \in Boxes
                BY DEF Active
            <4>2. w.kind = "none" => box'[d] = box[d]
                BY <4>1, CommitBoxes DEF w
            <4>3. w.kind = "delete" => d # w.id /\ d \in Active
                BY CommitActive DEF w
            <4>4. w.kind = "delete" => box'[d] = box[d]
                BY <4>1, <4>3, CommitBoxes DEF w
            <4>5. w.kind = "none" => d \in Active
                BY CommitActive DEF w
            <4>6. QED
                BY <1>5, <4>2, <4>3, <4>4, <4>5
        <3>2. QED
            BY <3>1
    <2>2. QED
        BY <1>1, <1>2, <2>1 DEF TypedNamesUnique
<1>6. CASE w.kind = "rename"
    <2>1. \A d \in Boxes : box'[d] = IF d = w.id THEN [box[d] EXCEPT !.name = w.name] ELSE box[d]
        BY <1>6, CommitBoxes DEF w
    <2>2. Active' = Active
        BY <1>6, CommitActive DEF w
    <2>3. w.id \in Active /\ w.id \in Boxes /\ \A d \in Active \ {w.id} : box[d].name # w.name
        BY <1>1, <1>6 DEF BoxReady, Active
    <2>4. box'[w.id].name = w.name
        BY <1>1, <2>1, <2>3 DEF BoxState
    <2>5. \A d \in Active' \ {w.id} : d \in Active /\ box'[d].name = box[d].name
        BY <2>1, <2>2 DEF Active
    <2>6. QED
        BY <1>4, <2>3, <2>4, <2>5
<1>7. CASE w.kind = "insert"
    <2>1. /\ NextId \in Boxes
          /\ \A d \in Boxes : box'[d] = IF d = NextId THEN [state |-> "active", name |-> w.name,
                                              key |-> w.key, delCs |-> 0] ELSE box[d]
        BY <1>3, <1>7, CommitBoxes DEF w
    <2>2. Active' = Active \cup {NextId}
        BY <1>7, CommitActive DEF w
    <2>3. box'[NextId].name = w.name
        BY <2>1
    <2>4. \A d \in Active : box[d].name # w.name
        BY <1>1, <1>7 DEF BoxReady
    <2>5. \A d \in Active' \ {NextId} : d \in Active /\ box'[d].name = box[d].name
        BY <2>1, <2>2 DEF Active
    <2>6. QED
        BY <1>4, <2>3, <2>4, <2>5
<1>8. CASE w.kind = "restore"
    <2>1. \A d \in Boxes : box'[d] = IF d = w.id THEN [state |-> "active", name |-> w.name,
                                          key |-> KeyWritten(w), delCs |-> 0] ELSE box[d]
        BY <1>8, CommitBoxes DEF w
    <2>2. Active' = Active \cup {w.id} /\ w.id \in Boxes
        BY <1>8, CommitActive DEF w
    <2>3. box'[w.id].name = w.name
        BY <2>1, <2>2
    <2>4. w.name.restored = 0 => \A d \in Active : box[d].name # w.name
        BY <1>1, <1>8 DEF BoxReady
    <2>5. \A d \in Active' \ {w.id} : d \in Active /\ box'[d].name = box[d].name
        BY <2>1, <2>2 DEF Active
    <2>6. QED
        BY <1>4, <2>3, <2>4, <2>5
<1>9. QED
    BY <1>1, <1>5, <1>6, <1>7, <1>8
\* After a changeset, LinkBefore is the link that was current before it.
LEMMA CommitLinkBefore ==
    ASSUME IInv, OneIInv, NEW a \in Admins, Commit(a), MakesChangeset(txn[a]), NEW l \in Legs
    PROVE  LinkBefore(l)' = LastLink(l)
<1>1. /\ links[l] \in Seq(LinkRow) /\ changesets \in Nat /\ changesets' = changesets + 1
      /\ \A i \in DOMAIN links[l] : links[l][i].cs <= changesets
    BY CommitOps DEF IInv, TypeOK, OneIInv, RowsOK
<1>2. \A i \in DOMAIN links[l] : links[l][i].cs \in Nat
    <2>1. \A i \in DOMAIN links[l] : links[l][i] \in LinkRow
        BY <1>1
    <2>2. QED
        BY <2>1, BoundsAssumption DEF LinkRow
<1>3. CASE ~Planned(txn[a], l)
    <2>1. links'[l] = links[l] /\ LastLink(l)' = LastLink(l)
        BY <1>3, CommitLast
    <2>2. links[l] # <<>> => links[l][Len(links[l])].cs # changesets + 1
        BY <1>1, <1>2
    <2>3. QED
        BY <1>1, <2>1, <2>2 DEF LinkBefore
<1>4. CASE Planned(txn[a], l)
    <2>1. PICK p \in txn[a].plan :
                 /\ links'[l] \in Seq(LinkRow) /\ Len(links'[l]) = Len(links[l]) + 1
                 /\ links'[l][Len(links[l]) + 1] =
                       [action |-> p.action, box |-> p.box, cs |-> changesets + 1,
                        current |-> TRUE]
                 /\ \A i \in DOMAIN links[l] :
                       /\ links'[l][i].action = links[l][i].action
                       /\ links'[l][i].box = links[l][i].box
        BY <1>4, CommitRows
    <2>0. PICK n : n = Len(links[l])
        OBVIOUS
    <2>2. n \in Nat /\ Len(links'[l]) = n + 1 /\ (n + 1) - 1 = n /\ (n # 0 => n \in DOMAIN links[l])
        BY <1>1, <2>1, <2>0
    <2>3. links'[l] # <<>> /\ links'[l][n + 1].cs = changesets'
        BY <1>1, <2>1, <2>0
    <2>4. LinkBefore(l)' = RowAt(l, n)'
        BY <2>2, <2>3 DEF LinkBefore
    <2>5. RowAt(l, n)' = RowAt(l, n)
        BY <2>1, <2>2 DEF RowAt
    <2>6. QED
        BY <2>4, <2>5, <2>0 DEF LastLink
<1>5. QED
    BY <1>3, <1>4

\* ... and BoxesBefore the boxes that were active, unless the changeset was an undo.
LEMMA CommitBoxesBefore ==
    ASSUME IInv, OneIInv, NEW a \in Admins, Commit(a),
           txn[a].op \in {"apply", "reset", "delete"}
    PROVE  BoxesBefore' = Active
<1> DEFINE w == txn[a].boxw
<1>1. /\ changesets' = changesets + 1 /\ changesets \in Nat
      /\ w.kind = IF txn[a].op = "delete" THEN "delete" ELSE "none"
    BY CommitOps DEF MakesChangeset, Ready, KindOf
<1>0. PICK cs : cs = changesets + 1
    OBVIOUS
<1>2. DeletedBy(cs) = {}
    <2>1. \A b \in Boxes : box[b].state = "deleted" => box[b].delCs \in 1..changesets
        BY DEF OneIInv, DeletionsOK
    <2>2. cs \notin 1..changesets
        BY <1>1, <1>0
    <2>3. QED
        BY <2>1, <2>2 DEF DeletedBy
<1>3. BoxesBefore' = Active' \cup DeletedBy(cs)'
    BY <1>1, <1>0 DEF BoxesBefore, DeletedBy
<1>4. CASE w.kind = "none"
    <2>1. Active' = Active /\ DeletedBy(cs)' = DeletedBy(cs)
        BY <1>4, CommitActive
    <2>2. QED
        BY <1>2, <1>3, <2>1
<1>5. CASE w.kind = "delete"
    <2>1. /\ Active' = Active \ {w.id} /\ w.id \in Active
          /\ DeletedBy(cs)' = DeletedBy(cs) \cup
                               (IF cs = changesets + 1 THEN {w.id} ELSE {})
        BY <1>5, CommitActive
    <2>2. DeletedBy(cs)' = {w.id}
        BY <1>2, <1>0, <2>1
    <2> HIDE DEF w
    <2>3. QED
        BY <1>3, <2>1, <2>2
<1>6. QED
    BY <1>1, <1>4, <1>5

LEMMA CommitLastOK ==
    ASSUME IInv, OneIInv, NEW a \in Admins, Commit(a)
    PROVE  LastOK'
<1> DEFINE t == txn[a]
           w == t.boxw
<1>1. CASE MakesChangeset(t) /\ t.op # "undo"
    <2>1. t.op \in {"apply", "reset", "delete"} /\ changesets' = changesets + 1
        BY <1>1, CommitOps DEF MakesChangeset
    <2>2. last' = [op |-> t.op, before |-> [l \in Legs |-> Resolve(l)]]
        BY <1>1 DEF Commit
    <2>3. BoxesBefore' = Active
        BY <2>1, CommitBoxesBefore
    <2>4. ASSUME NEW l \in Legs
          PROVE  /\ last'.before[l] = ResolveIn(l, LinkBefore(l)', BoxesBefore')
                 /\ LinkBefore(l)'.action = "pin" => LinkBefore(l)'.box \in BoxesBefore'
        <3>1. LinkBefore(l)' = LastLink(l)
            BY <1>1, CommitLinkBefore
        <3>2. last'.before[l] = ResolveIn(l, LastLink(l), Active)
            BY <2>2, ResolveIs DEF IInv
        <3>3. LastLink(l).action = "pin" => LastLink(l).box \in Active
            BY CurrentIsLast DEF IInv, OneIInv, PinsAreActive
        <3>4. QED
            BY <2>3, <3>1, <3>2, <3>3
    <2>5. last'.op # "none"
        BY <2>1, <2>2
    <2>6. \A l : ResolveIn(l, LinkBefore(l), BoxesBefore)' = ResolveIn(l, LinkBefore(l)', BoxesBefore')
        BY DEF ResolveIn
    <2>7. QED
        BY <2>4, <2>5, <2>6 DEF LastOK
<1>2. CASE MakesChangeset(t) /\ t.op = "undo"
    <2>1. last'.op = "undo"
        BY <1>2 DEF Commit
    <2>2. QED
        BY <2>1 DEF LastOK
<1>3. CASE ~MakesChangeset(t)
    <2>1. UNCHANGED <<changesets, last>> /\ t.op \in {"create", "update"}
        BY <1>3 DEF Commit, MakesChangeset
    <2>2. \A l \in Legs : links'[l] = links[l]
        BY <1>3, CommitRows
    <2>3. \A l \in Legs : LinkBefore(l)' = LinkBefore(l)
        BY <2>1, <2>2 DEF LinkBefore, LastLink, RowAt
    <2>4. /\ BoxesBefore \subseteq BoxesBefore'
          /\ \A b \in 1..NumSeeded : b \in BoxesBefore' <=> b \in BoxesBefore
        <3>1. w.kind \in {"insert", "rename"}
            BY <1>3, CommitOps
        <3>0. PICK cs : cs = changesets
            OBVIOUS
        <3>2. /\ BoxesBefore = Active \cup DeletedBy(cs)
              /\ BoxesBefore' = Active' \cup DeletedBy(cs)'
            BY <2>1, <3>0 DEF BoxesBefore, DeletedBy
        <3>3. CASE w.kind = "rename"
            <4>1. Active' = Active /\ DeletedBy(cs)' = DeletedBy(cs)
                BY <3>3, CommitActive
            <4>2. BoxesBefore' = BoxesBefore
                BY <3>2, <4>1
            <4>3. QED
                BY <4>2
        <3>4. CASE w.kind = "insert"
            <4>1. /\ Active' = Active \cup {NextId} /\ NextId \notin InUse
                  /\ DeletedBy(cs)' = DeletedBy(cs)
                BY <3>4, CommitActive
            <4>2. BoxesBefore' = BoxesBefore \cup {NextId}
                BY <3>2, <4>1
            <4>3. 1..NumSeeded \subseteq InUse
                BY DEF IInv, RefsOK
            <4>4. QED
                BY <4>1, <4>2, <4>3
        <3>5. QED
            BY <3>1, <3>3, <3>4
    <2>5. ASSUME last.op \in {"apply", "reset", "delete"}, NEW l \in Legs
          PROVE  /\ last.before[l] = ResolveIn(l, LinkBefore(l), BoxesBefore')
                 /\ LinkBefore(l).action = "pin" => LinkBefore(l).box \in BoxesBefore'
        <3>1. /\ last.before[l] = ResolveIn(l, LinkBefore(l), BoxesBefore)
              /\ LinkBefore(l).action = "pin" => LinkBefore(l).box \in BoxesBefore
            BY <2>5 DEF OneIInv, LastOK
        <3> DEFINE S == BoxesBefore
                   T == BoxesBefore'
                   link == LinkBefore(l)
        <3>2. /\ \A b \in 1..NumSeeded : b \in S <=> b \in T
              /\ link.action = "pin" => (link.box \in S <=> link.box \in T)
            BY <2>4, <3>1
        <3> HIDE DEF S, T, link
        <3>3. ResolveIn(l, link, S) = ResolveIn(l, link, T)
            BY <3>2, ResolveAgrees
        <3>4. QED
            BY <2>4, <3>1, <3>3 DEF S, T, link
    <2>6. \A l : ResolveIn(l, LinkBefore(l), BoxesBefore)' = ResolveIn(l, LinkBefore(l)', BoxesBefore')
        BY DEF ResolveIn
    <2>7. last.op = "none" => changesets = 0
        BY DEF OneIInv, LastOK
    <2>8. QED
        BY <2>1, <2>3, <2>5, <2>6, <2>7 DEF LastOK
<1>4. QED
    BY <1>1, <1>2, <1>3

LEMMA CommitKeeps ==
    ASSUME IInv, OneIInv, OneAdmin, TypeOK', NewestLinkIsCurrent', NEW a \in Admins, Commit(a)
    PROVE  OneIInv'
    BY CommitUnassigned, CommitDeletions, CommitRowsOK, CommitLastOK, CommitReady,
       CommitPins, CommitNames DEF OneIInv

---------------------------------------------------------------------------
(* The invariant is inductive.                                             *)

LEMMA OneInit == SeedNamesDiffer /\ Init => OneIInv
<1> SUFFICES ASSUME SeedNamesDiffer, Init PROVE OneIInv
    OBVIOUS
<1>1. Active = 1..NumSeeded /\ \A b \in Boxes : box[b].state # "deleted"
    BY BoundsAssumption DEF Init, Active, Boxes
<1>2. UnassignedOK /\ DeletionsOK
    BY <1>1, UnassignedType DEF UnassignedOK, DeletionsOK
<1>3. RowsOK
    BY DEF Init, RowsOK
<1>4. GoldOK
    BY DEF Init, GoldOK, OnBoard
<1>5. LastOK
    BY DEF Init, LastOK
<1>6. ReadyOK
    BY SettledReady DEF Init, ReadyOK
<1>7. PinsAreActive
    BY DEF Init, PinsAreActive, CurrentLink, CurrentAt, CurrentRows, RowAt, NoRow
<1>8. TypedNamesUnique
    <2>1. \A b \in 1..NumSeeded : b \in Boxes /\ b <= NumSeeded
        BY BoundsAssumption DEF Boxes
    <2>2. \A b \in Active : box[b].name.base = SeedName[b]
        BY <1>1, <2>1 DEF Init, Typed
    <2>3. QED
        BY <1>1, <2>2 DEF TypedNamesUnique, SeedNamesDiffer
<1>9. QED
    BY <1>2, <1>3, <1>4, <1>5, <1>6, <1>7, <1>8 DEF OneIInv

LEMMA GoldKept ==
    ASSUME GoldOK, UNCHANGED <<gold, goldBoxes, links>>, OnBoard' = OnBoard
    PROVE  GoldOK'
<1>1. \A l : /\ RuledIn(l, goldBoxes)' = RuledIn(l, goldBoxes)
             /\ SourceIn(l, goldBoxes)' = SourceIn(l, goldBoxes)
    BY DEF RuledIn, SourceIn, RuleIn, HitsIn
<1>2. QED
    BY <1>1 DEF GoldOK

\* A step that only opens or closes a transaction
LEMMA TxnStep ==
    ASSUME IInv, OneIInv, OneAdmin, TypeOK', NEW a \in Admins, NEW t, Ready(t),
           txn' = [txn EXCEPT ![a] = t],
           UNCHANGED <<box, links, gold, changesets, goldBoxes, last>>
    PROVE  OneIInv'
<1>1. OnBoard' = OnBoard
    BY DEF OnBoard
<1>2. t \in Txn /\ txn'[a] = t
    BY DEF IInv, TypeOK
<1>3. Ready(t)'
    BY <1>1, <1>2, ReadyKept DEF Txn
<1>4. \A b \in Admins : b = a
    BY DEF OneAdmin
<1>5. ReadyOK'
    BY <1>2, <1>3, <1>4 DEF ReadyOK
<1>6. GoldOK'
    BY <1>1, GoldKept DEF OneIInv
<1>7. QED
    BY <1>1, <1>5, <1>6, QuietStep DEF OneIInv

LEMMA PipelineStep ==
    ASSUME IInv, OneIInv, Pipeline
    PROVE  OneIInv'
<1>1. UNCHANGED <<box, links, txn, changesets, last>>
    BY DEF Pipeline
<1>2. OnBoard \subseteq OnBoard' /\ GoldOK'
    BY PipelineGold
<1>3. ReadyOK'
    <2>1. SUFFICES ASSUME NEW b \in Admins PROVE Ready(txn[b])'
        BY DEF ReadyOK
    <2>2. PICK t : t = txn[b]
        OBVIOUS
    <2>3. Ready(t) /\ t \in Txn
        BY <2>2 DEF OneIInv, ReadyOK, IInv, TypeOK
    <2>4. Ready(t)'
        BY <1>1, <1>2, <2>3, ReadyKept DEF Txn
    <2>5. QED
        BY <1>1, <2>2, <2>4
<1>4. QED
    BY <1>1, <1>2, <1>3, QuietStep DEF OneIInv

LEMMA OneStep == OneAdmin /\ IInv /\ OneIInv /\ [Next]_vars => OneIInv'
<1> SUFFICES ASSUME OneAdmin, IInv, OneIInv, [Next]_vars PROVE OneIInv'
    OBVIOUS
<1>1. TypeOK' /\ NewestLinkIsCurrent'
    BY TypeStep, NewestStep DEF IInv
<1>2. ASSUME NEW a \in Admins,
             \/ BeginApply(a) \/ BeginReset(a) \/ BeginDelete(a)
             \/ BeginUndo(a) \/ BeginCreate(a) \/ BeginUpdate(a)
      PROVE  OneIInv'
    <2>1. PICK t : Start(a, t) /\ Ready(t)
        BY <1>2, BeginReady
    <2>2. QED
        BY <1>1, <2>1, TxnStep DEF Start
<1>3. ASSUME NEW a \in Admins, Abort(a) PROVE OneIInv'
    BY <1>1, <1>3, TxnStep, SettledReady DEF Abort
<1>4. ASSUME NEW a \in Admins, RequestRecompute(a) PROVE OneIInv'
    BY <1>1, <1>4, TxnStep, SettledReady DEF RequestRecompute
<1>5. ASSUME NEW a \in Admins, Commit(a) PROVE OneIInv'
    BY <1>1, <1>5, CommitKeeps
<1>6. CASE Pipeline
    BY <1>6, PipelineStep
<1>7. CASE UNCHANGED vars
    <2>1. UNCHANGED <<box, links, txn, gold, goldBoxes, changesets, last>>
        BY <1>7 DEF vars
    <2>2. OnBoard' = OnBoard
        BY <2>1 DEF OnBoard
    <2>3. GoldOK'
        BY <2>1, <2>2, GoldKept DEF OneIInv
    <2>4. ReadyOK'
        <3>1. SUFFICES ASSUME NEW b \in Admins PROVE Ready(txn[b])'
            BY DEF ReadyOK
        <3>2. PICK t : t = txn[b]
            OBVIOUS
        <3>3. Ready(t) /\ t \in Txn
            BY <3>2 DEF OneIInv, ReadyOK, IInv, TypeOK
        <3>4. Ready(t)'
            BY <2>1, <2>2, <3>3, ReadyKept DEF Txn
        <3>5. QED
            BY <2>1, <3>2, <3>4
    <2>5. QED
        BY <2>1, <2>2, <2>3, <2>4, QuietStep DEF OneIInv
<1>8. QED
    BY <1>2, <1>3, <1>4, <1>5, <1>6, <1>7 DEF Next

\* With one admin, OneIInv holds in every reachable state.
LEMMA OneInductive == OneAdmin /\ SeedNamesDiffer => (Spec => [](IInv /\ OneIInv))
<1> SUFFICES ASSUME OneAdmin, SeedNamesDiffer PROVE Spec => [](IInv /\ OneIInv)
    OBVIOUS
<1>1. Init => OneIInv
    BY OneInit
<1>2. IInv /\ OneIInv /\ [Next]_vars => OneIInv'
    BY OneStep
<1>3. QED
    BY Inductive, <1>1, <1>2, PTL DEF Spec

---------------------------------------------------------------------------
(* The theorems.                                                           *)

\* A single admin's board never pins a leg to a deleted box, however deletes,
\* undos, restores and pipeline runs follow one another.
THEOREM PinsActive == OneAdmin /\ SeedNamesDiffer => (Spec => []PinsAreActive)
<1> SUFFICES ASSUME OneAdmin, SeedNamesDiffer PROVE Spec => []PinsAreActive
    OBVIOUS
<1>1. IInv /\ OneIInv => PinsAreActive
    BY DEF OneIInv
<1>2. QED
    BY OneInductive, <1>1, PTL

\* A single admin's board already shows what the next pipeline run will make
\* of today's boxes, and marks exactly the legs that run will change.
THEOREM BoardForeseen == OneAdmin /\ SeedNamesDiffer => (Spec => []BoardForeseesPipeline)
<1> SUFFICES ASSUME OneAdmin, SeedNamesDiffer PROVE Spec => []BoardForeseesPipeline
    OBVIOUS
<1>1. IInv /\ OneIInv => BoardForeseesPipeline
    BY BoardForesees DEF IInv, OneIInv
<1>2. QED
    BY OneInductive, <1>1, PTL

\* A key a single admin's create or restore has chosen is still free when it
\* commits.
THEOREM KeysFree == OneAdmin /\ SeedNamesDiffer => (Spec => []KeysNeverCollide)
<1> SUFFICES ASSUME OneAdmin, SeedNamesDiffer PROVE Spec => []KeysNeverCollide
    OBVIOUS
<1>1. IInv /\ OneIInv => KeysNeverCollide
    BY DEF OneIInv, ReadyOK, Ready, BoxReady, KeysNeverCollide
<1>2. QED
    BY OneInductive, <1>1, PTL

\* A single admin never ends with two active boxes of one typed name.
THEOREM NamesUnique == OneAdmin /\ SeedNamesDiffer => (Spec => []TypedNamesUnique)
<1> SUFFICES ASSUME OneAdmin, SeedNamesDiffer PROVE Spec => []TypedNamesUnique
    OBVIOUS
<1>1. IInv /\ OneIInv => TypedNamesUnique
    BY DEF OneIInv
<1>2. QED
    BY OneInductive, <1>1, PTL
\* Only its own commit commits a transaction.
LEMMA OnlyCommitCommits ==
    ASSUME TypeOK, OpsOK, [Next]_vars, NEW a \in Admins,
           txn[a].op # "committed", txn'[a].op = "committed"
    PROVE  Commit(a)
<1>1. txn \in [Admins -> Txn]
    BY DEF TypeOK
<1>2. ASSUME NEW b \in Admins, NEW t, txn' = [txn EXCEPT ![b] = t], t.op # "committed"
      PROVE  FALSE
    BY <1>1, <1>2
<1>3. ASSUME NEW b \in Admins,
             \/ BeginApply(b) \/ BeginReset(b) \/ BeginDelete(b)
             \/ BeginUndo(b) \/ BeginCreate(b) \/ BeginUpdate(b)
      PROVE  FALSE
    <2>1. PICK t : /\ Start(b, t)
                   /\ t.op \in {"apply", "reset", "delete", "undo", "create", "update"}
        BY <1>3, BeginStarts
    <2>2. QED
        BY <1>2, <2>1 DEF Start
<1>4. ASSUME NEW b \in Admins, Abort(b) \/ RequestRecompute(b) PROVE FALSE
    BY <1>2, <1>4 DEF Abort, RequestRecompute, Idle
<1>5. ASSUME NEW b \in Admins, Commit(b), b # a PROVE FALSE
    BY <1>1, <1>5 DEF Commit
<1>6. ASSUME UNCHANGED txn PROVE FALSE
    BY <1>6
<1>7. QED
    BY <1>3, <1>4, <1>5, <1>6 DEF Next, Pipeline, vars

LEMMA DeleteStep ==
    ASSUME IInv, OneIInv, TypeOK', NewestLinkIsCurrent', NEW a \in Admins, Commit(a),
           txn[a].op = "delete", txn[a].fresh,
           NEW l \in txn[a].saw, Resolve(l).sid = txn[a].boxw.id
    PROVE  Resolve(l)'.sid = Unassigned /\ Resolve(l)'.src = "manual"
<1>1. l \in Legs
    BY DEF IInv, TypeOK, Txn
<1>2. PlanReady(txn[a])
    BY CommitOps DEF Ready
<1>3. Planned(txn[a], l)
    BY <1>1, <1>2, ResolveIs DEF IInv, PlanReady
<1>4. LastLink(l)' = [action |-> "pin", box |-> Unassigned]
    BY <1>1, <1>2, <1>3, CommitLast DEF PlanReady
<1>5. Unassigned \in Active'
    BY CommitUnassigned DEF UnassignedOK
<1>6. Resolve(l)' = ResolveIn(l, LastLink(l)', Active')
    BY <1>1, ResolveIsNext
<1>7. QED
    BY <1>4, <1>5, <1>6 DEF ResolveIn

LEMMA UndoStep ==
    ASSUME IInv, OneIInv, TypeOK', NewestLinkIsCurrent', NEW a \in Admins, Commit(a),
           txn[a].op = "undo", txn[a].undoes = changesets, last.op # "undo",
           NEW l \in Legs
    PROVE  Resolve(l)' = last.before[l]
<1> DEFINE t == txn[a]
           n == Len(links[l])
<1>1. UndoReady(t) /\ t.boxw.kind \in {"none", "restore"}
    BY CommitOps DEF Ready, KindOf
<1>2. last.op \in {"apply", "reset", "delete"}
    <2>1. last.op \in {"none", "apply", "reset", "delete", "undo"}
        BY DEF IInv, TypeOK
    <2>2. last.op # "none"
        BY <1>1 DEF OneIInv, LastOK, UndoReady
    <2>3. QED
        BY <2>1, <2>2
<1>3. /\ last.before[l] = ResolveIn(l, LinkBefore(l), BoxesBefore)
      /\ LinkBefore(l).action = "pin" => LinkBefore(l).box \in BoxesBefore
    BY <1>2 DEF OneIInv, LastOK
<1>4. Active' = BoxesBefore
    <2>1. DeletedBy(changesets) = IF t.boxw.kind = "restore" THEN {t.boxw.id} ELSE {}
        BY <1>1 DEF UndoReady
    <2>2. CASE t.boxw.kind = "none"
        <3>1. Active' = Active
            BY <2>2, CommitActive
        <3>2. QED
            BY <2>1, <2>2, <3>1 DEF BoxesBefore
    <2>3. CASE t.boxw.kind = "restore"
        <3>1. Active' = Active \cup {t.boxw.id}
            BY <2>3, CommitActive
        <3>2. QED
            BY <2>1, <2>3, <3>1 DEF BoxesBefore
    <2>4. QED
        BY <1>1, <2>2, <2>3
<1>5. Resolve(l)' = ResolveIn(l, LastLink(l)', BoxesBefore)
    BY <1>4, ResolveIsNext
<1>6. CASE Planned(t, l)
    <2>1. PICK p \in t.plan : p.leg = l /\ LastLink(l)' = [action |-> p.action, box |-> p.box]
        BY <1>6, CommitLast
    <2>2. links[l] # <<>> /\ links[l][n].cs = changesets /\ p = RevertRow(l, n)
        BY <1>1, <2>1 DEF UndoReady
    <2>3. LinkBefore(l) = RowAt(l, n - 1)
        BY <2>2 DEF LinkBefore
    <2> HIDE DEF n
    <2>4. CASE LinkBefore(l).action = "pin"
        <3>1. p.action = "pin" /\ p.box = LinkBefore(l).box
            BY <2>2, <2>3, <2>4 DEF RevertRow
        <3>2. QED
            BY <1>3, <1>5, <2>1, <2>4, <3>1 DEF ResolveIn
    <2>5. CASE LinkBefore(l).action # "pin"
        <3>1. p.action = "unpin"
            BY <2>2, <2>3, <2>5 DEF RevertRow
        <3>2. QED
            BY <1>3, <1>5, <2>1, <2>5, <3>1 DEF ResolveIn
    <2>6. QED
        BY <2>4, <2>5
<1>7. CASE ~Planned(t, l)
    <2>1. LastLink(l)' = LastLink(l)
        BY <1>7, CommitLast
    <2>2. ASSUME links[l] # <<>>, links[l][n].cs = changesets PROVE FALSE
        <3>1. RevertRow(l, n).box \notin PinBackTo(DeletedBy(changesets))
            BY <1>1, <1>7, <2>2 DEF UndoReady
        <3>2. LinkBefore(l) = RowAt(l, n - 1)
            BY <2>2 DEF LinkBefore
        <3> HIDE DEF n
        <3>3. RevertRow(l, n).box = IF LinkBefore(l).action = "pin" THEN LinkBefore(l).box ELSE NoBox
            BY <3>2 DEF RevertRow
        <3>4. QED
            BY <1>3, <3>1, <3>3 DEF PinBackTo, BoxesBefore
    <2>3. LinkBefore(l) = LastLink(l)
        BY <2>2 DEF LinkBefore
    <2>4. QED
        BY <1>3, <1>5, <2>1, <2>3
<1>8. QED
    BY <1>6, <1>7

\* With one admin at work, deleting a box leaves no leg the pipeline would
\* still put in it, if gold was built from today's boxes.
THEOREM DeleteEmpties == OneAdmin /\ SeedNamesDiffer => (Spec => DeleteEmptiesBox)
<1> SUFFICES ASSUME OneAdmin, SeedNamesDiffer PROVE Spec => DeleteEmptiesBox
    OBVIOUS
<1> DEFINE Moved(a) ==
        (txn[a].op = "delete" /\ txn'[a].op = "committed" /\ txn[a].fresh)
        => \A l \in txn[a].saw :
              Resolve(l).sid = txn[a].boxw.id =>
                  /\ Resolve(l)'.sid = Unassigned
                  /\ Resolve(l)'.src = "manual"
<1>1. ASSUME IInv, OneIInv, [Next]_vars PROVE [\A a \in Admins : Moved(a)]_vars
    <2>1. TypeOK' /\ NewestLinkIsCurrent'
        BY <1>1, TypeStep, NewestStep DEF IInv
    <2>2. ASSUME NEW a \in Admins, txn[a].op = "delete", txn'[a].op = "committed", txn[a].fresh
          PROVE  Commit(a)
        BY <1>1, <2>2, OnlyCommitCommits DEF IInv
    <2>3. QED
        BY <1>1, <2>1, <2>2, DeleteStep
<1>2. QED
    BY OneInductive, <1>1, PTL DEF Spec, DeleteEmptiesBox

\* With one admin at work, undoing the newest changeset gives every leg back
\* the box, source and rule box it had before it.
THEOREM UndoCorrect == OneAdmin /\ SeedNamesDiffer => (Spec => UndoRestores)
<1> SUFFICES ASSUME OneAdmin, SeedNamesDiffer PROVE Spec => UndoRestores
    OBVIOUS
<1> DEFINE Restored(a) ==
        (/\ txn[a].op = "undo" /\ txn'[a].op = "committed"
         /\ txn[a].undoes = changesets /\ last.op # "undo")
        => \A l \in Legs : Resolve(l)' = last.before[l]
<1>1. ASSUME IInv, OneIInv, [Next]_vars PROVE [\A a \in Admins : Restored(a)]_vars
    <2>1. TypeOK' /\ NewestLinkIsCurrent'
        BY <1>1, TypeStep, NewestStep DEF IInv
    <2>2. ASSUME NEW a \in Admins, txn[a].op = "undo", txn'[a].op = "committed"
          PROVE  Commit(a)
        BY <1>1, <2>2, OnlyCommitCommits DEF IInv
    <2>3. QED
        BY <1>1, <2>1, <2>2, UndoStep
<1>2. QED
    BY OneInductive, <1>1, PTL DEF Spec, UndoRestores
=============================================================================
