----------------------------- MODULE BoxBuilder -----------------------------
(***************************************************************************)
(* The admin Box builder (app/web/admin/box_builder.py) of one account:    *)
(* boxes (core.strategy), the append-only manual links that pin a position *)
(* leg to a box (core.strategy_link), and the gold rows the board is drawn *)
(* from.  Every write endpoint is a READ COMMITTED transaction: Begin...   *)
(* takes its reads and decides what to write, Commit writes under the two  *)
(* partial unique indexes of the database, Abort rolls back, and           *)
(* RequestRecompute is the call made after the commit.  A pipeline run is  *)
(* one step here; its inner steps are in module Recompute.                 *)
(***************************************************************************)
EXTENDS Integers, Sequences, FiniteSets

CONSTANTS
    Admins,         \* concurrent admin requests, one transaction each
    Legs,           \* position legs (posId + cTime) of the account
    NumBoxes,       \* bound: rows core.strategy can hold
    NumSeeded,      \* boxes 1..NumSeeded are there and active at the start
    SeedName,       \* [1..NumSeeded -> Names], their names
    RulePref,       \* [Legs -> Seq(1..NumSeeded)]: the boxes whose rules match
                    \* the leg, best first (priority, then strategy id)
    Names,          \* names an admin may type
    MaxChangesets   \* bound: changesets ever committed

Boxes == 1..NumBoxes
Unassigned == 1     \* the fallback box: not editable, not deletable

ASSUME BoundsAssumption ==
    /\ NumBoxes \in Nat /\ NumSeeded \in 1..NumBoxes /\ MaxChangesets \in Nat
    /\ SeedName \in [1..NumSeeded -> Names]
    /\ RulePref \in [Legs -> Seq(1..NumSeeded)]

VARIABLES
    box,        \* core.strategy: state, name, key and deleted_changeset_id
    links,      \* core.strategy_link: the rows of each leg in id order
    gold,       \* gold.position_leg: strategy, source and rule strategy
    txn,        \* what each admin's open transaction has decided to write
    changesets, \* number of changesets committed; the last is its id
    recompute,  \* a recompute was requested and has not started
    goldBoxes,  \* history: the active boxes the last pipeline run saw
    last        \* history: the last changeset, its kind and the legs before

vars == <<box, links, gold, txn, changesets, recompute, goldBoxes, last>>

---------------------------------------------------------------------------
(* Names and keys.  A name is what was typed and how often an undo added   *)
(* " (restored)"; a key is a name and the "-2", "-3" ... suffixes added.   *)

Typed(n) == [base |-> n, restored |-> 0]
BoxNames == [base : Names, restored : Nat]
Keys == [of : BoxNames, suffix : Seq(Nat)]
KeyOf(name) == [of |-> name, suffix |-> <<>>]

Active == {b \in Boxes : box[b].state = "active"}

\* _name_taken: an active box other than `except` has the name
NameTaken(name, except) == \E b \in Active \ except : box[b].name = name

\* _free_key: base, else base-2, base-3 ... not used by another active box
TakenKeys(except) == {box[b].key : b \in Active \ except}
Suffixed(base, i) ==
    IF i = 1 THEN base ELSE [base EXCEPT !.suffix = Append(base.suffix, i)]
FreeSuffixes(base, except) ==
    {i \in 1..(NumBoxes + 1) : Suffixed(base, i) \notin TakenKeys(except)}
FreeKey(base, except) ==
    Suffixed(base, CHOOSE i \in FreeSuffixes(base, except) :
                       \A j \in FreeSuffixes(base, except) : i <= j)

---------------------------------------------------------------------------
(* Links, and what the pipeline makes of them.                             *)

NoBox == 0
NoRow == [action |-> "none", box |-> NoBox]

\* _current_links: a row of the leg that is not superseded (0: none)
CurrentRows(l) == {i \in DOMAIN links[l] : links[l][i].current}
CurrentAt(l) == IF CurrentRows(l) = {} THEN 0 ELSE CHOOSE i \in CurrentRows(l) : TRUE

RowAt(l, i) == IF i = 0 THEN NoRow
               ELSE [action |-> links[l][i].action, box |-> links[l][i].box]

CurrentLink(l) == RowAt(l, CurrentAt(l))

\* first_matching_rule over the rules of boxes that are not deleted
RuleHits(l) == {i \in DOMAIN RulePref[l] : RulePref[l][i] \in Active}
RuleBox(l) ==
    IF RuleHits(l) = {} THEN NoBox
    ELSE RulePref[l][CHOOSE i \in RuleHits(l) : \A j \in RuleHits(l) : i <= j]

\* _Lookups.pins: the current pin, unless its box is deleted
PinBox(l) == IF CurrentLink(l).action = "pin" /\ CurrentLink(l).box \in Active
             THEN CurrentLink(l).box ELSE NoBox

\* resolve_strategy: manual pin > rule > unassigned
Resolve(l) ==
    LET ruled == IF RuleBox(l) = NoBox THEN Unassigned ELSE RuleBox(l)
    IN  IF PinBox(l) # NoBox
        THEN [sid |-> PinBox(l), src |-> "manual", rule |-> ruled]
        ELSE [sid |-> ruled, rule |-> ruled,
              src |-> IF RuleBox(l) = NoBox THEN "default" ELSE "rule"]

NoLeg == [sid |-> NoBox, src |-> "none", rule |-> NoBox]
OnBoard == {l \in Legs : gold[l] # NoLeg}

\* Operators marked "Mutant" are plausible bugs, used only to show that the
\* properties notice them.

\* Mutant: the board shows gold and ignores links not recomputed yet
GoldOnly(l) == [sid |-> gold[l].sid, pending |-> FALSE]

\* _leg_dict: gold and the current link -> what the board shows
Effective(l) ==
    LET link == CurrentLink(l)
        g == gold[l]
    IN  CASE link.action = "pin" ->
               [sid |-> link.box,
                pending |-> link.box # g.sid \/ g.src # "manual"]
          [] link.action = "unpin" /\ g.src = "manual" ->
               [sid |-> g.rule, pending |-> TRUE]
          [] OTHER -> [sid |-> g.sid, pending |-> FALSE]

---------------------------------------------------------------------------
(* Transactions.  plan: the link rows to append, each with the index of    *)
(* the row it supersedes; boxw: the change of a box row.  undoes, saw and  *)
(* fresh (the legs a delete saw, and whether gold was built from today's   *)
(* boxes) are history the properties use.                                  *)

NoBoxWrite == [kind |-> "none", id |-> NoBox]
Idle == [op |-> "idle", plan |-> {}, boxw |-> NoBoxWrite, undoes |-> 0,
         saw |-> {}, fresh |-> FALSE]

\* _write_link: nothing to do when the read current row already says so
Writes(l, action, b) ==
    /\ CurrentLink(l) # [action |-> action, box |-> b]
    /\ ~(CurrentAt(l) = 0 /\ action = "unpin")

PlanRow(l, action, b) ==
    [leg |-> l, action |-> action, box |-> b, old |-> CurrentAt(l)]

Start(a, t) ==
    /\ txn[a] = Idle
    /\ txn' = [txn EXCEPT ![a] = t]
    /\ UNCHANGED <<box, links, gold, changesets, recompute, goldBoxes, last>>

\* POST /apply: pin some legs of the board to active boxes
BeginApply(a) ==
    /\ changesets < MaxChangesets
    /\ \E moved \in SUBSET OnBoard : \E target \in [moved -> Active] :
          LET plan == {PlanRow(l, "pin", target[l]) :
                          l \in {m \in moved : Writes(m, "pin", target[m])}}
          IN  /\ plan # {}
              /\ Start(a, [Idle EXCEPT !.op = "apply", !.plan = plan])

\* POST /reset: hand some legs back to the rules
BeginReset(a) ==
    /\ changesets < MaxChangesets
    /\ \E chosen \in SUBSET OnBoard :
          LET plan == {PlanRow(l, "unpin", NoBox) :
                          l \in {m \in chosen : Writes(m, "unpin", NoBox)}}
          IN  /\ plan # {}
              /\ Start(a, [Idle EXCEPT !.op = "reset", !.plan = plan])

\* DELETE /strategies/{id}: pin the box's legs to unassigned, soft-delete it
BeginDelete(a) ==
    /\ changesets < MaxChangesets
    /\ \E b \in Active \ {Unassigned} :
          LET held == {l \in OnBoard : Effective(l).sid = b}
              plan == {PlanRow(l, "pin", Unassigned) :
                          l \in {m \in held : Writes(m, "pin", Unassigned)}}
          IN  Start(a, [Idle EXCEPT !.op = "delete", !.plan = plan,
                           !.boxw = [kind |-> "delete", id |-> b],
                           !.saw = OnBoard, !.fresh = goldBoxes = Active])

\* the box that the changeset deleted, if it is still deleted
DeletedBy(cs) == {b \in Boxes : box[b].state = "deleted" /\ box[b].delCs = cs}

\* Mutant: a box comes back with the name and key it had
RestoreAsWas(b) ==
    [kind |-> "restore", id |-> b, was |-> box[b],
     name |-> box[b].name, key |-> box[b].key]

\* Mutant: only the key is made unique
RestoreFreesKeyOnly(b) ==
    [kind |-> "restore", id |-> b, was |-> box[b],
     name |-> box[b].name, key |-> FreeKey(box[b].key, {b})]

\* the restored box's name and key; the row as read tells which of the two
\* changed (the ORM writes only changed columns)
RestoreOf(b) ==
    [kind |-> "restore", id |-> b, was |-> box[b],
     name |-> IF NameTaken(box[b].name, {})
              THEN [box[b].name EXCEPT !.restored = @ + 1] ELSE box[b].name,
     key |-> FreeKey(box[b].key, {b})]

\* Mutant: the state before the leg's first row is copied as it is
RevertRaw(l, i) ==
    [leg |-> l, old |-> i, action |-> RowAt(l, i - 1).action, box |-> RowAt(l, i - 1).box]

\* Mutant: undo always hands the leg back to the rules
RevertToRules(l, i) == [leg |-> l, old |-> i, action |-> "unpin", box |-> NoBox]

\* the row an undo appends for row i of the leg: the state before row i
RevertRow(l, i) ==
    LET prev == RowAt(l, i - 1)
    IN  [leg |-> l, old |-> i,
         action |-> IF prev.action = "pin" THEN "pin" ELSE "unpin",
         box |-> IF prev.action = "pin" THEN prev.box ELSE NoBox]

\* Mutant: a revert does not ask whether the box still exists
PinBackAnywhere(restored) == {NoBox} \cup Boxes

\* boxes a revert may pin back to: the active ones and the one just restored
PinBackTo(restored) == {NoBox} \cup Active \cup restored

\* POST /undo: revert the changeset's rows that are still current
BeginUndo(a) ==
    /\ changesets < MaxChangesets
    /\ \E cs \in 1..changesets :
          LET restored == DeletedBy(cs)
              rows == {r \in Legs \X (1..MaxChangesets) :
                          /\ r[2] \in DOMAIN links[r[1]]
                          /\ links[r[1]][r[2]].cs = cs
                          /\ links[r[1]][r[2]].current}
              plan == {p \in {RevertRow(r[1], r[2]) : r \in rows} :
                          p.box \in PinBackTo(restored)}
          IN  /\ plan # {} \/ restored # {}
              /\ Start(a, [Idle EXCEPT !.op = "undo", !.plan = plan, !.undoes = cs,
                              !.boxw = IF restored = {} THEN NoBoxWrite
                                       ELSE RestoreOf(CHOOSE b \in restored : TRUE)])

\* POST /strategies: a name no active box has, a free key
BeginCreate(a) ==
    \E n \in Names \ {SeedName[Unassigned]} :
        /\ ~NameTaken(Typed(n), {})
        /\ Start(a, [Idle EXCEPT !.op = "create",
                        !.boxw = [kind |-> "insert", id |-> NoBox, name |-> Typed(n),
                                  key |-> FreeKey(KeyOf(Typed(n)), {})]])

\* PUT /strategies/{id}: rename; the key stays
BeginUpdate(a) ==
    \E b \in Active \ {Unassigned}, n \in Names \ {SeedName[Unassigned]} :
        /\ ~NameTaken(Typed(n), {b})
        /\ Start(a, [Idle EXCEPT !.op = "update",
                        !.boxw = [kind |-> "rename", id |-> b, name |-> Typed(n)]])

---------------------------------------------------------------------------
(* Commit under the unique indexes.                                        *)

\* Mutant: no unique index on current rows
NoLinkIndex(p) == TRUE

\* uq_strategy_link_current: no other row of the leg is current
LinkIndexFree(p) == \A i \in DOMAIN links[p.leg] : links[p.leg][i].current => i = p.old

\* the columns a restore leaves behind: only the changed ones are written
NameWritten(w) == IF w.name # w.was.name THEN w.name ELSE box[w.id].name
KeyWritten(w) == IF w.key # w.was.key THEN w.key ELSE box[w.id].key

\* uq_strategy_key_active: no other active box has the key
KeyIndexFree(w) ==
    /\ w.kind = "insert" => \A b \in Active : box[b].key # w.key
    /\ w.kind = "restore" => \A b \in Active \ {w.id} : box[b].key # KeyWritten(w)

\* Mutant: a leg's current row is updated in place
UpdateLink(rows, p, cs) ==
    LET row == [action |-> p.action, box |-> p.box, cs |-> cs, current |-> TRUE]
    IN  IF p.old = 0 THEN Append(rows, row) ELSE [rows EXCEPT ![p.old] = row]

AppendLink(rows, p, cs) ==
    Append([i \in DOMAIN rows |-> IF i = p.old THEN [rows[i] EXCEPT !.current = FALSE]
                                  ELSE rows[i]],
           [action |-> p.action, box |-> p.box, cs |-> cs, current |-> TRUE])

FreeRows == {b \in Boxes : box[b].state = "free"}
NextId == CHOOSE b \in FreeRows : \A c \in FreeRows : b <= c

WriteBox(w, cs) ==
    CASE w.kind = "none" -> box
      [] w.kind = "insert" ->
           [box EXCEPT ![NextId] = [state |-> "active", name |-> w.name,
                                    key |-> w.key, delCs |-> 0]]
      [] w.kind = "rename" -> [box EXCEPT ![w.id].name = w.name]
      [] w.kind = "delete" ->
           [box EXCEPT ![w.id] = [@ EXCEPT !.state = "deleted", !.delCs = cs]]
      [] w.kind = "restore" ->
           [box EXCEPT ![w.id] = [state |-> "active", name |-> NameWritten(w),
                                  key |-> KeyWritten(w), delCs |-> 0]]

\* Mutant: only a transaction that moves legs asks for a recompute
MovesLegs(t) == t.plan # {}

MakesChangeset(t) == t.op \in {"apply", "reset", "delete", "undo"}

Commit(a) ==
    LET t == txn[a]
        cs == changesets + 1
        written == {p.leg : p \in t.plan}
        PlanOf(l) == CHOOSE p \in t.plan : p.leg = l
    IN  /\ t.op \in {"apply", "reset", "delete", "undo", "create", "update"}
        /\ MakesChangeset(t) => changesets < MaxChangesets
        /\ t.boxw.kind = "insert" => FreeRows # {}
        /\ \A p \in t.plan : LinkIndexFree(p)
        /\ KeyIndexFree(t.boxw)
        /\ links' = [l \in Legs |-> IF l \in written
                                    THEN AppendLink(links[l], PlanOf(l), cs)
                                    ELSE links[l]]
        /\ box' = WriteBox(t.boxw, cs)
        /\ IF MakesChangeset(t)
           THEN /\ changesets' = cs
                /\ last' = [op |-> t.op, before |-> [l \in Legs |-> Resolve(l)]]
                /\ txn' = [txn EXCEPT ![a] = [Idle EXCEPT !.op = "committed"]]
           ELSE /\ txn' = [txn EXCEPT ![a] = Idle]
                /\ UNCHANGED <<changesets, last>>
        /\ UNCHANGED <<gold, recompute, goldBoxes>>

\* a unique violation, a deadlock or a lost connection: nothing was written
Abort(a) ==
    /\ txn[a].op \in {"apply", "reset", "delete", "undo", "create", "update"}
    /\ txn' = [txn EXCEPT ![a] = Idle]
    /\ UNCHANGED <<box, links, gold, changesets, recompute, goldBoxes, last>>

RequestRecompute(a) ==
    /\ txn[a].op = "committed"
    /\ txn' = [txn EXCEPT ![a] = Idle]
    /\ recompute' = TRUE
    /\ UNCHANGED <<box, links, gold, changesets, goldBoxes, last>>

\* a pipeline run (requested, or the pm2 loop's); it may find new legs
Pipeline ==
    \E new \in SUBSET (Legs \ OnBoard) :
        /\ gold' = [l \in Legs |-> IF l \in OnBoard \cup new THEN Resolve(l) ELSE NoLeg]
        /\ goldBoxes' = Active
        /\ recompute' = FALSE
        /\ UNCHANGED <<box, links, txn, changesets, last>>

---------------------------------------------------------------------------
Init ==
    /\ box = [b \in Boxes |->
                IF b <= NumSeeded
                THEN [state |-> "active", name |-> Typed(SeedName[b]),
                      key |-> KeyOf(Typed(SeedName[b])), delCs |-> 0]
                ELSE [state |-> "free", name |-> Typed(SeedName[Unassigned]),
                      key |-> KeyOf(Typed(SeedName[Unassigned])), delCs |-> 0]]
    /\ links = [l \in Legs |-> <<>>]
    /\ gold = [l \in Legs |-> NoLeg]
    /\ txn = [a \in Admins |-> Idle]
    /\ changesets = 0
    /\ recompute = FALSE
    /\ goldBoxes = 1..NumSeeded
    /\ last = [op |-> "none", before |-> [l \in Legs |-> Resolve(l)]]

Next ==
    \/ \E a \in Admins :
          \/ BeginApply(a) \/ BeginReset(a) \/ BeginUndo(a)
          \/ BeginDelete(a) \/ BeginCreate(a) \/ BeginUpdate(a)
          \/ Commit(a) \/ Abort(a) \/ RequestRecompute(a)
    \/ Pipeline

Spec == Init /\ [][Next]_vars

---------------------------------------------------------------------------
(* Properties.                                                             *)

BoxState == [state : {"free", "active", "deleted"}, name : BoxNames, key : Keys,
             delCs : 0..MaxChangesets]
LinkRow == [action : {"pin", "unpin"}, box : Boxes \cup {NoBox},
            cs : 1..MaxChangesets, current : BOOLEAN]
Resolution == [sid : Boxes \cup {NoBox}, src : {"manual", "rule", "default", "none"},
               rule : Boxes \cup {NoBox}]
BoxWrite ==
    {NoBoxWrite}
    \cup [kind : {"delete"}, id : Boxes]
    \cup [kind : {"rename"}, id : Boxes, name : BoxNames]
    \cup [kind : {"insert"}, id : {NoBox}, name : BoxNames, key : Keys]
    \cup [kind : {"restore"}, id : Boxes, was : BoxState, name : BoxNames, key : Keys]
PlannedRow == [leg : Legs, action : {"pin", "unpin"}, box : Boxes \cup {NoBox}, old : Nat]
Txn == [op : {"idle", "apply", "reset", "delete", "undo", "create", "update", "committed"},
        plan : SUBSET PlannedRow,
        boxw : BoxWrite, undoes : 0..MaxChangesets,
        saw : SUBSET Legs, fresh : BOOLEAN]

\* The type invariant: every table row and open transaction is well formed.
TypeOK ==
    /\ box \in [Boxes -> BoxState]
    /\ links \in [Legs -> Seq(LinkRow)]
    /\ gold \in [Legs -> Resolution]
    /\ txn \in [Admins -> Txn]
    /\ changesets \in 0..MaxChangesets
    /\ recompute \in BOOLEAN
    /\ goldBoxes \subseteq Boxes
    /\ last \in [op : {"none", "apply", "reset", "delete", "undo"},
                 before : [Legs -> Resolution]]

\* Two admins moving the same leg at once never fork its history: whatever
\* the interleaving, exactly the newest link row of a leg is current (what
\* _current_links, undo's search for the previous row and the pipeline's
\* pins all rely on).
NewestLinkIsCurrent ==
    \A l \in Legs : \A i \in DOMAIN links[l] :
        links[l][i].current <=> i = Len(links[l])

\* strategy_link is append-only: a step only adds rows and supersedes old
\* ones; it never rewrites, removes or revives a row.
LinksAppendOnly ==
    [][\A l \in Legs :
          /\ Len(links'[l]) >= Len(links[l])
          /\ \A i \in DOMAIN links[l] :
                /\ links'[l][i].action = links[l][i].action
                /\ links'[l][i].box = links[l][i].box
                /\ links'[l][i].cs = links[l][i].cs
                /\ links'[l][i].current => links[l][i].current]_vars

\* A board whose gold rows no longer agree with the links and rules always
\* has a recompute on its way: every endpoint that changes what a leg
\* resolves to requests one, and those that request none change nothing.
StaleGoldIsSyncing ==
    (\E l \in OnBoard : gold[l] # Resolve(l))
        => recompute \/ \E a \in Admins : txn[a].op = "committed"

\* The current link of a leg never pins it to a deleted box (a deletion
\* first re-pins the legs of the box; undo will not pin back into one).
PinsAreActive ==
    \A l \in Legs : CurrentLink(l).action = "pin" => CurrentLink(l).box \in Active

\* While no box was added to or removed from the rules since the last
\* pipeline run, the board already shows, for every leg, the box the next
\* run will assign, and marks it syncing exactly when that run will change
\* the gold row (_leg_dict against _Lookups.resolve_leg).
BoardForeseesPipeline ==
    goldBoxes = Active =>
        \A l \in OnBoard :
            /\ Effective(l).sid = Resolve(l).sid
            /\ Effective(l).pending <=> <<gold[l].sid, gold[l].src>>
                                        # <<Resolve(l).sid, Resolve(l).src>>

\* Undo of the newest changeset gives every leg of the account back exactly
\* the box, source and rule box it had before that changeset (an undo of an
\* undo excepted: it does not delete a restored box again).
UndoRestores ==
    [][\A a \in Admins :
          (/\ txn[a].op = "undo" /\ txn'[a].op = "committed"
           /\ txn[a].undoes = changesets /\ last.op # "undo")
          => \A l \in Legs : Resolve(l)' = last.before[l]]_vars

\* Deleting a box moves every leg the pipeline would put in it to the
\* unassigned box, pinned, when the board was drawn with today's boxes:
\* pins not yet recomputed are included.
DeleteEmptiesBox ==
    [][\A a \in Admins :
          (txn[a].op = "delete" /\ txn'[a].op = "committed" /\ txn[a].fresh)
          => \A l \in txn[a].saw :
                Resolve(l).sid = txn[a].boxw.id =>
                    /\ Resolve(l)'.sid = Unassigned
                    /\ Resolve(l)'.src = "manual"]_vars

\* With one admin at work, a create or a restore never runs into the unique
\* index on active keys: _free_key chose a key nobody holds, whatever was
\* renamed, deleted and created before.
KeysNeverCollide == \A a \in Admins : KeyIndexFree(txn[a].boxw)

\* With one admin at work, no two active boxes share a name as it was typed,
\* although boxes are renamed, deleted, created and restored in any order;
\* only names an undo altered to "... (restored)" can coincide.
TypedNamesUnique ==
    \A b, c \in Active :
        box[b].name = box[c].name /\ box[b].name.restored = 0 => b = c

---------------------------------------------------------------------------
(* The rest of the inductive invariant of the proofs.                      *)

InUse == {NoBox} \cup {b \in Boxes : box[b].state # "free"}

\* a transaction names rows of core.strategy
NamesRows(t, rows) ==
    /\ \A p \in t.plan : p.box \in rows
    /\ t.boxw.kind # "insert" => t.boxw.id \in rows

\* rules, links and open transactions only name rows of core.strategy
RefsOK ==
    /\ 1..NumSeeded \subseteq InUse
    /\ \A l \in Legs : \A i \in DOMAIN links[l] : links[l][i].box \in InUse
    /\ \A a \in Admins : NamesRows(txn[a], InUse)

\* a create or a rename carries no link rows
OpsOK ==
    \A a \in Admins :
        txn[a].op \in {"create", "update"} =>
            txn[a].plan = {} /\ txn[a].boxw.kind \in {"insert", "rename"}

IInv == TypeOK /\ NewestLinkIsCurrent /\ RefsOK /\ OpsOK /\ StaleGoldIsSyncing
=============================================================================
