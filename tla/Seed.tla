-------------------------------- MODULE Seed --------------------------------
(***************************************************************************)
(* The seed loader (db/seed_loader.py) beside the admins who change the     *)
(* same tables in the Box builder and the Settings tab.                     *)
(*                                                                          *)
(* A load is one transaction at READ COMMITTED: it sees what the admins     *)
(* commit while it runs and they do not see it.  So `draft`, the tables as  *)
(* the load sees them, follows their changes; rows the load changed and     *)
(* tables it truncated are locked for them.                                 *)
(*                                                                          *)
(* One account.  Boxes, rules and notification settings: the last stand for *)
(* the other tables without children, contract sizes; users, accounts and   *)
(* sub-accounts are loaded the same way.                                    *)
(***************************************************************************)
EXTENDS Naturals, FiniteSets, FiniteSetsExt, Sequences, SequencesExt

CONSTANTS
    None,
    Ids,                    \* of boxes: numbers, enough for MaxEdits and the files
    Names,                  \* of boxes
    Matches,                \* what a rule may look for
    Codes, Values,          \* notification settings and what they are set to
    Folders,                \* the contents of seed/ before and after an edit of the files
    MaxEdits, MaxLoads, MaxLinks        \* bounds

\* of a box: its name, with a number where the name is taken
Keys == Names \X Nat
Box == [key : Keys, name : Names, deleted : BOOLEAN]

\* The rows of the files.  A blank key is None.
BoxRow == [table : {"strategy"}, key : Keys \cup {None}, name : Names]
RuleRow == [table : {"strategy_rule"}, key : Keys, match : Matches, rank : Nat]
SettingRow == [table : {"notification_setting"}, code : Codes, value : Values]

Tables == {"strategy", "strategy_rule", "notification_setting"}

\* In a folder the rows of a table are in the order of the layers.
ASSUME SeedAssumption ==
    /\ Ids \subseteq Nat \ {0} /\ IsFiniteSet(Ids)
    /\ None \notin Box \cup Ids
    /\ Folders \subseteq [Tables -> Seq(BoxRow \cup RuleRow \cup SettingRow)]
    /\ {MaxEdits, MaxLoads, MaxLinks} \subseteq Nat

VARIABLES
    core,       \* the tables: box, rule, setting, and the number of rows of strategy_link
    draft,      \* ... as the load that is running sees them
    job,        \* the load: where it is, its options, its rows, and the next of them
    edits, loads

vars == <<core, draft, job, edits, loads>>

Idle == [pc |-> "idle"]

Init ==
    /\ core = [box |-> [i \in Ids |-> None], rule |-> {}, setting |-> [c \in Codes |-> None],
               links |-> 0]
    /\ draft = core /\ job = Idle
    /\ edits = 0 /\ loads = 0

Exists(t, i) == t.box[i] # None
Active(t, i) == Exists(t, i) /\ ~t.box[i].deleted

---------------------------------------------------------------------------
(* Admins.                                                                 *)

\* The row is not locked by the load.
FreeBox(i) == job.pc = "idle" \/ draft.box[i] = core.box[i]
FreeSetting(c) == job.pc = "idle" \/ draft.setting[c] = core.setting[c]

Truncated(table) == job.pc \in {"load", "failed"} /\ table \in job.wiped

NameTaken(name, except) == \E i \in Ids \ {except} : Active(core, i) /\ core.box[i].name = name

\* `base`, else base-2, base-3, ...
FreeKey(base, except) ==
    LET taken == {core.box[i].key : i \in {j \in Ids \ {except} : Active(core, j)}}
    IN  <<base[1], Min({n \in base[2]..(base[2] + Cardinality(Ids)) : <<base[1], n>> \notin taken})>>

\* An insert or update that meets a key of the load waits for it, and fails.
KeyInLoad(key) == \E i \in Ids : Active(draft, i) /\ draft.box[i].key = key

\* ids are given once, but TRUNCATE restarts them
Unused == {i \in Ids : ~Exists(draft, i) /\ (Exists(core, i) => Truncated("strategy"))}

\* An admin's change is committed, and the load sees it.  changed[t]: tables t with the change
Edit(changed) ==
    /\ edits < MaxEdits /\ edits' = edits + 1
    /\ core' = changed[core] /\ draft' = changed[draft]
    /\ UNCHANGED <<job, loads>>

SetBox(i, row, n) ==
    /\ ~Truncated("strategy") /\ FreeBox(i) /\ core.links + n <= MaxLinks
    /\ Edit([t \in {core, draft} |-> [t EXCEPT !.box[i] = row, !.links = @ + n]])

Create(name) ==
    LET i == Min(Unused)
        key == FreeKey(<<name, 1>>, None)
    IN  /\ Unused # {} /\ ~NameTaken(name, None) /\ ~KeyInLoad(key)
        /\ SetBox(i, [key |-> key, name |-> name, deleted |-> FALSE], 0)

Rename(i, name) ==
    /\ Active(core, i) /\ ~NameTaken(name, i)
    /\ SetBox(i, [core.box[i] EXCEPT !.name = name], 0)

\* its positions, if it has some, are pinned to the Unassigned box
Delete(i, n) == Active(core, i) /\ SetBox(i, [core.box[i] EXCEPT !.deleted = TRUE], n)

\* Undo of a deletion
Restore(i) ==
    LET key == FreeKey(core.box[i].key, i)
    IN  /\ Exists(core, i) /\ core.box[i].deleted /\ ~NameTaken(core.box[i].name, i)
        /\ ~KeyInLoad(key)
        /\ SetBox(i, [core.box[i] EXCEPT !.deleted = FALSE, !.key = key], 0)

\* A position is pinned to a box, or one moved back.
Pin(i) == Active(core, i) /\ SetBox(i, core.box[i], 1)

\* One row per asset and code: created, changed, or deleted (None)
Set(c, value) ==
    /\ ~Truncated("notification_setting") /\ FreeSetting(c)
    /\ core.setting[c] # value
    /\ Edit([t \in {core, draft} |-> [t EXCEPT !.setting[c] = value]])

---------------------------------------------------------------------------
(* The load.                                                               *)

\* Mutant: an active one only, so that a deleted one is added again
FindActive(t, key) ==
    LET hits == {i \in Ids : Active(t, i) /\ t.box[i].key = key}
    IN  IF hits = {} THEN None ELSE Min(hits)

\* Mutant: the box of that name
FindByName(t, key) ==
    LET hits == {i \in Ids : Exists(t, i) /\ t.box[i].name = key[1]}
    IN  IF hits = {} THEN None ELSE Min(hits)

\* an active box before a deleted one
FindBox(t, key) ==
    LET hits == {i \in Ids : Exists(t, i) /\ t.box[i].key = key}
        active == {i \in hits : Active(t, i)}
    IN  IF hits = {} THEN None ELSE IF active # {} THEN Min(active) ELSE Min(hits)

KeyOf(row) == IF row.key = None THEN <<row.name, 1>> ELSE row.key

\* What is deleted stays deleted.
LoadBox(t, row) ==
    LET i == FindBox(t, KeyOf(row))
        new == [key |-> KeyOf(row), name |-> row.name, deleted |-> FALSE]
    IN  IF i # None THEN [t EXCEPT !.box[i].name = row.name]
        ELSE [t EXCEPT !.box[Min(Unused)] = new]

LoadRule(t, row) ==
    LET i == FindBox(t, row.key)
    IN  [t EXCEPT !.rule = {r \in @ : r.box # i \/ r.match # row.match}
                           \cup {[box |-> i, match |-> row.match, rank |-> row.rank]}]

LoadSetting(t, row) == [t EXCEPT !.setting[row.code] = row.value]

\* no box has its key
Bad(row) == row.table = "strategy_rule" /\ FindBox(draft, row.key) = None

Loaded(t, row) ==
    CASE row.table = "strategy" -> LoadBox(t, row)
      [] row.table = "strategy_rule" -> LoadRule(t, row)
      [] OTHER -> LoadSetting(t, row)

\* Bound: there are Ids for the boxes to add.
Room(row) == row.table = "strategy" /\ FindBox(draft, KeyOf(row)) = None => Unused # {}

\* in the order of SEED_TABLES
RowsOf(folder, only) ==
    IF only = None
    THEN folder["strategy"] \o folder["strategy_rule"] \o folder["notification_setting"]
    ELSE folder[only]

\* `only`: one table, or None; a table without a file is not loaded, nor truncated
Start(folder, only, replace, wipeLinks) ==
    /\ job.pc = "idle" /\ loads < MaxLoads /\ loads' = loads + 1
    /\ job' = [pc |-> "count", rows |-> RowsOf(folder, only), next |-> 1, replace |-> replace,
               wipeLinks |-> wipeLinks, wiped |-> {}, begun |-> edits]
    /\ draft' = core
    /\ UNCHANGED <<core, edits>>

End == job' = Idle /\ UNCHANGED <<edits, loads>>

Rollback == End /\ draft' = core /\ UNCHANGED core

Refuse ==
    /\ job.pc = "count" /\ job.replace /\ ~job.wipeLinks /\ draft.links > 0
    /\ Rollback

MayPass == ~job.replace \/ job.wipeLinks \/ draft.links = 0

Pass ==
    /\ job.pc = "count" /\ MayPass
    /\ job' = [job EXCEPT !.pc = IF job.replace THEN "truncate" ELSE "load"]
    /\ UNCHANGED <<core, draft, edits, loads>>

\* CASCADE: of the boxes, the rules and links go with them.
Truncate ==
    LET tables == {r.table : r \in ToSet(job.rows)}
        boxes == "strategy" \in tables
    IN  /\ job.pc = "truncate"
        /\ job' = [job EXCEPT !.pc = "load", !.wiped = tables]
        /\ draft' = [box |-> IF boxes THEN [i \in Ids |-> None] ELSE draft.box,
                     rule |-> IF boxes \/ "strategy_rule" \in tables THEN {} ELSE draft.rule,
                     setting |-> IF "notification_setting" \in tables
                                 THEN [c \in Codes |-> None] ELSE draft.setting,
                     links |-> IF boxes THEN 0 ELSE draft.links]
        /\ UNCHANGED <<core, edits, loads>>

\* The rest of a table with a bad row is read, for the message, and then all is undone.
LoadRow ==
    /\ job.pc = "load" /\ job.next \in DOMAIN job.rows
    /\ LET row == job.rows[job.next]
       IN  IF Bad(row) THEN job' = [job EXCEPT !.pc = "failed"] /\ UNCHANGED draft
           ELSE /\ Room(row)
                /\ job' = [job EXCEPT !.next = @ + 1] /\ draft' = Loaded(draft, row)
    /\ UNCHANGED <<core, edits, loads>>

Commit ==
    /\ job.pc = "load" /\ job.next \notin DOMAIN job.rows
    /\ core' = draft /\ UNCHANGED draft /\ End

\* a bad row, or the command is interrupted
Abort == job.pc \in {"count", "truncate", "load", "failed"} /\ Rollback

Load == Refuse \/ Pass \/ Truncate \/ LoadRow \/ Commit \/ Abort

Next ==
    \/ \E name \in Names : Create(name) \/ \E i \in Ids : Rename(i, name)
    \/ \E i \in Ids : Restore(i) \/ Pin(i) \/ \E n \in 0..1 : Delete(i, n)
    \/ \E c \in Codes, value \in Values \cup {None} : Set(c, value)
    \/ \E folder \in Folders, only \in Tables \cup {None}, replace, wipeLinks \in BOOLEAN :
           Start(folder, only, replace, wipeLinks)
    \/ Load

Spec == Init /\ [][Next]_vars

---------------------------------------------------------------------------
(* Properties.                                                             *)

InFiles(table) == {r \in ToSet(job.rows) : r.table = table}

\* "rows only in the database are left alone" (seed_loader.py:26): whatever the admins do
\* before and meanwhile, a load that commits adds no box beside one with its key, be that
\* deleted or just made by an admin; and without --replace it changes no box but the name of
\* those whose key is in the files, no deletion, no other rule or setting, and no pin.
RestLeftAlone ==
    [][Commit =>
          /\ \A i, j \in Ids : i # j /\ ~Exists(core, i) /\ Exists(core', i) /\ Exists(core', j)
                => core'.box[i].key # core'.box[j].key
          /\ ~job.replace =>
                /\ core'.links = core.links
                /\ \A i \in Ids : Exists(core, i) =>
                      /\ Exists(core', i)
                      /\ [core'.box[i] EXCEPT !.name = core.box[i].name] = core.box[i]
                      /\ core'.box[i] # core.box[i] =>
                            \E r \in InFiles("strategy") : KeyOf(r) = core.box[i].key
                /\ \A r \in core.rule \ core'.rule :
                      \E q \in InFiles("strategy_rule") : q.match = r.match
                /\ \A c \in Codes : core'.setting[c] # core.setting[c] =>
                      \E r \in InFiles("notification_setting") : r.code = c]_vars

\* When nobody edits meanwhile, what a load commits is settled: to load the files again changes
\* nothing, and the last row of a key, of the environment's layer, has won.
SeedSettles ==
    [][Commit /\ job.begun = edits => FoldLeft(Loaded, core', job.rows) = core']_vars

\* seed_loader.py:35: "Manual pins are NOT rebuildable from bronze, so replace refuses to run
\* while pins exist unless explicitly allowed"
PinsSurvive == [][Commit /\ ~job.wipeLinks => core'.links >= core.links]_vars
=============================================================================
