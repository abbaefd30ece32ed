----------------------------- MODULE Recompute ------------------------------
(***************************************************************************)
(* Background recompute after a Box builder write.  The web process keeps  *)
(* _rc_state and at most one recompute thread (box_builder.py); the thread *)
(* and the pm2 pipeline process run the same stages, serialized by a       *)
(* Postgres advisory lock (pipelines/runner.py).  A run reads the rules    *)
(* and the pins in separate statements (bronze_to_silver._Lookups), commits*)
(* silver, then rebuilds gold from silver in a second transaction.         *)
(*                                                                         *)
(* Data is abstracted to versions: version counts the committed writes,    *)
(* and silver and gold carry the version of the rules and of the pins they *)
(* were built from.                                                        *)
(***************************************************************************)
EXTENDS Integers

CONSTANTS
    Handlers,       \* admin requests being served at once
    Threads,        \* recompute threads the web process could ever have
    Loop,           \* the pm2 pipeline process
    MaxWrites,      \* bound: committed writes
    MaxFailures,    \* bound: pipeline runs that raise
    MaxCrashes      \* bound: restarts of the web process, and of the loop

Runners == Threads \cup {Loop}
None == "none"

ASSUME ConstantsAssumption ==
    /\ Loop \notin Threads
    /\ None \notin Runners
    /\ MaxWrites \in Nat /\ MaxFailures \in Nat /\ MaxCrashes \in Nat

VARIABLES
    version,        \* committed writes of rules and pins
    silver, gold,   \* the versions the two layers were built from
    lock,           \* holder of the pipeline advisory lock
    pc,             \* where each runner is
    got,            \* what the runner has read in its open transaction
    handler,        \* "asking": committed, request_recompute() not called yet
    running, rerun, \* _rc_state
    lastError,      \* _rc_state["last_error"] is set
    raised,         \* a thread's last run raised (the loop only logs it)
    failures, webCrashes, loopCrashes

rcState == <<running, rerun, lastError>>
bounds == <<failures, webCrashes, loopCrashes>>
vars == <<version, silver, gold, lock, pc, got, handler, rcState, raised, bounds>>

Built(r, p) == [rules |-> r, pins |-> p]
Nothing == Built(0, 0)      \* no open transaction
InLock == {"rules", "pins", "silver", "gold", "publish", "release"}

\* Operators marked "Mutant" are plausible bugs, used only to show that the
\* properties notice them.

\* Mutant: a thread goes back to sleep instead of ending its round
SleepAfterRun(r) == "sleep"

\* where a runner goes when its run is over
AfterRun(r) == IF r = Loop THEN "sleep" ELSE "finish"

Init ==
    /\ version = 0
    /\ silver = Nothing /\ gold = Nothing
    /\ lock = None
    /\ pc = [r \in Runners |-> IF r = Loop THEN "sleep" ELSE "off"]
    /\ got = [r \in Runners |-> Nothing]
    /\ handler = [h \in Handlers |-> "idle"]
    /\ running = FALSE /\ rerun = FALSE /\ lastError = FALSE
    /\ raised = [r \in Runners |-> FALSE]
    /\ failures = 0 /\ webCrashes = 0 /\ loopCrashes = 0

---------------------------------------------------------------------------
(* The web handlers.                                                       *)

\* an endpoint commits links or a deleted / restored box
Write(h) ==
    /\ handler[h] = "idle" /\ version < MaxWrites
    /\ version' = version + 1
    /\ handler' = [handler EXCEPT ![h] = "asking"]
    /\ UNCHANGED <<silver, gold, lock, pc, got, rcState, raised, bounds>>

\* POST /recompute: asks without having written
AskNow(h) ==
    /\ handler[h] = "idle"
    /\ handler' = [handler EXCEPT ![h] = "asking"]
    /\ UNCHANGED <<version, silver, gold, lock, pc, got, rcState, raised, bounds>>

\* Mutant: a request during a run is dropped
RequestDropped(h) ==
    /\ handler[h] = "asking" /\ running
    /\ handler' = [handler EXCEPT ![h] = "idle"]
    /\ UNCHANGED <<version, silver, gold, lock, pc, got, rcState, raised, bounds>>

\* request_recompute while a thread is running: it will run once more
RequestRerun(h) ==
    /\ handler[h] = "asking" /\ running
    /\ rerun' = TRUE
    /\ handler' = [handler EXCEPT ![h] = "idle"]
    /\ UNCHANGED <<version, silver, gold, lock, pc, got, running, lastError, raised, bounds>>

\* Mutant: request_recompute does not look at `running`
StartAlways(h) ==
    /\ handler[h] = "asking"
    /\ running' = TRUE
    /\ \E t \in Threads : pc[t] = "off" /\ pc' = [pc EXCEPT ![t] = "wait"]
    /\ handler' = [handler EXCEPT ![h] = "idle"]
    /\ UNCHANGED <<version, silver, gold, lock, got, rerun, lastError, raised, bounds>>

\* request_recompute otherwise: start a thread
RequestStart(h) ==
    /\ handler[h] = "asking" /\ ~running
    /\ running' = TRUE
    /\ \E t \in Threads : pc[t] = "off" /\ pc' = [pc EXCEPT ![t] = "wait"]
    /\ handler' = [handler EXCEPT ![h] = "idle"]
    /\ UNCHANGED <<version, silver, gold, lock, got, rerun, lastError, raised, bounds>>

---------------------------------------------------------------------------
(* One pipeline run: run_stage("all").                                     *)

Goto(r, from, to) == pc[r] = from /\ pc' = [pc EXCEPT ![r] = to]

\* the interval job of run_loop
LoopTick ==
    /\ Goto(Loop, "sleep", "wait")
    /\ UNCHANGED <<version, silver, gold, lock, got, handler, rcState, raised, bounds>>

\* Mutant: runs are not serialized
AcquireAnyway(r) ==
    /\ lock' = r
    /\ Goto(r, "wait", "rules")
    /\ UNCHANGED <<version, silver, gold, got, handler, rcState, raised, bounds>>

Acquire(r) ==
    /\ lock = None
    /\ lock' = r
    /\ Goto(r, "wait", "rules")
    /\ UNCHANGED <<version, silver, gold, got, handler, rcState, raised, bounds>>

ReadRules(r) ==
    /\ Goto(r, "rules", "pins")
    /\ got' = [got EXCEPT ![r] = Built(version, got[r].pins)]
    /\ UNCHANGED <<version, silver, gold, lock, handler, rcState, raised, bounds>>

ReadPins(r) ==
    /\ Goto(r, "pins", "silver")
    /\ got' = [got EXCEPT ![r] = Built(got[r].rules, version)]
    /\ UNCHANGED <<version, silver, gold, lock, handler, rcState, raised, bounds>>

CommitSilver(r) ==
    /\ Goto(r, "silver", "gold")
    /\ silver' = got[r]
    /\ got' = [got EXCEPT ![r] = Nothing]
    /\ UNCHANGED <<version, gold, lock, handler, rcState, raised, bounds>>

\* Mutant: gold is truncated in a transaction of its own
TruncateFirst(r) ==
    /\ Goto(r, "gold", "publish")
    /\ got' = [got EXCEPT ![r] = silver]
    /\ gold' = Nothing
    /\ UNCHANGED <<version, silver, lock, handler, rcState, raised, bounds>>

ReadSilver(r) ==
    /\ Goto(r, "gold", "publish")
    /\ got' = [got EXCEPT ![r] = silver]
    /\ UNCHANGED <<version, silver, gold, lock, handler, rcState, raised, bounds>>

CommitGold(r) ==
    /\ Goto(r, "publish", "release")
    /\ gold' = got[r]
    /\ got' = [got EXCEPT ![r] = Nothing]
    /\ UNCHANGED <<version, silver, lock, handler, rcState, raised, bounds>>

Release(r) ==
    /\ Goto(r, "release", AfterRun(r))
    /\ lock' = None
    /\ raised' = [raised EXCEPT ![r] = FALSE]
    /\ UNCHANGED <<version, silver, gold, got, handler, rcState, bounds>>

\* Mutant: an exception ends the runner for good
RaiseKills(r) ==
    /\ pc[r] \in InLock \cup {"wait"} /\ failures < MaxFailures
    /\ failures' = failures + 1
    /\ pc' = [pc EXCEPT ![r] = "off"]
    /\ lock' = IF lock = r THEN None ELSE lock
    /\ raised' = [raised EXCEPT ![r] = r # Loop]
    /\ got' = [got EXCEPT ![r] = Nothing]
    /\ UNCHANGED <<version, silver, gold, handler, rcState, webCrashes, loopCrashes>>

\* the run raises: the open transaction rolls back, the lock is released
Raise(r) ==
    /\ pc[r] \in InLock \cup {"wait"} /\ failures < MaxFailures
    /\ failures' = failures + 1
    /\ pc' = [pc EXCEPT ![r] = AfterRun(r)]
    /\ lock' = IF lock = r THEN None ELSE lock
    /\ raised' = [raised EXCEPT ![r] = r # Loop]
    /\ got' = [got EXCEPT ![r] = Nothing]
    /\ UNCHANGED <<version, silver, gold, handler, rcState, webCrashes, loopCrashes>>

---------------------------------------------------------------------------
(* The end of a recompute thread's round, under _rc_lock.                  *)

\* Mutant: the rerun flag is never reset
RerunForever(t) ==
    /\ rerun
    /\ Goto(t, "finish", "wait")
    /\ lastError' = raised[t]
    /\ UNCHANGED <<version, silver, gold, lock, got, handler, running, rerun, raised, bounds>>

FinishRerun(t) ==
    /\ rerun
    /\ Goto(t, "finish", "wait")
    /\ rerun' = FALSE
    /\ lastError' = raised[t]
    /\ UNCHANGED <<version, silver, gold, lock, got, handler, running, raised, bounds>>

FinishStop(t) ==
    /\ ~rerun
    /\ Goto(t, "finish", "off")
    /\ running' = FALSE
    /\ lastError' = raised[t]
    /\ UNCHANGED <<version, silver, gold, lock, got, handler, rerun, raised, bounds>>

---------------------------------------------------------------------------
(* Crashes: the process's threads, memory and database sessions are gone.  *)

\* pm2 restarts the web process with a fresh _rc_state
CrashWeb ==
    /\ webCrashes < MaxCrashes
    /\ webCrashes' = webCrashes + 1
    /\ pc' = [r \in Runners |-> IF r \in Threads THEN "off" ELSE pc[r]]
    /\ handler' = [h \in Handlers |-> "idle"]
    /\ running' = FALSE /\ rerun' = FALSE /\ lastError' = FALSE
    /\ lock' = IF lock \in Threads THEN None ELSE lock
    /\ got' = [r \in Runners |-> IF r \in Threads THEN Nothing ELSE got[r]]
    /\ raised' = [r \in Runners |-> IF r \in Threads THEN FALSE ELSE raised[r]]
    /\ UNCHANGED <<version, silver, gold, failures, loopCrashes>>

CrashLoop ==
    /\ loopCrashes < MaxCrashes
    /\ loopCrashes' = loopCrashes + 1
    /\ pc' = [pc EXCEPT ![Loop] = "sleep"]
    /\ lock' = IF lock = Loop THEN None ELSE lock
    /\ got' = [got EXCEPT ![Loop] = Nothing]
    /\ raised' = [raised EXCEPT ![Loop] = FALSE]
    /\ UNCHANGED <<version, silver, gold, handler, rcState, failures, webCrashes>>

---------------------------------------------------------------------------
RunStep(r) ==
    \/ ReadRules(r) \/ ReadPins(r) \/ CommitSilver(r)
    \/ ReadSilver(r) \/ CommitGold(r) \/ Release(r)

Request(h) == RequestRerun(h) \/ RequestStart(h)
Finish(t) == FinishRerun(t) \/ FinishStop(t)

Next ==
    \/ \E h \in Handlers : Write(h) \/ AskNow(h) \/ Request(h)
    \/ \E r \in Runners : Acquire(r) \/ RunStep(r) \/ Raise(r)
    \/ \E t \in Threads : Finish(t)
    \/ LoopTick \/ CrashWeb \/ CrashLoop

Spec == Init /\ [][Next]_vars

\* The interval job fires, a run that holds the lock goes on, a thread ends
\* its round, and Postgres serves the waiters of an advisory lock in order.
Fairness ==
    /\ WF_vars(LoopTick)
    /\ \A r \in Runners : WF_vars(RunStep(r)) /\ SF_vars(Acquire(r))
    /\ \A t \in Threads : WF_vars(Finish(t))

FairSpec == Spec /\ Fairness

---------------------------------------------------------------------------
(* Properties.                                                             *)

Builds == [rules : Nat, pins : Nat]

Typed ==
    /\ version \in Nat
    /\ silver \in Builds /\ gold \in Builds
    /\ lock \in Runners \cup {None}
    /\ pc \in [Runners -> InLock \cup {"sleep", "wait", "finish", "off"}]
    /\ got \in [Runners -> Builds]
    /\ handler \in [Handlers -> {"idle", "asking"}]
    /\ running \in BOOLEAN /\ rerun \in BOOLEAN /\ lastError \in BOOLEAN
    /\ raised \in [Runners -> BOOLEAN]
    /\ failures \in Nat /\ webCrashes \in Nat /\ loopCrashes \in Nat

\* the loop never ends, a thread never sleeps until the next tick
PcOK ==
    /\ pc[Loop] \notin {"finish", "off"}
    /\ \A t \in Threads : pc[t] # "sleep"

\* The type invariant: the variables have their types, and a runner is only
\* where its kind of runner can be.
TypeOK == Typed /\ PcOK

\* The pm2 loop and a recompute thread are never both inside a pipeline run,
\* whatever fails or restarts (the promise of runner.py's pipeline_lock).
RunsExclusive ==
    \A r, s \in Runners : pc[r] \in InLock /\ pc[s] \in InLock => r = s

\* request_recompute never leaves two recompute threads alive.
OneThread == \A t, u \in Threads : pc[t] # "off" /\ pc[u] # "off" => t = u

\* A slow run that read the links before a write never overwrites the gold
\* that a later run built from them: gold only moves to newer versions.
GoldNeverGoesBack ==
    [][gold'.rules >= gold.rules /\ gold'.pins >= gold.pins]_vars

InSync == gold = Built(version, version)
AllAnswered == \A h \in Handlers : handler[h] = "idle"

\* When the board says that no recompute is running, no request is still to
\* be made and the last recompute did not fail, gold reflects every
\* committed write: no write slips between a run's reads and the end of the
\* thread.  (A restart of the web process forgets requests: see below.)
IdleMeansInSync ==
    (~running /\ AllAnswered /\ ~lastError /\ webCrashes = 0) => InSync

\* Every committed write reaches gold in the end, although recomputes fail
\* and a restart may forget the request: the pm2 loop catches up.
WritesReachGold ==
    \A v \in 1..MaxWrites : (version >= v) ~> (gold.rules >= v /\ gold.pins >= v)

\* A recompute thread does not run for ever: the board stops saying that a
\* recompute is running once the admins stop writing.
RecomputeEnds == []<>(~running \/ \E h \in Handlers : handler[h] = "asking")

\* The machinery implements its abstract promise.
Promise == INSTANCE GoldSync WITH version <- version, gold <- gold
PromiseKept == Promise!Spec
---------------------------------------------------------------------------
(* The inductive invariant behind the safety properties: who may be where, *)
(* in what order versions lie, and what a running thread has secured.      *)

LockOK == \A r \in Runners : pc[r] \in InLock => lock = r

\* gold <= silver <= version, and a run's reads lie between silver and version
OrderOK ==
    /\ gold.rules <= silver.rules /\ silver.rules <= version
    /\ gold.pins <= silver.pins /\ silver.pins <= version
    /\ \A r \in Runners :
          /\ pc[r] \in {"pins", "silver"} =>
                silver.rules <= got[r].rules /\ got[r].rules <= version
          /\ pc[r] = "silver" =>
                silver.pins <= got[r].pins /\ got[r].pins <= version
          /\ pc[r] = "publish" => got[r] = silver

ThreadOK ==
    /\ OneThread
    /\ (\E t \in Threads : pc[t] # "off") => running
    /\ running => \E t \in Threads : pc[t] # "off"

\* the thread's round will leave every committed write in gold, or raise
Secured(t) ==
    \/ pc[t] \in {"wait", "rules"}
    \/ pc[t] = "pins" /\ got[t].rules = version
    \/ pc[t] = "silver" /\ got[t] = Built(version, version)
    \/ pc[t] = "gold" /\ silver = Built(version, version)
    \/ pc[t] = "publish" /\ got[t] = Built(version, version)
    \/ pc[t] = "release" /\ InSync
    \/ pc[t] = "finish" /\ (raised[t] \/ InSync)

SyncOK ==
    (webCrashes = 0 /\ AllAnswered) =>
        /\ running /\ ~rerun => \E t \in Threads : Secured(t)
        /\ ~running /\ ~lastError => InSync

IInv == TypeOK /\ LockOK /\ OrderOK /\ ThreadOK /\ SyncOK
=============================================================================
