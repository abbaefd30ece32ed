--------------------------- MODULE RecomputeProofs --------------------------
(***************************************************************************)
(* Proofs about module Recompute, for any number of admin requests and     *)
(* threads and any bounds on writes, failures and crashes.                 *)
(***************************************************************************)
EXTENDS Recompute, TLAPS

LEMMA InitIInv == Init => IInv
<1> SUFFICES ASSUME Init PROVE IInv
    OBVIOUS
<1> USE ConstantsAssumption DEF Init, Built, Nothing, Runners
<1>1. Typed
    BY DEF Typed, Builds, InLock
<1>2. PcOK
    BY DEF PcOK
<1>3. LockOK
    BY DEF LockOK, InLock
<1>4. OrderOK
    BY DEF OrderOK
<1>5. ThreadOK
    BY DEF ThreadOK, OneThread
<1>6. SyncOK
    BY DEF SyncOK, InSync
<1>7. QED
    BY <1>1, <1>2, <1>3, <1>4, <1>5, <1>6 DEF IInv, TypeOK

LEMMA TypeStep == IInv /\ [Next]_vars => Typed'
<1> SUFFICES ASSUME IInv, [Next]_vars PROVE Typed'
    OBVIOUS
<1> USE ConstantsAssumption DEF IInv, TypeOK, Typed, Builds, Built, Nothing, InLock, rcState, bounds
<1>1. ASSUME NEW h \in Handlers, Write(h) PROVE Typed'
    BY <1>1 DEF Write
<1>2. ASSUME NEW h \in Handlers, AskNow(h) PROVE Typed'
    BY <1>2 DEF AskNow
<1>3. ASSUME NEW h \in Handlers, RequestRerun(h) PROVE Typed'
    BY <1>3 DEF RequestRerun
<1>4. ASSUME NEW h \in Handlers, RequestStart(h) PROVE Typed'
    BY <1>4 DEF RequestStart, Runners
<1>5. ASSUME NEW r \in Runners, Acquire(r) PROVE Typed'
    BY <1>5 DEF Acquire, Goto
<1>6. ASSUME NEW r \in Runners, ReadRules(r) PROVE Typed'
    BY <1>6 DEF ReadRules, Goto
<1>7. ASSUME NEW r \in Runners, ReadPins(r) PROVE Typed'
    BY <1>7 DEF ReadPins, Goto
<1>8. ASSUME NEW r \in Runners, CommitSilver(r) PROVE Typed'
    BY <1>8 DEF CommitSilver, Goto
<1>9. ASSUME NEW r \in Runners, ReadSilver(r) PROVE Typed'
    BY <1>9 DEF ReadSilver, Goto
<1>10. ASSUME NEW r \in Runners, CommitGold(r) PROVE Typed'
    BY <1>10 DEF CommitGold, Goto
<1>11. ASSUME NEW r \in Runners, Release(r) PROVE Typed'
    BY <1>11 DEF Release, Goto, AfterRun
<1>12. ASSUME NEW r \in Runners, Raise(r) PROVE Typed'
    BY <1>12 DEF Raise, AfterRun
<1>13. ASSUME NEW t \in Threads, FinishRerun(t) PROVE Typed'
    BY <1>13 DEF FinishRerun, Goto, Runners
<1>14. ASSUME NEW t \in Threads, FinishStop(t) PROVE Typed'
    BY <1>14 DEF FinishStop, Goto, Runners
<1>15. ASSUME LoopTick PROVE Typed'
    BY <1>15 DEF LoopTick, Goto, Runners
<1>16. ASSUME CrashWeb PROVE Typed'
    <2> USE <1>16 DEF CrashWeb
    <2>1. pc' \in [Runners -> InLock \cup {"sleep", "wait", "finish", "off"}]
        OBVIOUS
    <2>2. got' \in [Runners -> Builds] /\ raised' \in [Runners -> BOOLEAN]
        OBVIOUS
    <2>3. lock' \in Runners \cup {None}
        OBVIOUS
    <2>4. handler' \in [Handlers -> {"idle", "asking"}]
        OBVIOUS
    <2>5. running' \in BOOLEAN /\ rerun' \in BOOLEAN /\ lastError' \in BOOLEAN
        OBVIOUS
    <2>6. failures' \in Nat /\ webCrashes' \in Nat /\ loopCrashes' \in Nat
        OBVIOUS
    <2>7. version' \in Nat /\ silver' \in Builds /\ gold' \in Builds
        OBVIOUS
    <2> HIDE <1>16 DEF CrashWeb, Builds, InLock
    <2>8. QED
        BY <2>1, <2>2, <2>3, <2>4, <2>5, <2>6, <2>7
<1>17. ASSUME CrashLoop PROVE Typed'
    BY <1>17 DEF CrashLoop, Runners
<1>18. ASSUME UNCHANGED vars PROVE Typed'
    BY <1>18 DEF vars
<1>19. QED
    BY <1>1, <1>2, <1>3, <1>4, <1>5, <1>6, <1>7, <1>8, <1>9, <1>10, <1>11, <1>12,
       <1>13, <1>14, <1>15, <1>16, <1>17, <1>18
       DEF Next, RunStep, Request, Finish

LEMMA PcStep == IInv /\ [Next]_vars => PcOK'
<1> SUFFICES ASSUME IInv, [Next]_vars PROVE PcOK'
    OBVIOUS
<1> USE ConstantsAssumption DEF IInv, TypeOK, Typed, Builds, Built, Nothing, InLock, rcState, bounds, PcOK
<1>1. ASSUME NEW h \in Handlers, Write(h) PROVE PcOK'
    BY <1>1 DEF Write
<1>2. ASSUME NEW h \in Handlers, AskNow(h) PROVE PcOK'
    BY <1>2 DEF AskNow
<1>3. ASSUME NEW h \in Handlers, RequestRerun(h) PROVE PcOK'
    BY <1>3 DEF RequestRerun
<1>4. ASSUME NEW h \in Handlers, RequestStart(h) PROVE PcOK'
    BY <1>4 DEF RequestStart, Runners
<1>5. ASSUME NEW r \in Runners, Acquire(r) PROVE PcOK'
    BY <1>5 DEF Acquire, Goto
<1>6. ASSUME NEW r \in Runners, ReadRules(r) PROVE PcOK'
    BY <1>6 DEF ReadRules, Goto
<1>7. ASSUME NEW r \in Runners, ReadPins(r) PROVE PcOK'
    BY <1>7 DEF ReadPins, Goto
<1>8. ASSUME NEW r \in Runners, CommitSilver(r) PROVE PcOK'
    BY <1>8 DEF CommitSilver, Goto
<1>9. ASSUME NEW r \in Runners, ReadSilver(r) PROVE PcOK'
    BY <1>9 DEF ReadSilver, Goto
<1>10. ASSUME NEW r \in Runners, CommitGold(r) PROVE PcOK'
    BY <1>10 DEF CommitGold, Goto
<1>11. ASSUME NEW r \in Runners, Release(r) PROVE PcOK'
    BY <1>11 DEF Release, Goto, AfterRun
<1>12. ASSUME NEW r \in Runners, Raise(r) PROVE PcOK'
    BY <1>12 DEF Raise, AfterRun
<1>13. ASSUME NEW t \in Threads, FinishRerun(t) PROVE PcOK'
    BY <1>13 DEF FinishRerun, Goto, Runners
<1>14. ASSUME NEW t \in Threads, FinishStop(t) PROVE PcOK'
    BY <1>14 DEF FinishStop, Goto, Runners
<1>15. ASSUME LoopTick PROVE PcOK'
    BY <1>15 DEF LoopTick, Goto, Runners
<1>16. ASSUME CrashWeb PROVE PcOK'
    BY <1>16 DEF CrashWeb, Runners
<1>17. ASSUME CrashLoop PROVE PcOK'
    BY <1>17 DEF CrashLoop, Runners
<1>18. ASSUME UNCHANGED vars PROVE PcOK'
    BY <1>18 DEF vars
<1>19. QED
    BY <1>1, <1>2, <1>3, <1>4, <1>5, <1>6, <1>7, <1>8, <1>9, <1>10, <1>11, <1>12,
       <1>13, <1>14, <1>15, <1>16, <1>17, <1>18
       DEF Next, RunStep, Request, Finish

LEMMA LockStep == IInv /\ [Next]_vars => LockOK'
<1> SUFFICES ASSUME IInv, [Next]_vars PROVE LockOK'
    OBVIOUS
<1> USE ConstantsAssumption DEF IInv, TypeOK, Typed, Builds, Built, Nothing, InLock, rcState, bounds, PcOK, LockOK
<1>1. ASSUME NEW h \in Handlers, Write(h) PROVE LockOK'
    BY <1>1 DEF Write
<1>2. ASSUME NEW h \in Handlers, AskNow(h) PROVE LockOK'
    BY <1>2 DEF AskNow
<1>3. ASSUME NEW h \in Handlers, RequestRerun(h) PROVE LockOK'
    BY <1>3 DEF RequestRerun
<1>4. ASSUME NEW h \in Handlers, RequestStart(h) PROVE LockOK'
    BY <1>4 DEF RequestStart, Runners
<1>5. ASSUME NEW r \in Runners, Acquire(r) PROVE LockOK'
    BY <1>5 DEF Acquire, Goto
<1>6. ASSUME NEW r \in Runners, ReadRules(r) PROVE LockOK'
    BY <1>6 DEF ReadRules, Goto
<1>7. ASSUME NEW r \in Runners, ReadPins(r) PROVE LockOK'
    BY <1>7 DEF ReadPins, Goto
<1>8. ASSUME NEW r \in Runners, CommitSilver(r) PROVE LockOK'
    BY <1>8 DEF CommitSilver, Goto
<1>9. ASSUME NEW r \in Runners, ReadSilver(r) PROVE LockOK'
    BY <1>9 DEF ReadSilver, Goto
<1>10. ASSUME NEW r \in Runners, CommitGold(r) PROVE LockOK'
    BY <1>10 DEF CommitGold, Goto
<1>11. ASSUME NEW r \in Runners, Release(r) PROVE LockOK'
    BY <1>11 DEF Release, Goto, AfterRun
<1>12. ASSUME NEW r \in Runners, Raise(r) PROVE LockOK'
    BY <1>12 DEF Raise, AfterRun
<1>13. ASSUME NEW t \in Threads, FinishRerun(t) PROVE LockOK'
    BY <1>13 DEF FinishRerun, Goto, Runners
<1>14. ASSUME NEW t \in Threads, FinishStop(t) PROVE LockOK'
    BY <1>14 DEF FinishStop, Goto, Runners
<1>15. ASSUME LoopTick PROVE LockOK'
    BY <1>15 DEF LoopTick, Goto, Runners
<1>16. ASSUME CrashWeb PROVE LockOK'
    BY <1>16 DEF CrashWeb
<1>17. ASSUME CrashLoop PROVE LockOK'
    BY <1>17 DEF CrashLoop, Runners
<1>18. ASSUME UNCHANGED vars PROVE LockOK'
    BY <1>18 DEF vars
<1>19. QED
    BY <1>1, <1>2, <1>3, <1>4, <1>5, <1>6, <1>7, <1>8, <1>9, <1>10, <1>11, <1>12,
       <1>13, <1>14, <1>15, <1>16, <1>17, <1>18
       DEF Next, RunStep, Request, Finish

LEMMA OrderStep == IInv /\ [Next]_vars => OrderOK'
<1> SUFFICES ASSUME IInv, [Next]_vars PROVE OrderOK'
    OBVIOUS
<1> USE ConstantsAssumption DEF IInv, TypeOK, Typed, Builds, Built, Nothing, InLock, rcState, bounds, LockOK, OrderOK
<1>1. ASSUME NEW h \in Handlers, Write(h) PROVE OrderOK'
    BY <1>1 DEF Write
<1>2. ASSUME NEW h \in Handlers, AskNow(h) PROVE OrderOK'
    BY <1>2 DEF AskNow
<1>3. ASSUME NEW h \in Handlers, RequestRerun(h) PROVE OrderOK'
    BY <1>3 DEF RequestRerun
<1>4. ASSUME NEW h \in Handlers, RequestStart(h) PROVE OrderOK'
    BY <1>4 DEF RequestStart, Runners
<1>5. ASSUME NEW r \in Runners, Acquire(r) PROVE OrderOK'
    BY <1>5 DEF Acquire, Goto
<1>6. ASSUME NEW r \in Runners, ReadRules(r) PROVE OrderOK'
    BY <1>6 DEF ReadRules, Goto
<1>7. ASSUME NEW r \in Runners, ReadPins(r) PROVE OrderOK'
    BY <1>7 DEF ReadPins, Goto
<1>8. ASSUME NEW r \in Runners, CommitSilver(r) PROVE OrderOK'
    BY <1>8 DEF CommitSilver, Goto
<1>9. ASSUME NEW r \in Runners, ReadSilver(r) PROVE OrderOK'
    BY <1>9 DEF ReadSilver, Goto
<1>10. ASSUME NEW r \in Runners, CommitGold(r) PROVE OrderOK'
    BY <1>10 DEF CommitGold, Goto
<1>11. ASSUME NEW r \in Runners, Release(r) PROVE OrderOK'
    BY <1>11 DEF Release, Goto, AfterRun
<1>12. ASSUME NEW r \in Runners, Raise(r) PROVE OrderOK'
    BY <1>12 DEF Raise, AfterRun
<1>13. ASSUME NEW t \in Threads, FinishRerun(t) PROVE OrderOK'
    BY <1>13 DEF FinishRerun, Goto, Runners
<1>14. ASSUME NEW t \in Threads, FinishStop(t) PROVE OrderOK'
    BY <1>14 DEF FinishStop, Goto, Runners
<1>15. ASSUME LoopTick PROVE OrderOK'
    BY <1>15 DEF LoopTick, Goto, Runners
<1>16. ASSUME CrashWeb PROVE OrderOK'
    BY <1>16 DEF CrashWeb
<1>17. ASSUME CrashLoop PROVE OrderOK'
    BY <1>17 DEF CrashLoop, Runners
<1>18. ASSUME UNCHANGED vars PROVE OrderOK'
    BY <1>18 DEF vars
<1>19. QED
    BY <1>1, <1>2, <1>3, <1>4, <1>5, <1>6, <1>7, <1>8, <1>9, <1>10, <1>11, <1>12,
       <1>13, <1>14, <1>15, <1>16, <1>17, <1>18
       DEF Next, RunStep, Request, Finish

LEMMA ThreadStep == IInv /\ [Next]_vars => ThreadOK'
<1> SUFFICES ASSUME IInv, [Next]_vars PROVE ThreadOK'
    OBVIOUS
<1> USE ConstantsAssumption DEF IInv, TypeOK, Typed, Builds, Built, Nothing, InLock, rcState, bounds, PcOK, ThreadOK, OneThread
<1>1. ASSUME NEW h \in Handlers, Write(h) PROVE ThreadOK'
    BY <1>1 DEF Write
<1>2. ASSUME NEW h \in Handlers, AskNow(h) PROVE ThreadOK'
    BY <1>2 DEF AskNow
<1>3. ASSUME NEW h \in Handlers, RequestRerun(h) PROVE ThreadOK'
    BY <1>3 DEF RequestRerun
<1>4. ASSUME NEW h \in Handlers, RequestStart(h) PROVE ThreadOK'
    BY <1>4 DEF RequestStart, Runners
<1>5. ASSUME NEW r \in Runners, Acquire(r) PROVE ThreadOK'
    BY <1>5 DEF Acquire, Goto
<1>6. ASSUME NEW r \in Runners, ReadRules(r) PROVE ThreadOK'
    BY <1>6 DEF ReadRules, Goto
<1>7. ASSUME NEW r \in Runners, ReadPins(r) PROVE ThreadOK'
    BY <1>7 DEF ReadPins, Goto
<1>8. ASSUME NEW r \in Runners, CommitSilver(r) PROVE ThreadOK'
    BY <1>8 DEF CommitSilver, Goto
<1>9. ASSUME NEW r \in Runners, ReadSilver(r) PROVE ThreadOK'
    BY <1>9 DEF ReadSilver, Goto
<1>10. ASSUME NEW r \in Runners, CommitGold(r) PROVE ThreadOK'
    BY <1>10 DEF CommitGold, Goto
<1>11. ASSUME NEW r \in Runners, Release(r) PROVE ThreadOK'
    BY <1>11 DEF Release, Goto, AfterRun
<1>12. ASSUME NEW r \in Runners, Raise(r) PROVE ThreadOK'
    BY <1>12 DEF Raise, AfterRun
<1>13. ASSUME NEW t \in Threads, FinishRerun(t) PROVE ThreadOK'
    BY <1>13 DEF FinishRerun, Goto, Runners
<1>14. ASSUME NEW t \in Threads, FinishStop(t) PROVE ThreadOK'
    BY <1>14 DEF FinishStop, Goto, Runners
<1>15. ASSUME LoopTick PROVE ThreadOK'
    BY <1>15 DEF LoopTick, Goto, Runners
<1>16. ASSUME CrashWeb PROVE ThreadOK'
    BY <1>16 DEF CrashWeb, Runners
<1>17. ASSUME CrashLoop PROVE ThreadOK'
    BY <1>17 DEF CrashLoop, Runners
<1>18. ASSUME UNCHANGED vars PROVE ThreadOK'
    BY <1>18 DEF vars
<1>19. QED
    BY <1>1, <1>2, <1>3, <1>4, <1>5, <1>6, <1>7, <1>8, <1>9, <1>10, <1>11, <1>12,
       <1>13, <1>14, <1>15, <1>16, <1>17, <1>18
       DEF Next, RunStep, Request, Finish

LEMMA SyncStep == IInv /\ [Next]_vars => SyncOK'
<1> SUFFICES ASSUME IInv, [Next]_vars PROVE SyncOK'
    OBVIOUS
<1> USE ConstantsAssumption DEF IInv, TypeOK, Typed, Builds, Built, Nothing, InLock, rcState, bounds, PcOK, LockOK, OrderOK, ThreadOK, OneThread, SyncOK, AllAnswered, Secured, InSync
<1>1. ASSUME NEW h \in Handlers, Write(h) PROVE SyncOK'
    BY <1>1 DEF Write
<1>2. ASSUME NEW h \in Handlers, AskNow(h) PROVE SyncOK'
    BY <1>2 DEF AskNow
<1>3. ASSUME NEW h \in Handlers, RequestRerun(h) PROVE SyncOK'
    BY <1>3 DEF RequestRerun
<1>4. ASSUME NEW h \in Handlers, RequestStart(h) PROVE SyncOK'
    BY <1>4 DEF RequestStart, Runners
<1>5. ASSUME NEW r \in Runners, Acquire(r) PROVE SyncOK'
    BY <1>5 DEF Acquire, Goto
<1>6. ASSUME NEW r \in Runners, ReadRules(r) PROVE SyncOK'
    BY <1>6 DEF ReadRules, Goto
<1>7. ASSUME NEW r \in Runners, ReadPins(r) PROVE SyncOK'
    BY <1>7 DEF ReadPins, Goto
<1>8. ASSUME NEW r \in Runners, CommitSilver(r) PROVE SyncOK'
    BY <1>8 DEF CommitSilver, Goto
<1>9. ASSUME NEW r \in Runners, ReadSilver(r) PROVE SyncOK'
    BY <1>9 DEF ReadSilver, Goto
<1>10. ASSUME NEW r \in Runners, CommitGold(r) PROVE SyncOK'
    BY <1>10 DEF CommitGold, Goto
<1>11. ASSUME NEW r \in Runners, Release(r) PROVE SyncOK'
    BY <1>11 DEF Release, Goto, AfterRun
<1>12. ASSUME NEW r \in Runners, Raise(r) PROVE SyncOK'
    BY <1>12 DEF Raise, AfterRun
<1>13. ASSUME NEW t \in Threads, FinishRerun(t) PROVE SyncOK'
    BY <1>13 DEF FinishRerun, Goto, Runners
<1>14. ASSUME NEW t \in Threads, FinishStop(t) PROVE SyncOK'
    BY <1>14 DEF FinishStop, Goto, Runners
<1>15. ASSUME LoopTick PROVE SyncOK'
    BY <1>15 DEF LoopTick, Goto, Runners
<1>16. ASSUME CrashWeb PROVE SyncOK'
    BY <1>16 DEF CrashWeb
<1>17. ASSUME CrashLoop PROVE SyncOK'
    BY <1>17 DEF CrashLoop, Runners
<1>18. ASSUME UNCHANGED vars PROVE SyncOK'
    BY <1>18 DEF vars
<1>19. QED
    BY <1>1, <1>2, <1>3, <1>4, <1>5, <1>6, <1>7, <1>8, <1>9, <1>10, <1>11, <1>12,
       <1>13, <1>14, <1>15, <1>16, <1>17, <1>18
       DEF Next, RunStep, Request, Finish

LEMMA Inductive == Spec => []IInv
<1>1. IInv /\ [Next]_vars => IInv'
    BY TypeStep, PcStep, LockStep, OrderStep, ThreadStep, SyncStep DEF IInv, TypeOK
<1>2. QED
    BY InitIInv, <1>1, PTL DEF Spec

---------------------------------------------------------------------------
(* The results.                                                            *)

\* Every reachable state is well typed.
THEOREM TypeCorrect == Spec => []TypeOK
<1>1. IInv => TypeOK
    BY DEF IInv
<1>2. QED
    BY Inductive, <1>1, PTL

\* The advisory lock keeps pipeline runs apart, however many threads there
\* are and whatever raises or restarts.
THEOREM Exclusion == Spec => []RunsExclusive
<1>1. IInv => RunsExclusive
    BY DEF IInv, LockOK, RunsExclusive
<1>2. QED
    BY Inductive, <1>1, PTL

\* request_recompute keeps at most one recompute thread alive.
THEOREM SingleThread == Spec => []OneThread
<1>1. IInv => OneThread
    BY DEF IInv, ThreadOK
<1>2. QED
    BY Inductive, <1>1, PTL

\* The rerun flag loses no write: a board that shows no recompute running
\* and no error shows every committed write.
THEOREM IdleInSync == Spec => []IdleMeansInSync
<1>1. IInv => IdleMeansInSync
    BY DEF IInv, SyncOK, IdleMeansInSync
<1>2. QED
    BY Inductive, <1>1, PTL

\* What a step may do to version and gold: the abstract Next.
LEMMA StepsKeepPromise ==
    ASSUME IInv, [Next]_vars
    PROVE  [Promise!Next]_<<version, gold>>
<1> USE DEF IInv, TypeOK, Typed, Builds, Built, Nothing, InLock, rcState, bounds, Promise!Next
<1>1. ASSUME NEW h \in Handlers, Write(h) PROVE Promise!Write
    BY <1>1 DEF Write, Promise!Write
<1>2. ASSUME NEW r \in Runners, CommitGold(r) PROVE Promise!Publish
    <2>1. gold' = silver /\ version' = version
        BY <1>2 DEF CommitGold, Goto, OrderOK
    <2>2. gold' = [rules |-> silver.rules, pins |-> silver.pins]
        BY <2>1
    <2>3. silver.rules \in gold.rules..version /\ silver.pins \in gold.pins..version
        BY DEF OrderOK
    <2>4. QED
        BY <2>1, <2>2, <2>3 DEF Promise!Publish
<1>3. ASSUME ~\E h \in Handlers : Write(h), ~\E r \in Runners : CommitGold(r)
      PROVE  UNCHANGED <<version, gold>>
    BY <1>3 DEF Next, vars, RunStep, Request, Finish, AskNow, RequestRerun, RequestStart,
       Acquire, ReadRules, ReadPins, CommitSilver, ReadSilver, Release, Raise,
       FinishRerun, FinishStop, LoopTick, CrashWeb, CrashLoop
<1>4. QED
    BY <1>1, <1>2, <1>3

\* Recompute implements GoldSync: what gold shows was committed, and nothing
\* published is taken back.
THEOREM Refinement == Spec => PromiseKept
<1>1. Init => Promise!Init
    BY DEF Init, Promise!Init, Nothing, Built
<1>2. IInv /\ [Next]_vars => [Promise!Next]_<<version, gold>>
    BY StepsKeepPromise
<1>3. QED
    BY Inductive, <1>1, <1>2, PTL DEF Spec, PromiseKept, Promise!Spec

\* Gold only moves to newer versions of the rules and of the pins.
THEOREM Monotone == Spec => GoldNeverGoesBack
<1>1. ASSUME IInv, [Next]_vars
      PROVE  [gold'.rules >= gold.rules /\ gold'.pins >= gold.pins]_vars
    <2>1. [Promise!Next]_<<version, gold>>
        BY <1>1, StepsKeepPromise
    <2>2. QED
        BY <1>1, <2>1 DEF Promise!Next, Promise!Write, Promise!Publish, IInv, TypeOK, Typed, Builds
<1>2. QED
    BY Inductive, <1>1, PTL DEF Spec, GoldNeverGoesBack
=============================================================================
