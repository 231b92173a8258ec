------------------------ MODULE WorkflowRuns_proofs ------------------------
(***************************************************************************)
(* Proofs about module WorkflowRuns, for any runs, effects and nesting.    *)
(* Lineage is never expanded: the proofs hold for any constant set of      *)
(* ancestors.                                                              *)
(***************************************************************************)
EXTENDS WorkflowRuns, TLAPS

USE RunOfAssumption, NoEffectAssumption, KindAssumption

\* What TypeOK needs to be inductive: a closure that wakes up finds a settled
\* promise, and one that resumes holds a decision.
HoldsDecision ==
  \A e \in Effects : /\ pc[e] = "waiting" => promise[e] # "none"
                     /\ pc[e] = "resuming" => got[e] \in Decisions

TypeInv == TypeOK /\ HoldsDecision

LEMMA InitTyped == Init => TypeInv
<1> SUFFICES ASSUME Init PROVE TypeInv
  OBVIOUS
<1>1. pauseAny \in BOOLEAN
  BY Zenon DEF Init
<1>2. StoreTypeOK /\ HoldsDecision
  BY DEF Init, StoreInit, StoreTypeOK, HoldsDecision
<1> QED
  BY <1>1, <1>2 DEF Init, TypeInv, TypeOK, MainStates, EffectStates

\* Type correctness is preserved by every step.
LEMMA StepTyped == TypeInv /\ [Next]_vars => TypeInv'
<1> SUFFICES ASSUME TypeInv, [Next]_vars PROVE TypeInv'
  OBVIOUS
<1> USE DEF TypeInv, TypeOK, StoreTypeOK, HoldsDecision, MainStates, EffectStates, Decisions,
            Answers, Live, Terminal, storeVars, closureVars, debugVars, MainTo, EffectTo,
            Ended, Settled
<1>1. ASSUME NEW r \in Runs, StartRun(r) PROVE TypeInv'
  BY <1>1 DEF StartRun, RecordStarted
<1>2. ASSUME NEW r \in Runs, EnterBody(r) \/ ReturnBody(r) \/ BodyRejected(r) \/ BodyThrows(r)
      PROVE TypeInv'
  BY <1>2 DEF EnterBody, ReturnBody, BodyRejected, BodyThrows
<1>3. ASSUME NEW r \in Runs, Finish(r) PROVE TypeInv'
  <2>1. main' \in [Runs -> MainStates]
    BY <1>3 DEF Finish
  <2>2. \E s \in Terminal : RecordTerminal(r, s)
    BY <1>3 DEF Finish
  <2>3. StoreTypeOK'
    BY <2>2 DEF RecordTerminal, ClosePendingSuspends
  <2>4. HoldsDecision'
    BY <1>3, <2>2 DEF Finish, RecordTerminal, ClosePendingSuspends
  <2> QED
    BY <1>3, <2>1, <2>3, <2>4 DEF Finish
<1>4. ASSUME NEW r \in Runs, Catch(r) PROVE TypeInv'
  <2>1. main' \in [Runs -> MainStates]
    BY <1>4 DEF Catch
  <2>2. \E s \in Terminal : RecordTerminal(r, s)
    BY <1>4 DEF Catch
  <2>3. StoreTypeOK'
    BY <2>2 DEF RecordTerminal, ClosePendingSuspends
  <2>4. HoldsDecision'
    BY <1>4, <2>2 DEF Catch, RecordTerminal, ClosePendingSuspends
  <2> QED
    BY <1>4, <2>1, <2>3, <2>4 DEF Catch
<1>5. ASSUME NEW e \in Effects, Call(e) PROVE TypeInv'
  BY <1>5 DEF Call
<1>6. ASSUME NEW e \in Effects, GateStep(e) PROVE TypeInv'
  <2>1. CASE PassGate(e)
    BY <2>1 DEF PassGate
  <2>2. CASE BreakAtGate(e)
    <3>1. pauseAny' \in BOOLEAN
      BY <2>2, Zenon DEF BreakAtGate
    <3>2. StoreTypeOK' /\ HoldsDecision'
      BY <2>2 DEF BreakAtGate
    <3> QED
      BY <2>2, <3>1, <3>2 DEF BreakAtGate
  <2> QED
    BY <1>6, <2>1, <2>2 DEF GateStep
<1>7. ASSUME NEW e \in Effects, ParkStep(e) PROVE TypeInv'
  BY <1>7 DEF ParkStep, Park, ParkRefused, CreateSuspend
<1>8. ASSUME NEW e \in Effects, EmitSuspended(e) PROVE TypeInv'
  BY <1>8 DEF EmitSuspended, RecordSuspended
<1>9. ASSUME NEW e \in Effects, LoadSuspend(e) \/ AbortPark(e) PROVE TypeInv'
  BY <1>9 DEF LoadSuspend, AbortPark
<1>10. ASSUME NEW e \in Effects, Register(e) PROVE TypeInv'
  BY <1>10 DEF Register, RegisterWaiter
<1>11. ASSUME NEW e \in Effects, Wake(e) PROVE TypeInv'
  BY <1>11 DEF Wake
<1>12. ASSUME NEW e \in Effects, EmitResumed(e) PROVE TypeInv'
  BY <1>12 DEF EmitResumed, RecordResumed, PendingOf
<1>13. ASSUME NEW e \in Effects, Settle(e) \/ EndEffect(e) PROVE TypeInv'
  BY <1>13 DEF Settle, EndEffect
<1>14. ASSUME NEW r \in Runs, Cancel(r) \/ Pause(r) PROVE TypeInv'
  BY <1>14 DEF Cancel, Pause
<1>15. ASSUME NEW r \in Runs, Delete(r) PROVE TypeInv'
  BY <1>15 DEF Delete, DeleteRun
<1>16. ASSUME NEW r \in Runs, ContinueNext(r) PROVE TypeInv'
  BY <1>16 DEF ContinueNext, ResolveSuspend, MayResolve
<1>17. ASSUME NEW r \in Runs, NEW step \in BOOLEAN, ContinueDebugger(r, step) PROVE TypeInv'
  BY <1>17 DEF ContinueDebugger, DebuggerPauses, PendingOf
<1>18. ASSUME NEW e \in Effects, NEW d \in Answers, Answer(e, d) PROVE TypeInv'
  BY <1>18 DEF Answer, ResolveSuspend, MayResolve
<1>19. CASE PauseAny
  <2>1. pauseAny' \in BOOLEAN
    BY <1>19, Zenon DEF PauseAny
  <2> QED
    BY <1>19, <2>1 DEF PauseAny
<1>20. CASE UNCHANGED vars
  BY <1>20 DEF vars
<1> QED
  BY <1>1, <1>2, <1>3, <1>4, <1>5, <1>6, <1>7, <1>8, <1>9, <1>10, <1>11, <1>12, <1>13, <1>14,
     <1>15, <1>16, <1>17, <1>18, <1>19, <1>20 DEF Next, RunStep, EffectStep, WaitStep, SettleStep

\* Every variable always has its type.
THEOREM TypeCorrect == Spec => []TypeOK
<1>1. TypeInv => TypeOK
  BY DEF TypeInv
<1> QED
  BY <1>1, InitTyped, StepTyped, PTL DEF Spec

(***************************************************************************)
(* How far a run's row and an effect's bookkeeping can be at each point of *)
(* their closures.                                                         *)
(***************************************************************************)
RunBooks ==
  \A r \in Runs :
    /\ main[r] = "idle" => status[r] = "none"
    /\ main[r] \in {"started", "body", "returned"} => status[r] \notin Terminal
    /\ main[r] = "failing" /\ status[r] \in Terminal => status[r] = "cancelled" /\ Aborted(r)

EffectBooks ==
  \A e \in Effects :
    /\ main[RunOf[e]] = "idle" => pc[e] = "idle"
    /\ pc[e] \in {"idle", "gating"} => reason[e] = "none"
    /\ pc[e] \in {"idle", "gating", "parking"} \cup (Parked \ {"resuming"}) => got[e] = "none"
    /\ pc[e] \in {"parking"} \cup Parked => reason[e] # "none"
    /\ e \in ran => pc[e] \in {"running"} \cup Settled
    /\ pc[e] = "running" => e \in ran

LEMMA InitBooks == Init => RunBooks /\ EffectBooks
BY DEF Init, StoreInit, RunBooks, EffectBooks, Parked

\* The rows follow the closures: a run is recorded only once it starts, and
\* the only terminal status written before its last event is the cancelled
\* of Finish, which the catch block will repeat.
LEMMA StepRunBooks == TypeInv /\ RunBooks /\ EffectBooks /\ [Next]_vars => RunBooks'
<1> SUFFICES ASSUME TypeInv, RunBooks, EffectBooks, [Next]_vars PROVE RunBooks'
  OBVIOUS
<1> USE DEF TypeInv, TypeOK, StoreTypeOK, RunBooks, EffectBooks, MainStates, Live, Terminal,
            storeVars, closureVars, debugVars, MainTo, EffectTo, Ended, Parked, Aborted
<1>1. ASSUME NEW r \in Runs, StartRun(r)
      PROVE RunBooks'
  BY <1>1 DEF StartRun, RecordStarted
<1>2. ASSUME NEW r \in Runs, EnterBody(r) \/ ReturnBody(r) \/ BodyRejected(r) \/ BodyThrows(r)
      PROVE RunBooks'
  BY <1>2 DEF EnterBody, ReturnBody, BodyRejected, BodyThrows
<1>3. ASSUME NEW r \in Runs, Finish(r)
      PROVE RunBooks'
  BY <1>3 DEF Finish, RecordTerminal, ClosePendingSuspends, PendingOf
<1>4. ASSUME NEW r \in Runs, Catch(r)
      PROVE RunBooks'
  BY <1>4 DEF Catch, RecordTerminal, ClosePendingSuspends, PendingOf
<1>5. ASSUME NEW e \in Effects, Call(e)
      PROVE RunBooks'
  BY <1>5 DEF Call, BodyCodeRuns
<1>6. ASSUME NEW e \in Effects, GateStep(e)
      PROVE RunBooks'
  BY <1>6 DEF GateStep, BreakAtGate, PassGate
<1>7. ASSUME NEW e \in Effects, ParkStep(e)
      PROVE RunBooks'
  BY <1>7 DEF ParkStep, Park, ParkRefused, CreateSuspend, MaySuspend
<1>8. ASSUME NEW e \in Effects, EmitSuspended(e)
      PROVE RunBooks'
  BY <1>8 DEF EmitSuspended, RecordSuspended
<1>9. ASSUME NEW e \in Effects, LoadSuspend(e) \/ AbortPark(e)
      PROVE RunBooks'
  BY <1>9 DEF LoadSuspend, AbortPark
<1>10. ASSUME NEW e \in Effects, Register(e)
      PROVE RunBooks'
  BY <1>10 DEF Register, RegisterWaiter
<1>11. ASSUME NEW e \in Effects, Wake(e)
      PROVE RunBooks'
  BY <1>11 DEF Wake
<1>12. ASSUME NEW e \in Effects, EmitResumed(e)
      PROVE RunBooks'
  BY <1>12 DEF EmitResumed, RecordResumed, PendingOf
<1>13. ASSUME NEW e \in Effects, Settle(e) \/ EndEffect(e)
      PROVE RunBooks'
  BY <1>13 DEF Settle, EndEffect
<1>14. ASSUME NEW r \in Runs, Cancel(r) \/ Pause(r)
      PROVE RunBooks'
  BY <1>14 DEF Cancel, Pause
<1>15. ASSUME NEW r \in Runs, Delete(r)
      PROVE RunBooks'
  BY <1>15 DEF Delete, DeleteRun
<1>16. ASSUME NEW r \in Runs, ContinueNext(r)
      PROVE RunBooks'
  BY <1>16 DEF ContinueNext, ResolveSuspend, MayResolve
<1>17. ASSUME NEW r \in Runs, NEW step \in BOOLEAN, ContinueDebugger(r, step)
      PROVE RunBooks'
  BY <1>17 DEF ContinueDebugger
<1>18. ASSUME NEW e \in Effects, NEW d \in Answers, Answer(e, d)
      PROVE RunBooks'
  BY <1>18 DEF Answer, ResolveSuspend, MayResolve
<1>19. CASE PauseAny \/ UNCHANGED vars
  BY <1>19 DEF PauseAny, vars
<1> QED
  BY <1>1, <1>2, <1>3, <1>4, <1>5, <1>6, <1>7, <1>8, <1>9, <1>10, <1>11, <1>12, <1>13, <1>14, <1>15, <1>16, <1>17, <1>18, <1>19
     DEF Next, RunStep, EffectStep, WaitStep, SettleStep

\* An effect's reason and decision are set where its closure has got to.
LEMMA StepEffectBooks == TypeInv /\ EffectBooks /\ [Next]_vars => EffectBooks'
<1> SUFFICES ASSUME TypeInv, EffectBooks, [Next]_vars PROVE EffectBooks'
  OBVIOUS
<1> USE DEF TypeInv, TypeOK, StoreTypeOK, EffectBooks, MainStates, EffectStates, Answers,
            Decisions, storeVars, closureVars, debugVars, MainTo, EffectTo, Ended, Settled,
            Parked
<1>1. ASSUME NEW r \in Runs, StartRun(r)
      PROVE EffectBooks'
  BY <1>1 DEF StartRun, RecordStarted
<1>2. ASSUME NEW r \in Runs, EnterBody(r) \/ ReturnBody(r) \/ BodyRejected(r) \/ BodyThrows(r)
      PROVE EffectBooks'
  BY <1>2 DEF EnterBody, ReturnBody, BodyRejected, BodyThrows
<1>3. ASSUME NEW r \in Runs, Finish(r)
      PROVE EffectBooks'
  BY <1>3 DEF Finish, RecordTerminal, ClosePendingSuspends, PendingOf
<1>4. ASSUME NEW r \in Runs, Catch(r)
      PROVE EffectBooks'
  BY <1>4 DEF Catch, RecordTerminal, ClosePendingSuspends, PendingOf
<1>5. ASSUME NEW e \in Effects, Call(e)
      PROVE EffectBooks'
  BY <1>5 DEF Call, BodyCodeRuns
<1>6. ASSUME NEW e \in Effects, GateStep(e)
      PROVE EffectBooks'
  BY <1>6 DEF GateStep, BreakAtGate, PassGate
<1>7. ASSUME NEW e \in Effects, ParkStep(e)
      PROVE EffectBooks'
  BY <1>7 DEF ParkStep, Park, ParkRefused, CreateSuspend, MaySuspend
<1>8. ASSUME NEW e \in Effects, EmitSuspended(e)
      PROVE EffectBooks'
  BY <1>8 DEF EmitSuspended, RecordSuspended
<1>9. ASSUME NEW e \in Effects, LoadSuspend(e) \/ AbortPark(e)
      PROVE EffectBooks'
  BY <1>9 DEF LoadSuspend, AbortPark
<1>10. ASSUME NEW e \in Effects, Register(e)
      PROVE EffectBooks'
  BY <1>10 DEF Register, RegisterWaiter
<1>11. ASSUME NEW e \in Effects, Wake(e)
      PROVE EffectBooks'
  BY <1>11 DEF Wake
<1>12. ASSUME NEW e \in Effects, EmitResumed(e)
      PROVE EffectBooks'
  BY <1>12 DEF EmitResumed, RecordResumed, PendingOf
<1>13. ASSUME NEW e \in Effects, Settle(e) \/ EndEffect(e)
      PROVE EffectBooks'
  BY <1>13 DEF Settle, EndEffect
<1>14. ASSUME NEW r \in Runs, Cancel(r) \/ Pause(r)
      PROVE EffectBooks'
  BY <1>14 DEF Cancel, Pause
<1>15. ASSUME NEW r \in Runs, Delete(r)
      PROVE EffectBooks'
  BY <1>15 DEF Delete, DeleteRun
<1>16. ASSUME NEW r \in Runs, ContinueNext(r)
      PROVE EffectBooks'
  BY <1>16 DEF ContinueNext, ResolveSuspend, MayResolve
<1>17. ASSUME NEW r \in Runs, NEW step \in BOOLEAN, ContinueDebugger(r, step)
      PROVE EffectBooks'
  BY <1>17 DEF ContinueDebugger
<1>18. ASSUME NEW e \in Effects, NEW d \in Answers, Answer(e, d)
      PROVE EffectBooks'
  BY <1>18 DEF Answer, ResolveSuspend, MayResolve
<1>19. CASE PauseAny \/ UNCHANGED vars
  BY <1>19 DEF PauseAny, vars
<1> QED
  BY <1>1, <1>2, <1>3, <1>4, <1>5, <1>6, <1>7, <1>8, <1>9, <1>10, <1>11, <1>12, <1>13, <1>14, <1>15, <1>16, <1>17, <1>18, <1>19
     DEF Next, RunStep, EffectStep, WaitStep, SettleStep

(***************************************************************************)
(* Records, rows and promises.                                             *)
(***************************************************************************)
\* NothingPendsOnEndedRun is inductive once the records that EmitSuspended
\* may still write are covered: a parked closure's record is missing only on
\* a deleted run.
ParkedIsRecorded ==
  \A e \in Effects : (pc[e] \in Parked /\ suspend[e] = "absent") => status[RunOf[e]] = "none"

PendingInv == ParkedIsRecorded /\ NothingPendsOnEndedRun

LEMMA StepPending == TypeInv /\ RunBooks /\ EffectBooks /\ PendingInv /\ [Next]_vars => PendingInv'
<1> SUFFICES ASSUME TypeInv, RunBooks, EffectBooks, PendingInv, [Next]_vars PROVE PendingInv'
  OBVIOUS
<1> USE DEF TypeInv, TypeOK, StoreTypeOK, RunBooks, EffectBooks, PendingInv, ParkedIsRecorded,
            NothingPendsOnEndedRun, Live, Terminal, Answers, Decisions, storeVars, closureVars,
            debugVars, MainTo, EffectTo, Ended, Parked
<1>1. ASSUME NEW r \in Runs, StartRun(r)
      PROVE PendingInv'
  BY <1>1 DEF StartRun, RecordStarted
<1>2. ASSUME NEW r \in Runs, EnterBody(r) \/ ReturnBody(r) \/ BodyRejected(r) \/ BodyThrows(r)
      PROVE PendingInv'
  BY <1>2 DEF EnterBody, ReturnBody, BodyRejected, BodyThrows
<1>3. ASSUME NEW r \in Runs, Finish(r)
      PROVE PendingInv'
  BY <1>3 DEF Finish, RecordTerminal, ClosePendingSuspends, PendingOf
<1>4. ASSUME NEW r \in Runs, Catch(r)
      PROVE PendingInv'
  BY <1>4 DEF Catch, RecordTerminal, ClosePendingSuspends, PendingOf
<1>5. ASSUME NEW e \in Effects, Call(e)
      PROVE PendingInv'
  BY <1>5 DEF Call, BodyCodeRuns
<1>6. ASSUME NEW e \in Effects, GateStep(e)
      PROVE PendingInv'
  BY <1>6 DEF GateStep, BreakAtGate, PassGate
<1>7. ASSUME NEW e \in Effects, ParkStep(e)
      PROVE PendingInv'
  BY <1>7 DEF ParkStep, Park, ParkRefused, CreateSuspend, MaySuspend
<1>8. ASSUME NEW e \in Effects, EmitSuspended(e)
      PROVE PendingInv'
  BY <1>8 DEF EmitSuspended, RecordSuspended
<1>9. ASSUME NEW e \in Effects, LoadSuspend(e) \/ AbortPark(e)
      PROVE PendingInv'
  BY <1>9 DEF LoadSuspend, AbortPark
<1>10. ASSUME NEW e \in Effects, Register(e)
      PROVE PendingInv'
  BY <1>10 DEF Register, RegisterWaiter
<1>11. ASSUME NEW e \in Effects, Wake(e)
      PROVE PendingInv'
  BY <1>11 DEF Wake
<1>12. ASSUME NEW e \in Effects, EmitResumed(e)
      PROVE PendingInv'
  BY <1>12 DEF EmitResumed, RecordResumed, PendingOf
<1>13. ASSUME NEW e \in Effects, Settle(e) \/ EndEffect(e)
      PROVE PendingInv'
  BY <1>13 DEF Settle, EndEffect, Settled
<1>14. ASSUME NEW r \in Runs, Cancel(r) \/ Pause(r)
      PROVE PendingInv'
  BY <1>14 DEF Cancel, Pause
<1>15. ASSUME NEW r \in Runs, Delete(r)
      PROVE PendingInv'
  BY <1>15 DEF Delete, DeleteRun
<1>16. ASSUME NEW r \in Runs, ContinueNext(r)
      PROVE PendingInv'
  BY <1>16 DEF ContinueNext, ResolveSuspend, MayResolve
<1>17. ASSUME NEW r \in Runs, NEW step \in BOOLEAN, ContinueDebugger(r, step)
      PROVE PendingInv'
  BY <1>17 DEF ContinueDebugger
<1>18. ASSUME NEW e \in Effects, NEW d \in Answers, Answer(e, d)
      PROVE PendingInv'
  BY <1>18 DEF Answer, ResolveSuspend, MayResolve
<1>19. CASE PauseAny \/ UNCHANGED vars
  BY <1>19 DEF PauseAny, vars
<1> QED
  BY <1>1, <1>2, <1>3, <1>4, <1>5, <1>6, <1>7, <1>8, <1>9, <1>10, <1>11, <1>12, <1>13, <1>14, <1>15, <1>16, <1>17, <1>18, <1>19
     DEF Next, RunStep, EffectStep, WaitStep, SettleStep

\* A promise that settled with a decision settled with the recorded one.
PromiseTellsRecord ==
  \A e \in Effects :
    (pc[e] = "waiting" /\ promise[e] \in Decisions) => suspend[e] \in {promise[e], "absent"}

WaiterInv == PromiseTellsRecord /\ NoLostWakeup

LEMMA StepWaiter == TypeInv /\ EffectBooks /\ WaiterInv /\ [Next]_vars => WaiterInv'
<1> SUFFICES ASSUME TypeInv, EffectBooks, WaiterInv, [Next]_vars PROVE WaiterInv'
  OBVIOUS
<1> USE DEF TypeInv, TypeOK, StoreTypeOK, HoldsDecision, EffectBooks, WaiterInv,
            PromiseTellsRecord, NoLostWakeup, Answers, Decisions, storeVars, closureVars,
            debugVars, MainTo, EffectTo, Ended
<1>1. ASSUME NEW r \in Runs, StartRun(r)
      PROVE WaiterInv'
  BY <1>1 DEF StartRun, RecordStarted
<1>2. ASSUME NEW r \in Runs, EnterBody(r) \/ ReturnBody(r) \/ BodyRejected(r) \/ BodyThrows(r)
      PROVE WaiterInv'
  BY <1>2 DEF EnterBody, ReturnBody, BodyRejected, BodyThrows
<1>3. ASSUME NEW r \in Runs, Finish(r)
      PROVE WaiterInv'
  BY <1>3 DEF Finish, RecordTerminal, ClosePendingSuspends, PendingOf
<1>4. ASSUME NEW r \in Runs, Catch(r)
      PROVE WaiterInv'
  BY <1>4 DEF Catch, RecordTerminal, ClosePendingSuspends, PendingOf
<1>5. ASSUME NEW e \in Effects, Call(e)
      PROVE WaiterInv'
  BY <1>5 DEF Call, BodyCodeRuns
<1>6. ASSUME NEW e \in Effects, GateStep(e)
      PROVE WaiterInv'
  BY <1>6 DEF GateStep, BreakAtGate, PassGate
<1>7. ASSUME NEW e \in Effects, ParkStep(e)
      PROVE WaiterInv'
  BY <1>7 DEF ParkStep, Park, ParkRefused, CreateSuspend, MaySuspend
<1>8. ASSUME NEW e \in Effects, EmitSuspended(e)
      PROVE WaiterInv'
  BY <1>8 DEF EmitSuspended, RecordSuspended
<1>9. ASSUME NEW e \in Effects, LoadSuspend(e) \/ AbortPark(e)
      PROVE WaiterInv'
  BY <1>9 DEF LoadSuspend, AbortPark
<1>10. ASSUME NEW e \in Effects, Register(e)
      PROVE WaiterInv'
  BY <1>10 DEF Register, RegisterWaiter
<1>11. ASSUME NEW e \in Effects, Wake(e)
      PROVE WaiterInv'
  BY <1>11 DEF Wake
<1>12. ASSUME NEW e \in Effects, EmitResumed(e)
      PROVE WaiterInv'
  BY <1>12 DEF EmitResumed, RecordResumed, PendingOf
<1>13. ASSUME NEW e \in Effects, Settle(e) \/ EndEffect(e)
      PROVE WaiterInv'
  BY <1>13 DEF Settle, EndEffect, Settled
<1>14. ASSUME NEW r \in Runs, Cancel(r) \/ Pause(r)
      PROVE WaiterInv'
  BY <1>14 DEF Cancel, Pause
<1>15. ASSUME NEW r \in Runs, Delete(r)
      PROVE WaiterInv'
  BY <1>15 DEF Delete, DeleteRun
<1>16. ASSUME NEW r \in Runs, ContinueNext(r)
      PROVE WaiterInv'
  BY <1>16 DEF ContinueNext, ResolveSuspend, MayResolve
<1>17. ASSUME NEW r \in Runs, NEW step \in BOOLEAN, ContinueDebugger(r, step)
      PROVE WaiterInv'
  BY <1>17 DEF ContinueDebugger
<1>18. ASSUME NEW e \in Effects, NEW d \in Answers, Answer(e, d)
      PROVE WaiterInv'
  BY <1>18 DEF Answer, ResolveSuspend, MayResolve
<1>19. CASE PauseAny \/ UNCHANGED vars
  BY <1>19 DEF PauseAny, vars
<1> QED
  BY <1>1, <1>2, <1>3, <1>4, <1>5, <1>6, <1>7, <1>8, <1>9, <1>10, <1>11, <1>12, <1>13, <1>14, <1>15, <1>16, <1>17, <1>18, <1>19
     DEF Next, RunStep, EffectStep, WaitStep, SettleStep

LEMMA StepActs == TypeInv /\ EffectBooks /\ WaiterInv /\ ActsOnStoredDecision /\ [Next]_vars
                    => ActsOnStoredDecision'
<1> SUFFICES ASSUME TypeInv, EffectBooks, WaiterInv, ActsOnStoredDecision, [Next]_vars
             PROVE ActsOnStoredDecision'
  OBVIOUS
<1> USE DEF TypeInv, TypeOK, StoreTypeOK, HoldsDecision, EffectBooks, WaiterInv,
            PromiseTellsRecord, ActsOnStoredDecision, Answers, Decisions, storeVars,
            closureVars, debugVars, MainTo, EffectTo, Ended, Settled, Parked, Permits
<1>1. ASSUME NEW r \in Runs, StartRun(r)
      PROVE ActsOnStoredDecision'
  BY <1>1 DEF StartRun, RecordStarted
<1>2. ASSUME NEW r \in Runs, EnterBody(r) \/ ReturnBody(r) \/ BodyRejected(r) \/ BodyThrows(r)
      PROVE ActsOnStoredDecision'
  BY <1>2 DEF EnterBody, ReturnBody, BodyRejected, BodyThrows
<1>3. ASSUME NEW r \in Runs, Finish(r)
      PROVE ActsOnStoredDecision'
  BY <1>3 DEF Finish, RecordTerminal, ClosePendingSuspends, PendingOf
<1>4. ASSUME NEW r \in Runs, Catch(r)
      PROVE ActsOnStoredDecision'
  BY <1>4 DEF Catch, RecordTerminal, ClosePendingSuspends, PendingOf
<1>5. ASSUME NEW e \in Effects, Call(e)
      PROVE ActsOnStoredDecision'
  BY <1>5 DEF Call, BodyCodeRuns
<1>6. ASSUME NEW e \in Effects, GateStep(e)
      PROVE ActsOnStoredDecision'
  BY <1>6 DEF GateStep, BreakAtGate, PassGate
<1>7. ASSUME NEW e \in Effects, ParkStep(e)
      PROVE ActsOnStoredDecision'
  BY <1>7 DEF ParkStep, Park, ParkRefused, CreateSuspend, MaySuspend
<1>8. ASSUME NEW e \in Effects, EmitSuspended(e)
      PROVE ActsOnStoredDecision'
  BY <1>8 DEF EmitSuspended, RecordSuspended
<1>9. ASSUME NEW e \in Effects, LoadSuspend(e) \/ AbortPark(e)
      PROVE ActsOnStoredDecision'
  BY <1>9 DEF LoadSuspend, AbortPark
<1>10. ASSUME NEW e \in Effects, Register(e)
      PROVE ActsOnStoredDecision'
  BY <1>10 DEF Register, RegisterWaiter
<1>11. ASSUME NEW e \in Effects, Wake(e)
      PROVE ActsOnStoredDecision'
  BY <1>11 DEF Wake
<1>12. ASSUME NEW e \in Effects, EmitResumed(e)
      PROVE ActsOnStoredDecision'
  BY <1>12 DEF EmitResumed, RecordResumed, PendingOf
<1>13. ASSUME NEW e \in Effects, Settle(e) \/ EndEffect(e)
      PROVE ActsOnStoredDecision'
  BY <1>13 DEF Settle, EndEffect
<1>14. ASSUME NEW r \in Runs, Cancel(r) \/ Pause(r)
      PROVE ActsOnStoredDecision'
  BY <1>14 DEF Cancel, Pause
<1>15. ASSUME NEW r \in Runs, Delete(r)
      PROVE ActsOnStoredDecision'
  BY <1>15 DEF Delete, DeleteRun
<1>16. ASSUME NEW r \in Runs, ContinueNext(r)
      PROVE ActsOnStoredDecision'
  BY <1>16 DEF ContinueNext, ResolveSuspend, MayResolve
<1>17. ASSUME NEW r \in Runs, NEW step \in BOOLEAN, ContinueDebugger(r, step)
      PROVE ActsOnStoredDecision'
  BY <1>17 DEF ContinueDebugger
<1>18. ASSUME NEW e \in Effects, NEW d \in Answers, Answer(e, d)
      PROVE ActsOnStoredDecision'
  BY <1>18 DEF Answer, ResolveSuspend, MayResolve
<1>19. CASE PauseAny \/ UNCHANGED vars
  BY <1>19 DEF PauseAny, vars
<1> QED
  BY <1>1, <1>2, <1>3, <1>4, <1>5, <1>6, <1>7, <1>8, <1>9, <1>10, <1>11, <1>12, <1>13, <1>14, <1>15, <1>16, <1>17, <1>18, <1>19
     DEF Next, RunStep, EffectStep, WaitStep, SettleStep

(***************************************************************************)
(* What the row tells a person.                                            *)
(***************************************************************************)
\* A record is pending only while its closure is parked, unless the run is
\* being cancelled or was deleted.
PendingIsParked ==
  \A e \in Effects :
    /\ pc[e] \in {"idle", "gating", "parking"} => suspend[e] = "absent"
    /\ suspend[e] = "pending" =>
         pc[e] \in Parked \/ Aborted(RunOf[e]) \/ status[RunOf[e]] = "none"
    /\ pc[e] = "waiting" /\ promise[e] = "gone" => suspend[e] = "absent"

RowInv == PendingIsParked /\ SuspendedMeansParked /\ WaitingIsVisible /\ LiveRowHasClosure

LEMMA StepRow == /\ TypeInv /\ RunBooks /\ EffectBooks /\ PendingInv
                 /\ ActsOnStoredDecision /\ RowInv /\ [Next]_vars
                 => RowInv'
<1> SUFFICES ASSUME TypeInv, RunBooks, EffectBooks, PendingInv, ActsOnStoredDecision, RowInv,
                    [Next]_vars
             PROVE RowInv'
  OBVIOUS
<1> USE DEF TypeInv, TypeOK, StoreTypeOK, HoldsDecision, RunBooks, EffectBooks, PendingInv,
            ParkedIsRecorded, NothingPendsOnEndedRun, RowInv, PendingIsParked,
            SuspendedMeansParked, WaitingIsVisible, LiveRowHasClosure, Live, Terminal, Answers,
            Decisions, storeVars, closureVars, debugVars, MainTo, EffectTo, Ended, Parked,
            Aborted, ActsOnStoredDecision, Settled
<1>1. ASSUME NEW r \in Runs, StartRun(r)
      PROVE RowInv'
  BY <1>1 DEF StartRun, RecordStarted
<1>2. ASSUME NEW r \in Runs, EnterBody(r) \/ ReturnBody(r) \/ BodyRejected(r) \/ BodyThrows(r)
      PROVE RowInv'
  BY <1>2 DEF EnterBody, ReturnBody, BodyRejected, BodyThrows
<1>3. ASSUME NEW r \in Runs, Finish(r)
      PROVE RowInv'
  <2>1. PICK s \in {"ok", "cancelled"}, to \in {"failing", "resolved"} :
               /\ RecordTerminal(r, s)
               /\ MainTo(r, to)
               /\ main[r] = "returned"
    BY <1>3 DEF Finish
  <2>2. UNCHANGED <<cancelled, pc, reason, got, ran>>
    BY <1>3 DEF Finish
  <2>3. LiveRowHasClosure' /\ WaitingIsVisible' /\ SuspendedMeansParked'
    BY <2>1, <2>2 DEF RecordTerminal, ClosePendingSuspends, PendingOf
  <2>4. PendingIsParked'
    BY <2>1, <2>2 DEF RecordTerminal, ClosePendingSuspends, PendingOf
  <2> QED
    BY <2>3, <2>4
<1>4. ASSUME NEW r \in Runs, Catch(r)
      PROVE RowInv'
  BY <1>4 DEF Catch, RecordTerminal, ClosePendingSuspends, PendingOf
<1>5. ASSUME NEW e \in Effects, Call(e)
      PROVE RowInv'
  BY <1>5 DEF Call, BodyCodeRuns
<1>6. ASSUME NEW e \in Effects, GateStep(e)
      PROVE RowInv'
  BY <1>6 DEF GateStep, BreakAtGate, PassGate
<1>7. ASSUME NEW e \in Effects, ParkStep(e)
      PROVE RowInv'
  BY <1>7 DEF ParkStep, Park, ParkRefused, CreateSuspend, MaySuspend
<1>8. ASSUME NEW e \in Effects, EmitSuspended(e)
      PROVE RowInv'
  BY <1>8, SMTT(30) DEF EmitSuspended, RecordSuspended
<1>9. ASSUME NEW e \in Effects, LoadSuspend(e) \/ AbortPark(e)
      PROVE RowInv'
  BY <1>9 DEF LoadSuspend, AbortPark
<1>10. ASSUME NEW e \in Effects, Register(e)
      PROVE RowInv'
  BY <1>10 DEF Register, RegisterWaiter
<1>11. ASSUME NEW e \in Effects, Wake(e)
      PROVE RowInv'
  BY <1>11 DEF Wake
<1>12. ASSUME NEW e \in Effects, EmitResumed(e)
      PROVE RowInv'
  BY <1>12 DEF EmitResumed, RecordResumed, PendingOf
<1>13. ASSUME NEW e \in Effects, Settle(e) \/ EndEffect(e)
      PROVE RowInv'
  BY <1>13 DEF Settle, EndEffect, Settled
<1>14. ASSUME NEW r \in Runs, Cancel(r) \/ Pause(r)
      PROVE RowInv'
  BY <1>14 DEF Cancel, Pause
<1>15. ASSUME NEW r \in Runs, Delete(r)
      PROVE RowInv'
  BY <1>15 DEF Delete, DeleteRun
<1>16. ASSUME NEW r \in Runs, ContinueNext(r)
      PROVE RowInv'
  BY <1>16 DEF ContinueNext, ResolveSuspend, MayResolve
<1>17. ASSUME NEW r \in Runs, NEW step \in BOOLEAN, ContinueDebugger(r, step)
      PROVE RowInv'
  BY <1>17 DEF ContinueDebugger, DebuggerPauses, PendingOf
<1>18. ASSUME NEW e \in Effects, NEW d \in Answers, Answer(e, d)
      PROVE RowInv'
  BY <1>18 DEF Answer, ResolveSuspend, MayResolve
<1>19. CASE PauseAny \/ UNCHANGED vars
  BY <1>19 DEF PauseAny, vars
<1> HIDE DEF TypeInv, TypeOK, StoreTypeOK, HoldsDecision, RunBooks, EffectBooks, PendingInv,
             ParkedIsRecorded, NothingPendsOnEndedRun, RowInv, PendingIsParked,
             SuspendedMeansParked, WaitingIsVisible, LiveRowHasClosure, Aborted,
             ActsOnStoredDecision, storeVars, closureVars, debugVars
<1> QED
  BY <1>1, <1>2, <1>3, <1>4, <1>5, <1>6, <1>7, <1>8, <1>9, <1>10, <1>11, <1>12, <1>13, <1>14, <1>15, <1>16, <1>17, <1>18, <1>19, SMTT(30)
     DEF Next, RunStep, EffectStep, WaitStep, SettleStep

\* What a continue batch still has to resolve are debugger pauses.
BatchIsDebugger ==
  \A r \in Runs : \A e \in batch[r] : reason[e] = "debugger" /\ pc[e] \notin {"idle", "gating"}

LEMMA StepBatch == TypeInv /\ EffectBooks /\ BatchIsDebugger /\ [Next]_vars => BatchIsDebugger'
<1> SUFFICES ASSUME TypeInv, EffectBooks, BatchIsDebugger, [Next]_vars PROVE BatchIsDebugger'
  OBVIOUS
<1> USE DEF TypeInv, TypeOK, StoreTypeOK, EffectBooks, BatchIsDebugger, EffectStates, storeVars,
            closureVars, debugVars, MainTo, EffectTo
<1>1. ASSUME NEW r \in Runs, StartRun(r)
      PROVE BatchIsDebugger'
  BY <1>1 DEF StartRun, RecordStarted
<1>2. ASSUME NEW r \in Runs, EnterBody(r) \/ ReturnBody(r) \/ BodyRejected(r) \/ BodyThrows(r)
      PROVE BatchIsDebugger'
  BY <1>2 DEF EnterBody, ReturnBody, BodyRejected, BodyThrows
<1>3. ASSUME NEW r \in Runs, Finish(r)
      PROVE BatchIsDebugger'
  BY <1>3 DEF Finish, RecordTerminal, ClosePendingSuspends, PendingOf
<1>4. ASSUME NEW r \in Runs, Catch(r)
      PROVE BatchIsDebugger'
  BY <1>4 DEF Catch, RecordTerminal, ClosePendingSuspends, PendingOf
<1>5. ASSUME NEW e \in Effects, Call(e)
      PROVE BatchIsDebugger'
  BY <1>5 DEF Call, BodyCodeRuns
<1>6. ASSUME NEW e \in Effects, GateStep(e)
      PROVE BatchIsDebugger'
  BY <1>6 DEF GateStep, BreakAtGate, PassGate
<1>7. ASSUME NEW e \in Effects, ParkStep(e)
      PROVE BatchIsDebugger'
  BY <1>7 DEF ParkStep, Park, ParkRefused, CreateSuspend, MaySuspend
<1>8. ASSUME NEW e \in Effects, EmitSuspended(e)
      PROVE BatchIsDebugger'
  BY <1>8 DEF EmitSuspended, RecordSuspended
<1>9. ASSUME NEW e \in Effects, LoadSuspend(e) \/ AbortPark(e)
      PROVE BatchIsDebugger'
  BY <1>9 DEF LoadSuspend, AbortPark
<1>10. ASSUME NEW e \in Effects, Register(e)
      PROVE BatchIsDebugger'
  BY <1>10 DEF Register, RegisterWaiter
<1>11. ASSUME NEW e \in Effects, Wake(e)
      PROVE BatchIsDebugger'
  BY <1>11 DEF Wake
<1>12. ASSUME NEW e \in Effects, EmitResumed(e)
      PROVE BatchIsDebugger'
  BY <1>12 DEF EmitResumed, RecordResumed, PendingOf
<1>13. ASSUME NEW e \in Effects, Settle(e) \/ EndEffect(e)
      PROVE BatchIsDebugger'
  BY <1>13 DEF Settle, EndEffect, Settled
<1>14. ASSUME NEW r \in Runs, Cancel(r) \/ Pause(r)
      PROVE BatchIsDebugger'
  BY <1>14 DEF Cancel, Pause
<1>15. ASSUME NEW r \in Runs, Delete(r)
      PROVE BatchIsDebugger'
  BY <1>15 DEF Delete, DeleteRun
<1>16. ASSUME NEW r \in Runs, ContinueNext(r)
      PROVE BatchIsDebugger'
  BY <1>16 DEF ContinueNext, ResolveSuspend, MayResolve
<1>17. ASSUME NEW r \in Runs, NEW step \in BOOLEAN, ContinueDebugger(r, step)
      PROVE BatchIsDebugger'
  BY <1>17 DEF ContinueDebugger, DebuggerPauses, PendingOf
<1>18. ASSUME NEW e \in Effects, NEW d \in Answers, Answer(e, d)
      PROVE BatchIsDebugger'
  BY <1>18 DEF Answer, ResolveSuspend, MayResolve
<1>19. CASE PauseAny \/ UNCHANGED vars
  BY <1>19 DEF PauseAny, vars
<1> QED
  BY <1>1, <1>2, <1>3, <1>4, <1>5, <1>6, <1>7, <1>8, <1>9, <1>10, <1>11, <1>12, <1>13, <1>14, <1>15, <1>16, <1>17, <1>18, <1>19
     DEF Next, RunStep, EffectStep, WaitStep, SettleStep

(***************************************************************************)
(* The inductive invariant and what follows from it.                       *)
(***************************************************************************)
IInv == /\ TypeInv
        /\ RunBooks
        /\ EffectBooks
        /\ PendingInv
        /\ WaiterInv
        /\ ActsOnStoredDecision
        /\ RowInv
        /\ BatchIsDebugger

LEMMA InitIInv == Init => IInv
<1> SUFFICES ASSUME Init PROVE IInv
  OBVIOUS
<1>1. TypeInv /\ RunBooks /\ EffectBooks
  BY InitTyped, InitBooks
<1>2. PendingInv /\ WaiterInv /\ ActsOnStoredDecision
  BY DEF Init, StoreInit, PendingInv, ParkedIsRecorded, NothingPendsOnEndedRun, WaiterInv,
         PromiseTellsRecord, NoLostWakeup, ActsOnStoredDecision
<1>3. RowInv /\ BatchIsDebugger
  BY DEF Init, StoreInit, RowInv, PendingIsParked, SuspendedMeansParked, WaitingIsVisible,
         LiveRowHasClosure, Live, BatchIsDebugger
<1> QED
  BY <1>1, <1>2, <1>3 DEF IInv

LEMMA StepIInv == IInv /\ [Next]_vars => IInv'
BY StepTyped, StepRunBooks, StepEffectBooks, StepPending, StepWaiter, StepActs, StepRow,
   StepBatch DEF IInv

LEMMA Invariance == Spec => []IInv
BY InitIInv, StepIInv, PTL DEF Spec

\* Nothing is left pending on a run that has ended, however many runs and
\* effects there are and whatever is answered, cancelled, debugged or deleted.
THEOREM EndedRunsAreClosed == Spec => []NothingPendsOnEndedRun
<1>1. IInv => NothingPendsOnEndedRun
  BY DEF IInv, PendingInv
<1> QED
  BY <1>1, Invariance, PTL

\* A closure whose promise is open always has a pending record to wake it.
THEOREM WaitersCanBeWoken == Spec => []NoLostWakeup
<1>1. IInv => NoLostWakeup
  BY DEF IInv, WaiterInv
<1> QED
  BY <1>1, Invariance, PTL

\* An effect only ever happens under a decision that permits it, and that
\* decision is the recorded one.
THEOREM EffectsObeyTheRecord == Spec => []ActsOnStoredDecision
<1>1. IInv => ActsOnStoredDecision
  BY DEF IInv
<1> QED
  BY <1>1, Invariance, PTL

\* While a closure waits for an answer its row says suspended, whichever of
\* several effects of the run were answered before.
THEOREM WaitingRowsSaySo == Spec => []WaitingIsVisible
<1>1. IInv => WaitingIsVisible
  BY DEF IInv, RowInv
<1> QED
  BY <1>1, Invariance, PTL

\* A row that says suspended names an effect of its run that has not recorded
\* workflow_resumed yet, unless the run is being cancelled.
THEOREM SuspendedRowsArePending == Spec => []SuspendedMeansParked
<1>1. IInv => SuspendedMeansParked
  BY DEF IInv, RowInv
<1> QED
  BY <1>1, Invariance, PTL

\* A row that looks alive has a closure behind it that will settle it.
THEOREM LiveRowsAreDriven == Spec => []LiveRowHasClosure
<1>1. IInv => LiveRowHasClosure
  BY DEF IInv, RowInv
<1> QED
  BY <1>1, Invariance, PTL

\* Who is held can be heard: what stands between a closure that waits and its
\* wake-up is an answer that the store would take, for a run that has not
\* ended and whose row shows the pause of some closure that is parked.  The
\* two exceptions are a run being cancelled, whose closures leave on their
\* own, and one whose row was deleted.
HeldIsHeard ==
  \A e \in Effects :
    (/\ pc[e] = "waiting" /\ promise[e] = "open"
     /\ ~Aborted(RunOf[e]) /\ status[RunOf[e]] # "none")
      => /\ MayResolve(e)
         /\ main[RunOf[e]] \notin Ended
         /\ status[RunOf[e]] = "suspended" /\ pc[current[RunOf[e]]] \in Parked

\* A waiting closure is never stuck on something that nobody can answer.
THEOREM NobodyWaitsUnheard == Spec => []HeldIsHeard
<1>1. IInv => HeldIsHeard
  <2> SUFFICES ASSUME IInv, NEW e \in Effects,
                      pc[e] = "waiting", promise[e] = "open", ~Aborted(RunOf[e]),
                      status[RunOf[e]] # "none"
               PROVE  /\ MayResolve(e)
                      /\ main[RunOf[e]] \notin Ended
                      /\ status[RunOf[e]] = "suspended" /\ pc[current[RunOf[e]]] \in Parked
    BY DEF HeldIsHeard
  <2>1. RunOf[e] \in Runs /\ status[RunOf[e]] \in Live \cup Terminal
    BY DEF IInv, TypeInv, TypeOK, StoreTypeOK
  <2>2. suspend[e] = "pending"
    BY DEF IInv, WaiterInv, NoLostWakeup
  <2>3. status[RunOf[e]] \in Live
    BY <2>1, <2>2 DEF IInv, PendingInv, NothingPendsOnEndedRun
  <2>4. main[RunOf[e]] \notin Ended
    BY <2>1, <2>3 DEF IInv, RowInv, LiveRowHasClosure
  <2>5. status[RunOf[e]] = "suspended"
    BY <2>2, <2>3 DEF IInv, RowInv, WaitingIsVisible
  <2>6. pc[current[RunOf[e]]] \in Parked
    BY <2>1, <2>5 DEF IInv, RowInv, SuspendedMeansParked
  <2> QED
    BY <2>2, <2>3, <2>4, <2>5, <2>6 DEF MayResolve
<1> QED
  BY <1>1, Invariance, PTL

LEMMA StepIsFinal == TypeInv /\ RunBooks /\ EffectBooks /\ [Next]_vars => [FinalStep]_vars
<1> SUFFICES ASSUME TypeInv, RunBooks, EffectBooks, Next PROVE FinalStep
  BY DEF vars, FinalStep
<1> USE DEF TypeInv, TypeOK, StoreTypeOK, HoldsDecision, RunBooks, EffectBooks,
            FinalStep, Terminal, Live, Answers, Decisions, storeVars
<1>1. ASSUME NEW r \in Runs, StartRun(r)
      PROVE FinalStep
  BY <1>1 DEF StartRun, RecordStarted
<1>2. ASSUME NEW r \in Runs, EnterBody(r) \/ ReturnBody(r) \/ BodyRejected(r) \/ BodyThrows(r)
      PROVE FinalStep
  BY <1>2 DEF EnterBody, ReturnBody, BodyRejected, BodyThrows
<1>3. ASSUME NEW r \in Runs, Finish(r)
      PROVE FinalStep
  BY <1>3 DEF Finish, RecordTerminal, ClosePendingSuspends, PendingOf
<1>4. ASSUME NEW r \in Runs, Catch(r)
      PROVE FinalStep
  BY <1>4 DEF Catch, RecordTerminal, ClosePendingSuspends, PendingOf
<1>5. ASSUME NEW e \in Effects, Call(e)
      PROVE FinalStep
  BY <1>5 DEF Call, BodyCodeRuns
<1>6. ASSUME NEW e \in Effects, GateStep(e)
      PROVE FinalStep
  BY <1>6 DEF GateStep, BreakAtGate, PassGate
<1>7. ASSUME NEW e \in Effects, ParkStep(e)
      PROVE FinalStep
  BY <1>7 DEF ParkStep, Park, ParkRefused, CreateSuspend, MaySuspend
<1>8. ASSUME NEW e \in Effects, EmitSuspended(e)
      PROVE FinalStep
  BY <1>8 DEF EmitSuspended, RecordSuspended
<1>9. ASSUME NEW e \in Effects, LoadSuspend(e) \/ AbortPark(e)
      PROVE FinalStep
  BY <1>9 DEF LoadSuspend, AbortPark
<1>10. ASSUME NEW e \in Effects, Register(e)
      PROVE FinalStep
  BY <1>10 DEF Register, RegisterWaiter
<1>11. ASSUME NEW e \in Effects, Wake(e)
      PROVE FinalStep
  BY <1>11 DEF Wake
<1>12. ASSUME NEW e \in Effects, EmitResumed(e)
      PROVE FinalStep
  BY <1>12 DEF EmitResumed, RecordResumed, PendingOf
<1>13. ASSUME NEW e \in Effects, Settle(e) \/ EndEffect(e)
      PROVE FinalStep
  BY <1>13 DEF Settle, EndEffect, Settled
<1>14. ASSUME NEW r \in Runs, Cancel(r) \/ Pause(r)
      PROVE FinalStep
  BY <1>14 DEF Cancel, Pause
<1>15. ASSUME NEW r \in Runs, Delete(r)
      PROVE FinalStep
  BY <1>15 DEF Delete, DeleteRun
<1>16. ASSUME NEW r \in Runs, ContinueNext(r)
      PROVE FinalStep
  BY <1>16 DEF ContinueNext, ResolveSuspend, MayResolve
<1>17. ASSUME NEW r \in Runs, NEW step \in BOOLEAN, ContinueDebugger(r, step)
      PROVE FinalStep
  BY <1>17 DEF ContinueDebugger, DebuggerPauses, PendingOf
<1>18. ASSUME NEW e \in Effects, NEW d \in Answers, Answer(e, d)
      PROVE FinalStep
  BY <1>18 DEF Answer, ResolveSuspend, MayResolve
<1>19. CASE PauseAny
  BY <1>19 DEF PauseAny
<1> QED
  BY <1>1, <1>2, <1>3, <1>4, <1>5, <1>6, <1>7, <1>8, <1>9, <1>10, <1>11, <1>12, <1>13, <1>14, <1>15, <1>16, <1>17, <1>18, <1>19
     DEF Next, RunStep, EffectStep, WaitStep, SettleStep

\* Decisions and terminal statuses are never replaced.
THEOREM Finality == Spec => OutcomesAreFinal
<1>1. IInv /\ [Next]_vars => [FinalStep]_vars
  BY StepIsFinal DEF IInv
<1> QED
  BY <1>1, Invariance, PTL DEF Spec, OutcomesAreFinal

LEMMA StepOfDebugger == IInv /\ [Next]_vars => [DebuggerStep]_vars
BY DEF IInv, BatchIsDebugger, TypeInv, TypeOK, DebuggerStep

\* Continuing in the debugger answers debugger pauses only.
THEOREM DebuggerIsConfined == Spec => DebuggerLeavesApprovals
BY Invariance, StepOfDebugger, PTL DEF Spec, DebuggerLeavesApprovals

(***************************************************************************)
(* Refinement.                                                             *)
(***************************************************************************)
\* Without deletion a run that was started keeps its row.
KeepsRows == \A r \in Runs : main[r] # "idle" => status[r] # "none"

LEMMA StepKeepsRows == Deletable = {} /\ TypeInv /\ KeepsRows /\ [Next]_vars => KeepsRows'
<1> SUFFICES ASSUME Deletable = {}, TypeInv, KeepsRows, [Next]_vars PROVE KeepsRows'
  OBVIOUS
<1> USE DEF TypeInv, TypeOK, StoreTypeOK, KeepsRows, Live, Terminal, storeVars, closureVars,
            debugVars, MainTo, EffectTo
<1>1. ASSUME NEW r \in Runs, StartRun(r)
      PROVE KeepsRows'
  BY <1>1 DEF StartRun, RecordStarted
<1>2. ASSUME NEW r \in Runs, EnterBody(r) \/ ReturnBody(r) \/ BodyRejected(r) \/ BodyThrows(r)
      PROVE KeepsRows'
  BY <1>2 DEF EnterBody, ReturnBody, BodyRejected, BodyThrows
<1>3. ASSUME NEW r \in Runs, Finish(r)
      PROVE KeepsRows'
  BY <1>3 DEF Finish, RecordTerminal, ClosePendingSuspends, PendingOf
<1>4. ASSUME NEW r \in Runs, Catch(r)
      PROVE KeepsRows'
  BY <1>4 DEF Catch, RecordTerminal, ClosePendingSuspends, PendingOf
<1>5. ASSUME NEW e \in Effects, Call(e)
      PROVE KeepsRows'
  BY <1>5 DEF Call, BodyCodeRuns
<1>6. ASSUME NEW e \in Effects, GateStep(e)
      PROVE KeepsRows'
  BY <1>6 DEF GateStep, BreakAtGate, PassGate
<1>7. ASSUME NEW e \in Effects, ParkStep(e)
      PROVE KeepsRows'
  BY <1>7 DEF ParkStep, Park, ParkRefused, CreateSuspend, MaySuspend
<1>8. ASSUME NEW e \in Effects, EmitSuspended(e)
      PROVE KeepsRows'
  BY <1>8 DEF EmitSuspended, RecordSuspended
<1>9. ASSUME NEW e \in Effects, LoadSuspend(e) \/ AbortPark(e)
      PROVE KeepsRows'
  BY <1>9 DEF LoadSuspend, AbortPark
<1>10. ASSUME NEW e \in Effects, Register(e)
      PROVE KeepsRows'
  BY <1>10 DEF Register, RegisterWaiter
<1>11. ASSUME NEW e \in Effects, Wake(e)
      PROVE KeepsRows'
  BY <1>11 DEF Wake
<1>12. ASSUME NEW e \in Effects, EmitResumed(e)
      PROVE KeepsRows'
  BY <1>12 DEF EmitResumed, RecordResumed, PendingOf
<1>13. ASSUME NEW e \in Effects, Settle(e) \/ EndEffect(e)
      PROVE KeepsRows'
  BY <1>13 DEF Settle, EndEffect
<1>14. ASSUME NEW r \in Runs, Cancel(r) \/ Pause(r)
      PROVE KeepsRows'
  BY <1>14 DEF Cancel, Pause
<1>15. ASSUME NEW r \in Runs, Delete(r)
      PROVE KeepsRows'
  BY <1>15 DEF Delete, DeleteRun
<1>16. ASSUME NEW r \in Runs, ContinueNext(r)
      PROVE KeepsRows'
  BY <1>16 DEF ContinueNext, ResolveSuspend, MayResolve
<1>17. ASSUME NEW r \in Runs, NEW step \in BOOLEAN, ContinueDebugger(r, step)
      PROVE KeepsRows'
  BY <1>17 DEF ContinueDebugger
<1>18. ASSUME NEW e \in Effects, NEW d \in Answers, Answer(e, d)
      PROVE KeepsRows'
  BY <1>18 DEF Answer, ResolveSuspend, MayResolve
<1>19. CASE PauseAny \/ UNCHANGED vars
  BY <1>19 DEF PauseAny, vars
<1> QED
  BY <1>1, <1>2, <1>3, <1>4, <1>5, <1>6, <1>7, <1>8, <1>9, <1>10, <1>11, <1>12, <1>13, <1>14, <1>15, <1>16, <1>17, <1>18, <1>19
     DEF Next, RunStep, EffectStep, WaitStep, SettleStep

LEMMA InitLedger == Init => Ledger!LedgerInit
BY DEF Init, StoreInit, Ledger!LedgerInit, Standing, Told, Live, Terminal

\* How the two mapped functions move when one argument of theirs does.
LEMMA StandingMoves ==
  ASSUME TypeOK, NEW r \in Runs, NEW s \in Live \cup Terminal, status' = [status EXCEPT ![r] = s]
  PROVE Standing' = [Standing EXCEPT ![r] = IF s \in Live THEN "open" ELSE "over"]
<1> DEFINE New == [Standing EXCEPT ![r] = IF s \in Live THEN "open" ELSE "over"]
<1>1. \A q \in Runs : Standing'[q] = New[q]
  BY DEF Standing, TypeOK, StoreTypeOK, Live, Terminal
<1>2. Standing' = [q \in Runs |-> Standing'[q]] /\ New = [q \in Runs |-> New[q]]
  BY DEF Standing
<1> QED
  BY <1>1, <1>2, Zenon

LEMMA ToldMoves ==
  ASSUME TypeOK, NEW e \in Effects, NEW d, reason[e] # "none", UNCHANGED reason,
         got' = [got EXCEPT ![e] = d]
  PROVE Told' = [Told EXCEPT ![e] = d]
<1> DEFINE New == [Told EXCEPT ![e] = d]
<1>1. \A x \in Effects : Told'[x] = New[x]
  BY DEF Told, TypeOK
<1>2. Told' = [x \in Effects |-> Told'[x]]
  BY DEF Told
<1>3. New = [x \in Effects |-> New[x]]
  BY Zenon DEF Told
<1> QED
  BY <1>1, <1>2, <1>3, Zenon

LEMMA StepLedger == /\ Deletable = {} /\ IInv /\ KeepsRows /\ [Next]_vars
                    => [Ledger!LedgerNext]_(Ledger!ledgerVars)
<1> SUFFICES ASSUME Deletable = {}, IInv, KeepsRows, [Next]_vars
             PROVE Ledger!LedgerNext \/ UNCHANGED <<Standing, suspend, Told>>
  BY DEF Ledger!ledgerVars
<1> USE DEF IInv, TypeInv, TypeOK, StoreTypeOK, HoldsDecision, EffectBooks, KeepsRows, Live,
            Terminal, Answers, Decisions, storeVars, closureVars, debugVars, MainTo, EffectTo,
            Parked, Standing, Told
<1>1. ASSUME NEW r \in Runs, StartRun(r)
      PROVE Ledger!Open(r)
  <2>1. status[r] = "none" /\ status' = [status EXCEPT ![r] = "running"]
    BY <1>1 DEF StartRun, RecordStarted, RunBooks
  <2>2. Standing[r] = "new" /\ Standing' = [Standing EXCEPT ![r] = "open"]
    BY <2>1, StandingMoves
  <2>3. UNCHANGED <<suspend, Told>>
    BY <1>1 DEF StartRun, RecordStarted
  <2> QED
    BY <2>2, <2>3 DEF Ledger!Open
<1>2. ASSUME NEW r \in Runs, EnterBody(r) \/ ReturnBody(r) \/ BodyRejected(r) \/ BodyThrows(r)
      PROVE UNCHANGED <<Standing, suspend, Told>>
  BY <1>2 DEF EnterBody, ReturnBody, BodyRejected, BodyThrows
<1>3. ASSUME NEW r \in Runs, NEW s \in Terminal, RecordTerminal(r, s), main[r] # "idle",
             UNCHANGED <<reason, got>>
      PROVE Ledger!Close(r) \/ UNCHANGED <<Standing, suspend, Told>>
  <2>1. CASE status[r] \in Live
    <3>1. status' = [status EXCEPT ![r] = s]
      BY <1>3, <2>1 DEF RecordTerminal
    <3>2. Standing[r] = "open" /\ Standing' = [Standing EXCEPT ![r] = "over"]
      BY <2>1, <3>1, StandingMoves
    <3>3. UNCHANGED Told
      BY <1>3
    <3> QED
      BY <1>3, <3>2, <3>3 DEF RecordTerminal, ClosePendingSuspends, PendingOf, Ledger!Close
  <2>2. CASE status[r] \in Terminal
    BY <1>3, <2>2 DEF RecordTerminal, ClosePendingSuspends, PendingOf, PendingInv,
                      NothingPendsOnEndedRun
  <2> QED
    BY <1>3, <2>1, <2>2
<1>4. ASSUME NEW r \in Runs, Finish(r) \/ Catch(r)
      PROVE Ledger!Close(r) \/ UNCHANGED <<Standing, suspend, Told>>
  <2>1. PICK s \in Terminal : RecordTerminal(r, s)
    BY <1>4 DEF Finish, Catch
  <2>2. main[r] # "idle" /\ UNCHANGED <<reason, got>>
    BY <1>4 DEF Finish, Catch
  <2> QED
    BY <1>3, <2>1, <2>2
<1>5. ASSUME NEW e \in Effects, Call(e) \/ GateStep(e)
      PROVE UNCHANGED <<Standing, suspend, Told>>
  BY <1>5 DEF Call, GateStep, BreakAtGate, PassGate
<1>6. ASSUME NEW e \in Effects, ParkStep(e)
      PROVE Ledger!Ask(e) \/ UNCHANGED <<Standing, suspend, Told>>
  BY <1>6 DEF ParkStep, Park, ParkRefused, CreateSuspend, MaySuspend, Ledger!Ask
<1>7. ASSUME NEW e \in Effects, EmitSuspended(e)
      PROVE UNCHANGED <<Standing, suspend, Told>>
  <2>1. suspend[e] # "absent"
    BY <1>7 DEF EmitSuspended, PendingInv, ParkedIsRecorded
  <2> QED
    BY <1>7, <2>1 DEF EmitSuspended, RecordSuspended
<1>8. ASSUME NEW e \in Effects, LoadSuspend(e)
      PROVE Ledger!Tell(e) \/ UNCHANGED <<Standing, suspend, Told>>
  <2>1. UNCHANGED <<Standing, suspend, reason>> /\ reason[e] # "none" /\ got[e] = "none"
    BY <1>8 DEF LoadSuspend
  <2>2. CASE got' = got
    BY <2>1, <2>2
  <2>3. CASE suspend[e] \in Decisions /\ got' = [got EXCEPT ![e] = suspend[e]]
    <3>1. Told' = [Told EXCEPT ![e] = suspend[e]]
      BY <2>1, <2>3, ToldMoves, Zenon
    <3>2. Told[e] = "none"
      BY <2>1
    <3> QED
      BY <2>1, <2>3, <3>1, <3>2 DEF Ledger!Tell, Ledger!Verdicts
  <2> QED
    BY <1>8, <2>2, <2>3 DEF LoadSuspend
<1>9. ASSUME NEW e \in Effects, Register(e) \/ AbortPark(e)
      PROVE UNCHANGED <<Standing, suspend, Told>>
  BY <1>9 DEF Register, RegisterWaiter, AbortPark
<1>10. ASSUME NEW e \in Effects, Wake(e)
       PROVE Ledger!Tell(e) \/ UNCHANGED <<Standing, suspend, Told>>
  <2>1. suspend[e] # "absent"
    BY <1>10 DEF Wake, PendingInv, ParkedIsRecorded
  <2>2. UNCHANGED <<Standing, suspend, reason>> /\ reason[e] # "none" /\ got[e] = "none"
    BY <1>10 DEF Wake
  <2>3. CASE got' = got
    BY <2>2, <2>3
  <2>4. CASE promise[e] \in Decisions /\ got' = [got EXCEPT ![e] = promise[e]]
    <3>1. suspend[e] = promise[e]
      BY <1>10, <2>1, <2>4 DEF Wake, WaiterInv, PromiseTellsRecord
    <3>2. Told' = [Told EXCEPT ![e] = suspend[e]]
      BY <2>2, <2>4, <3>1, ToldMoves, Zenon
    <3>3. Told[e] = "none"
      BY <2>2
    <3> QED
      BY <2>2, <2>4, <3>1, <3>2, <3>3 DEF Ledger!Tell, Ledger!Verdicts
  <2> QED
    BY <1>10, <2>3, <2>4 DEF Wake
<1>11. ASSUME NEW e \in Effects, EmitResumed(e)
       PROVE UNCHANGED <<Standing, suspend, Told>>
  <2>1. suspend[e] # "pending"
    BY <1>11 DEF EmitResumed, ActsOnStoredDecision
  <2> QED
    BY <1>11, <2>1 DEF EmitResumed, RecordResumed
<1>12. ASSUME NEW e \in Effects, Settle(e) \/ EndEffect(e)
       PROVE UNCHANGED <<Standing, suspend, Told>>
  BY <1>12 DEF Settle, EndEffect
<1>13. ASSUME NEW r \in Runs, Cancel(r) \/ Pause(r) \/ Delete(r)
       PROVE UNCHANGED <<Standing, suspend, Told>>
  BY <1>13 DEF Cancel, Pause, Delete
<1>14. ASSUME NEW e \in Effects, NEW d \in Answers, ResolveSuspend(e, d),
              UNCHANGED <<reason, got>>
       PROVE Ledger!Reply(e, d)
  BY <1>14 DEF ResolveSuspend, MayResolve, Ledger!Reply
<1>15. ASSUME NEW e \in Effects, NEW d \in Answers, Answer(e, d)
       PROVE Ledger!Reply(e, d)
  BY <1>14, <1>15 DEF Answer
<1>16. ASSUME NEW r \in Runs, ContinueNext(r)
       PROVE (\E e \in Effects : Ledger!Reply(e, "allow")) \/ UNCHANGED <<Standing, suspend, Told>>
  BY <1>14, <1>16 DEF ContinueNext
<1>17. ASSUME NEW r \in Runs, NEW step \in BOOLEAN, ContinueDebugger(r, step)
       PROVE UNCHANGED <<Standing, suspend, Told>>
  BY <1>17 DEF ContinueDebugger
<1>18. CASE PauseAny \/ UNCHANGED vars
  BY <1>18 DEF PauseAny, vars
<1> QED
  BY <1>1, <1>2, <1>4, <1>5, <1>6, <1>7, <1>8, <1>9, <1>10, <1>11, <1>12, <1>13, <1>15, <1>16,
     <1>17, <1>18
     DEF Next, RunStep, EffectStep, WaitStep, SettleStep, Ledger!LedgerNext

\* Rows, records, waiters and closures together implement the ledger: a handle
\* is answered at most once, by a person or by the end of its run, and whoever
\* parked is told exactly that answer.
THEOREM StoreImplementsLedger == Deletable = {} => (Spec => ImplementsLedger)
<1> SUFFICES ASSUME Deletable = {} PROVE Spec => ImplementsLedger
  OBVIOUS
<1>1. Init => KeepsRows
  BY DEF Init, KeepsRows
<1>2. IInv /\ KeepsRows /\ [Next]_vars => KeepsRows'
  BY StepKeepsRows DEF IInv
<1>3. IInv /\ KeepsRows /\ [Next]_vars => [Ledger!LedgerNext]_(Ledger!ledgerVars)
  BY StepLedger
<1> QED
  BY <1>1, <1>2, <1>3, InitLedger, Invariance, PTL DEF Spec, ImplementsLedger, Ledger!LedgerSpec
=============================================================================
