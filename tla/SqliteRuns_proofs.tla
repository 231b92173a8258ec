-------------------------- MODULE SqliteRuns_proofs --------------------------
(***************************************************************************)
(* Proofs about module SqliteRuns, for any runs, effects and callers.  The *)
(* steps it shares with module WorkflowRuns keep what the lemmas of that   *)
(* module's proofs say; what is new are the awaits inside createSuspend    *)
(* and resolveSuspend.                                                     *)
(***************************************************************************)
EXTENDS SqliteRuns, WorkflowRuns_proofs

USE RunOfAssumption, NoEffectAssumption, KindAssumption

SharedStep ==
  /\ \/ \E r \in Runs : StartRun(r) \/ RunStep(r) \/ BodyThrows(r) \/ Cancel(r) \/ Delete(r)
     \/ \E e \in Effects : Call(e) \/ GateStep(e) \/ WaitStep(e) \/ SettleStep(e)
  /\ UNCHANGED <<checked, call>>

LEMMA SharedIsNext == SharedStep => Next
BY DEF SharedStep, Next, EffectStep

LEMMA SqlNextParts ==
  SqlNext <=> \/ \E e \in Effects : CheckRun(e) \/ InsertSuspend(e)
              \/ \E c \in Callers : ReadSuspend(c) \/ ReadRun(c) \/ WriteDecision(c)
              \/ SharedStep
BY DEF SqlNext, CreateStep, ResolveStep, SharedStep

\* An effect that has not got past createSuspend has no record.
Unrecorded == \A e \in Effects : pc[e] \in {"idle", "gating", "parking"} => suspend[e] = "absent"

\* What a shared step does to the records and the rows that a call of
\* resolveSuspend has read: a record disappears only with the row, a decision
\* stays, and a deleted row does not come back.
KeepsRecords ==
  \A e \in Effects :
    /\ suspend[e] # "absent" => suspend'[e] # "absent" \/ status'[RunOf[e]] = "none"
    /\ suspend[e] \in Decisions => suspend'[e] \in Decisions \/ status'[RunOf[e]] = "none"
    /\ main[RunOf[e]] # "idle" => main'[RunOf[e]] # "idle"
    /\ main[RunOf[e]] # "idle" /\ status[RunOf[e]] = "none" => status'[RunOf[e]] = "none"

\* Steps 1 to 11 are the actions of SharedStep.
LEMMA SharedKeeps ==
  ASSUME TypeInv, EffectBooks, Unrecorded, SharedStep
  PROVE  /\ KeepsRecords
         /\ Unrecorded'
         /\ \A e \in Effects : pc[e] = "parking" => pc'[e] = "parking"
<1> DEFINE Goal == /\ KeepsRecords
                   /\ Unrecorded'
                   /\ \A e \in Effects : pc[e] = "parking" => pc'[e] = "parking"
<1> USE DEF TypeInv, TypeOK, StoreTypeOK, HoldsDecision, EffectBooks, Unrecorded, KeepsRecords,
            MainStates, EffectStates, Answers, Decisions, storeVars, closureVars, debugVars,
            MainTo, EffectTo, Ended, Parked, Live
<1>1. ASSUME NEW r \in Runs, StartRun(r) PROVE Goal
  <2>1. /\ main[r] = "idle" /\ main' = [main EXCEPT ![r] = "started"]
        /\ status' = [status EXCEPT ![r] = "running"] /\ UNCHANGED <<suspend, promise, pc>>
    BY <1>1 DEF StartRun, RecordStarted
  <2>2. KeepsRecords
    BY <2>1
  <2>3. Unrecorded'
    BY <2>1
  <2> QED
    BY <2>1, <2>2, <2>3
<1>2. ASSUME NEW r \in Runs, EnterBody(r) \/ ReturnBody(r) \/ BodyRejected(r) \/ BodyThrows(r)
      PROVE Goal
  <2>1. /\ UNCHANGED <<status, suspend, pc>> /\ main[r] # "idle"
        /\ \E to \in {"body", "failing", "returned"} : main' = [main EXCEPT ![r] = to]
    BY <1>2 DEF EnterBody, ReturnBody, BodyRejected, BodyThrows
  <2> QED
    BY <2>1
<1>3. ASSUME NEW r \in Runs, Finish(r) \/ Catch(r) PROVE Goal
  <2>1. /\ \E s \in {"ok", "cancelled", "error"} : RecordTerminal(r, s)
        /\ \E to \in {"failing", "resolved", "rejected"} : main' = [main EXCEPT ![r] = to]
        /\ UNCHANGED pc
    BY <1>3 DEF Finish, Catch
  <2>2. KeepsRecords
    BY <2>1, SMTT(30) DEF RecordTerminal, ClosePendingSuspends
  <2>3. Unrecorded'
    BY <2>1 DEF RecordTerminal, ClosePendingSuspends, PendingOf
  <2> QED
    BY <2>1, <2>2, <2>3
<1>4. ASSUME NEW r \in Runs, Cancel(r) PROVE Goal
  BY <1>4 DEF Cancel
<1>5. ASSUME NEW r \in Runs, Delete(r) PROVE Goal
  <2>1. /\ status' = [status EXCEPT ![r] = "none"] /\ UNCHANGED <<main, pc>>
        /\ suspend' = [e \in Effects |-> IF RunOf[e] = r THEN "absent" ELSE suspend[e]]
    BY <1>5 DEF Delete, DeleteRun
  <2>2. KeepsRecords
    BY <2>1
  <2>3. Unrecorded'
    BY <2>1
  <2> QED
    BY <2>1, <2>2, <2>3
<1>6. ASSUME NEW e \in Effects, Call(e) PROVE Goal
  BY <1>6 DEF Call, BodyCodeRuns
<1>7. ASSUME NEW e \in Effects, GateStep(e) PROVE Goal
  BY <1>7 DEF GateStep, BreakAtGate, PassGate
<1>8. ASSUME NEW e \in Effects, EmitSuspended(e) PROVE Goal
  <2>1. /\ pc[e] = "created" /\ pc' = [pc EXCEPT ![e] = "loading"] /\ main' = main
        /\ suspend' \in {suspend, [suspend EXCEPT ![e] = "pending"]}
        /\ suspend[e] # "absent" => suspend' = suspend
        /\ status' \in {status, [status EXCEPT ![RunOf[e]] = "suspended"]}
        /\ status[RunOf[e]] = "none" => status' = status
    BY <1>8 DEF EmitSuspended, RecordSuspended
  <2>2. \A f \in Effects : /\ suspend[f] # "absent" => suspend'[f] # "absent"
                           /\ suspend[f] \in Decisions => suspend'[f] \in Decisions
    BY <2>1
  <2>3. \A q \in Runs : status[q] = "none" => status'[q] = "none"
    BY <2>1
  <2>4. KeepsRecords
    BY <2>1, <2>2, <2>3
  <2>5. Unrecorded'
    BY <2>1
  <2> QED
    BY <2>1, <2>4, <2>5
<1>9. ASSUME NEW e \in Effects, LoadSuspend(e) \/ Wake(e) \/ AbortPark(e) PROVE Goal
  BY <1>9 DEF LoadSuspend, Wake, AbortPark
<1>10. ASSUME NEW e \in Effects, Register(e) PROVE Goal
  BY <1>10 DEF Register, RegisterWaiter
<1>11. ASSUME NEW e \in Effects, EmitResumed(e) PROVE Goal
  <2>1. /\ pc[e] = "resuming" /\ pc' = [pc EXCEPT ![e] = "settling"] /\ main' = main
        /\ suspend' = [suspend EXCEPT ![e] = IF @ = "pending" THEN got[e] ELSE @]
        /\ status' \in {status, [status EXCEPT ![RunOf[e]] = "running"]}
        /\ status[RunOf[e]] = "none" => status' = status
    BY <1>11 DEF EmitResumed, RecordResumed
  <2>2. \A f \in Effects : /\ suspend[f] # "absent" => suspend'[f] # "absent"
                           /\ suspend[f] \in Decisions => suspend'[f] \in Decisions
    BY <2>1
  <2>3. \A q \in Runs : status[q] = "none" => status'[q] = "none"
    BY <2>1
  <2>4. KeepsRecords
    BY <2>1, <2>2, <2>3
  <2>5. Unrecorded'
    BY <2>1
  <2> QED
    BY <2>1, <2>4, <2>5
<1>12. ASSUME NEW e \in Effects, Settle(e) \/ EndEffect(e) PROVE Goal
  BY <1>12 DEF Settle, EndEffect, Settled
<1> QED
  BY <1>1, <1>2, <1>3, <1>4, <1>5, <1>6, <1>7, <1>8, <1>9, <1>10, <1>11, <1>12
     DEF SharedStep, RunStep, WaitStep, SettleStep

-----------------------------------------------------------------------------
\* What the row of a run says of its closures, whatever calls are under way:
\* neither part speaks of records that nobody waits on, so that the late
\* insert of createSuspend does not disturb them.
RowsTell == WaitingIsVisible /\ LiveRowHasClosure

LEMMA StepRowsTell == TypeInv /\ EffectBooks /\ RowsTell /\ [Next]_vars => RowsTell'
<1> SUFFICES ASSUME TypeInv, EffectBooks, RowsTell, [Next]_vars PROVE RowsTell'
  OBVIOUS
<1> USE DEF TypeInv, TypeOK, StoreTypeOK, HoldsDecision, EffectBooks, RowsTell, WaitingIsVisible,
            LiveRowHasClosure, Live, Terminal, Answers, Decisions, storeVars, closureVars,
            debugVars, MainTo, EffectTo, Ended, Parked, Settled
<1>1. ASSUME NEW r \in Runs, StartRun(r)
      PROVE RowsTell'
  BY <1>1 DEF StartRun, RecordStarted
<1>2. ASSUME NEW r \in Runs, EnterBody(r) \/ ReturnBody(r) \/ BodyRejected(r) \/ BodyThrows(r)
      PROVE RowsTell'
  BY <1>2 DEF EnterBody, ReturnBody, BodyRejected, BodyThrows
<1>3. ASSUME NEW r \in Runs, Finish(r)
      PROVE RowsTell'
  BY <1>3 DEF Finish, RecordTerminal, ClosePendingSuspends, PendingOf
<1>4. ASSUME NEW r \in Runs, Catch(r)
      PROVE RowsTell'
  BY <1>4 DEF Catch, RecordTerminal, ClosePendingSuspends, PendingOf
<1>5. ASSUME NEW e \in Effects, Call(e)
      PROVE RowsTell'
  BY <1>5 DEF Call, BodyCodeRuns
<1>6. ASSUME NEW e \in Effects, GateStep(e)
      PROVE RowsTell'
  BY <1>6 DEF GateStep, BreakAtGate, PassGate
<1>7. ASSUME NEW e \in Effects, ParkStep(e)
      PROVE RowsTell'
  BY <1>7 DEF ParkStep, Park, ParkRefused, CreateSuspend, MaySuspend
<1>8. ASSUME NEW e \in Effects, EmitSuspended(e)
      PROVE RowsTell'
  BY <1>8, SMTT(30) DEF EmitSuspended, RecordSuspended
<1>9. ASSUME NEW e \in Effects, LoadSuspend(e) \/ AbortPark(e)
      PROVE RowsTell'
  BY <1>9 DEF LoadSuspend, AbortPark
<1>10. ASSUME NEW e \in Effects, Register(e)
      PROVE RowsTell'
  BY <1>10 DEF Register, RegisterWaiter
<1>11. ASSUME NEW e \in Effects, Wake(e)
      PROVE RowsTell'
  BY <1>11 DEF Wake
<1>12. ASSUME NEW e \in Effects, EmitResumed(e)
      PROVE RowsTell'
  BY <1>12 DEF EmitResumed, RecordResumed, PendingOf
<1>13. ASSUME NEW e \in Effects, Settle(e) \/ EndEffect(e)
      PROVE RowsTell'
  BY <1>13 DEF Settle, EndEffect, Settled
<1>14. ASSUME NEW r \in Runs, Cancel(r) \/ Pause(r)
      PROVE RowsTell'
  BY <1>14 DEF Cancel, Pause
<1>15. ASSUME NEW r \in Runs, Delete(r)
      PROVE RowsTell'
  BY <1>15 DEF Delete, DeleteRun
<1>16. ASSUME NEW r \in Runs, ContinueNext(r)
      PROVE RowsTell'
  BY <1>16 DEF ContinueNext, ResolveSuspend, MayResolve
<1>17. ASSUME NEW r \in Runs, NEW step \in BOOLEAN, ContinueDebugger(r, step)
      PROVE RowsTell'
  BY <1>17 DEF ContinueDebugger, DebuggerPauses, PendingOf
<1>18. ASSUME NEW e \in Effects, NEW d \in Answers, Answer(e, d)
      PROVE RowsTell'
  BY <1>18 DEF Answer, ResolveSuspend, MayResolve
<1>19. CASE PauseAny \/ UNCHANGED vars
  BY <1>19 DEF PauseAny, vars
<1> HIDE DEF TypeInv, TypeOK, StoreTypeOK, HoldsDecision, EffectBooks, RowsTell,
             WaitingIsVisible, LiveRowHasClosure, storeVars, closureVars, debugVars
<1> QED
  BY <1>1, <1>2, <1>3, <1>4, <1>5, <1>6, <1>7, <1>8, <1>9, <1>10, <1>11, <1>12, <1>13, <1>14, <1>15, <1>16, <1>17, <1>18, <1>19, SMTT(30)
     DEF Next, RunStep, EffectStep, WaitStep, SettleStep

-----------------------------------------------------------------------------
\* What a call knows of its handle, however long ago it read it.
CallBooks ==
  \A c \in Callers : call[c].at # "idle" =>
    LET e == call[c].of IN
    /\ e \in Effects /\ call[c].with \in Answers
    /\ main[RunOf[e]] # "idle"
    /\ status[RunOf[e]] # "none" =>
         IF call[c].at = "accepted" THEN suspend[e] \in Decisions ELSE suspend[e] # "absent"

SqlInv == /\ TypeInv /\ RunBooks /\ EffectBooks /\ WaiterInv /\ ActsOnStoredDecision /\ RowsTell
          /\ checked \subseteq {e \in Effects : pc[e] = "parking"}
          /\ call \in [Callers -> Calls]
          /\ Unrecorded /\ CallBooks

LEMMA SqlInitInv == SqlInit => SqlInv
<1> SUFFICES ASSUME SqlInit PROVE SqlInv
  OBVIOUS
<1>1. IInv
  BY InitIInv DEF SqlInit
<1>2. Unrecorded /\ CallBooks /\ call \in [Callers -> Calls]
  BY DEF SqlInit, Init, StoreInit, Unrecorded, CallBooks, NoCall, Calls
<1> QED
  BY <1>1, <1>2 DEF SqlInit, SqlInv, IInv, RowInv, RowsTell

\* The steps of the closures, and what they leave of the calls under way.
LEMMA SharedPreserves == SqlInv /\ SharedStep => SqlInv'
<1> SUFFICES ASSUME SqlInv, SharedStep PROVE SqlInv'
  OBVIOUS
<1>1. TypeInv' /\ RunBooks' /\ EffectBooks' /\ WaiterInv' /\ ActsOnStoredDecision' /\ RowsTell'
  BY SharedIsNext, StepTyped, StepRunBooks, StepEffectBooks, StepWaiter, StepActs, StepRowsTell
     DEF SqlInv
<1>2. /\ KeepsRecords /\ Unrecorded'
      /\ \A e \in Effects : pc[e] = "parking" => pc'[e] = "parking"
  BY SharedKeeps DEF SqlInv
<1>3. UNCHANGED <<checked, call>>
  BY DEF SharedStep
<1>4. CallBooks'
  BY <1>2, <1>3 DEF SqlInv, CallBooks, KeepsRecords, Answers, Decisions
<1> QED
  BY <1>1, <1>2, <1>3, <1>4 DEF SqlInv

\* createSuspend: the insert may come after the run has ended or is gone.
LEMMA CreatePreserves ==
  ASSUME SqlInv, NEW e \in Effects, CheckRun(e) \/ InsertSuspend(e)
  PROVE  SqlInv'
<1> USE DEF SqlInv, TypeInv, TypeOK, StoreTypeOK, HoldsDecision, EffectBooks, Unrecorded, storeVars,
            closureVars, debugVars, EffectTo
<1>1. pc[e] = "parking" /\ suspend[e] = "absent"
  BY DEF CheckRun, InsertSuspend
<1>2. \E to \in {"parking", "created", "failed"} : pc' = [pc EXCEPT ![e] = to]
  <2>1. pc = [pc EXCEPT ![e] = "parking"]
    BY <1>1
  <2> QED BY <2>1 DEF CheckRun, InsertSuspend
<1>3. /\ suspend' \in {suspend, [suspend EXCEPT ![e] = "pending"]}
      /\ suspend' # suspend => pc'[e] = "created"
      /\ UNCHANGED <<status, current, promise, main, cancelled, reason, got, ran, debugVars, call>>
  BY DEF CheckRun, InsertSuspend
<1>4. TypeInv'
  BY <1>1, <1>2, <1>3 DEF EffectStates, MainStates, Live, Terminal, Decisions, Answers
<1>5. EffectBooks' /\ Unrecorded'
  BY <1>1, <1>2, <1>3 DEF EffectStates, Parked, Settled
<1>6. WaiterInv' /\ ActsOnStoredDecision'
  BY <1>1, <1>2, <1>3 DEF WaiterInv, PromiseTellsRecord, NoLostWakeup, ActsOnStoredDecision,
     EffectStates, Decisions, Answers, Settled
<1>7. RunBooks' /\ RowsTell'
  BY <1>1, <1>2, <1>3 DEF RunBooks, RowsTell, WaitingIsVisible, LiveRowHasClosure, Aborted,
     EffectStates
<1>8. checked' \subseteq {f \in Effects : pc'[f] = "parking"}
  BY <1>1, <1>2 DEF CheckRun, InsertSuspend
<1>9. CallBooks'
  BY <1>1, <1>3 DEF CallBooks, Decisions, Answers
<1> QED
  BY <1>3, <1>4, <1>5, <1>6, <1>7, <1>8, <1>9

\* A call that moves on keeps its handle and its answer.
LEMMA CallMoves ==
  ASSUME call \in [Callers -> Calls], NEW c \in Callers, NEW to \in {"cleared", "accepted"},
         CallTo(c, to)
  PROVE  /\ call' \in [Callers -> Calls]
         /\ \A k \in Callers : /\ call'[k].of = call[k].of /\ call'[k].with = call[k].with
                               /\ call'[k].at = IF k = c THEN to ELSE call[k].at
<1> DEFINE moved == [call[c] EXCEPT !.at = to]
<1>1. call' = [call EXCEPT ![c] = moved]
  BY DEF CallTo
<1>2. /\ moved \in Calls /\ moved.of = call[c].of /\ moved.with = call[c].with
      /\ moved.at = to
  <2>1. call[c] \in Calls
    OBVIOUS
  <2> QED BY <2>1 DEF Calls
<1> HIDE DEF moved
<1> QED
  BY <1>1, <1>2

\* resolveSuspend: the UPDATE may come after the handle was answered, closed
\* or deleted.
LEMMA ResolvePreserves ==
  ASSUME SqlInv, NEW c \in Callers, ReadSuspend(c) \/ ReadRun(c) \/ WriteDecision(c)
  PROVE  SqlInv'
<1> USE DEF SqlInv, TypeInv, TypeOK, StoreTypeOK, Calls
<1>1. CASE ReadSuspend(c)
  <2>1. PICK e \in Effects, d \in Answers :
          /\ suspend[e] = "pending"
          /\ call' = [call EXCEPT ![c] = [at |-> "read", of |-> e, with |-> d]]
    BY <1>1 DEF ReadSuspend
  <2>2. main[RunOf[e]] # "idle" /\ suspend[e] # "absent"
    BY <2>1 DEF EffectBooks, Unrecorded
  <2>3. UNCHANGED <<vars, checked>>
    BY <1>1 DEF ReadSuspend
  <2>4. CallBooks'
    BY <2>1, <2>2, <2>3 DEF CallBooks, vars, closureVars
  <2>5. call' \in [Callers -> Calls]
    BY <2>1
  <2>6. (/\ TypeInv /\ RunBooks /\ EffectBooks /\ WaiterInv /\ ActsOnStoredDecision
         /\ RowsTell /\ Unrecorded)'
    BY <2>3, StepTyped, StepRunBooks, StepEffectBooks, StepWaiter, StepActs, StepRowsTell
       DEF Unrecorded, vars, closureVars
  <2> QED BY <2>3, <2>4, <2>5, <2>6 DEF vars, closureVars
<1>2. CASE ReadRun(c)
  <2>1. CallTo(c, "cleared") \/ call' = [call EXCEPT ![c] = NoCall]
    BY <1>2 DEF ReadRun
  <2>2. UNCHANGED <<vars, checked>> /\ call[c].at = "read"
    BY <1>2 DEF ReadRun
  <2>3. call' \in [Callers -> Calls]
    BY <2>1, CallMoves DEF NoCall
  <2>4. CallBooks'
    <3>1. CASE CallTo(c, "cleared")
      <4>1. /\ \A k \in Callers : /\ call'[k].of = call[k].of /\ call'[k].with = call[k].with
                                  /\ call'[k].at = IF k = c THEN "cleared" ELSE call[k].at
        BY <3>1, CallMoves
      <4> QED BY <2>2, <4>1 DEF CallBooks, vars, closureVars
    <3>2. CASE call' = [call EXCEPT ![c] = NoCall]
      BY <2>2, <3>2 DEF CallBooks, NoCall, vars, closureVars
    <3> QED BY <2>1, <3>1, <3>2
  <2>5. (/\ TypeInv /\ RunBooks /\ EffectBooks /\ WaiterInv /\ ActsOnStoredDecision
         /\ RowsTell /\ Unrecorded)'
    BY <2>2, StepTyped, StepRunBooks, StepEffectBooks, StepWaiter, StepActs, StepRowsTell
       DEF Unrecorded, vars, closureVars
  <2> QED BY <2>2, <2>3, <2>4, <2>5 DEF vars, closureVars
<1>3. CASE WriteDecision(c)
  <2> DEFINE e == call[c].of
             d == call[c].with
  <2>1. e \in Effects /\ d \in Answers /\ main[RunOf[e]] # "idle"
    BY <1>3 DEF WriteDecision, CallBooks
  <2>2. /\ suspend' = [suspend EXCEPT ![e] = IF @ = "pending" THEN d ELSE @]
        /\ promise' = [promise EXCEPT ![e] = IF @ = "open" THEN d ELSE @]
        /\ CallTo(c, "accepted") /\ call[c].at = "cleared"
        /\ UNCHANGED <<status, current, closureVars, debugVars, checked>>
    BY <1>3 DEF WriteDecision
  <2> HIDE DEF e, d
  <2>3. TypeInv'
    BY <2>1, <2>2 DEF HoldsDecision, Decisions, Answers, closureVars, debugVars
  <2>4. EffectBooks'
    BY <2>2 DEF EffectBooks, closureVars
  <2>5. WaiterInv'
    BY <2>1, <2>2 DEF WaiterInv, PromiseTellsRecord, NoLostWakeup, closureVars, Decisions, Answers
  <2>6. ActsOnStoredDecision'
    BY <2>1, <2>2 DEF ActsOnStoredDecision, HoldsDecision, Decisions, Answers, closureVars
  <2>7. Unrecorded'
    BY <2>1, <2>2 DEF Unrecorded, closureVars, Answers
  <2>8. /\ call' \in [Callers -> Calls]
        /\ \A k \in Callers : /\ call'[k].of = call[k].of /\ call'[k].with = call[k].with
                              /\ call'[k].at = IF k = c THEN "accepted" ELSE call[k].at
    BY <2>2, CallMoves
  <2>9. CallBooks'
    BY <2>1, <2>2, <2>8 DEF CallBooks, closureVars, Decisions, Answers, e, d
  <2>10. RunBooks' /\ RowsTell'
    BY <2>1, <2>2 DEF RunBooks, RowsTell, WaitingIsVisible, LiveRowHasClosure, Aborted,
       closureVars, Answers
  <2> QED BY <2>2, <2>3, <2>4, <2>5, <2>6, <2>7, <2>8, <2>9, <2>10 DEF closureVars
<1> QED
  BY <1>1, <1>2, <1>3

LEMMA SqlStutters == SqlInv /\ UNCHANGED sqlVars => SqlInv'
<1> SUFFICES ASSUME SqlInv, UNCHANGED sqlVars PROVE SqlInv'
  OBVIOUS
<1>1. UNCHANGED vars /\ UNCHANGED <<checked, call>>
  BY DEF sqlVars
<1>2. TypeInv' /\ RunBooks' /\ EffectBooks' /\ WaiterInv' /\ ActsOnStoredDecision' /\ RowsTell'
  BY <1>1, StepTyped, StepRunBooks, StepEffectBooks, StepWaiter, StepActs, StepRowsTell DEF SqlInv
<1>3. Unrecorded' /\ CallBooks'
  BY <1>1 DEF SqlInv, Unrecorded, CallBooks, vars, closureVars
<1> QED
  BY <1>1, <1>2, <1>3 DEF SqlInv, vars, closureVars

LEMMA SqlInvariance == SqlSpec => []SqlInv
<1>1. SqlInv /\ [SqlNext]_sqlVars => SqlInv'
  BY SqlNextParts, SharedPreserves, CreatePreserves, ResolvePreserves, SqlStutters
<1> QED
  BY <1>1, SqlInitInv, PTL DEF SqlSpec

-----------------------------------------------------------------------------
\* The variables keep their types, and only an effect that is still parking
\* has seen a live run.
THEOREM SqlTypeCorrect == SqlSpec => []SqlTypeOK
<1>1. SqlInv => SqlTypeOK
  BY DEF SqlInv, SqlTypeOK, TypeInv
<1> QED
  BY <1>1, SqlInvariance, PTL

\* On this store too, a closure whose promise is open has a pending record.
THEOREM SqlWaitersCanBeWoken == SqlSpec => []NoLostWakeup
<1>1. SqlInv => NoLostWakeup
  BY DEF SqlInv, WaiterInv
<1> QED
  BY <1>1, SqlInvariance, PTL

\* A decision that arrives after another one is not acted upon: closures keep
\* to what is stored, although both callers are told of success.
THEOREM SqlEffectsObeyTheRecord == SqlSpec => []ActsOnStoredDecision
<1>1. SqlInv => ActsOnStoredDecision
  BY DEF SqlInv
<1> QED
  BY <1>1, SqlInvariance, PTL

\* Stale reads in resolveSuspend never make an accepted decision a lost one.
THEOREM AcceptedDecisionsStand == SqlSpec => []AcceptedMeansAnswered
<1>1. SqlInv => AcceptedMeansAnswered
  BY DEF SqlInv, CallBooks, AcceptedMeansAnswered
<1> QED
  BY <1>1, SqlInvariance, PTL

\* The gap in createSuspend hides no closure that waits: while the run is
\* live its row says suspended.
THEOREM SqlWaitingRowsSaySo == SqlSpec => []WaitingIsVisible
<1>1. SqlInv => WaitingIsVisible
  BY DEF SqlInv, RowsTell
<1> QED
  BY <1>1, SqlInvariance, PTL

\* A row that looks alive has a closure behind it on this store as well.
THEOREM SqlLiveRowsAreDriven == SqlSpec => []LiveRowHasClosure
<1>1. SqlInv => LiveRowHasClosure
  BY DEF SqlInv, RowsTell
<1> QED
  BY <1>1, SqlInvariance, PTL

\* The condition of the UPDATE alone keeps decisions: whatever a call read
\* before its awaits, it replaces no decision, and nothing replaces a
\* terminal status.
THEOREM SqlFinality == SqlSpec => OutcomesAreFinal
<1>1. SqlInv /\ [SqlNext]_sqlVars => [FinalStep]_vars
  <2> SUFFICES ASSUME SqlInv, [SqlNext]_sqlVars PROVE [FinalStep]_vars
    OBVIOUS
  <2>1. CASE SharedStep \/ UNCHANGED sqlVars
    BY <2>1, SharedIsNext, StepIsFinal DEF SqlInv, sqlVars
  <2>2. ASSUME NEW e \in Effects, CheckRun(e) \/ InsertSuspend(e) PROVE FinalStep
    <3>1. suspend[e] = "absent" /\ UNCHANGED status
      BY <2>2 DEF CheckRun, InsertSuspend, SqlInv, Unrecorded, storeVars
    <3>2. suspend' \in {suspend, [suspend EXCEPT ![e] = "pending"]}
      BY <2>2 DEF CheckRun, InsertSuspend, storeVars
    <3> QED
      BY <3>1, <3>2 DEF FinalStep, SqlInv, TypeInv, TypeOK, StoreTypeOK, Decisions, Answers
  <2>3. ASSUME NEW c \in Callers, ReadSuspend(c) \/ ReadRun(c) \/ WriteDecision(c)
        PROVE  [FinalStep]_vars
    <3>1. CASE ReadSuspend(c) \/ ReadRun(c)
      BY <3>1 DEF ReadSuspend, ReadRun
    <3>2. CASE WriteDecision(c)
      BY <3>2 DEF WriteDecision, FinalStep, SqlInv, TypeInv, TypeOK, StoreTypeOK, Decisions, Answers
    <3> QED BY <2>3, <3>1, <3>2
  <2> QED
    BY <2>1, <2>2, <2>3, SqlNextParts
<1> QED
  BY <1>1, SqlInvariance, PTL DEF SqlSpec, OutcomesAreFinal
=============================================================================
