----------------------------- MODULE SqliteRuns -----------------------------
(***************************************************************************)
(* Workflow runs on the SQLite store.  The closures are those of module    *)
(* WorkflowRuns and the projections of recordEvent keep the same rows, but *)
(* two methods of this store yield in the middle: createSuspend awaits     *)
(* getRun before it inserts, and resolveSuspend awaits getSuspend and then *)
(* getRun before it updates.  What was read is acted upon after the await. *)
(*                                                                         *)
(* This store does not keep current in the row: summaries derive it from   *)
(* the pending records, so no property here mentions it.                   *)
(***************************************************************************)
EXTENDS WorkflowRuns

CONSTANT Callers    \* callers of resolveSuspend; each has one answer accepted

VARIABLES
  checked,  \* effects whose createSuspend saw a live run and has not inserted
  call      \* what each resolveSuspend call read so far, and how it ended

sqlVars == <<vars, checked, call>>

Calls == [at : {"idle", "read", "cleared", "accepted"},
          of : Effects \cup {NoEffect},
          with : Answers \cup {"none"}]

NoCall == [at |-> "idle", of |-> NoEffect, with |-> "none"]

SqlTypeOK ==
  /\ TypeOK
  /\ checked \subseteq {e \in Effects : pc[e] = "parking"}
  /\ call \in [Callers -> Calls]

SqlInit ==
  /\ Init
  /\ checked = {}
  /\ call = [c \in Callers |-> NoCall]

CallTo(c, to) == call' = [call EXCEPT ![c].at = to]

----------------------------------------------------------------------------
(***************************************************************************)
(* createSuspend.                                                          *)
(***************************************************************************)
CheckRun(e) ==
  /\ pc[e] = "parking"
  /\ e \notin checked
  /\ IF status[RunOf[e]] \in Live
       THEN checked' = checked \cup {e} /\ UNCHANGED pc
       ELSE EffectTo(e, "failed") /\ UNCHANGED checked
  /\ UNCHANGED <<storeVars, main, cancelled, reason, got, ran, debugVars, call>>

\* Mutant of InsertSuspend: inserts without having looked at the run.
InsertUnchecked(e) ==
  /\ pc[e] = "parking"
  /\ suspend' = [suspend EXCEPT ![e] = "pending"]
  /\ EffectTo(e, "created")
  /\ UNCHANGED <<status, current, promise, main, cancelled, reason, got, ran, debugVars,
                 checked, call>>

InsertSuspend(e) ==
  /\ e \in checked
  /\ suspend' = [suspend EXCEPT ![e] = "pending"]
  /\ checked' = checked \ {e}
  /\ EffectTo(e, "created")
  /\ UNCHANGED <<status, current, promise, main, cancelled, reason, got, ran, debugVars, call>>

(***************************************************************************)
(* resolveSuspend.  A call that throws, on a handle that is not pending or *)
(* on a run that is not live, leaves no trace.                             *)
(***************************************************************************)
ReadSuspend(c) ==
  /\ call[c].at = "idle"
  /\ \E e \in Effects, d \in Answers :
       /\ suspend[e] = "pending"
       /\ call' = [call EXCEPT ![c] = [at |-> "read", of |-> e, with |-> d]]
  /\ UNCHANGED <<vars, checked>>

ReadRun(c) ==
  /\ call[c].at = "read"
  /\ IF status[RunOf[call[c].of]] \in Live
       THEN CallTo(c, "cleared")
       ELSE call' = [call EXCEPT ![c] = NoCall]
  /\ UNCHANGED <<vars, checked>>

\* Mutants of WriteDecision: the UPDATE has no status condition; the waiter is
\* not settled; only the waiter is settled.
WriteUnconditionally(c) ==
  /\ call[c].at = "cleared"
  /\ suspend' = [suspend EXCEPT ![call[c].of] = IF @ # "absent" THEN call[c].with ELSE @]
  /\ promise' = [promise EXCEPT ![call[c].of] = IF @ = "open" THEN call[c].with ELSE @]
  /\ CallTo(c, "accepted")
  /\ UNCHANGED <<status, current, closureVars, debugVars, checked>>
WriteSilently(c) ==
  /\ call[c].at = "cleared"
  /\ suspend' = [suspend EXCEPT ![call[c].of] = IF @ = "pending" THEN call[c].with ELSE @]
  /\ CallTo(c, "accepted")
  /\ UNCHANGED <<status, current, promise, closureVars, debugVars, checked>>
WriteNothing(c) ==
  /\ call[c].at = "cleared"
  /\ promise' = [promise EXCEPT ![call[c].of] = IF @ = "open" THEN call[c].with ELSE @]
  /\ CallTo(c, "accepted")
  /\ UNCHANGED <<status, current, suspend, closureVars, debugVars, checked>>

\* UPDATE ... WHERE status = 'pending' may match no row: the call succeeds,
\* and the waiter, if there is one, is settled with this decision anyway.
WriteDecision(c) ==
  LET e == call[c].of
      d == call[c].with
  IN /\ call[c].at = "cleared"
     /\ suspend' = [suspend EXCEPT ![e] = IF @ = "pending" THEN d ELSE @]
     /\ promise' = [promise EXCEPT ![e] = IF @ = "open" THEN d ELSE @]
     /\ CallTo(c, "accepted")
     /\ UNCHANGED <<status, current, closureVars, debugVars, checked>>

----------------------------------------------------------------------------
CreateStep(e) == CheckRun(e) \/ InsertSuspend(e)
ResolveStep(c) == ReadSuspend(c) \/ ReadRun(c) \/ WriteDecision(c)

SqlNext ==
  \/ \E e \in Effects : CreateStep(e)
  \/ \E c \in Callers : ResolveStep(c)
  \/ /\ \/ \E r \in Runs : StartRun(r) \/ RunStep(r) \/ BodyThrows(r) \/ Cancel(r) \/ Delete(r)
        \/ \E e \in Effects : Call(e) \/ GateStep(e) \/ WaitStep(e) \/ SettleStep(e)
     /\ UNCHANGED <<checked, call>>

SqlSpec == SqlInit /\ [][SqlNext]_sqlVars

----------------------------------------------------------------------------
\* A handle is resumed once: no two callers are told that their decision
\* for the same handle was taken.
AnsweredOnce ==
  \A c, k \in Callers : c # k =>
    (call[c].at = "accepted" /\ call[k].at = "accepted" => call[c].of # call[k].of)

\* A caller who was told that the decision was taken leaves nothing pending:
\* as long as the run is there, some decision is on record.  The reads before
\* the two awaits may be stale, the UPDATE is not.
AcceptedMeansAnswered ==
  \A c \in Callers :
    (call[c].at = "accepted" /\ status[RunOf[call[c].of]] # "none")
      => suspend[call[c].of] \in Decisions
=============================================================================
