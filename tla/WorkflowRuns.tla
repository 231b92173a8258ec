---------------------------- MODULE WorkflowRuns ----------------------------
(***************************************************************************)
(* Workflow runs, the effects they gate and park, and the people who       *)
(* answer, cancel, debug and delete them, on one process with the          *)
(* in-memory store.                                                        *)
(*                                                                         *)
(* A run is the closure of #executeRun; an effect is one call of step, of  *)
(* a gated tool or of requestApproval made from the run's body.  Closures  *)
(* interleave at every await, so each stretch between two awaits that      *)
(* touches shared state is one action.  The body of a definition is user   *)
(* code: it may start its effects and child runs in any order and in       *)
(* parallel, and awaits those that are not in Detached.                    *)
(***************************************************************************)
EXTENDS WorkflowStore

CONSTANTS
  Parent,       \* parent run of a nested run, NoRun for a root
  NoRun,
  Kind,         \* "step", "tool" or "approval" for each effect
  Breakpoints,  \* effects whose step path has a breakpoint
  Detached,     \* effects and runs their body starts without awaiting
  Deletable,    \* runs somebody may delete
  Debugged      \* runs somebody may pause in the debugger

ASSUME ParentAssumption == Parent \in [Runs -> Runs \cup {NoRun}] /\ NoRun \notin Runs
ASSUME KindAssumption == Kind \in [Effects -> {"step", "tool", "approval"}]

VARIABLES
  main,       \* program counter of each run's closure
  cancelled,  \* runs whose own AbortController was aborted
  pc,         \* program counter of each effect's closure
  reason,     \* why an effect parked
  got,        \* the decision the effect's closure holds
  ran,        \* effects whose body or execute function was entered
  armed,      \* pauseRuns and stepOverRuns of the debug session
  pauseAny,   \* pause on the next intent of any run
  batch       \* handles a continueDebuggerPause call has still to resolve

closureVars == <<main, cancelled, pc, reason, got, ran>>
debugVars == <<armed, pauseAny, batch>>
vars == <<status, current, suspend, promise, closureVars, debugVars>>

MainStates == {"idle", "started", "body", "returned", "failing", "resolved", "rejected"}
Ended == {"resolved", "rejected"}       \* how the run's result promise settled
EffectStates == {"idle", "gating", "parking", "created", "loading", "registering", "waiting",
                 "resuming", "settling", "running", "done", "failed"}
\* Between createSuspend and workflow_resumed.
Parked == {"created", "loading", "registering", "waiting", "resuming"}
Settled == {"done", "failed"}

TypeOK ==
  /\ StoreTypeOK
  /\ main \in [Runs -> MainStates]
  /\ cancelled \subseteq Runs
  /\ pc \in [Effects -> EffectStates]
  /\ reason \in [Effects -> {"none", "approval", "policy", "debugger"}]
  /\ got \in [Effects -> {"none"} \cup Decisions]
  /\ ran \subseteq Effects
  /\ armed \subseteq Runs
  /\ pauseAny \in BOOLEAN
  /\ batch \in [Runs -> SUBSET Effects]

Init ==
  /\ StoreInit
  /\ main = [r \in Runs |-> "idle"]
  /\ cancelled = {}
  /\ pc = [e \in Effects |-> "idle"]
  /\ reason = [e \in Effects |-> "none"]
  /\ got = [e \in Effects |-> "none"]
  /\ ran = {}
  /\ armed = {}
  /\ pauseAny = FALSE
  /\ batch = [r \in Runs |-> {}]

(***************************************************************************)
(* A child's controller is linked to its parent's signal, so a run is      *)
(* aborted as soon as it or one of its ancestors was cancelled.            *)
(***************************************************************************)
Lineage[r \in Runs] == {r} \cup (IF Parent[r] \in Runs THEN Lineage[Parent[r]] ELSE {})

\* Mutant of Aborted: a child's controller is not linked to its parent.
AbortedAlone(r) == r \in cancelled

Aborted(r) == Lineage[r] \cap cancelled # {}

MainTo(r, to) == main' = [main EXCEPT ![r] = to]
EffectTo(e, to) == pc' = [pc EXCEPT ![e] = to]

\* Code of the run's body, or code it left behind, may still start things.
BodyCodeRuns(r) == main[r] \in {"body", "returned", "failing"} \cup Ended

----------------------------------------------------------------------------
(***************************************************************************)
(* The run's own closure.                                                  *)
(***************************************************************************)
StartRun(r) ==
  /\ main[r] = "idle"
  /\ Parent[r] \in Runs => BodyCodeRuns(Parent[r])
  /\ RecordStarted(r)
  /\ MainTo(r, "started")
  /\ UNCHANGED <<cancelled, pc, reason, got, ran, debugVars>>

EnterBody(r) ==
  /\ main[r] = "started"
  /\ MainTo(r, IF Aborted(r) THEN "failing" ELSE "body")
  /\ UNCHANGED <<storeVars, cancelled, pc, reason, got, ran, debugVars>>

Awaited(r) == {e \in Effects : RunOf[e] = r /\ e \notin Detached /\ pc[e] # "idle"}
AwaitedRuns(r) == {c \in Runs : Parent[c] = r /\ c \notin Detached /\ main[c] # "idle"}

\* The body returns what it awaits or catches; raceAbort lets the result
\* through only if no abort came first.
ReturnBody(r) ==
  /\ main[r] = "body"
  /\ ~Aborted(r)
  /\ \A e \in Awaited(r) : pc[e] \in Settled
  /\ \A c \in AwaitedRuns(r) : main[c] \in Ended
  /\ MainTo(r, "returned")
  /\ UNCHANGED <<storeVars, cancelled, pc, reason, got, ran, debugVars>>

\* raceAbort rejects, or something the body awaits has failed.
BodyRejected(r) ==
  /\ main[r] = "body"
  /\ \/ Aborted(r)
     \/ \E e \in Awaited(r) : pc[e] = "failed"
     \/ \E c \in AwaitedRuns(r) : main[c] = "rejected"
  /\ MainTo(r, "failing")
  /\ UNCHANGED <<storeVars, cancelled, pc, reason, got, ran, debugVars>>

\* The definition throws for reasons of its own.
BodyThrows(r) ==
  /\ main[r] = "body"
  /\ MainTo(r, "failing")
  /\ UNCHANGED <<storeVars, cancelled, pc, reason, got, ran, debugVars>>

\* After the body: a run cancelled in the meantime is recorded as cancelled
\* and throws, and the catch block then records the cancellation again.
Finish(r) ==
  /\ main[r] = "returned"
  /\ IF Aborted(r)
       THEN RecordTerminal(r, "cancelled") /\ MainTo(r, "failing")
       ELSE RecordTerminal(r, "ok") /\ MainTo(r, "resolved")
  /\ UNCHANGED <<cancelled, pc, reason, got, ran, debugVars>>

Catch(r) ==
  /\ main[r] = "failing"
  /\ RecordTerminal(r, IF Aborted(r) THEN "cancelled" ELSE "error")
  /\ MainTo(r, "rejected")
  /\ UNCHANGED <<cancelled, pc, reason, got, ran, debugVars>>

----------------------------------------------------------------------------
(***************************************************************************)
(* The closure of one effect.                                              *)
(***************************************************************************)
\* step and requestApproval check the signal first; a tool call does not.
\* The effect_intent event is recorded before anything is decided.
Call(e) ==
  /\ pc[e] = "idle"
  /\ BodyCodeRuns(RunOf[e])
  /\ CASE Kind[e] # "tool" /\ Aborted(RunOf[e]) ->
            EffectTo(e, "failed") /\ UNCHANGED reason
       [] Kind[e] = "approval" /\ ~Aborted(RunOf[e]) ->
            EffectTo(e, "parking") /\ reason' = [reason EXCEPT ![e] = "approval"]
       [] OTHER ->
            EffectTo(e, "gating") /\ UNCHANGED reason
  /\ UNCHANGED <<storeVars, main, cancelled, got, ran, debugVars>>

ShouldBreak(e) == pauseAny \/ RunOf[e] \in armed \/ e \in Breakpoints

\* The debug session is asked first; a break consumes the one-shot requests.
BreakAtGate(e) ==
  /\ pc[e] = "gating"
  /\ ShouldBreak(e)
  /\ pauseAny' = FALSE
  /\ armed' = armed \ {RunOf[e]}
  /\ EffectTo(e, "parking")
  /\ reason' = [reason EXCEPT ![e] = "debugger"]
  /\ UNCHANGED <<storeVars, main, cancelled, got, ran, batch>>

\* Then the host's gate, whose policy is any decision.
PassGate(e) ==
  /\ pc[e] = "gating"
  /\ ~ShouldBreak(e)
  /\ \/ \E d \in Answers : /\ got' = [got EXCEPT ![e] = d]
                           /\ EffectTo(e, "settling")
                           /\ UNCHANGED reason
     \/ /\ reason' = [reason EXCEPT ![e] = "policy"]
        /\ EffectTo(e, "parking")
        /\ UNCHANGED got
  /\ UNCHANGED <<storeVars, main, cancelled, ran, debugVars>>

Park(e) ==
  /\ pc[e] = "parking"
  /\ CreateSuspend(e)
  /\ EffectTo(e, "created")
  /\ UNCHANGED <<main, cancelled, reason, got, ran, debugVars>>

\* createSuspend throws: the run has ended or was deleted.
ParkRefused(e) ==
  /\ pc[e] = "parking"
  /\ ~MaySuspend(e)
  /\ EffectTo(e, "failed")
  /\ UNCHANGED <<storeVars, main, cancelled, reason, got, ran, debugVars>>

EmitSuspended(e) ==
  /\ pc[e] = "created"
  /\ RecordSuspended(e)
  /\ EffectTo(e, "loading")
  /\ UNCHANGED <<main, cancelled, reason, got, ran, debugVars>>

\* Mutant of LoadSuspend: the record's status is not looked at.
LoadUnchecked(e) ==
  /\ pc[e] = "loading"
  /\ ~Aborted(RunOf[e])
  /\ EffectTo(e, "resuming")
  /\ got' = [got EXCEPT ![e] = suspend[e]]
  /\ UNCHANGED <<storeVars, main, cancelled, reason, ran, debugVars>>

\* The first load of waitForRecordResolution.  raceAbort lets a decision
\* through only if no abort came first.
LoadSuspend(e) ==
  /\ pc[e] = "loading"
  /\ ~Aborted(RunOf[e])
  /\ CASE suspend[e] = "absent" -> EffectTo(e, "failed") /\ UNCHANGED got
       [] suspend[e] = "pending" -> EffectTo(e, "registering") /\ UNCHANGED got
       [] OTHER -> EffectTo(e, "resuming") /\ got' = [got EXCEPT ![e] = suspend[e]]
  /\ UNCHANGED <<storeVars, main, cancelled, reason, ran, debugVars>>

Register(e) ==
  /\ pc[e] = "registering"
  /\ RegisterWaiter(e)
  /\ EffectTo(e, "waiting")
  /\ UNCHANGED <<main, cancelled, reason, got, ran, debugVars>>

Wake(e) ==
  /\ pc[e] = "waiting"
  /\ ~Aborted(RunOf[e])
  /\ promise[e] # "open"
  /\ IF promise[e] = "gone"
       THEN EffectTo(e, "failed") /\ UNCHANGED got
       ELSE EffectTo(e, "resuming") /\ got' = [got EXCEPT ![e] = promise[e]]
  /\ UNCHANGED <<storeVars, main, cancelled, reason, ran, debugVars>>

\* raceAbort around the wait: the effect fails, the record stays as it is.
AbortPark(e) ==
  /\ pc[e] \in {"loading", "registering", "waiting"}
  /\ Aborted(RunOf[e])
  /\ EffectTo(e, "failed")
  /\ UNCHANGED <<storeVars, main, cancelled, reason, got, ran, debugVars>>

EmitResumed(e) ==
  /\ pc[e] = "resuming"
  /\ RecordResumed(e, got[e])
  /\ EffectTo(e, "settling")
  /\ UNCHANGED <<main, cancelled, reason, got, ran, debugVars>>

\* Only a tool call takes a rewritten payload.
Permits(e, d) == d = "allow" \/ (d = "rewrite" /\ Kind[e] = "tool")

\* After effect_settled: an allowed approval returns, an allowed step or
\* tool enters its body (raceAbort gets the promise of a body that already
\* runs, so a cancel that came meanwhile does not keep it from starting),
\* anything else throws.
Settle(e) ==
  /\ pc[e] = "settling"
  /\ IF Permits(e, got[e])
       THEN IF Kind[e] = "approval"
              THEN EffectTo(e, "done") /\ UNCHANGED ran
              ELSE EffectTo(e, "running") /\ ran' = ran \cup {e}
       ELSE EffectTo(e, "failed") /\ UNCHANGED ran
  /\ UNCHANGED <<storeVars, main, cancelled, reason, got, debugVars>>

EndEffect(e) ==
  /\ pc[e] = "running"
  /\ \E to \in Settled : EffectTo(e, to)
  /\ UNCHANGED <<storeVars, main, cancelled, reason, got, ran, debugVars>>

GateStep(e) == BreakAtGate(e) \/ PassGate(e)
ParkStep(e) == Park(e) \/ ParkRefused(e)
WaitStep(e) == EmitSuspended(e) \/ LoadSuspend(e) \/ Register(e) \/ Wake(e) \/ AbortPark(e)
SettleStep(e) == EmitResumed(e) \/ Settle(e) \/ EndEffect(e)

EffectStep(e) == GateStep(e) \/ ParkStep(e) \/ WaitStep(e) \/ SettleStep(e)

----------------------------------------------------------------------------
(***************************************************************************)
(* The people at the inspector.                                            *)
(***************************************************************************)
Cancel(r) ==
  /\ main[r] # "idle"
  /\ cancelled' = cancelled \cup {r}
  /\ UNCHANGED <<storeVars, main, pc, reason, got, ran, debugVars>>

Answer(e, d) ==
  /\ ResolveSuspend(e, d)
  /\ UNCHANGED <<closureVars, debugVars>>

Pause(r) ==
  /\ r \in Debugged
  /\ armed' = armed \cup {r}
  /\ UNCHANGED <<storeVars, closureVars, pauseAny, batch>>

PauseAny ==
  /\ Debugged # {}
  /\ pauseAny' = TRUE
  /\ UNCHANGED <<storeVars, closureVars, armed, batch>>

\* Mutant of DebuggerPauses: every pending suspend counts.
AnyPauses(r) == PendingOf(r)

DebuggerPauses(r) == {e \in PendingOf(r) : reason[e] = "debugger"}

\* continueDebuggerPause: list the pauses, re-arm first when stepping, then
\* resolve them one by one; a resolve that throws abandons the rest.  At most
\* one such call per run is in flight.
ContinueDebugger(r, step) ==
  /\ batch[r] = {}
  /\ DebuggerPauses(r) # {}
  /\ armed' = IF step THEN armed \cup {r} ELSE armed
  /\ batch' = [batch EXCEPT ![r] = DebuggerPauses(r)]
  /\ UNCHANGED <<storeVars, closureVars, pauseAny>>

ContinueNext(r) ==
  /\ \E e \in batch[r] :
       \/ /\ ResolveSuspend(e, "allow")
          /\ batch' = [batch EXCEPT ![r] = @ \ {e}]
       \/ /\ ~MayResolve(e)
          /\ batch' = [batch EXCEPT ![r] = {}]
          /\ UNCHANGED storeVars
  /\ UNCHANGED <<closureVars, armed, pauseAny>>

\* deleteWorkflowRun cancels what is still active before it deletes the row.
Delete(r) ==
  /\ r \in Deletable
  /\ status[r] # "none"
  /\ Aborted(r) \/ main[r] \in Ended
  /\ DeleteRun(r)
  /\ UNCHANGED <<closureVars, debugVars>>

RunStep(r) ==
  EnterBody(r) \/ ReturnBody(r) \/ BodyRejected(r) \/ Finish(r) \/ Catch(r)

Next ==
  \/ \E r \in Runs : StartRun(r) \/ RunStep(r) \/ BodyThrows(r)
  \/ \E e \in Effects : Call(e) \/ EffectStep(e)
  \/ \E r \in Runs : Cancel(r) \/ Pause(r) \/ Delete(r) \/ ContinueNext(r)
  \/ \E r \in Runs, step \in BOOLEAN : ContinueDebugger(r, step)
  \/ \E e \in Effects, d \in Answers : Answer(e, d)
  \/ PauseAny

Spec == Init /\ [][Next]_vars

(***************************************************************************)
(* A closure that the framework's own code can continue is continued:      *)
(* promise reactions are queued and the event loop drains them.  User code *)
(* owes nothing: a body may never return or rethrow, a gate may never      *)
(* decide, a person may never act.                                         *)
(***************************************************************************)
RunProgress(r) ==
  EnterBody(r) \/ (Aborted(r) /\ BodyRejected(r)) \/ Finish(r) \/ Catch(r)

EffectProgress(e) == ParkStep(e) \/ WaitStep(e) \/ EmitResumed(e) \/ Settle(e)

Fairness ==
  /\ \A r \in Runs : WF_vars(RunProgress(r))
  /\ \A e \in Effects : WF_vars(EffectProgress(e))

FairSpec == Spec /\ Fairness

----------------------------------------------------------------------------
(***************************************************************************)
(* Safety.                                                                 *)
(***************************************************************************)
\* A terminal event leaves nothing pending behind, and nothing is parked on a
\* run that has ended: createSuspend, workflow_suspended and the three
\* terminal events keep suspend records and run rows in step, whatever order
\* parallel closures reach them in.
NothingPendsOnEndedRun ==
  \A e \in Effects : suspend[e] = "pending" => status[RunOf[e]] \notin Terminal

\* A row says suspended only while the effect it names as the one to answer
\* is on its way to record workflow_resumed, or the run is being cancelled.
\* With parallel pauses the projection of workflow_resumed has to move the
\* row to another pending handle for this.
SuspendedMeansParked ==
  \A r \in Runs : status[r] = "suspended" =>
    /\ current[r] \in Effects /\ RunOf[current[r]] = r
    /\ Aborted(r) \/ pc[current[r]] \in Parked

\* A closure that waits on a pending record is visible: the run's row says
\* suspended, even when a parallel effect of the same run resumes.
WaitingIsVisible ==
  \A e \in Effects :
    (/\ pc[e] \in {"loading", "registering", "waiting"}
     /\ suspend[e] = "pending"
     /\ status[RunOf[e]] \in Live) => status[RunOf[e]] = "suspended"

\* No lost wake-up: a closure whose promise is still open can be woken,
\* because its record is still pending and the resolve that settles the
\* record will find the waiter.  The second load of waitForRecordResolution
\* is there for this.
NoLostWakeup ==
  \A e \in Effects : pc[e] = "waiting" /\ promise[e] = "open" => suspend[e] = "pending"

\* The decision a parked closure acts on is the one in the store, and an
\* effect happens only under a decision that permits it: neither a deny, nor
\* the closing deny of a finished run, nor a rewrite of something that cannot
\* be rewritten is ever taken for a permission.
ActsOnStoredDecision ==
  \A e \in Effects :
    /\ (reason[e] # "none" /\ got[e] # "none") => suspend[e] \in {got[e], "absent"}
    /\ (e \in ran \/ pc[e] = "done") =>
          got[e] = "allow" \/ (got[e] = "rewrite" /\ Kind[e] = "tool")

\* A row that still looks alive has a closure behind it.
LiveRowHasClosure ==
  \A r \in Runs : status[r] \in Live => main[r] \notin {"idle"} \cup Ended

(***************************************************************************)
(* What a step may never do.                                               *)
(***************************************************************************)
FinalStep ==
  /\ \A e \in Effects : suspend[e] \in Decisions => suspend'[e] \in {suspend[e], "absent"}
  /\ \A r \in Runs : status[r] \in Terminal => status'[r] \in {status[r], "none"}

\* A decision, once stored, is never replaced, and a terminal status is never
\* replaced by another: both only disappear with the whole run.
OutcomesAreFinal == [][FinalStep]_vars

DebuggerStep ==
  \A e \in Effects :
    (e \in batch[RunOf[e]] /\ e \notin batch'[RunOf[e]] /\ suspend[e] # suspend'[e])
      => reason[e] = "debugger"

\* Continuing in the debugger never answers an approval or a policy pause:
\* the steps that drain a continue batch resolve debugger pauses only.
DebuggerLeavesApprovals == [][DebuggerStep]_vars

(***************************************************************************)
(* Liveness.                                                               *)
(***************************************************************************)
\* Cancelling unwinds a run and every run below it wherever they are, parked
\* in an effect or waiting for a child: the closures end without anybody
\* answering the pause.
CancelUnwinds ==
  \A r \in Runs :
    (main[r] # "idle" /\ Lineage[r] \cap cancelled # {}) ~> (main[r] \in Ended)

\* When a run ends, effects it left parked are let go: the closing deny
\* reaches every one of them.
EndReleasesParked ==
  \A e \in Effects :
    (main[RunOf[e]] \in Ended /\ pc[e] \in Parked) ~> (pc[e] \notin Parked)

\* An answer is never lost between the record and the closure that waits.
AnswerReachesClosure ==
  \A e \in Effects :
    (suspend[e] \in Decisions /\ pc[e] \in Parked) ~> (pc[e] \notin Parked)

(***************************************************************************)
(* The closures, the rows and the hub together implement the ledger, as    *)
(* long as nobody deletes a run.                                           *)
(***************************************************************************)
Standing == [r \in Runs |-> IF status[r] = "none" THEN "new"
                           ELSE IF status[r] \in Live THEN "open" ELSE "over"]
Told == [e \in Effects |-> IF reason[e] = "none" THEN "none" ELSE got[e]]

Ledger == INSTANCE SuspendLedger WITH standing <- Standing, record <- suspend, told <- Told

\* Each handle is answered at most once, by somebody or by the end of its
\* run, and the parked closure is told exactly what the store recorded.
ImplementsLedger == Ledger!LedgerSpec
=============================================================================
