--------------------------- MODULE WorkflowStore ---------------------------
(***************************************************************************)
(* The run and suspend half of the in-memory WorkflowStore of              *)
(* packages/core: the run rows, the suspend records and the hub of         *)
(* process-local waiters.  Every method of the class runs to its end       *)
(* without yielding, so each one is a single step here; the steps are      *)
(* composed with the closures that call them in module WorkflowRuns.       *)
(*                                                                         *)
(* A suspend handle is minted for one effect and never reused, so the      *)
(* effect stands for its handle.                                           *)
(***************************************************************************)

CONSTANTS
  Runs,       \* workflow run ids
  Effects,    \* effects that may park: steps, tool calls, approvals
  RunOf,      \* the run whose recorder and store an effect uses
  NoEffect    \* an absent suspendHandleId

ASSUME RunOfAssumption == RunOf \in [Effects -> Runs]
ASSUME NoEffectAssumption == NoEffect \notin Effects

VARIABLES
  status,     \* status column of the run row; "none" when there is no row
  current,    \* suspendHandleId of the run row
  suspend,    \* suspend record: absent, pending, or the decision it resolved to
  promise     \* hub: none, open (a waiter is registered), or how it settled

storeVars == <<status, current, suspend, promise>>

Live == {"running", "suspended"}
Terminal == {"ok", "error", "cancelled"}
Answers == {"allow", "deny", "rewrite"}     \* what assertSuspendResolveDecision lets in
Decisions == Answers \cup {"closed"}        \* "closed" is LIVE_RUN_CLOSED_DENY

StoreTypeOK ==
  /\ status \in [Runs -> {"none"} \cup Live \cup Terminal]
  /\ current \in [Runs -> Effects \cup {NoEffect}]
  /\ suspend \in [Effects -> {"absent", "pending"} \cup Decisions]
  /\ promise \in [Effects -> {"none", "open", "gone"} \cup Decisions]

StoreInit ==
  /\ status = [r \in Runs |-> "none"]
  /\ current = [r \in Runs |-> NoEffect]
  /\ suspend = [e \in Effects |-> "absent"]
  /\ promise = [e \in Effects |-> "none"]

PendingOf(r) == {e \in Effects : RunOf[e] = r /\ suspend[e] = "pending"}

(***************************************************************************)
(* recordEvent, one operator per event type that touches these tables.     *)
(***************************************************************************)
RecordStarted(r) ==
  /\ status' = [status EXCEPT ![r] = "running"]
  /\ current' = [current EXCEPT ![r] = NoEffect]
  /\ UNCHANGED <<suspend, promise>>

\* Mutants of ClosePendingSuspends: the waiters are not woken; decisions
\* already taken are closed too.
ClosePendingSilently(r) ==
  /\ suspend' = [e \in Effects |-> IF e \in PendingOf(r) THEN "closed" ELSE suspend[e]]
  /\ current' = [current EXCEPT ![r] = NoEffect]
  /\ UNCHANGED promise
CloseEverySuspend(r) ==
  /\ suspend' = [e \in Effects |->
                   IF RunOf[e] = r /\ suspend[e] # "absent" THEN "closed" ELSE suspend[e]]
  /\ promise' = [e \in Effects |->
                   IF e \in PendingOf(r) /\ promise[e] = "open" THEN "closed" ELSE promise[e]]
  /\ current' = [current EXCEPT ![r] = NoEffect]

\* closePendingSuspends: resolve what is pending with the closing deny and
\* wake whoever waits for it.
ClosePendingSuspends(r) ==
  /\ suspend' = [e \in Effects |-> IF e \in PendingOf(r) THEN "closed" ELSE suspend[e]]
  /\ promise' = [e \in Effects |->
                   IF e \in PendingOf(r) /\ promise[e] = "open" THEN "closed" ELSE promise[e]]
  /\ current' = [current EXCEPT ![r] = NoEffect]

\* Mutant of RecordTerminal: pending suspends are left alone.
RecordTerminalOnly(r, s) ==
  /\ status' = [status EXCEPT ![r] = IF @ = "none" THEN "none" ELSE s]
  /\ UNCHANGED <<current, suspend, promise>>

\* workflow_finished, workflow_failed, workflow_cancelled: the row takes the
\* new status whatever it was, and a missing row stays missing.
RecordTerminal(r, s) ==
  /\ status' = [status EXCEPT ![r] = IF @ = "none" THEN "none" ELSE s]
  /\ ClosePendingSuspends(r)

\* Mutant of RecordSuspended: a row of any status becomes suspended.
RecordSuspendedAlways(e) ==
  /\ suspend' = [suspend EXCEPT ![e] = IF @ = "absent" THEN "pending" ELSE @]
  /\ status' = [status EXCEPT ![RunOf[e]] = "suspended"]
  /\ current' = [current EXCEPT ![RunOf[e]] = e]
  /\ UNCHANGED promise

RecordSuspended(e) ==
  /\ suspend' = [suspend EXCEPT ![e] = IF @ = "absent" THEN "pending" ELSE @]
  /\ IF status[RunOf[e]] \in Live
       THEN /\ status' = [status EXCEPT ![RunOf[e]] = "suspended"]
            /\ current' = [current EXCEPT ![RunOf[e]] = e]
       ELSE UNCHANGED <<status, current>>
  /\ UNCHANGED promise

\* Mutants of RecordResumed: other pending handles are not looked at; the row
\* keeps naming the handle that was resumed.
RecordResumedAlone(e, d) ==
  LET r == RunOf[e]
  IN /\ suspend' = [suspend EXCEPT ![e] = IF @ = "pending" THEN d ELSE @]
     /\ status' = [status EXCEPT ![r] = IF @ = "suspended" THEN "running" ELSE @]
     /\ current' = [current EXCEPT ![r] = IF status[r] = "suspended" THEN NoEffect ELSE @]
     /\ UNCHANGED promise
RecordResumedInPlace(e, d) ==
  LET r == RunOf[e]
  IN /\ suspend' = [suspend EXCEPT ![e] = IF @ = "pending" THEN d ELSE @]
     /\ IF status[r] = "suspended" /\ PendingOf(r) \ {e} = {}
          THEN /\ status' = [status EXCEPT ![r] = "running"]
               /\ current' = [current EXCEPT ![r] = NoEffect]
          ELSE UNCHANGED <<status, current>>
     /\ UNCHANGED promise

RecordResumed(e, d) ==
  LET r == RunOf[e]
      stillPending == PendingOf(r) \ {e}
  IN /\ suspend' = [suspend EXCEPT ![e] = IF @ = "pending" THEN d ELSE @]
     /\ \/ /\ status[r] = "suspended"
           /\ stillPending = {}
           /\ status' = [status EXCEPT ![r] = "running"]
           /\ current' = [current EXCEPT ![r] = NoEffect]
        \/ /\ status[r] = "suspended"
           /\ \E h \in stillPending : current' = [current EXCEPT ![r] = h]
           /\ UNCHANGED status
        \/ /\ status[r] # "suspended"
           /\ UNCHANGED <<status, current>>
     /\ UNCHANGED promise

(***************************************************************************)
(* The suspend methods.  The caller sees a throw as the guard being false. *)
(***************************************************************************)
\* Mutant of MaySuspend: an ended run may still park.
MaySuspendOnAnyRun(e) == suspend[e] = "absent"

MaySuspend(e) ==
  /\ status[RunOf[e]] \in Live
  /\ suspend[e] = "absent"

CreateSuspend(e) ==
  /\ MaySuspend(e)
  /\ suspend' = [suspend EXCEPT ![e] = "pending"]
  /\ UNCHANGED <<status, current, promise>>

\* Mutant of MayResolve: a resolved handle may be resolved again.
MayResolveAgain(e) ==
  /\ suspend[e] # "absent"
  /\ status[RunOf[e]] \in Live

MayResolve(e) ==
  /\ suspend[e] = "pending"
  /\ status[RunOf[e]] \in Live

ResolveSuspend(e, d) ==
  /\ MayResolve(e)
  /\ suspend' = [suspend EXCEPT ![e] = d]
  /\ promise' = [promise EXCEPT ![e] = IF @ = "open" THEN d ELSE @]
  /\ UNCHANGED <<status, current>>

\* deleteRun: waiters fail, then the records and the row disappear.
DeleteRun(r) ==
  /\ status' = [status EXCEPT ![r] = "none"]
  /\ current' = [current EXCEPT ![r] = NoEffect]
  /\ suspend' = [e \in Effects |-> IF RunOf[e] = r THEN "absent" ELSE suspend[e]]
  /\ promise' = [e \in Effects |->
                   IF RunOf[e] = r /\ suspend[e] # "absent" /\ promise[e] = "open"
                     THEN "gone" ELSE promise[e]]

\* Mutant of RegisterWaiter: no second load.
RegisterBlindly(e) ==
  /\ promise' = [promise EXCEPT ![e] = "open"]
  /\ UNCHANGED <<status, current, suspend>>

\* waitForRecordResolution after its first load found the record pending:
\* register with the hub, load again, and settle the hub if it was resolved
\* in between.
RegisterWaiter(e) ==
  /\ promise' = [promise EXCEPT ![e] =
                   CASE suspend[e] = "absent" -> "gone"
                     [] suspend[e] = "pending" -> "open"
                     [] OTHER -> suspend[e]]
  /\ UNCHANGED <<status, current, suspend>>
=============================================================================
