--------------------------- MODULE SuspendLedger ---------------------------
(***************************************************************************)
(* What a workflow store promises about suspends, without rows, waiters or *)
(* closures.  Only an open run can ask, a question is answered at most     *)
(* once, closing a run answers all its open questions with the closing     *)
(* deny, and whoever asked is told the recorded answer and nothing else.   *)
(***************************************************************************)
CONSTANTS Runs, Effects, RunOf, Answers

VARIABLES
  standing,   \* of each run: new, open or over
  record,     \* of each effect: absent, pending or its answer
  told        \* what the effect was told

ledgerVars == <<standing, record, told>>

Verdicts == Answers \cup {"closed"}

LedgerTypeOK ==
  /\ standing \in [Runs -> {"new", "open", "over"}]
  /\ record \in [Effects -> {"absent", "pending"} \cup Verdicts]
  /\ told \in [Effects -> {"none"} \cup Verdicts]

LedgerInit ==
  /\ standing = [r \in Runs |-> "new"]
  /\ record = [e \in Effects |-> "absent"]
  /\ told = [e \in Effects |-> "none"]

Open(r) ==
  /\ standing[r] = "new"
  /\ standing' = [standing EXCEPT ![r] = "open"]
  /\ UNCHANGED <<record, told>>

Close(r) ==
  /\ standing[r] = "open"
  /\ standing' = [standing EXCEPT ![r] = "over"]
  /\ record' = [e \in Effects |-> IF RunOf[e] = r /\ record[e] = "pending"
                                    THEN "closed" ELSE record[e]]
  /\ UNCHANGED told

Ask(e) ==
  /\ standing[RunOf[e]] = "open"
  /\ record[e] = "absent"
  /\ record' = [record EXCEPT ![e] = "pending"]
  /\ UNCHANGED <<standing, told>>

Reply(e, d) ==
  /\ standing[RunOf[e]] = "open"
  /\ record[e] = "pending"
  /\ record' = [record EXCEPT ![e] = d]
  /\ UNCHANGED <<standing, told>>

Tell(e) ==
  /\ told[e] = "none"
  /\ record[e] \in Verdicts
  /\ told' = [told EXCEPT ![e] = record[e]]
  /\ UNCHANGED <<standing, record>>

LedgerNext ==
  \/ \E r \in Runs : Open(r) \/ Close(r)
  \/ \E e \in Effects : Ask(e) \/ Tell(e)
  \/ \E e \in Effects, d \in Answers : Reply(e, d)

LedgerSpec == LedgerInit /\ [][LedgerNext]_ledgerVars
=============================================================================
