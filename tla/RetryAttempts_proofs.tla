------------------------ MODULE RetryAttempts_proofs ------------------------
(***************************************************************************)
(* Proofs about module RetryAttempts, for any program of runs and steps    *)
(* and any retry of it: what was called after the target had ended is not  *)
(* answered from the first attempt, the target and the impure steps are    *)
(* reached again, and copied rows keep their outcome.                      *)
(***************************************************************************)
EXTENDS RetrySites_proofs

USE ProgramAssumption

LEMMA RunOfSteps ==
  \A s \in Steps : /\ RunOf[s] \in Runs /\ PathAncestors[s] \subseteq Steps
                   /\ RunOf[s] = IF Encl[s] \in Runs THEN Encl[s] ELSE RunOf[Encl[s]]
BY StepsHaveARun, RunOfUnfolds

-----------------------------------------------------------------------------
(* The inductive invariant.                                                *)

\* Nothing is answered from storage in the first attempt.
NothingStoredYet == attempt = 1 => cached = {} /\ copies = {} /\ later = {}

\* What is answered from storage was planned to be, and a copied row stands
\* with its outcome.
AnsweredAsPlanned ==
  /\ \A x \in Sites : /\ exec[x] = "skipped" => x \in cached
                      /\ exec[x] = "copied" => x \in copies
                      /\ exec[x] \in {"skipped", "copied"} => attempt = 2
  /\ \A r \in copies : row[r] = "ok" /\ exec[r] \in {"none", "copied"}

\* A step has moments only once it was called, and is called in a run that
\* has started.
RecordedSteps ==
  attempt = 1 => \A s \in Steps :
    /\ exec[s] # "none" => exec[RunOf[s]] # "none"
    /\ exec[s] = "none" => trace[s] = NoSpan

\* Moments lie in the past of the clock and of the run's counter.
PastMoments ==
  attempt = 1 => \A s \in Steps :
    /\ trace[s].start.at <= now /\ trace[s].start.seq <= seq[RunOf[s]]
    /\ trace[s].end.at <= now /\ trace[s].end.seq <= seq[RunOf[s]]

\* In one run a step that started with a higher number started no earlier.
ClockFollowsSeq ==
  attempt = 1 => \A s, t \in Steps : RunOf[s] = RunOf[t] =>
    /\ trace[s].start.seq > trace[t].start.seq => trace[s].start.at >= trace[t].start.at
    /\ trace[s].start.seq > trace[t].end.seq => trace[s].start.at >= trace[t].end.at

\* Later work is neither cached nor in a run that is copied.
LaterIsPlanned == \A s \in later : s \in Steps \ cached /\ RunOf[s] \notin copies

\* A site is entered only from a body that was.
Entered ==
  attempt = 1 => \A x \in Sites \ {Root} : exec[x] # "none" => exec[Encl[x]] # "none"

\* Nothing on the way to the target is answered from storage.
TargetIsPlanned ==
  attempt = 2 => /\ target \in Steps /\ Way[target] \cap cached = {}
                 /\ SpawnedInSteps(target) => Way[target] \cap copies = {}

\* Nor on the way to an impure step that ran before.
ImpureIsPlanned ==
  attempt = 2 => \A s \in Impure :
    prior[s] # "none" /\ SpawnedInSteps(s) /\ SpawnedAtTop(s)
      => Way[s] \cap cached = {} /\ Way[s] \cap copies = {}

RetryInv == /\ TypeOK /\ NothingStoredYet /\ AnsweredAsPlanned /\ RecordedSteps
            /\ PastMoments /\ ClockFollowsSeq /\ LaterIsPlanned
            /\ Entered /\ TargetIsPlanned /\ ImpureIsPlanned

LEMMA RetryInit == Init => RetryInv
<1> SUFFICES ASSUME Init PROVE RetryInv
  OBVIOUS
<1>1. NoSpan \in [start : Moment, end : Moment]
  BY DEF NoSpan, Never, Moment
<1>2. TypeOK
  BY <1>1 DEF Init, TypeOK, Sites, Exec, RowStatus
<1>3. NothingStoredYet /\ AnsweredAsPlanned /\ RecordedSteps /\ LaterIsPlanned
  BY DEF Init, NothingStoredYet, AnsweredAsPlanned, RecordedSteps, LaterIsPlanned, Sites
<1>4. \A s \in Steps : trace[s].start = Never /\ trace[s].end = Never /\ seq[RunOf[s]] \in Nat
  BY <1>2, RunOfSteps DEF Init, NoSpan, TypeOK
<1>5. PastMoments /\ ClockFollowsSeq
  BY <1>4 DEF Init, PastMoments, ClockFollowsSeq, Never
<1>6. Entered /\ TargetIsPlanned /\ ImpureIsPlanned
  BY DEF Init, Entered, TargetIsPlanned, ImpureIsPlanned
<1> QED
  BY <1>2, <1>3, <1>5, <1>6 DEF RetryInv

-----------------------------------------------------------------------------
(* The first attempt's record.                                             *)

\* Recording a moment of a step, with the numbers it is given.
LEMMA RecordMoves ==
  ASSUME TypeOK, NEW s \in Steps, NEW edge \in {"start", "end"}, Record(s, edge)
  PROVE  /\ seq' \in [Runs -> Nat] /\ trace' \in [Steps -> [start : Moment, end : Moment]]
         /\ attempt = 1 =>
              /\ seq'[RunOf[s]] = seq[RunOf[s]] + 1
              /\ \A r \in Runs : r # RunOf[s] => seq'[r] = seq[r]
              /\ \A t \in Steps : t # s => trace'[t] = trace[t]
              /\ edge = "start" => /\ trace'[s].start = NextMoment(RunOf[s])
                                   /\ trace'[s].end = trace[s].end
              /\ edge = "end" => /\ trace'[s].end = NextMoment(RunOf[s])
                                 /\ trace'[s].start = trace[s].start
<1>1. RunOf[s] \in Runs /\ seq[RunOf[s]] \in Nat
  BY RunOfSteps DEF TypeOK
<1>2. NextMoment(RunOf[s]) \in Moment
  BY <1>1 DEF NextMoment, Moment, TypeOK
<1>3. trace[s] \in [start : Moment, end : Moment]
  BY DEF TypeOK
<1>4. CASE attempt # 1
  BY <1>4 DEF Record, TypeOK
<1>5. CASE attempt = 1
  <2>1. seq' = [seq EXCEPT ![RunOf[s]] = @ + 1]
    BY <1>5 DEF Record
  <2>2. CASE edge = "start"
    <3>1. trace' = [trace EXCEPT ![s] = [trace[s] EXCEPT !.start = NextMoment(RunOf[s])]]
      BY <1>5, <2>2 DEF Record
    <3> QED BY <1>1, <1>2, <1>3, <1>5, <2>1, <2>2, <3>1 DEF TypeOK
  <2>3. CASE edge = "end"
    <3>1. trace' = [trace EXCEPT ![s] = [trace[s] EXCEPT !.end = NextMoment(RunOf[s])]]
      BY <1>5, <2>3 DEF Record
    <3> QED BY <1>1, <1>2, <1>3, <1>5, <2>1, <2>3, <3>1 DEF TypeOK
  <2> QED BY <2>2, <2>3
<1> QED BY <1>4, <1>5

\* What is recorded stays in order.
LEMMA RecordKeepsOrder ==
  ASSUME TypeOK, PastMoments, ClockFollowsSeq, attempt' = attempt, now' = now,
         NEW s \in Steps, NEW edge \in {"start", "end"}, Record(s, edge)
  PROVE  PastMoments' /\ ClockFollowsSeq'
<1> SUFFICES ASSUME attempt = 1 PROVE PastMoments' /\ ClockFollowsSeq'
  BY DEF PastMoments, ClockFollowsSeq
<1>1. \A t \in Steps : /\ trace[t].start.at \in Nat /\ trace[t].start.seq \in Nat
                       /\ trace[t].end.at \in Nat /\ trace[t].end.seq \in Nat
                       /\ RunOf[t] \in Runs /\ seq[RunOf[t]] \in Nat
  BY RunOfSteps DEF TypeOK, Moment
<1>2. now \in Nat
  BY DEF TypeOK
<1>3. /\ seq'[RunOf[s]] = seq[RunOf[s]] + 1
      /\ \A r \in Runs : r # RunOf[s] => seq'[r] = seq[r]
      /\ \A t \in Steps : t # s => trace'[t] = trace[t]
  BY RecordMoves
<1>4. \A t \in Steps : seq[RunOf[t]] <= seq'[RunOf[t]] /\ seq'[RunOf[t]] \in Nat
  BY <1>1, <1>3
<1>5. CASE edge = "start"
  <2>1. /\ trace'[s].start.at = now /\ trace'[s].start.seq = seq[RunOf[s]] + 1
        /\ trace'[s].end = trace[s].end
    <3>1. trace'[s].start = NextMoment(RunOf[s]) /\ trace'[s].end = trace[s].end
      BY <1>5, RecordMoves
    <3> QED BY <3>1 DEF NextMoment
  <2>2. PastMoments'
    BY <1>1, <1>2, <1>3, <1>4, <2>1 DEF PastMoments
  <2>3. ClockFollowsSeq'
    BY <1>1, <1>2, <1>3, <1>4, <2>1 DEF PastMoments, ClockFollowsSeq
  <2> QED BY <2>2, <2>3
<1>6. CASE edge = "end"
  <2>1. /\ trace'[s].end.at = now /\ trace'[s].end.seq = seq[RunOf[s]] + 1
        /\ trace'[s].start = trace[s].start
    <3>1. trace'[s].end = NextMoment(RunOf[s]) /\ trace'[s].start = trace[s].start
      BY <1>6, RecordMoves
    <3> QED BY <3>1 DEF NextMoment
  <2>2. PastMoments'
    BY <1>1, <1>2, <1>3, <1>4, <2>1 DEF PastMoments
  <2>3. ClockFollowsSeq'
    BY <1>1, <1>2, <1>3, <1>4, <2>1 DEF PastMoments, ClockFollowsSeq
  <2> QED BY <2>2, <2>3
<1> QED BY <1>5, <1>6

-----------------------------------------------------------------------------
(* Every step.                                                             *)

Ends == {"ok", "error"}

LEMMA RetryTyped ==
  ASSUME TypeOK, NothingStoredYet, AnsweredAsPlanned, [Next]_vars
  PROVE  TypeOK'
<1> USE DEF TypeOK, Exec, RowStatus, Sites, plan
<1>1. ASSUME Tick PROVE TypeOK'
  BY <1>1 DEF Tick
<1>2. ASSUME NEW s \in Steps, StartStep(s) PROVE TypeOK'
  BY <1>2, RecordMoves DEF StartStep
<1>3. ASSUME NEW s \in Steps, NEW o \in Ends, EndStep(s, o) PROVE TypeOK'
  BY <1>3, RecordMoves DEF EndStep, Ends
<1>4. ASSUME NEW r \in Runs, StartRun(r) PROVE TypeOK'
  <2>1. exec' \in [Sites -> Exec]
    BY <1>4 DEF StartRun
  <2>2. row' \in [Runs -> RowStatus]
    BY <1>4 DEF StartRun
  <2>3. seq' \in [Runs -> Nat]
    BY <1>4 DEF StartRun
  <2> QED BY <1>4, <2>1, <2>2, <2>3 DEF StartRun
<1>5. ASSUME NEW r \in Runs, NEW o \in Ends, EndRun(r, o) PROVE TypeOK'
  BY <1>5 DEF EndRun, Ends
<1>6. ASSUME NEW r \in Runs, Cancel(r) PROVE TypeOK'
  BY <1>6 DEF Cancel
<1>7. ASSUME NEW s \in Steps, SeedRetry(s) PROVE TypeOK'
  <2>1. \A x \in Sites : exec[x] \notin {"skipped", "copied"}
    BY <1>7 DEF SeedRetry, AnsweredAsPlanned
  <2>2. row' \in [Runs -> RowStatus]
    BY <1>7, <2>1 DEF SeedRetry, SeededRow
  <2>3. trace' \in [Steps -> [start : Moment, end : Moment]]
    BY <1>7 DEF SeedRetry, NoSpan, Never, Moment
  <2>4. reExec' \subseteq Steps
    <3>1. \A rs : SpawnSteps(rs) \subseteq Steps
      BY DEF SpawnSteps, SpawnStep
    <3>2. \A seen : TargetMarks(s, seen) \subseteq Steps
      BY <3>1, RunOfSteps DEF TargetMarks
    <3>3. \A seen : ImpureMarks(seen) \subseteq Steps
      BY <3>1, RunOfSteps DEF ImpureMarks
    <3>4. ReExecSteps(s, exec) \subseteq Steps
      BY <3>2, <3>3 DEF ReExecSteps
    <3> QED BY <1>7, <3>4 DEF SeedRetry
  <2>5. cached' \subseteq Steps /\ later' \subseteq Steps /\ copies' \subseteq Runs \ {Root}
    BY <1>7 DEF SeedRetry, CalledAfter, StillValid
  <2> QED BY <1>7, <2>2, <2>3, <2>4, <2>5 DEF SeedRetry
<1>8. CASE UNCHANGED vars
  BY <1>8 DEF vars
<1> QED
  BY <1>1, <1>2, <1>3, <1>4, <1>5, <1>6, <1>7, <1>8 DEF Next, Ends

LEMMA StepRecorded ==
  ASSUME TypeOK, NothingStoredYet, AnsweredAsPlanned, RecordedSteps, PastMoments,
         ClockFollowsSeq, [Next]_vars
  PROVE  RecordedSteps' /\ PastMoments' /\ ClockFollowsSeq'
<1> DEFINE Goal == RecordedSteps' /\ PastMoments' /\ ClockFollowsSeq'
<1>0. \A t \in Steps : RunOf[t] \in Runs /\ RunOf[t] \in Sites /\ t \in Sites /\ t # RunOf[t]
  BY RunOfSteps DEF Sites
<1>1. ASSUME Tick PROVE Goal
  BY <1>0, <1>1 DEF Tick, TypeOK, Moment, RecordedSteps, PastMoments, ClockFollowsSeq, plan
<1>2. ASSUME NEW s \in Steps, StartStep(s) PROVE Goal
  <2>1. PastMoments' /\ ClockFollowsSeq'
    BY <1>2, RecordKeepsOrder DEF StartStep
  <2>2. attempt = 1 => exec[RunOf[s]] # "none"
    <3>1. exec[Encl[s]] = "running"
      BY <1>2 DEF StartStep, Called
    <3>2. CASE Encl[s] \in Runs
      BY <3>1, <3>2, RunOfSteps
    <3>3. CASE Encl[s] \in Steps
      BY <3>1, <3>3, RunOfSteps DEF RecordedSteps
    <3>4. s # Root /\ s \in Sites
      BY <1>0 DEF Sites
    <3> QED BY <3>2, <3>3, <3>4 DEF Sites
  <2>3. attempt = 1 => \A t \in Steps : t # s => trace'[t] = trace[t]
    BY <1>2, RecordMoves DEF StartStep
  <2>4. /\ attempt' = attempt /\ \A x \in Sites : x # s => exec'[x] = exec[x]
        /\ exec'[s] # "none"
    BY <1>0, <1>2 DEF StartStep, TypeOK
  <2>5. RecordedSteps'
    BY <1>0, <2>2, <2>3, <2>4 DEF RecordedSteps
  <2> QED BY <2>1, <2>5
<1>3. ASSUME NEW s \in Steps, NEW o \in Ends, EndStep(s, o) PROVE Goal
  <2>1. PastMoments' /\ ClockFollowsSeq'
    BY <1>3, RecordKeepsOrder DEF EndStep
  <2>2. attempt = 1 => \A t \in Steps : t # s => trace'[t] = trace[t]
    BY <1>3, RecordMoves DEF EndStep
  <2>3. /\ attempt' = attempt /\ \A x \in Sites : x # s => exec'[x] = exec[x]
        /\ exec[s] = "running" /\ exec'[s] # "none"
    BY <1>0, <1>3 DEF EndStep, TypeOK, Ends
  <2>4. RecordedSteps'
    BY <1>0, <2>2, <2>3 DEF RecordedSteps
  <2> QED BY <2>1, <2>4
<1>4. ASSUME NEW r \in Runs, StartRun(r) PROVE Goal
  <2>1. /\ exec[r] = "none" /\ \A x \in Sites : x # r => exec'[x] = exec[x]
        /\ exec'[r] # "none" /\ UNCHANGED <<attempt, now, trace>>
        /\ attempt = 1 => seq' = [seq EXCEPT ![r] = 1]
    BY <1>4 DEF StartRun, Called, TypeOK, Sites
  <2>2. RecordedSteps'
    BY <1>0, <2>1 DEF RecordedSteps
  <2>3. attempt = 1 => \A t \in Steps : RunOf[t] = r => trace[t] = NoSpan
    BY <2>1 DEF RecordedSteps
  <2>4. PastMoments'
    BY <1>0, <2>1, <2>3 DEF PastMoments, NoSpan, Never, TypeOK
  <2>5. ClockFollowsSeq'
    BY <2>1 DEF ClockFollowsSeq
  <2> QED BY <2>2, <2>4, <2>5
<1>5. ASSUME NEW r \in Runs, (\E o \in Ends : EndRun(r, o)) \/ Cancel(r) PROVE Goal
  <2>1. /\ UNCHANGED <<attempt, now, trace, seq>>
        /\ \A x \in Sites : exec'[x] = "none" <=> exec[x] = "none"
    <3>1. CASE \E o \in Ends : EndRun(r, o)
      BY <3>1 DEF EndRun, TypeOK, Sites, Ends
    <3>2. CASE Cancel(r)
      BY <3>2 DEF Cancel, TypeOK
    <3> QED BY <1>5, <3>1, <3>2
  <2> QED BY <1>0, <2>1 DEF RecordedSteps, PastMoments, ClockFollowsSeq
<1>6. ASSUME NEW s \in Steps, SeedRetry(s) PROVE Goal
  BY <1>6 DEF SeedRetry, RecordedSteps, PastMoments, ClockFollowsSeq
<1>7. CASE UNCHANGED vars
  BY <1>7 DEF vars, RecordedSteps, PastMoments, ClockFollowsSeq
<1> QED
  BY <1>1, <1>2, <1>3, <1>4, <1>5, <1>6, <1>7 DEF Next, Ends

-----------------------------------------------------------------------------
(* The plan of a retry and what it answers.                                *)

\* What started after the target had ended is marked to run again: by its
\* moment, even within one millisecond, as the numbers of a run follow the clock.
LEMMA LaterRunsAgain ==
  ASSUME TypeOK, PastMoments, ClockFollowsSeq, attempt = 1,
         NEW S \in Steps, NEW s \in CalledAfter(S, exec)
  PROVE  s \in Steps /\ exec[s] # "none" /\ s \in ReExecSteps(S, exec)
<1> DEFINE end == EndOfTarget(S, exec)
<1>1. s \in Steps /\ exec[s] # "none" /\ s \in Sites
  BY DEF CalledAfter, Sites
<1>2. CASE s = S
  BY <1>1, <1>2 DEF ReExecSteps, TargetMarks
<1>3. CASE s # S
  <2>1. end \in {trace[S].start, trace[S].end}
    BY DEF EndOfTarget
  <2>2. /\ trace[s].start.at \in Nat /\ trace[s].start.seq \in Nat
        /\ end.at \in Nat /\ end.seq \in Nat
    BY <1>1, <2>1 DEF TypeOK, Moment
  <2>3. \/ trace[s].start.at > end.at
        \/ RunOf[s] = RunOf[S] /\ trace[s].start.seq > end.seq
    BY DEF CalledAfter
  <2>4. RunOf[s] = RunOf[S] /\ trace[s].start.seq > end.seq => trace[s].start.at >= end.at
    BY <1>1, <2>1 DEF ClockFollowsSeq
  <2>5. TimeSubsequent(s, end)
    BY <2>2, <2>3, <2>4 DEF TimeSubsequent
  <2> QED
    BY <1>1, <1>3, <2>5 DEF ReExecSteps
<1> QED BY <1>2, <1>3

LEMMA StepPlanned ==
  ASSUME TypeOK, NothingStoredYet, AnsweredAsPlanned, [Next]_vars
  PROVE  NothingStoredYet' /\ AnsweredAsPlanned'
<1> DEFINE Goal == NothingStoredYet' /\ AnsweredAsPlanned'
<1> USE DEF NothingStoredYet, AnsweredAsPlanned, TypeOK, Sites, plan
<1>1. ASSUME Tick PROVE Goal
  BY <1>1 DEF Tick
<1>2. ASSUME NEW s \in Steps, StartStep(s) PROVE Goal
  <2>1. /\ exec' = [exec EXCEPT ![s] = IF s \in cached THEN "skipped" ELSE "running"]
        /\ UNCHANGED <<attempt, row, cached, copies, later>>
    BY <1>2 DEF StartStep
  <2> QED BY <2>1
<1>3. ASSUME NEW s \in Steps, NEW o \in Ends, EndStep(s, o) PROVE Goal
  <2>1. /\ exec' = [exec EXCEPT ![s] = o]
        /\ UNCHANGED <<attempt, row, cached, copies, later>>
    BY <1>3 DEF EndStep
  <2> QED BY <2>1 DEF Ends
<1>4. ASSUME NEW r \in Runs, StartRun(r) PROVE Goal
  <2>1. UNCHANGED <<attempt, cached, copies, later>>
    BY <1>4 DEF StartRun
  <2>2. CASE ReturnsCopy(r)
    <3>1. exec' = [exec EXCEPT ![r] = "copied"] /\ row' = row /\ r \in copies
      BY <1>4, <2>2 DEF StartRun, ReturnsCopy
    <3> QED BY <2>1, <3>1
  <2>3. CASE ~ReturnsCopy(r)
    <3>1. /\ exec' = [exec EXCEPT ![r] = "running"] /\ row' = [row EXCEPT ![r] = "running"]
          /\ r \notin copies
      BY <1>4, <2>3 DEF StartRun, ReturnsCopy
    <3> QED BY <2>1, <3>1
  <2> QED BY <2>2, <2>3
<1>5. ASSUME NEW r \in Runs, NEW o \in Ends, EndRun(r, o) PROVE Goal
  <2>1. /\ exec[r] = "running" /\ exec' = [exec EXCEPT ![r] = o] /\ row' = [row EXCEPT ![r] = o]
        /\ UNCHANGED <<attempt, cached, copies, later>>
    BY <1>5 DEF EndRun
  <2> QED BY <2>1 DEF Ends
<1>6. ASSUME NEW r \in Runs, Cancel(r) PROVE Goal
  <2>1. /\ \A x \in Sites : exec'[x] = exec[x] \/ (exec[x] = "running" /\ exec'[x] = "cancelled")
        /\ \A q \in Runs : row'[q] = row[q] \/ exec[q] = "running"
        /\ UNCHANGED <<attempt, cached, copies, later>>
    BY <1>6 DEF Cancel
  <2> QED BY <2>1
<1>7. ASSUME NEW s \in Steps, SeedRetry(s) PROVE Goal
  <2>1. /\ attempt' = 2 /\ exec' = [x \in Sites |-> IF x = Root THEN "running" ELSE "none"]
        /\ row' = [r \in Runs |-> IF r = Root THEN "running"
                                  ELSE SeededRow(r, exec, ReExecSteps(s, exec))]
    BY <1>7 DEF SeedRetry
  <2>2. \A r \in copies' : r \in Runs \ {Root} /\ exec[r] = "ok"
                           /\ StillValid(r, exec, ReExecSteps(s, exec))
    BY <1>7 DEF SeedRetry, StillValid
  <2>3. \A r \in copies' : row'[r] = "ok"
    BY <2>1, <2>2 DEF SeededRow
  <2>4. \A x \in Sites : exec'[x] \in {"none", "running"}
    BY <2>1
  <2>5. \A r \in copies' : exec'[r] = "none"
    BY <2>1, <2>2
  <2>6. \A x \in Sites : exec'[x] # "skipped" /\ exec'[x] # "copied"
    BY <2>4
  <2>7. NothingStoredYet'
    BY <2>1
  <2>8. AnsweredAsPlanned'
    BY <2>1, <2>3, <2>4, <2>5, <2>6
  <2> QED BY <2>7, <2>8
<1>8. CASE UNCHANGED vars
  BY <1>8 DEF vars
<1> QED
  BY <1>1, <1>2, <1>3, <1>4, <1>5, <1>6, <1>7, <1>8 DEF Next, Ends

LEMMA StepLater ==
  ASSUME RetryInv, [Next]_vars
  PROVE  LaterIsPlanned'
<1>1. ASSUME NEW s \in Steps, SeedRetry(s) PROVE LaterIsPlanned'
  <2>1. ASSUME NEW t \in later' PROVE t \in Steps \ cached' /\ RunOf[t] \notin copies'
    <3>1. t \in CalledAfter(s, exec) /\ attempt = 1
      BY <1>1, <2>1 DEF SeedRetry
    <3>2. t \in Steps /\ exec[t] # "none" /\ t \in ReExecSteps(s, exec)
      BY <3>1, LaterRunsAgain DEF RetryInv
    <3>3. t \notin cached'
      BY <1>1, <3>2 DEF SeedRetry
    <3>4. ~StillValid(RunOf[t], exec, ReExecSteps(s, exec))
      BY <3>2 DEF StillValid, StepsOf
    <3>5. RunOf[t] \notin copies'
      BY <1>1, <3>4 DEF SeedRetry
    <3> QED BY <3>2, <3>3, <3>5
  <2> QED BY <2>1 DEF LaterIsPlanned
<1>2. CASE UNCHANGED <<cached, copies, later>>
  BY <1>2 DEF RetryInv, LaterIsPlanned
<1>3. Next => UNCHANGED <<cached, copies, later>> \/ \E s \in Steps : SeedRetry(s)
  BY DEF Next, Tick, StartStep, EndStep, StartRun, EndRun, Cancel, plan
<1> QED
  BY <1>1, <1>2, <1>3 DEF vars

LEMMA StepEntered ==
  ASSUME TypeOK, Entered, [Next]_vars
  PROVE  Entered'
<1> USE DEF Entered
<1>1. ASSUME NEW y \in Sites, Called(y), exec'[y] # "none", attempt' = attempt,
             \A x \in Sites : x # y => exec'[x] = exec[x]
      PROVE  Entered'
  <2>1. y # Root /\ Encl[y] \in Sites \ {y} /\ exec[Encl[y]] # "none"
    BY <1>1, EnclTyped DEF Called
  <2> QED BY <1>1, <2>1
<1>2. CASE attempt' = attempt /\ \A x \in Sites : exec'[x] = "none" <=> exec[x] = "none"
  BY <1>2, EnclTyped
<1>3. ASSUME NEW s \in Steps, StartStep(s) PROVE Entered'
  <2>1. /\ Called(s) /\ exec'[s] # "none" /\ attempt' = attempt
        /\ \A x \in Sites : x # s => exec'[x] = exec[x]
    BY <1>3 DEF StartStep, TypeOK, Sites
  <2> QED BY <1>1, <2>1 DEF Sites
<1>4. ASSUME NEW r \in Runs, StartRun(r) PROVE Entered'
  <2>1. /\ Called(r) /\ exec'[r] # "none" /\ attempt' = attempt
        /\ \A x \in Sites : x # r => exec'[x] = exec[x]
    BY <1>4 DEF StartRun, TypeOK, Sites
  <2> QED BY <1>1, <2>1 DEF Sites
<1>5. ASSUME NEW x \in Sites, NEW o \in Ends, (x \in Steps /\ EndStep(x, o)) \/ (x \in Runs /\ EndRun(x, o))
      PROVE  Entered'
  BY <1>2, <1>5 DEF EndStep, EndRun, TypeOK, Ends
<1>6. ASSUME NEW r \in Runs, Cancel(r) PROVE Entered'
  BY <1>2, <1>6 DEF Cancel, TypeOK
<1>7. CASE Tick \/ UNCHANGED vars
  BY <1>2, <1>7 DEF Tick, vars
<1>8. ASSUME NEW s \in Steps, SeedRetry(s) PROVE Entered'
  BY <1>8 DEF SeedRetry
<1> QED
  BY <1>3, <1>4, <1>5, <1>6, <1>7, <1>8 DEF Next, Ends, Sites

\* What the first attempt reached, it reached along its whole way.
LEMMA SeenUpward ==
  ASSUME Entered, attempt = 1, NEW s \in Steps, exec[s] # "none"
  PROVE  /\ \A x \in Way[s] : exec[x] # "none"
         /\ \A q \in Chain[RunOf[s]] : SpawnStep(q) # Nowhere =>
              SpawnStep(q) \in Steps /\ exec[SpawnStep(q)] # "none"
<1> DEFINE U == {x \in Sites : exec[x] # "none"}
<1>1. U \in SUBSET Sites /\ \A x \in U \ {Root} : Encl[x] \in U
  BY EnclTyped DEF Entered
<1>2. s \in U \cap Steps
  BY DEF Sites
<1>3. Way[s] \subseteq U /\ RunOf[s] \in U \cap Runs
  <2> HIDE DEF U
  <2> QED BY <1>1, <1>2, UpwardClosed, RunOfSteps
<1>4. Chain[RunOf[s]] \subseteq U
  <2> HIDE DEF U
  <2> QED BY <1>1, <1>3, UpwardClosed
<1>5. ASSUME NEW q \in Chain[RunOf[s]], SpawnStep(q) # Nowhere
      PROVE  SpawnStep(q) \in Steps /\ exec[SpawnStep(q)] # "none"
  <2>1. SpawnStep(q) = Encl[q] /\ Encl[q] \in Steps /\ q # Root
    BY <1>5 DEF SpawnStep, Sites
  <2> QED BY <1>1, <1>4, <2>1
<1> QED BY <1>3, <1>5

\* A run in whose body a step runs again is not replayed; so no run above a
\* step whose spawning steps all run again.
LEMMA ChainIsEntered ==
  ASSUME NEW s \in Steps, NEW again, s \in again, exec[s] # "none", SpawnedInSteps(s),
         \A q \in Chain[RunOf[s]] : SpawnStep(q) # Nowhere =>
           SpawnStep(q) \in Steps \cap again /\ exec[SpawnStep(q)] # "none"
  PROVE  \A r \in Chain[RunOf[s]] : ~StillValid(r, exec, again)
<1> SUFFICES ASSUME NEW r \in Chain[RunOf[s]] PROVE ~StillValid(r, exec, again)
  OBVIOUS
<1>1. CASE r = RunOf[s]
  BY <1>1 DEF StillValid, StepsOf
<1>2. CASE r # RunOf[s]
  <2>1. PICK q \in Chain[RunOf[s]] \ {Root} : r = ParentRun(q)
    BY <1>2, ChainOfParents, RunOfSteps
  <2>2. q \in Runs /\ r \in Runs
    BY <2>1, ChainOfParents, RunOfSteps
  <2>3. CASE SpawnStep(q) # Nowhere
    <3>1. SpawnStep(q) = Encl[q] /\ Encl[q] \in Steps
      BY <2>3 DEF SpawnStep
    <3>2. RunOf[SpawnStep(q)] = r
      BY <2>1, <3>1 DEF ParentRun
    <3> QED BY <2>3, <3>2 DEF StillValid, StepsOf
  <2>4. CASE SpawnStep(q) = Nowhere
    BY <2>1, <2>2, <2>4 DEF SpawnedInSteps, StillValid, Sites
  <2> QED BY <2>3, <2>4
<1> QED BY <1>1, <1>2

\* computeReExecStepIds marks every step on the way to the target, and every
\* step on the way to an impure one.
LEMMA MarksCoverTarget ==
  ASSUME Entered, attempt = 1, NEW S \in Steps, exec[S] # "none"
  PROVE  /\ S \in ReExecSteps(S, exec)
         /\ Way[S] \cap Steps \subseteq ReExecSteps(S, exec)
         /\ \A q \in Chain[RunOf[S]] : SpawnStep(q) # Nowhere =>
              SpawnStep(q) \in Steps \cap ReExecSteps(S, exec) /\ exec[SpawnStep(q)] # "none"
<1> DEFINE seen == {x \in Sites : exec[x] # "none"}
           spawns == SpawnSteps(Chain[RunOf[S]])
<1>1. TargetMarks(S, seen) \cap seen \subseteq ReExecSteps(S, exec)
  <2> HIDE DEF seen
  <2> QED BY DEF ReExecSteps, seen
<1>2. \A q \in Chain[RunOf[S]] : SpawnStep(q) # Nowhere => SpawnStep(q) \in spawns
  BY DEF SpawnSteps
<1>3. {S} \cup PathAncestors[S] \cup spawns \subseteq TargetMarks(S, seen)
  BY DEF TargetMarks
<1>4. \A q \in spawns : PathAncestors[q] \subseteq TargetMarks(S, seen)
  BY DEF TargetMarks
<1>5. S \in seen /\ S \in ReExecSteps(S, exec)
  BY <1>1, <1>3 DEF Sites
<1>6. ASSUME NEW x \in Way[S], x \in Steps PROVE x \in ReExecSteps(S, exec)
  <2>1. x \in seen
    BY <1>6, SeenUpward DEF Sites
  <2>2. x \in {S} \cup PathAncestors[S] \cup AroundCalls(RunOf[S])
    <3>1. x \notin Chain[RunOf[S]]
      BY <1>6, RunOfSteps, ChainOfParents
    <3> QED BY <1>6, <3>1, WayWithinMarks
  <2>3. CASE x \in AroundCalls(RunOf[S])
    <3>1. PICK q \in Chain[RunOf[S]] : /\ SpawnStep(q) \in Steps
                                       /\ x = SpawnStep(q) \/ x \in PathAncestors[SpawnStep(q)]
      BY <2>3 DEF AroundCalls
    <3>2. SpawnStep(q) \in spawns
      BY <1>2, <3>1 DEF Sites
    <3>3. x \in TargetMarks(S, seen)
      <4> HIDE DEF spawns, seen
      <4> QED BY <1>3, <1>4, <3>1, <3>2
    <3> QED BY <1>1, <2>1, <3>3
  <2> QED BY <1>1, <1>3, <2>1, <2>2, <2>3
<1>7. ASSUME NEW q \in Chain[RunOf[S]], SpawnStep(q) # Nowhere
      PROVE  SpawnStep(q) \in Steps \cap ReExecSteps(S, exec) /\ exec[SpawnStep(q)] # "none"
  <2>1. SpawnStep(q) \in Steps /\ exec[SpawnStep(q)] # "none"
    BY <1>7, SeenUpward
  <2>2. SpawnStep(q) \in seen /\ SpawnStep(q) \in TargetMarks(S, seen)
    BY <1>2, <1>3, <1>7, <2>1 DEF Sites
  <2> QED BY <1>1, <2>1, <2>2
<1> QED BY <1>5, <1>6, <1>7

LEMMA MarksCoverImpure ==
  ASSUME Entered, attempt = 1, NEW S \in Steps, NEW s \in Impure, exec[s] # "none",
         SpawnedAtTop(s)
  PROVE  /\ s \in ReExecSteps(S, exec)
         /\ Way[s] \cap Steps \subseteq ReExecSteps(S, exec)
         /\ \A q \in Chain[RunOf[s]] : SpawnStep(q) # Nowhere =>
              SpawnStep(q) \in Steps \cap ReExecSteps(S, exec) /\ exec[SpawnStep(q)] # "none"
<1> DEFINE seen == {x \in Sites : exec[x] # "none"}
           spawns == SpawnSteps(Chain[RunOf[s]])
           marks == {s} \cup PathAncestors[s] \cup spawns
<1>1. ImpureMarks(seen) \cap seen \subseteq ReExecSteps(S, exec)
  <2> HIDE DEF seen
  <2> QED BY DEF ReExecSteps, seen
<1>2. s \in Steps /\ s \in Impure \cap seen
  BY DEF Sites
<1>3. marks \subseteq ImpureMarks(seen)
  <2> HIDE DEF seen
  <2> QED BY <1>2 DEF ImpureMarks
<1>4. \A q \in Chain[RunOf[s]] : SpawnStep(q) # Nowhere => SpawnStep(q) \in spawns
  BY DEF SpawnSteps
<1>5. \A x \in marks \cap seen : x \in ReExecSteps(S, exec)
  <2> HIDE DEF marks, seen
  <2> QED BY <1>1, <1>3
<1>6. ASSUME NEW x \in Way[s], x \in Steps PROVE x \in ReExecSteps(S, exec)
  <2>1. x \in seen
    BY <1>2, <1>6, SeenUpward DEF Sites
  <2>2. x \in {s} \cup PathAncestors[s] \cup AroundCalls(RunOf[s])
    <3>1. x \notin Chain[RunOf[s]]
      BY <1>2, <1>6, RunOfSteps, ChainOfParents
    <3> QED BY <1>2, <1>6, <3>1, WayWithinMarks
  <2>3. CASE x \in AroundCalls(RunOf[s])
    <3>1. PICK q \in Chain[RunOf[s]] : /\ SpawnStep(q) \in Steps
                                       /\ x = SpawnStep(q) \/ x \in PathAncestors[SpawnStep(q)]
      BY <2>3 DEF AroundCalls
    <3>2. SpawnStep(q) \in spawns /\ x = SpawnStep(q)
      BY <1>4, <3>1 DEF Sites, SpawnedAtTop
    <3> QED BY <1>5, <2>1, <3>2
  <2> QED BY <1>5, <2>1, <2>2, <2>3
<1>7. ASSUME NEW q \in Chain[RunOf[s]], SpawnStep(q) # Nowhere
      PROVE  SpawnStep(q) \in Steps \cap ReExecSteps(S, exec) /\ exec[SpawnStep(q)] # "none"
  <2>1. SpawnStep(q) \in Steps /\ exec[SpawnStep(q)] # "none"
    BY <1>2, <1>7, SeenUpward
  <2>2. SpawnStep(q) \in seen /\ SpawnStep(q) \in marks
    BY <1>4, <1>7, <2>1 DEF Sites
  <2> QED BY <1>5, <2>1, <2>2
<1> QED BY <1>2, <1>5, <1>6, <1>7

\* What runs again is neither cached nor in a copied run.
LEMMA WayIsPlanned ==
  ASSUME Entered, NEW S \in Steps, SeedRetry(S), NEW s \in Steps, exec[s] # "none",
         s \in ReExecSteps(S, exec), Way[s] \cap Steps \subseteq ReExecSteps(S, exec),
         \A q \in Chain[RunOf[s]] : SpawnStep(q) # Nowhere =>
           SpawnStep(q) \in Steps \cap ReExecSteps(S, exec) /\ exec[SpawnStep(q)] # "none"
  PROVE  /\ Way[s] \cap cached' = {}
         /\ SpawnedInSteps(s) => Way[s] \cap copies' = {}
<1>1. cached' \subseteq Steps \ ReExecSteps(S, exec)
  BY DEF SeedRetry
<1>2. ASSUME SpawnedInSteps(s) PROVE Way[s] \cap copies' = {}
  <2>1. copies' \subseteq {r \in Runs : StillValid(r, exec, ReExecSteps(S, exec))}
    BY DEF SeedRetry
  <2>2. \A r \in Chain[RunOf[s]] : ~StillValid(r, exec, ReExecSteps(S, exec))
    <3> HIDE DEF ReExecSteps
    <3> QED BY <1>2, ChainIsEntered
  <2>3. Way[s] \cap Runs \subseteq Chain[RunOf[s]]
    <3>1. Way[s] \subseteq {s} \cup PathAncestors[s] \cup Chain[RunOf[s]] \cup AroundCalls(RunOf[s])
      BY WayWithinMarks
    <3>2. {s} \cup PathAncestors[s] \cup AroundCalls(RunOf[s]) \subseteq Steps
      BY RunOfSteps DEF AroundCalls
    <3> QED BY <3>1, <3>2
  <2> QED BY <2>1, <2>2, <2>3
<1> QED BY <1>1, <1>2

LEMMA StepReached ==
  ASSUME TypeOK, Entered, TargetIsPlanned, ImpureIsPlanned, [Next]_vars
  PROVE  TargetIsPlanned' /\ ImpureIsPlanned'
<1>1. ASSUME NEW S \in Steps, SeedRetry(S) PROVE TargetIsPlanned' /\ ImpureIsPlanned'
  <2>1. attempt = 1 /\ exec[S] # "none" /\ target' = S /\ prior' = exec
    BY <1>1 DEF SeedRetry
  <2>2. /\ Way[S] \cap cached' = {}
        /\ SpawnedInSteps(S) => Way[S] \cap copies' = {}
    BY <1>1, <2>1, MarksCoverTarget, WayIsPlanned
  <2>3. TargetIsPlanned'
    BY <2>1, <2>2 DEF TargetIsPlanned, SpawnedInSteps
  <2>4. ASSUME NEW s \in Impure, exec[s] # "none", SpawnedInSteps(s), SpawnedAtTop(s)
        PROVE  Way[s] \cap cached' = {} /\ Way[s] \cap copies' = {}
    BY <1>1, <2>1, <2>4, MarksCoverImpure, WayIsPlanned
  <2>5. ImpureIsPlanned'
    BY <2>1, <2>4 DEF ImpureIsPlanned, SpawnedInSteps, SpawnedAtTop
  <2> QED BY <2>3, <2>5
<1>2. CASE UNCHANGED <<attempt, plan>>
  BY <1>2 DEF plan, TargetIsPlanned, ImpureIsPlanned, SpawnedInSteps, SpawnedAtTop
<1>3. Next => UNCHANGED <<attempt, plan>> \/ \E s \in Steps : SeedRetry(s)
  BY DEF Next, Tick, StartStep, EndStep, StartRun, EndRun, Cancel
<1> QED
  BY <1>1, <1>2, <1>3 DEF vars, plan

LEMMA RetryStep == RetryInv /\ [Next]_vars => RetryInv'
<1> SUFFICES ASSUME RetryInv, [Next]_vars PROVE RetryInv'
  OBVIOUS
<1>1. /\ TypeOK /\ NothingStoredYet /\ AnsweredAsPlanned /\ RecordedSteps
      /\ PastMoments /\ ClockFollowsSeq
  BY DEF RetryInv
<1>2. TypeOK'
  BY <1>1, RetryTyped
<1>3. NothingStoredYet' /\ AnsweredAsPlanned'
  BY <1>1, StepPlanned
<1>4. RecordedSteps' /\ PastMoments' /\ ClockFollowsSeq'
  BY <1>1, StepRecorded
<1>5. LaterIsPlanned'
  BY StepLater
<1>6. Entered'
  BY <1>1, StepEntered DEF RetryInv
<1>7. TargetIsPlanned' /\ ImpureIsPlanned'
  BY <1>1, StepReached DEF RetryInv
<1> QED
  BY <1>2, <1>3, <1>4, <1>5, <1>6, <1>7 DEF RetryInv

\* A step is skipped only if it is cached, a run answered only if it is copied.
LEMMA OnlyPlannedAnswers ==
  ASSUME TypeOK, AnsweredAsPlanned, NEW x \in Sites, x \notin cached, x \notin copies
  PROVE  exec[x] \notin {"skipped", "copied"}
BY DEF AnsweredAsPlanned

LEMMA WayIsOfSites == \A s \in Steps : Way[s] \subseteq Sites
BY WayWithinMarks, RunOfSteps, ChainOfParents DEF AroundCalls, Sites

LEMMA RetryInvariance == Spec => []RetryInv
BY RetryInit, RetryStep, PTL DEF Spec

-----------------------------------------------------------------------------
\* The variables keep their types; seeded rows are among those a row can have.
THEOREM RetryTypeCorrect == Spec => []TypeOK
<1>1. RetryInv => TypeOK
  BY DEF RetryInv
<1> QED
  BY <1>1, RetryInvariance, PTL

\* What the first attempt called after the target had ended is not answered
\* from it, whatever the program and wherever the clock stood.
THEOREM LaterWorkIsNotReused == Spec => []LaterWorkRunsAgain
<1>1. RetryInv => LaterWorkRunsAgain
  BY RunOfSteps DEF RetryInv, LaterWorkRunsAgain, LaterIsPlanned, AnsweredAsPlanned, Sites
<1> QED
  BY <1>1, RetryInvariance, PTL

\* Whatever the program, the target of a retry is really executed again when
\* every run above its own was called inside a step or by the root.
THEOREM TargetRunsAgain == Spec => []TargetIsReached
<1>1. RetryInv => TargetIsReached
  <2> SUFFICES ASSUME RetryInv, attempt = 2, SpawnedInSteps(target), NEW x \in Way[target]
               PROVE  exec[x] \notin {"skipped", "copied"}
    BY DEF TargetIsReached, Reachable
  <2>1. target \in Steps /\ x \notin cached /\ x \notin copies
    BY DEF RetryInv, TargetIsPlanned
  <2>2. x \in Sites
    BY <2>1, WayIsOfSites
  <2> QED BY <2>1, <2>2, OnlyPlannedAnswers DEF RetryInv
<1> QED
  BY <1>1, RetryInvariance, PTL

\* And so is every impure step that ran before, when its runs were called in
\* steps that are not inside other steps.
THEOREM ImpureStepsRunAgain == Spec => []ImpureRunsAgain
<1>1. RetryInv => ImpureRunsAgain
  <2> SUFFICES ASSUME RetryInv, attempt = 2, NEW s \in Impure, prior[s] # "none",
                      SpawnedInSteps(s), SpawnedAtTop(s), NEW x \in Way[s]
               PROVE  exec[x] \notin {"skipped", "copied"}
    BY DEF ImpureRunsAgain, Reachable
  <2>1. x \notin cached /\ x \notin copies
    BY DEF RetryInv, ImpureIsPlanned
  <2>2. x \in Sites
    BY WayIsOfSites
  <2> QED BY <2>1, <2>2, OnlyPlannedAnswers DEF RetryInv
<1> QED
  BY <1>1, RetryInvariance, PTL

\* The row of a copied run is not touched while the retry runs.
THEOREM CopiedRowsStand == Spec => CopiesKeepOutcome
<1>1. RetryInv /\ [Next]_vars => [\A r \in copies : row'[r] = row[r]]_vars
  <2> SUFFICES ASSUME RetryInv, Next PROVE \A r \in copies : row'[r] = row[r]
    BY DEF vars
  <2> USE DEF RetryInv, TypeOK, AnsweredAsPlanned, NothingStoredYet
  <2>1. CASE copies = {}
    BY <2>1
  <2>2. CASE attempt = 2
    <3>1. ASSUME NEW r \in Runs, StartRun(r) PROVE \A q \in copies : row'[q] = row[q]
      BY <3>1 DEF StartRun, ReturnsCopy
    <3>2. ASSUME NEW r \in Runs, NEW o \in Ends, EndRun(r, o)
          PROVE \A q \in copies : row'[q] = row[q]
      BY <3>2 DEF EndRun
    <3>3. ASSUME NEW r \in Runs, Cancel(r) PROVE \A q \in copies : row'[q] = row[q]
      BY <3>3 DEF Cancel
    <3> QED
      BY <2>2, <3>1, <3>2, <3>3
         DEF Next, Tick, StartStep, EndStep, SeedRetry, Ends
  <2> QED BY <2>1, <2>2
<1> QED
  BY <1>1, RetryInvariance, PTL DEF Spec, CopiesKeepOutcome
=============================================================================
