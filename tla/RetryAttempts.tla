--------------------------- MODULE RetryAttempts ---------------------------
(* Retrying a workflow from a step.  A program is a tree of sites: child   *)
(* runs and steps, each called by the body of the site enclosing it.  The  *)
(* first attempt executes the program and records when each step started   *)
(* and ended (wall clock, and the sequence number of its own run).         *)
(* SeedRetry computes the steps that must run again, copies what stays     *)
(* valid into fresh rows, and the second attempt re-enters the root: a     *)
(* cached step is skipped, a child run copied as "ok" returns its stored   *)
(* output without entering its body.                                       *)
(*                                                                         *)
(* Every child run site has a workflow id of its own, so the row a nested  *)
(* run finds in the second attempt (resolveAttemptChildRunId) is the one   *)
(* of its site.                                                            *)
EXTENDS Integers, FiniteSets

CONSTANTS
  Runs, Root,     \* the run sites, and the one that is not nested
  Steps,          \* the step sites
  Nowhere,        \* what encloses Root; also "no step"
  Encl,           \* the site whose body calls a site
  Awaits,         \* the sites of the same body awaited before a site is called
  Impure,         \* the steps declared with { pure: false }
  Throws,         \* the sites whose body may throw of its own accord
  Cancels,        \* the runs that somebody may cancel
  MaxClock        \* bound on the milliseconds that pass

Sites == Runs \cup Steps

ASSUME ProgramAssumption ==
  /\ Root \in Runs /\ Runs \cap Steps = {} /\ Nowhere \notin Sites
  /\ Encl \in [Sites -> Sites \cup {Nowhere}]
  /\ \A x \in Sites : Encl[x] = Nowhere <=> x = Root
  /\ Awaits \in [Sites -> SUBSET Sites]
  /\ \A x \in Sites : \A y \in Awaits[x] : Encl[y] = Encl[x]
  /\ Impure \subseteq Steps /\ Throws \subseteq Sites /\ Cancels \subseteq Runs
  /\ MaxClock \in Nat

\* Every site is reached from Root by calls: what holds of Root, and of a site
\* whenever it holds of the site enclosing it, holds of all of them.
ASSUME TreeAssumption ==
  \A A \in SUBSET Sites :
    Root \in A /\ (\A x \in Sites \ {Root} : Encl[x] \in A => x \in A) => A = Sites

VARIABLES
  attempt,   \* 1, then 2 once a retry has been seeded
  now,       \* the wall clock, in milliseconds
  seq,       \* the last runSeq of each run of the first attempt
  exec,      \* what the current attempt did at each site
  row,       \* the status of the stored row of each run of the current attempt
  trace,     \* when each step of the first attempt started and ended
  prior,     \* exec at the end of the first attempt
  target,    \* the step retried from
  reExec,    \* the steps that must run again (computeReExecStepIds)
  cached,    \* the steps whose output was copied to the new attempt
  copies,    \* the runs copied with replayOfRunId
  later      \* history: the steps called after the target had ended

vars == <<attempt, now, seq, exec, row, trace, prior, target, reExec, cached, copies,
          later>>
plan == <<prior, target, reExec, cached, copies, later>>

Exec == {"none", "running", "ok", "error", "cancelled", "skipped", "copied"}
RowStatus == {"none", "running", "ok", "error", "cancelled"}
Moment == [at : 0..MaxClock, seq : Nat]
Never == [at |-> 0, seq |-> 0]
NoSpan == [start |-> Never, end |-> Never]

TypeOK ==
  /\ attempt \in {1, 2}
  /\ now \in 0..MaxClock
  /\ seq \in [Runs -> Nat]
  /\ exec \in [Sites -> Exec] /\ prior \in [Sites -> Exec]
  /\ row \in [Runs -> RowStatus]
  /\ trace \in [Steps -> [start : Moment, end : Moment]]
  /\ target \in Steps \cup {Nowhere}
  /\ reExec \subseteq Steps /\ cached \subseteq Steps /\ later \subseteq Steps
  /\ copies \subseteq Runs \ {Root}

-----------------------------------------------------------------------------
(* What the store records of a site: its run, its path, its parent.        *)

\* The run a step belongs to.
RunOf[s \in Steps] == IF Encl[s] \in Runs THEN Encl[s] ELSE RunOf[Encl[s]]

\* The steps of the same run whose path is a proper prefix of the step's.
PathAncestors[s \in Steps] ==
  IF Encl[s] \in Runs THEN {} ELSE {Encl[s]} \cup PathAncestors[Encl[s]]

\* parentStepId: null when the run was called at the root of its parent's body.
SpawnStep(r) == IF Encl[r] \in Steps THEN Encl[r] ELSE Nowhere
ParentRun(r) == IF r = Root THEN Nowhere
                ELSE IF Encl[r] \in Runs THEN Encl[r] ELSE RunOf[Encl[r]]

\* A run and the runs above it, up to the root.
Chain[r \in Runs] == IF r = Root THEN {r} ELSE {r} \cup Chain[ParentRun(r)]

StepsOf(r) == {s \in Steps : RunOf[s] = r}

\* A site and everything that must be entered before it can be reached.
Way[x \in Sites] == IF x = Root THEN {x} ELSE {x} \cup Way[Encl[x]]

-----------------------------------------------------------------------------
(* The plan of a retry.  "seen" are the sites the first attempt reached:   *)
(* only they have a row or a step_started event.                           *)

SpawnSteps(runs) == {SpawnStep(r) : r \in runs} \ {Nowhere}

\* Mutant of TargetMarks: forget the steps around the spawning step.
TargetMarksSpawnOnly(S, seen) ==
  {S} \cup PathAncestors[S] \cup {s \in Steps \cap seen : S \in PathAncestors[s]}
      \cup SpawnSteps(Chain[RunOf[S]])

\* The target, its descendants and ancestors in its run, and, up the chain of
\* runs, each spawning step with the steps around it.
TargetMarks(S, seen) ==
  LET spawns == SpawnSteps(Chain[RunOf[S]]) IN
  {S} \cup PathAncestors[S] \cup {s \in Steps \cap seen : S \in PathAncestors[s]}
      \cup spawns \cup UNION {PathAncestors[s] : s \in spawns}

\* The runs called inside the target, and every run below them.
RunsUnder(S, seen) ==
  {r \in Runs \cap seen :
     \E q \in Chain[r] :
        /\ SpawnStep(q) # Nowhere
        /\ SpawnStep(q) = S \/ S \in PathAncestors[SpawnStep(q)]}

\* T_end: when the target ended, or when it started if it never ended.
EndOfTarget(S, done) ==
  IF done[S] \in {"ok", "error"} THEN trace[S].end ELSE trace[S].start

\* Mutant of TimeSubsequent: compare the milliseconds only.
TimeSubsequentByClock(s, end) == trace[s].start.at > end.at

TimeSubsequent(s, end) ==
  \/ trace[s].start.at > end.at
  \/ trace[s].start.at = end.at /\ trace[s].start.seq > end.seq

\* Mutant of ImpureMarks: an impure step marks only its own run.
ImpureMarksInRun(seen) ==
  UNION {{s} \cup PathAncestors[s] : s \in Impure \cap seen}

\* An impure step, the steps around it, and the spawning steps up the chain.
ImpureMarks(seen) ==
  UNION {{s} \cup PathAncestors[s] \cup SpawnSteps(Chain[RunOf[s]])
            : s \in Impure \cap seen}

ReExecSteps(S, done) ==
  LET seen == {x \in Sites : done[x] # "none"} IN
  seen \cap (  TargetMarks(S, seen)
          \cup {s \in Steps : RunOf[s] \in RunsUnder(S, seen)}
          \cup {s \in Steps \ {S} : TimeSubsequent(s, EndOfTarget(S, done))}
          \cup ImpureMarks(seen))

\* A nested run none of whose recorded steps runs again is still valid.
StillValid(r, done, again) ==
  r # Root /\ \A s \in StepsOf(r) : done[s] # "none" => s \notin again

\* Mutant of SeededRow: a replayed row gets a status of its own.
SeededRowCopied(r, done, again) ==
  IF done[r] = "ok" /\ StillValid(r, done, again) THEN "copied"
  ELSE IF done[r] = "none" THEN "none" ELSE "running"

\* Such a run keeps the status it had; the others are to be run again.
SeededRow(r, done, again) ==
  CASE done[r] = "none"                -> "none"
    [] ~StillValid(r, done, again)     -> "running"
    [] OTHER                           -> done[r]

-----------------------------------------------------------------------------
(* Executing the program.                                                  *)

Init ==
  /\ attempt = 1 /\ now = 0
  /\ seq = [r \in Runs |-> IF r = Root THEN 1 ELSE 0]
  /\ exec = [x \in Sites |-> IF x = Root THEN "running" ELSE "none"]
  /\ row = [r \in Runs |-> IF r = Root THEN "running" ELSE "none"]
  /\ trace = [s \in Steps |-> NoSpan]
  /\ prior = [x \in Sites |-> "none"]
  /\ target = Nowhere /\ reExec = {} /\ cached = {} /\ copies = {} /\ later = {}

Settled(x) == exec[x] \in {"ok", "error", "cancelled", "skipped", "copied"}
Body(x) == {y \in Sites : Encl[y] = x}

\* The enclosing body is at the point where it calls the site.
Called(x) ==
  /\ x # Root /\ exec[x] = "none" /\ exec[Encl[x]] = "running"
  /\ \A y \in Awaits[x] : Settled(y)

\* A body returns once all it calls has settled; it throws when nothing it
\* called is still running, or when a call failed (Promise.all leaves the
\* other branches running).
BodyEnds(x, outcome) ==
  IF outcome = "ok" THEN \A y \in Body(x) : Settled(y)
  ELSE \/ x \in Throws /\ \A y \in Body(x) : exec[y] # "running"
       \/ \E y \in Body(x) : exec[y] \in {"error", "cancelled"}

\* The moment of the next event of a run; the first attempt's are recorded.
NextMoment(r) == [at |-> now, seq |-> seq[r] + 1]

Record(s, edge) ==
  IF attempt = 1
  THEN /\ seq' = [seq EXCEPT ![RunOf[s]] = @ + 1]
       /\ trace' = IF edge = "start" THEN [trace EXCEPT ![s].start = NextMoment(RunOf[s])]
                                     ELSE [trace EXCEPT ![s].end = NextMoment(RunOf[s])]
  ELSE UNCHANGED <<seq, trace>>

\* Time passes; only the first attempt's moments are compared.
Tick ==
  /\ attempt = 1 /\ now < MaxClock
  /\ now' = now + 1
  /\ UNCHANGED <<attempt, seq, exec, row, trace, plan>>

\* ctx.step: throwIfAborted, the cache, then step_started.
StartStep(s) ==
  /\ Called(s) /\ exec[RunOf[s]] # "cancelled"
  /\ exec' = [exec EXCEPT ![s] = IF s \in cached THEN "skipped" ELSE "running"]
  /\ Record(s, "start")
  /\ UNCHANGED <<attempt, now, row, plan>>

\* The step's callback returns or throws; once its run is cancelled, raceAbort
\* makes it fail wherever it is.
EndStep(s, outcome) ==
  /\ exec[s] = "running"
  /\ IF exec[RunOf[s]] = "cancelled" THEN outcome = "error" ELSE BodyEnds(s, outcome)
  /\ exec' = [exec EXCEPT ![s] = outcome]
  /\ Record(s, "end")
  /\ UNCHANGED <<attempt, now, row, plan>>

\* Mutant of ReturnsCopy: the short-circuit is missing.
ReturnsNoCopy(r) == FALSE

\* A nested run of a retry whose row is an "ok" copy returns its output.
ReturnsCopy(r) == r \in copies /\ row[r] = "ok"

StartRun(r) ==
  /\ Called(r) /\ exec[IF Encl[r] \in Steps THEN RunOf[Encl[r]] ELSE Encl[r]] # "cancelled"
  /\ IF ReturnsCopy(r)
     THEN exec' = [exec EXCEPT ![r] = "copied"] /\ row' = row
     ELSE exec' = [exec EXCEPT ![r] = "running"] /\ row' = [row EXCEPT ![r] = "running"]
  /\ seq' = IF attempt = 1 THEN [seq EXCEPT ![r] = 1] ELSE seq
  /\ UNCHANGED <<attempt, now, trace, plan>>

EndRun(r, outcome) ==
  /\ exec[r] = "running"
  /\ BodyEnds(r, outcome)
  /\ exec' = [exec EXCEPT ![r] = outcome]
  /\ row' = [row EXCEPT ![r] = outcome]
  /\ UNCHANGED <<attempt, now, seq, trace, plan>>

\* Cancelling a run aborts it and the runs below it; the steps they are in
\* fail after that, each with an end event of its own (EndStep).
Cancel(r) ==
  LET hit == {q \in Runs : exec[q] = "running" /\ r \in Chain[q]} IN
  /\ r \in Cancels /\ exec[r] = "running"
  /\ exec' = [x \in Sites |-> IF x \in hit THEN "cancelled" ELSE exec[x]]
  /\ row' = [q \in Runs |-> IF q \in hit THEN "cancelled" ELSE row[q]]
  /\ UNCHANGED <<attempt, now, seq, trace, plan>>

LiveRows == {r \in Runs : row[r] = "running"}

\* What was called after a step had ended: by the clock or, in one run, by the
\* order of its events.
CalledAfter(S, done) ==
  {s \in Steps : /\ done[s] # "none"
                 /\ \/ trace[s].start.at > EndOfTarget(S, done).at
                    \/ /\ RunOf[s] = RunOf[S]
                       /\ trace[s].start.seq > EndOfTarget(S, done).seq}

\* retryWorkflowRun: refused while a row of the forest is live; then the
\* plan, the seeded rows, and the root entered again.  The first attempt's
\* moments are not read again.
SeedRetry(S) ==
  LET again == ReExecSteps(S, exec)
      kept == {r \in Runs : exec[r] # "none" /\ StillValid(r, exec, again)} IN
  /\ attempt = 1 /\ LiveRows = {} /\ exec[S] # "none"
  /\ attempt' = 2 /\ target' = S /\ prior' = exec
  /\ reExec' = again
  /\ cached' = {s \in Steps \ again : exec[s] = "ok"}
  /\ copies' = {r \in kept : exec[r] = "ok"}
  /\ row' = [r \in Runs |-> IF r = Root THEN "running" ELSE SeededRow(r, exec, again)]
  /\ exec' = [x \in Sites |-> IF x = Root THEN "running" ELSE "none"]
  /\ later' = CalledAfter(S, exec)
  /\ now' = 0 /\ seq' = [r \in Runs |-> 0] /\ trace' = [s \in Steps |-> NoSpan]

Next ==
  \/ Tick
  \/ \E s \in Steps : \/ StartStep(s) \/ SeedRetry(s)
                      \/ \E o \in {"ok", "error"} : EndStep(s, o)
  \/ \E r \in Runs : \/ StartRun(r) \/ Cancel(r)
                     \/ \E o \in {"ok", "error"} : EndRun(r, o)

Spec == Init /\ [][Next]_vars

-----------------------------------------------------------------------------
\* Nothing that must be entered to reach the site was answered from a copy.
Reachable(x) == \A y \in Way[x] : exec[y] \notin {"skipped", "copied"}

\* Every run above the site's own was called inside a step or by the root.
SpawnedInSteps(s) ==
  \A r \in Chain[RunOf[s]] : SpawnStep(r) # Nowhere \/ ParentRun(r) \in {Root, Nowhere}

\* No spawning step above the site is inside another step.
SpawnedAtTop(s) ==
  \A r \in Chain[RunOf[s]] : SpawnStep(r) # Nowhere => PathAncestors[SpawnStep(r)] = {}

\* The step a retry starts from is really executed again: neither a step of
\* its run, nor a run above it, nor a step around a call of such a run, is
\* replaced by its stored output (computeReExecStepIds, the parent chain).
TargetIsReached ==
  attempt = 2 /\ SpawnedInSteps(target) => Reachable(target)

\* The same of every target, also one in a run that a nested run calls outside
\* its steps.
EveryTargetIsReached == attempt = 2 => Reachable(target)

\* What was called after the target had ended is never answered from the
\* cache: in the target's run by the order of its events, even within one
\* millisecond, and in other runs by the clock (isTimeSubsequent).
LaterWorkRunsAgain ==
  \A s \in later : exec[s] # "skipped" /\ exec[RunOf[s]] # "copied"

\* A step declared impure that ran before is executed again, provided its
\* runs were called in steps that are not inside other steps.
ImpureRunsAgain ==
  attempt = 2 =>
    \A s \in Impure :
      prior[s] # "none" /\ SpawnedInSteps(s) /\ SpawnedAtTop(s) => Reachable(s)

\* A row that replays a successful run keeps its outcome: no nested call of
\* the retry restarts it.
CopiesKeepOutcome == [][\A r \in copies : row'[r] = row[r]]_vars
=============================================================================
