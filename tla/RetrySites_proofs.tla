------------------------- MODULE RetrySites_proofs -------------------------
(***************************************************************************)
(* What the recursive functions of module RetryAttempts compute, for any   *)
(* program.  TreeAssumption is an induction over the sites.  From it the   *)
(* recursions are shown to have solutions, so that RunOf, PathAncestors,   *)
(* Chain and Way satisfy the equations that define them; from it again,    *)
(* what has to be entered to reach a step lies among the steps around it,  *)
(* its runs, and the calls of these runs.                                  *)
(***************************************************************************)
EXTENDS RetryAttempts, TLAPS

USE ProgramAssumption

-----------------------------------------------------------------------------
(* Recursion along a tree.                                                 *)

\* What holds on Base, and at x whenever it holds at up[x], holds on all of S.
Inducts(S, Base, up) ==
  \A A \in SUBSET S :
    Base \subseteq A /\ (\A x \in S \ Base : up[x] \in A => x \in A) => A = S

\* f is given by its values on Base and, above it, by its value at up[x].
Recurs(f, S, Base, up, b, u) ==
  /\ f = [x \in S |-> f[x]]
  /\ \A x \in S : f[x] = IF x \in Base THEN b[x] ELSE u[x] \cup f[up[x]]

\* Such a recursion has a solution.
LEMMA TreeRecursion ==
  ASSUME NEW S, NEW Base \in SUBSET S, NEW up, NEW b, NEW u,
         \A x \in S \ Base : up[x] \in S, Inducts(S, Base, up)
  PROVE  \E f : Recurs(f, S, Base, up, b, u)
<1> USE DEF Inducts
<1> DEFINE Solves(U, g) ==
      /\ U \subseteq S /\ \A x \in U \ Base : up[x] \in U
      /\ \A x \in U : g[x] = IF x \in Base THEN b[x] ELSE u[x] \cup g[up[x]]
           Solved(x) == \E U, g : x \in U /\ Solves(U, g)
           Value(x, v) == \E U, g : x \in U /\ Solves(U, g) /\ v = g[x]
           F == [x \in S |-> CHOOSE v : Value(x, v)]
<1>1. ASSUME NEW x \in S PROVE Solved(x)
  <2> DEFINE A == {y \in S : Solved(y)}
  <2>1. ASSUME NEW y \in Base PROVE Solved(y)
    <3> DEFINE g == [z \in {y} |-> b[z]]
    <3>1. g[y] = b[y]
      OBVIOUS
    <3>2. Solves({y}, g)
      <4> HIDE DEF g
      <4> QED BY <3>1
    <3> HIDE DEF Solves, g
    <3> QED BY <3>2
  <2>2. ASSUME NEW y \in S \ Base, Solved(up[y]) PROVE Solved(y)
    <3>1. PICK U, g : up[y] \in U /\ Solves(U, g)
      <4> HIDE DEF Solves
      <4> QED BY <2>2
    <3>2. CASE y \in U
      <4> HIDE DEF Solves
      <4> QED BY <3>1, <3>2
    <3>3. CASE y \notin U
      <4> DEFINE h == [z \in U \cup {y} |-> IF z = y THEN u[y] \cup g[up[y]] ELSE g[z]]
      <4>1. h[y] = u[y] \cup g[up[y]] /\ \A z \in U : h[z] = g[z] /\ z # y
        BY <3>3
      <4> HIDE DEF h
      <4>2. h[y] = u[y] \cup h[up[y]]
        <5> HIDE DEF Solves
        <5> QED BY <3>1, <4>1
      <4>3. U \cup {y} \subseteq S /\ \A z \in (U \cup {y}) \ Base : up[z] \in U \cup {y}
        BY <3>1
      <4>4. ASSUME NEW z \in U
            PROVE  h[z] = IF z \in Base THEN b[z] ELSE u[z] \cup h[up[z]]
        <5>1. g[z] = IF z \in Base THEN b[z] ELSE u[z] \cup g[up[z]]
          BY <3>1
        <5>2. z \notin Base => up[z] \in U
          BY <3>1
        <5> HIDE DEF Solves
        <5> QED BY <4>1, <5>1, <5>2
      <4>5. ASSUME NEW z \in U \cup {y}
            PROVE  h[z] = IF z \in Base THEN b[z] ELSE u[z] \cup h[up[z]]
        <5> HIDE DEF Solves
        <5>1. CASE z = y
          BY <4>2, <5>1
        <5>2. CASE z \in U
          BY <4>4, <5>2
        <5> QED BY <5>1, <5>2
      <4>6. Solves(U \cup {y}, h)
        BY <4>3, <4>5
      <4> HIDE DEF Solves
      <4> QED BY <4>6
    <3> QED BY <3>2, <3>3
  <2> HIDE DEF Solved
  <2>3. A \in SUBSET S /\ Base \subseteq A /\ \A y \in S \ Base : up[y] \in A => y \in A
    BY <2>1, <2>2
  <2>4. A = S
    <3> HIDE DEF A
    <3> QED BY <2>3
  <2> QED BY <2>4
<1>2. ASSUME NEW U, NEW g, NEW V, NEW h, Solves(U, g), Solves(V, h), NEW y \in U, y \in V
      PROVE  g[y] = h[y]
  <2> DEFINE A == {x \in S : x \in U /\ x \in V => g[x] = h[x]}
  <2>1. A \in SUBSET S /\ Base \subseteq A
    BY <1>2
  <2>2. ASSUME NEW x \in S \ Base, up[x] \in A PROVE x \in A
    <3> SUFFICES ASSUME x \in U, x \in V PROVE g[x] = h[x]
      OBVIOUS
    <3>1. up[x] \in U /\ up[x] \in V
      BY <1>2
    <3>2. g[x] = u[x] \cup g[up[x]] /\ h[x] = u[x] \cup h[up[x]]
      BY <1>2
    <3>3. g[up[x]] = h[up[x]]
      BY <2>2, <3>1
    <3> QED BY <3>2, <3>3
  <2>3. A = S
    <3> HIDE DEF A
    <3> QED BY <2>1, <2>2
  <2> QED BY <1>2, <2>3
<1>3. ASSUME NEW U, NEW g, Solves(U, g) PROVE U \subseteq S /\ \A x \in U : F[x] = g[x]
  <2>1. U \subseteq S
    BY <1>3
  <2> HIDE DEF Solves
  <2>2. ASSUME NEW x \in U PROVE F[x] = g[x]
    <3>1. \A v : Value(x, v) <=> v = g[x]
      BY <1>2, <1>3, <2>2
    <3> HIDE DEF Value
    <3>2. Value(x, CHOOSE v : Value(x, v))
      BY <3>1
    <3>3. F[x] = CHOOSE v : Value(x, v)
      BY <2>1
    <3> HIDE DEF F
    <3> QED BY <3>1, <3>2, <3>3
  <2> QED BY <2>1, <2>2
<1>4. ASSUME NEW x \in S PROVE F[x] = IF x \in Base THEN b[x] ELSE u[x] \cup F[up[x]]
  <2> HIDE DEF F
  <2>1. PICK U, g : x \in U /\ Solves(U, g)
    <3> HIDE DEF Solves
    <3> QED BY <1>1
  <2>2. g[x] = IF x \in Base THEN b[x] ELSE u[x] \cup g[up[x]]
    BY <2>1
  <2>3. x \notin Base => up[x] \in U
    BY <2>1
  <2> HIDE DEF Solves
  <2>4. F[x] = g[x] /\ (x \notin Base => F[up[x]] = g[up[x]])
    BY <1>3, <2>1, <2>3
  <2> QED BY <2>2, <2>4
<1> HIDE DEF Value
<1>5. F = [x \in S |-> F[x]]
  OBVIOUS
<1> HIDE DEF F
<1> QED BY <1>4, <1>5 DEF Recurs

-----------------------------------------------------------------------------
(* Going up from a step.                                                   *)

\* The steps at the top of their run's body.
TopSteps == {s \in Steps : Encl[s] \in Runs}

LEMMA EnclTyped ==
  /\ \A s \in Steps \ TopSteps : Encl[s] \in Steps
  /\ \A x \in Sites \ {Root} : Encl[x] \in Sites
BY DEF Sites, TopSteps

LEMMA SiteInduction == Inducts(Sites, {Root}, Encl)
BY TreeAssumption DEF Inducts, Sites

LEMMA StepInduction == Inducts(Steps, TopSteps, Encl)
<1> SUFFICES ASSUME NEW A \in SUBSET Steps, TopSteps \subseteq A,
                    \A s \in Steps \ TopSteps : Encl[s] \in A => s \in A
             PROVE  A = Steps
  BY DEF Inducts
<1>1. \A x \in Sites \ {Root} : Encl[x] \in A \cup Runs => x \in A \cup Runs
  BY DEF Sites, TopSteps
<1>2. A \cup Runs \in SUBSET Sites /\ Root \in A \cup Runs
  BY DEF Sites
<1>3. A \cup Runs = Sites
  BY <1>1, <1>2, TreeAssumption
<1> QED BY <1>3 DEF Sites

LEMMA RunOfUnfolds ==
  \A s \in Steps : RunOf[s] = IF Encl[s] \in Runs THEN Encl[s] ELSE RunOf[Encl[s]]
<1> DEFINE none == [s \in Steps |-> {}]
<1>1. TopSteps \in SUBSET Steps
  BY DEF TopSteps
<1>2. \E f : Recurs(f, Steps, TopSteps, Encl, Encl, none)
  <2> HIDE DEF none
  <2> QED BY <1>1, EnclTyped, StepInduction, TreeRecursion
<1>3. \E f : f = [s \in Steps |-> IF Encl[s] \in Runs THEN Encl[s] ELSE f[Encl[s]]]
  <2>1. PICK f : Recurs(f, Steps, TopSteps, Encl, Encl, none)
    BY <1>2
  <2>2. ASSUME NEW s \in Steps
        PROVE  f[s] = IF Encl[s] \in Runs THEN Encl[s] ELSE f[Encl[s]]
    <3>1. f[s] = IF s \in TopSteps THEN Encl[s] ELSE none[s] \cup f[Encl[s]]
      BY <2>1 DEF Recurs
    <3>2. none[s] = {}
      OBVIOUS
    <3> QED BY <3>1, <3>2 DEF TopSteps
  <2>3. f = [s \in Steps |-> f[s]]
    BY <2>1 DEF Recurs
  <2>4. f = [s \in Steps |-> IF Encl[s] \in Runs THEN Encl[s] ELSE f[Encl[s]]]
    BY <2>2, <2>3
  <2> QED BY <2>4
<1>4. RunOf = [s \in Steps |-> IF Encl[s] \in Runs THEN Encl[s] ELSE RunOf[Encl[s]]]
  BY <1>3 DEF RunOf
<1> QED BY <1>4

LEMMA PathAncestorsUnfolds ==
  \A s \in Steps : PathAncestors[s] = IF Encl[s] \in Runs THEN {}
                                      ELSE {Encl[s]} \cup PathAncestors[Encl[s]]
<1> DEFINE none == [s \in Steps |-> {}]
           above == [s \in Steps |-> {Encl[s]}]
<1>1. TopSteps \in SUBSET Steps
  BY DEF TopSteps
<1>2. \E f : Recurs(f, Steps, TopSteps, Encl, none, above)
  <2> HIDE DEF none, above
  <2> QED BY <1>1, EnclTyped, StepInduction, TreeRecursion
<1>3. \E f : f = [s \in Steps |-> IF Encl[s] \in Runs THEN {} ELSE {Encl[s]} \cup f[Encl[s]]]
  <2>1. PICK f : Recurs(f, Steps, TopSteps, Encl, none, above)
    BY <1>2
  <2>2. ASSUME NEW s \in Steps
        PROVE  f[s] = IF Encl[s] \in Runs THEN {} ELSE {Encl[s]} \cup f[Encl[s]]
    <3>1. f[s] = IF s \in TopSteps THEN none[s] ELSE above[s] \cup f[Encl[s]]
      BY <2>1 DEF Recurs
    <3>2. none[s] = {} /\ above[s] = {Encl[s]}
      OBVIOUS
    <3> QED BY <3>1, <3>2 DEF TopSteps
  <2>3. f = [s \in Steps |-> f[s]]
    BY <2>1 DEF Recurs
  <2>4. f = [s \in Steps |-> IF Encl[s] \in Runs THEN {} ELSE {Encl[s]} \cup f[Encl[s]]]
    BY <2>2, <2>3
  <2> QED BY <2>4
<1>4. PathAncestors = [s \in Steps |-> IF Encl[s] \in Runs THEN {}
                                       ELSE {Encl[s]} \cup PathAncestors[Encl[s]]]
  BY <1>3 DEF PathAncestors
<1> QED BY <1>4

\* A step belongs to a run, and so do the steps around it: to the same one.
LEMMA StepsHaveARun ==
  \A s \in Steps : /\ RunOf[s] \in Runs
                   /\ PathAncestors[s] \subseteq Steps
                   /\ \A p \in PathAncestors[s] : RunOf[p] = RunOf[s]
<1> DEFINE P(s) == /\ RunOf[s] \in Runs
                   /\ PathAncestors[s] \subseteq Steps
                   /\ \A p \in PathAncestors[s] : RunOf[p] = RunOf[s]
           A == {s \in Steps : P(s)}
<1>1. ASSUME NEW s \in TopSteps PROVE s \in A
  BY RunOfUnfolds, PathAncestorsUnfolds DEF TopSteps
<1>2. ASSUME NEW s \in Steps \ TopSteps, Encl[s] \in A PROVE s \in A
  <2>1. /\ Encl[s] \in Steps /\ P(Encl[s])
        /\ RunOf[s] = RunOf[Encl[s]] /\ PathAncestors[s] = {Encl[s]} \cup PathAncestors[Encl[s]]
    BY <1>2, RunOfUnfolds, PathAncestorsUnfolds DEF TopSteps
  <2> QED BY <2>1
<1>3. A = Steps
  <2>1. A \in SUBSET Steps
    OBVIOUS
  <2> HIDE DEF A
  <2> QED BY <1>1, <1>2, <2>1, StepInduction DEF Inducts
<1> QED BY <1>3

-----------------------------------------------------------------------------
(* Going up from a run.                                                    *)

LEMMA ParentRunTyped == \A r \in Runs \ {Root} : ParentRun(r) \in Runs
BY StepsHaveARun, EnclTyped DEF ParentRun, Sites

Parents == [r \in Runs |-> ParentRun(r)]

LEMMA RunInduction == Inducts(Runs, {Root}, Parents)
<1> SUFFICES ASSUME NEW A \in SUBSET Runs, Root \in A,
                    \A r \in Runs \ {Root} : ParentRun(r) \in A => r \in A
             PROVE  A = Runs
  BY DEF Inducts, Parents
<1> DEFINE B == A \cup {s \in Steps : RunOf[s] \in A}
<1>1. ASSUME NEW x \in Sites \ {Root}, Encl[x] \in B PROVE x \in B
  <2>1. CASE x \in Runs
    <3>1. ParentRun(x) \in A
      BY <1>1, <2>1, StepsHaveARun DEF ParentRun
    <3> QED BY <2>1, <3>1
  <2>2. CASE x \in Steps
    <3>1. RunOf[x] \in A
      BY <1>1, <2>2, RunOfUnfolds
    <3> QED BY <2>2, <3>1
  <2> QED BY <2>1, <2>2 DEF Sites
<1>2. B \in SUBSET Sites /\ Root \in B
  BY DEF Sites
<1>3. B = Sites
  <2> HIDE DEF B
  <2> QED BY <1>1, <1>2, TreeAssumption
<1> QED BY <1>3 DEF Sites

LEMMA ChainUnfolds ==
  \A r \in Runs : Chain[r] = IF r = Root THEN {r} ELSE {r} \cup Chain[ParentRun(r)]
<1> DEFINE self == [r \in Runs |-> {r}]
<1>1. \A r \in Runs \ {Root} : Parents[r] \in Runs
  BY ParentRunTyped DEF Parents
<1>2. \E f : Recurs(f, Runs, {Root}, Parents, self, self)
  <2>1. {Root} \in SUBSET Runs
    OBVIOUS
  <2> HIDE DEF self
  <2> QED BY <1>1, <2>1, RunInduction, TreeRecursion
<1>3. \E f : f = [r \in Runs |-> IF r = Root THEN {r} ELSE {r} \cup f[ParentRun(r)]]
  <2>1. PICK f : Recurs(f, Runs, {Root}, Parents, self, self)
    BY <1>2
  <2>2. ASSUME NEW r \in Runs
        PROVE  f[r] = IF r = Root THEN {r} ELSE {r} \cup f[ParentRun(r)]
    <3>1. f[r] = IF r \in {Root} THEN self[r] ELSE self[r] \cup f[Parents[r]]
      BY <2>1 DEF Recurs
    <3>2. self[r] = {r} /\ Parents[r] = ParentRun(r)
      BY DEF Parents
    <3> QED BY <3>1, <3>2
  <2>3. f = [r \in Runs |-> f[r]]
    BY <2>1 DEF Recurs
  <2>4. f = [r \in Runs |-> IF r = Root THEN {r} ELSE {r} \cup f[ParentRun(r)]]
    BY <2>2, <2>3
  <2> QED BY <2>4
<1>4. Chain = [r \in Runs |-> IF r = Root THEN {r} ELSE {r} \cup Chain[ParentRun(r)]]
  BY <1>3 DEF Chain
<1> QED BY <1>4

\* Above a run are runs; each but the first is the parent of one of them.
LEMMA ChainOfParents ==
  \A r \in Runs : /\ Chain[r] \subseteq Runs /\ r \in Chain[r]
                  /\ \A q \in Chain[r] \ {r} : \E p \in Chain[r] \ {Root} : q = ParentRun(p)
<1> DEFINE P(r) == /\ Chain[r] \subseteq Runs /\ r \in Chain[r]
                   /\ \A q \in Chain[r] \ {r} : \E p \in Chain[r] \ {Root} : q = ParentRun(p)
           A == {r \in Runs : P(r)}
<1>1. P(Root)
  BY ChainUnfolds
<1>2. ASSUME NEW r \in Runs \ {Root}, P(ParentRun(r)) PROVE P(r)
  <2>1. Chain[r] = {r} \cup Chain[ParentRun(r)]
    BY ChainUnfolds
  <2>2. ASSUME NEW q \in Chain[r] \ {r} PROVE \E p \in Chain[r] \ {Root} : q = ParentRun(p)
    <3>1. CASE q = ParentRun(r)
      BY <2>1, <3>1
    <3>2. CASE q \in Chain[ParentRun(r)] \ {ParentRun(r)}
      BY <1>2, <2>1, <3>2
    <3> QED BY <2>1, <2>2, <3>1, <3>2
  <2> QED BY <1>2, <2>1, <2>2
<1>3. A = Runs
  <2>1. A \in SUBSET Runs /\ Root \in A
    BY <1>1
  <2>2. \A r \in Runs \ {Root} : Parents[r] \in A => r \in A
    <3> HIDE DEF P
    <3> QED BY <1>2 DEF Parents
  <2> HIDE DEF A
  <2> QED BY <2>1, <2>2, RunInduction DEF Inducts
<1> QED BY <1>3

-----------------------------------------------------------------------------
(* The way to a site.                                                      *)

LEMMA WayUnfolds ==
  \A x \in Sites : Way[x] = IF x = Root THEN {x} ELSE {x} \cup Way[Encl[x]]
<1> DEFINE self == [x \in Sites |-> {x}]
<1>1. \E f : Recurs(f, Sites, {Root}, Encl, self, self)
  <2>1. {Root} \in SUBSET Sites
    BY DEF Sites
  <2> HIDE DEF self
  <2> QED BY <2>1, EnclTyped, SiteInduction, TreeRecursion
<1>2. \E f : f = [x \in Sites |-> IF x = Root THEN {x} ELSE {x} \cup f[Encl[x]]]
  <2>1. PICK f : Recurs(f, Sites, {Root}, Encl, self, self)
    BY <1>1
  <2>2. ASSUME NEW x \in Sites
        PROVE  f[x] = IF x = Root THEN {x} ELSE {x} \cup f[Encl[x]]
    <3>1. f[x] = IF x \in {Root} THEN self[x] ELSE self[x] \cup f[Encl[x]]
      BY <2>1 DEF Recurs
    <3>2. self[x] = {x}
      OBVIOUS
    <3> QED BY <3>1, <3>2
  <2>3. f = [x \in Sites |-> f[x]]
    BY <2>1 DEF Recurs
  <2>4. f = [x \in Sites |-> IF x = Root THEN {x} ELSE {x} \cup f[Encl[x]]]
    BY <2>2, <2>3
  <2> QED BY <2>4
<1>3. Way = [x \in Sites |-> IF x = Root THEN {x} ELSE {x} \cup Way[Encl[x]]]
  BY <1>2 DEF Way
<1> QED BY <1>3

\* The spawning step of a run of the chain above r, or a step around one.
AroundCalls(r) ==
  {x \in Steps : \E q \in Chain[r] : /\ SpawnStep(q) \in Steps
                                     /\ x = SpawnStep(q) \/ x \in PathAncestors[SpawnStep(q)]}

\* The way to a run leads through the runs above it and the steps around
\* their calls; the way to a step, through the steps around it besides.
THEOREM WayWithinMarks ==
  /\ \A r \in Runs : Way[r] \subseteq Chain[r] \cup AroundCalls(r)
  /\ \A s \in Steps : Way[s] \subseteq {s} \cup PathAncestors[s]
                                       \cup Chain[RunOf[s]] \cup AroundCalls(RunOf[s])
<1> DEFINE P(x) ==
      IF x \in Runs THEN Way[x] \subseteq Chain[x] \cup AroundCalls(x)
      ELSE Way[x] \subseteq {x} \cup PathAncestors[x] \cup Chain[RunOf[x]]
                             \cup AroundCalls(RunOf[x])
           A == {x \in Sites : P(x)}
<1>1. P(Root)
  BY WayUnfolds, ChainUnfolds DEF Sites
<1>2. ASSUME NEW x \in Sites \ {Root}, P(Encl[x]) PROVE P(x)
  <2>1. Way[x] = {x} \cup Way[Encl[x]]
    BY WayUnfolds
  <2>2. CASE x \in Runs
    <3>1. ParentRun(x) \in Runs /\ Chain[x] = {x} \cup Chain[ParentRun(x)]
      BY <2>2, ParentRunTyped, ChainUnfolds
    <3>2. AroundCalls(ParentRun(x)) \subseteq AroundCalls(x)
      BY <3>1 DEF AroundCalls
    <3>3. CASE Encl[x] \in Runs
      <4>1. ParentRun(x) = Encl[x]
        BY <3>3 DEF ParentRun
      <4> QED BY <1>2, <2>1, <2>2, <3>1, <3>2, <3>3, <4>1
    <3>4. CASE Encl[x] \in Steps
      <4>1. ParentRun(x) = RunOf[Encl[x]] /\ SpawnStep(x) = Encl[x] /\ Encl[x] \notin Runs
        BY <3>4 DEF ParentRun, SpawnStep
      <4>2. {Encl[x]} \cup PathAncestors[Encl[x]] \subseteq AroundCalls(x)
        BY <3>1, <3>4, <4>1, StepsHaveARun DEF AroundCalls
      <4> QED BY <1>2, <2>1, <2>2, <3>1, <3>2, <4>1, <4>2
    <3> QED BY <3>3, <3>4, EnclTyped DEF Sites
  <2>3. CASE x \in Steps
    <3>1. CASE Encl[x] \in Runs
      <4>1. RunOf[x] = Encl[x] /\ x \notin Runs
        BY <2>3, <3>1, RunOfUnfolds
      <4> QED BY <1>2, <2>1, <3>1, <4>1
    <3>2. CASE Encl[x] \in Steps
      <4>1. /\ RunOf[x] = RunOf[Encl[x]] /\ x \notin Runs /\ Encl[x] \notin Runs
            /\ PathAncestors[x] = {Encl[x]} \cup PathAncestors[Encl[x]]
        BY <2>3, <3>2, RunOfUnfolds, PathAncestorsUnfolds
      <4> QED BY <1>2, <2>1, <4>1
    <3> QED BY <3>1, <3>2, EnclTyped DEF Sites
  <2> QED BY <2>2, <2>3 DEF Sites
<1>3. A = Sites
  <2>1. A \in SUBSET Sites /\ Root \in A
    BY <1>1 DEF Sites
  <2>2. \A x \in Sites \ {Root} : Encl[x] \in A => x \in A
    <3> HIDE DEF P
    <3> QED BY <1>2
  <2> HIDE DEF A
  <2> QED BY <2>1, <2>2, TreeAssumption
<1> QED BY <1>3 DEF Sites

\* A set of sites closed under going up holds the way to each of them, and the
\* steps and runs around it.
LEMMA UpwardClosed ==
  ASSUME NEW U \in SUBSET Sites, \A x \in U \ {Root} : Encl[x] \in U
  PROVE  /\ \A x \in U : Way[x] \subseteq U
         /\ \A s \in U \cap Steps : RunOf[s] \in U /\ PathAncestors[s] \subseteq U
         /\ \A r \in U \cap Runs : Chain[r] \subseteq U
<1>1. \A x \in U : Way[x] \subseteq U
  <2> DEFINE A == {x \in Sites : x \in U => Way[x] \subseteq U}
  <2>1. A \in SUBSET Sites /\ Root \in A
    <3>1. Way[Root] = {Root} /\ Root \in Sites
      BY WayUnfolds DEF Sites
    <3> QED BY <3>1
  <2>2. \A x \in Sites \ {Root} : Encl[x] \in A => x \in A
    BY WayUnfolds
  <2>3. A = Sites
    <3> HIDE DEF A
    <3> QED BY <2>1, <2>2, TreeAssumption
  <2> QED BY <2>3
<1>2. \A s \in U \cap Steps : RunOf[s] \in U /\ PathAncestors[s] \subseteq U
  <2> DEFINE A == {s \in Steps : s \in U => RunOf[s] \in U /\ PathAncestors[s] \subseteq U}
  <2>1. \A s \in Steps \cap U : Encl[s] \in U
    OBVIOUS
  <2>2. A \in SUBSET Steps /\ TopSteps \subseteq A
    BY <2>1, RunOfUnfolds, PathAncestorsUnfolds DEF TopSteps
  <2>3. ASSUME NEW s \in Steps \ TopSteps, Encl[s] \in A PROVE s \in A
    <3>1. RunOf[s] = RunOf[Encl[s]] /\ PathAncestors[s] = {Encl[s]} \cup PathAncestors[Encl[s]]
      BY <2>3, RunOfUnfolds, PathAncestorsUnfolds DEF TopSteps
    <3> QED BY <2>1, <2>3, <3>1
  <2>4. A = Steps
    <3> HIDE DEF A
    <3> QED BY <2>2, <2>3, StepInduction DEF Inducts
  <2> QED BY <2>4
<1>3. \A r \in U \cap Runs : Chain[r] \subseteq U
  <2> DEFINE A == {r \in Runs : r \in U => Chain[r] \subseteq U}
  <2>1. A \in SUBSET Runs /\ Root \in A
    <3>1. Chain[Root] = {Root}
      BY ChainUnfolds
    <3> QED BY <3>1
  <2>2. \A r \in Runs \ {Root} : Parents[r] \in A => r \in A
    <3> SUFFICES ASSUME NEW r \in Runs \ {Root}, Parents[r] \in A, r \in U
                 PROVE  Chain[r] \subseteq U
      OBVIOUS
    <3>1. ParentRun(r) \in U
      BY <1>2, EnclTyped DEF ParentRun, Sites
    <3> QED BY <3>1, ChainUnfolds DEF Parents
  <2>3. A = Runs
    <3> HIDE DEF A
    <3> QED BY <2>1, <2>2, RunInduction DEF Inducts
  <2> QED BY <2>3
<1> QED BY <1>1, <1>2, <1>3
=============================================================================
