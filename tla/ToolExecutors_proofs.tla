------------------------ MODULE ToolExecutors_proofs ------------------------
(***************************************************************************)
(* Proofs about module ToolExecutors, for any providers, commands and      *)
(* bounds.                                                                 *)
(***************************************************************************)
EXTENDS ToolExecutors, FiniteSetTheorems, TLAPS

USE ExecutorsAssumption

\* Executors are numbered as they are created; nobody is told of one that was
\* not, and the pool never goes back to one that was disposed of.
Numbered ==
  /\ pooled # NoExecutor => pooled \in 1..created /\ pooled \notin dropped
  /\ \A e \in dropped : e <= created

\* The tools a provider handed out are the pool's, or those of an executor
\* that was disposed of.
ToolsKnown ==
  \A p \in Providers : tools[p] \in {NoExecutor, pooled} \cup dropped

\* Who is being disposed of was disposed of; a command that is under way has
\* an executor.
Books ==
  /\ disposing \subseteq dropped
  /\ \A c \in Commands : cmd[c] # "idle" => on[c] \in Executors

IInv ==
  /\ TypeOK /\ CountIsHolders /\ HoldersShareLiveExecutor /\ NoStraySupervisor
  /\ Numbered /\ ToolsKnown /\ Books

LEMMA InitInv == Init => IInv
  BY FS_EmptySet DEF Init, IInv, TypeOK, CountIsHolders, HoldersShareLiveExecutor,
     NoStraySupervisor, Numbered, ToolsKnown, Books, ClientStates, CommandStates

\* One provider more or less among the holders.
LEMMA HoldersChange ==
  ASSUME TypeOK, NEW p \in Providers
  PROVE  /\ IsFiniteSet(held) /\ Cardinality(held) \in Nat
         /\ p \notin held => Cardinality(held \cup {p}) = Cardinality(held) + 1
         /\ p \in held => Cardinality(held \ {p}) = Cardinality(held) - 1
         /\ p \in held => Cardinality(held) # 0
         /\ p \in held /\ Cardinality(held) = 1 => held \ {p} = {}
         /\ p \in held /\ Cardinality(held) # 1 => held \ {p} # {}
<1>1. IsFiniteSet(held)
  BY FS_Subset DEF TypeOK
<1>2. IsFiniteSet(held \ {p}) /\ Cardinality(held) \in Nat /\ Cardinality(held \ {p}) \in Nat
  BY <1>1, FS_RemoveElement, FS_CardinalityType
<1>3. p \in held => Cardinality(held \ {p}) = Cardinality(held) - 1
  BY <1>1, FS_RemoveElement
<1>4. p \notin held => Cardinality(held \cup {p}) = Cardinality(held) + 1
  BY <1>1, FS_AddElement
<1>5. Cardinality(held \ {p}) = 0 <=> held \ {p} = {}
  BY <1>2, FS_EmptySet
<1> QED
  BY <1>1, <1>2, <1>3, <1>4, <1>5

LEMMA StepInv == IInv /\ [Next]_vars => IInv'
<1> SUFFICES ASSUME IInv, [Next]_vars PROVE IInv'
  OBVIOUS
<1> USE DEF IInv, pool, executor, command, history
<1>1. ASSUME NEW p \in Providers, AcquireShared(p) PROVE IInv'
  <2> USE <1>1 DEF AcquireShared, Holds
  <2>0. refCount \in Nat /\ refCount = Cardinality(held)
    BY DEF TypeOK, CountIsHolders
  <2>1. Cardinality(held \cup {p}) = refCount + Holds(p)
    <3>1. CASE p \in held
      <4>1. held \cup {p} = held
        BY <3>1
      <4>2. refCount + Holds(p) = refCount
        BY <3>1, <2>0
      <4> QED
        BY <4>1, <4>2, <2>0, Zenon
    <3>2. CASE p \notin held
      BY <3>2, <2>0, HoldersChange
    <3> QED
      BY <3>1, <3>2
  <2>2. TypeOK'
    BY <2>0 DEF TypeOK
  <2>3. CountIsHolders'
    BY <2>0, <2>1 DEF CountIsHolders
  <2>4. ToolsKnown' /\ HoldersShareLiveExecutor'
    BY DEF TypeOK, HoldersShareLiveExecutor, ToolsKnown, Numbered
  <2> QED
    BY <2>2, <2>3, <2>4 DEF NoStraySupervisor, Numbered, Books
<1>2. ASSUME NEW p \in Providers, AcquireNew(p) PROVE IInv'
  <2> USE <1>2 DEF AcquireNew, Executors
  <2>1. TypeOK'
    BY DEF TypeOK
  <2>2. held = {} /\ held' = {p}
    BY DEF CountIsHolders
  <2>3. CountIsHolders'
    <3>1. Cardinality({p}) = 1
      BY FS_Singleton
    <3> QED
      BY <2>2, <3>1 DEF CountIsHolders, TypeOK
  <2>4. pooled' \notin dropped'
    BY DEF Numbered, TypeOK
  <2>5. Numbered' /\ Books' /\ ToolsKnown'
    BY DEF Numbered, Books, ToolsKnown, TypeOK
  <2>6. HoldersShareLiveExecutor'
    BY <2>2, <2>4 DEF HoldersShareLiveExecutor, TypeOK
  <2>7. NoStraySupervisor'
    BY DEF NoStraySupervisor, TypeOK
  <2> QED
    BY <2>1, <2>3, <2>5, <2>6, <2>7
<1>3. ASSUME NEW p \in Providers, DisposeProvider(p) PROVE IInv'
  <2> USE <1>3 DEF DisposeProvider, StillHolding, Drops, Disposed
  <2>0. pooled \in Executors
    BY DEF CountIsHolders, TypeOK
  <2>h. /\ refCount \in Nat /\ refCount # 0 /\ refCount = Cardinality(held)
        /\ Cardinality(held \ {p}) = refCount - 1
        /\ refCount = 1 <=> held \ {p} = {}
    BY HoldersChange DEF CountIsHolders
  <2>1. TypeOK'
    BY <2>0, <2>h DEF TypeOK, InFlight
  <2>2. CountIsHolders'
    BY <2>0, <2>h DEF CountIsHolders, TypeOK
  <2>3. HoldersShareLiveExecutor'
    BY <2>h DEF HoldersShareLiveExecutor
  <2>4. Numbered'
    <3>1. created' = created /\ dropped' \subseteq dropped \cup {pooled}
      OBVIOUS
    <3>2. pooled' # NoExecutor => pooled' = pooled /\ dropped' = dropped
      OBVIOUS
    <3>3. pooled \in 1..created /\ created \in Nat
      BY <2>0 DEF Numbered, TypeOK
    <3> QED
      BY <3>1, <3>2, <3>3 DEF Numbered
  <2>5. Books'
    BY <2>0 DEF Books
  <2>6. ToolsKnown'
    BY <2>0 DEF ToolsKnown
  <2> QED
    BY <2>1, <2>2, <2>3, <2>4, <2>5, <2>6 DEF NoStraySupervisor
<1>4. ASSUME NEW c \in Commands, Run(c) PROVE IInv'
  <2> DEFINE e == tools[ProviderOf[c]]
  <2>1. e \in Executors /\ (e = pooled \/ e \in dropped)
    BY <1>4 DEF Run, TypeOK, ToolsKnown
  <2>2. TypeOK'
    BY <1>4, <2>1 DEF Run, TypeOK, ClientStates, CommandStates
  <2>3. NoStraySupervisor'
    BY <1>4, <2>1 DEF Run, NoStraySupervisor, TypeOK
  <2>4. Books'
    BY <1>4, <2>1 DEF Run, Books, TypeOK
  <2> QED
    BY <1>4, <2>2, <2>3, <2>4
    DEF Run, CountIsHolders, HoldersShareLiveExecutor, Numbered, ToolsKnown
<1>5. ASSUME NEW c \in Commands, Send(c) \/ CommandDone(c) PROVE IInv'
  <2>1. TypeOK'
    BY <1>5 DEF Send, CommandDone, TypeOK, CommandStates
  <2>2. Books'
    BY <1>5 DEF Send, CommandDone, Books, TypeOK
  <2> QED
    BY <1>5, <2>1, <2>2 DEF Send, CommandDone,
       CountIsHolders, HoldersShareLiveExecutor, NoStraySupervisor, Numbered, ToolsKnown
<1>6. ASSUME NEW e \in Executors, SupervisorReady(e) PROVE IInv'
  BY <1>6 DEF SupervisorReady, TypeOK, ClientStates, CommandStates, Books,
     CountIsHolders, HoldersShareLiveExecutor, NoStraySupervisor, Numbered, ToolsKnown
<1>7. ASSUME NEW e \in Executors,
             StartFails(e) \/ SupervisorDies(e) \/ StopSupervisor(e) \/ SupervisorGone(e)
      PROVE IInv'
  <2> USE <1>7 DEF StartFails, SupervisorDies, StopSupervisor, SupervisorGone, Fault
  <2>1. TypeOK'
    BY DEF TypeOK, ClientStates, CommandStates
  <2>2. Books'
    BY DEF Books, TypeOK, Waits, FailsPending
  <2>3. NoStraySupervisor'
    BY DEF NoStraySupervisor, TypeOK
  <2> QED
    BY <2>1, <2>2, <2>3 DEF CountIsHolders, HoldersShareLiveExecutor, Numbered, ToolsKnown
<1>8. CASE UNCHANGED vars
  BY <1>8 DEF vars, TypeOK, Books,
     CountIsHolders, HoldersShareLiveExecutor, NoStraySupervisor, Numbered, ToolsKnown
<1> QED
  BY <1>1, <1>2, <1>3, <1>4, <1>5, <1>6, <1>7, <1>8 DEF Next

\* Every variable always has its type.
THEOREM ExecutorsTyped == Spec => []TypeOK
<1>1. IInv => TypeOK
  BY DEF IInv
<1> QED
  BY <1>1, InitInv, StepInv, PTL DEF Spec

\* The pool counts its holders: no release comes too early, none is missing.
THEOREM PoolCounts == Spec => []CountIsHolders
<1>1. IInv => CountIsHolders
  BY DEF IInv
<1> QED
  BY <1>1, InitInv, StepInv, PTL DEF Spec

\* A provider that holds the key has the tools of the pool's executor, which
\* nobody has disposed of.
THEOREM HoldersAreServed == Spec => []HoldersShareLiveExecutor
<1>1. IInv => HoldersShareLiveExecutor
  BY DEF IInv
<1> QED
  BY <1>1, InitInv, StepInv, PTL DEF Spec

\* No supervisor is left behind, except by a command run after the dispose of
\* its executor.
THEOREM SupervisorsAreOwned == Spec => []NoStraySupervisor
<1>1. IInv => NoStraySupervisor
  BY DEF IInv
<1> QED
  BY <1>1, InitInv, StepInv, PTL DEF Spec

(***************************************************************************)
(* Who settles a command.                                                  *)
(***************************************************************************)
\* A supervisor that was told to shut down belongs to a dispose under way.
Closing ==
  \A e \in Executors : client[e] = "closing" => e \in disposing

\* As long as nobody disposes of its executor, a command that waits has a
\* supervisor that starts, runs or has exited, one that runs has a supervisor
\* that runs; a command is lost only with its executor.
CommandsAreServed ==
  \A c \in Commands :
    /\ cmd[c] \in {"waiting", "running"} /\ c \notin cut => on[c] \notin disposing
    /\ cmd[c] = "waiting" /\ c \notin cut => client[on[c]] \in {"starting", "ready", "exited"}
    /\ cmd[c] = "running" /\ c \notin cut => client[on[c]] = "ready"
    /\ cmd[c] = "lost" => c \in cut

LEMMA StepServed ==
  IInv /\ Closing /\ CommandsAreServed /\ [Next]_vars => Closing' /\ CommandsAreServed'
<1> SUFFICES ASSUME IInv, Closing, CommandsAreServed, [Next]_vars
             PROVE  Closing' /\ CommandsAreServed'
  OBVIOUS
<1> USE DEF pool, executor, command, history
<1>0. /\ client \in [Executors -> ClientStates] /\ cmd \in [Commands -> CommandStates]
      /\ on \in [Commands -> Executors \cup {NoExecutor}]
      /\ \A c \in Commands : cmd[c] # "idle" => on[c] \in Executors
  BY DEF IInv, TypeOK, Books
<1>1. ASSUME NEW p \in Providers, AcquireShared(p) \/ AcquireNew(p)
      PROVE  Closing' /\ CommandsAreServed'
  BY <1>1 DEF AcquireShared, AcquireNew, Closing, CommandsAreServed
<1>2. ASSUME NEW p \in Providers, DisposeProvider(p) PROVE Closing' /\ CommandsAreServed'
  <2>1. /\ UNCHANGED <<client, cmd, on>> /\ disposing \subseteq disposing' /\ cut \subseteq cut'
        /\ \A c \in Commands : cmd[c] \in {"waiting", "running"} /\ on[c] \in disposing' \ disposing
                               => c \in cut'
    BY <1>2 DEF DisposeProvider, Disposed, InFlight
  <2> QED
    BY <1>0, <2>1 DEF Closing, CommandsAreServed
<1>3. ASSUME NEW c \in Commands, Run(c) PROVE Closing' /\ CommandsAreServed'
  <2> DEFINE e == tools[ProviderOf[c]]
  <2>1. /\ e \in Executors /\ cmd[c] = "idle"
        /\ cmd' = [cmd EXCEPT ![c] = "waiting"] /\ on' = [on EXCEPT ![c] = e]
        /\ client' = IF client[e] = "none" THEN [client EXCEPT ![e] = "starting"] ELSE client
        /\ cut' = IF e \in disposing THEN cut \cup {c} ELSE cut
        /\ UNCHANGED disposing
    BY <1>3 DEF Run, IInv, TypeOK
  <2> HIDE DEF e
  <2>2. Closing'
    BY <1>0, <2>1 DEF Closing
  <2>3. ASSUME NEW d \in Commands, d # c
        PROVE  /\ cmd'[d] = cmd[d] /\ on'[d] = on[d] /\ (d \in cut' <=> d \in cut)
               /\ cmd[d] # "idle" => client'[on[d]] = client[on[d]] \/ client[on[d]] = "none"
    BY <1>0, <2>1, <2>3
  <2>4. e \notin disposing => client'[e] \in {"starting", "ready", "exited"}
    BY <1>0, <2>1 DEF Closing, ClientStates
  <2>5. cmd'[c] = "waiting" /\ on'[c] = e /\ (e \in disposing => c \in cut')
    BY <1>0, <2>1
  <2> QED
    BY <1>0, <2>1, <2>2, <2>3, <2>4, <2>5 DEF CommandsAreServed
<1>4. ASSUME NEW c \in Commands, Send(c) \/ CommandDone(c) PROVE Closing' /\ CommandsAreServed'
  <2>1. Closing' /\ UNCHANGED <<on, client, disposing, cut>>
    BY <1>4 DEF Send, CommandDone, Closing
  <2>2. /\ \A d \in Commands \ {c} : cmd'[d] = cmd[d]
        /\ \/ cmd'[c] \in {"failed", "done"}
           \/ cmd'[c] = "running" /\ client[on[c]] = "ready" /\ cmd[c] = "waiting"
           \/ cmd'[c] = "lost" /\ client[on[c]] = "closing" /\ cmd[c] = "waiting"
    BY <1>0, <1>4 DEF Send, CommandDone
  <2> QED
    BY <1>0, <2>1, <2>2 DEF CommandsAreServed
<1>5. ASSUME NEW e \in Executors, SupervisorReady(e) PROVE Closing' /\ CommandsAreServed'
  BY <1>0, <1>5 DEF SupervisorReady, Closing, CommandsAreServed
<1>10. ASSUME NEW e \in Executors, StopSupervisor(e) PROVE Closing' /\ CommandsAreServed'
  <2>1. /\ UNCHANGED <<on, cut>> /\ e \in disposing /\ disposing' \subseteq disposing
        /\ \A f \in Executors \ {e} : client'[f] = client[f] /\ (f \in disposing => f \in disposing')
        /\ client'[e] = "closing" => e \in disposing'
        /\ \A c \in Commands : cmd'[c] = cmd[c] \/ cmd'[c] = "failed"
    BY <1>0, <1>10 DEF StopSupervisor
  <2> QED
    BY <1>0, <2>1 DEF Closing, CommandsAreServed
<1>6. ASSUME NEW e \in Executors, StartFails(e) PROVE Closing' /\ CommandsAreServed'
  <2>1. /\ UNCHANGED <<on, cut>> /\ client[e] = "starting" /\ client' = [client EXCEPT ![e] = "none"]
        /\ disposing' = disposing \ {e}
        /\ \A c \in Commands :
             cmd'[c] = IF cmd[c] = "waiting" /\ on[c] = e THEN "failed" ELSE cmd[c]
    BY <1>6 DEF StartFails, Waits
  <2> QED
    BY <1>0, <2>1 DEF Closing, CommandsAreServed
<1>7. ASSUME NEW e \in Executors, SupervisorDies(e) PROVE Closing' /\ CommandsAreServed'
  <2>1. /\ UNCHANGED <<on, cut, disposing>> /\ client[e] = "ready"
        /\ client' = [client EXCEPT ![e] = "exited"]
        /\ \A c \in Commands :
             cmd'[c] = IF cmd[c] = "running" /\ on[c] = e THEN "failed" ELSE cmd[c]
    BY <1>7 DEF SupervisorDies, FailsPending
  <2> QED
    BY <1>0, <2>1 DEF Closing, CommandsAreServed
<1>8. ASSUME NEW e \in Executors, SupervisorGone(e) PROVE Closing' /\ CommandsAreServed'
  <2>1. /\ UNCHANGED <<on, cut>> /\ client[e] = "closing" /\ client' = [client EXCEPT ![e] = "none"]
        /\ disposing' = disposing \ {e}
        /\ \A c \in Commands :
             cmd'[c] = IF on[c] = e /\ cmd[c] = "waiting" THEN "failed"
                       ELSE IF on[c] = e /\ cmd[c] = "running" THEN "lost" ELSE cmd[c]
    BY <1>8 DEF SupervisorGone, Waits, FailsPending
  <2>2. e \in disposing
    BY <2>1 DEF Closing
  <2> QED
    BY <1>0, <2>1, <2>2 DEF Closing, CommandsAreServed
<1>9. CASE UNCHANGED vars
  BY <1>9 DEF vars, Closing, CommandsAreServed
<1> QED
  BY <1>1, <1>2, <1>3, <1>4, <1>5, <1>6, <1>7, <1>8, <1>9, <1>10 DEF Next

\* A command under way always has somebody who will settle it, until its
\* executor is disposed of under it; only then can it be lost.
THEOREM CommandsHaveSupervisors == Spec => []CommandsAreServed
<1>1. Init => Closing /\ CommandsAreServed
  BY DEF Init, Closing, CommandsAreServed
<1>2. Spec => []IInv
  BY InitInv, StepInv, PTL DEF Spec
<1> QED
  BY <1>1, <1>2, StepServed, PTL DEF Spec
=============================================================================
