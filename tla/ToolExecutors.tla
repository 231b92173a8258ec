--------------------------- MODULE ToolExecutors ---------------------------
(* The shared bash executors.  A tool provider takes an executor from a    *)
(* refcounted pool when an agent asks for its tools, and gives its hold    *)
(* back when its registry is replaced; the executor of the last hold is    *)
(* disposed of.  An executor starts a supervisor process for its first     *)
(* command and talks to it over a pipe.  Commands of replaced registries   *)
(* may still be running, and start new ones, when all this happens.  The   *)
(* providers modelled ask for one policy, so that the pool has one key.    *)
EXTENDS Integers, FiniteSets

CONSTANTS
  Providers,      \* the bash tool providers, of any generation of the registry
  Commands,       \* commands that tool calls run
  ProviderOf,     \* the provider whose tools run a command
  NoExecutor,
  MaxExecutors,   \* bound on the executors that are created
  MaxFaults       \* bound on supervisors that die or fail to start

Executors == 1..MaxExecutors

ASSUME ExecutorsAssumption ==
  /\ IsFiniteSet(Providers)
  /\ ProviderOf \in [Commands -> Providers]
  /\ MaxExecutors \in Nat /\ MaxFaults \in Nat /\ NoExecutor \notin Executors

VARIABLES
  pooled,      \* the executor in the pool's entry, or NoExecutor
  refCount,    \* its holds
  created,     \* how many executors were created
  held,        \* the providers with the key in heldKeys
  tools,       \* the executor in the tools each provider handed out last
  client,      \* the supervisor of each executor
  disposing,   \* the executors whose dispose has been called and not ended
  dropped,     \* the executors whose dispose was ever called
  cmd,         \* each command
  on,          \* the executor a command runs on
  cut,         \* history: the commands on an executor when it was disposed of
  late,        \* history: the executors used again after that
  faults

pool == <<pooled, refCount, created, held, tools>>
executor == <<client, disposing, dropped>>
command == <<cmd, on>>
history == <<cut, late>>
vars == <<pool, executor, command, history, faults>>

\* "none": no clientPromise; "exited": the process is gone but the promise is
\* kept; "closing": shutdown was sent and stdin ended.
ClientStates == {"none", "starting", "ready", "exited", "closing"}

\* "waiting" for the client, "running" in the supervisor; "lost": pending at a
\* client that was closed, so that nobody will settle it.
CommandStates == {"idle", "waiting", "running", "done", "failed", "lost"}

TypeOK ==
  /\ pooled \in Executors \cup {NoExecutor} /\ refCount \in Nat
  /\ created \in 0..MaxExecutors /\ held \subseteq Providers
  /\ tools \in [Providers -> Executors \cup {NoExecutor}]
  /\ client \in [Executors -> ClientStates]
  /\ disposing \subseteq Executors /\ dropped \subseteq Executors /\ late \subseteq Executors
  /\ cmd \in [Commands -> CommandStates]
  /\ on \in [Commands -> Executors \cup {NoExecutor}]
  /\ cut \subseteq Commands /\ faults \in 0..MaxFaults

Init ==
  /\ pooled = NoExecutor /\ refCount = 0 /\ created = 0 /\ held = {}
  /\ tools = [p \in Providers |-> NoExecutor]
  /\ client = [e \in Executors |-> "none"] /\ disposing = {} /\ dropped = {}
  /\ cmd = [c \in Commands |-> "idle"] /\ on = [c \in Commands |-> NoExecutor]
  /\ cut = {} /\ late = {} /\ faults = 0

Fault == faults < MaxFaults /\ faults' = faults + 1

-----------------------------------------------------------------------------
(* The pool.                                                               *)

\* Mutant of Holds: every call for tools takes a hold.
HoldsAnew(p) == 1

\* alreadyHeld: a provider counts once, however often it hands out tools.
Holds(p) == IF p \in held THEN 0 ELSE 1

\* getTools on the key's live entry.
AcquireShared(p) ==
  /\ pooled # NoExecutor
  /\ refCount' = refCount + Holds(p)
  /\ held' = held \cup {p}
  /\ tools' = [tools EXCEPT ![p] = pooled]
  /\ UNCHANGED <<pooled, created, executor, command, history, faults>>

\* getTools when there is no entry; with the key held it is an error.
AcquireNew(p) ==
  /\ pooled = NoExecutor /\ p \notin held /\ created < MaxExecutors
  /\ created' = created + 1
  /\ pooled' = created + 1 /\ refCount' = 1
  /\ held' = held \cup {p}
  /\ tools' = [tools EXCEPT ![p] = created + 1]
  /\ UNCHANGED <<executor, command, history, faults>>

\* heldKeys after the provider's dispose has cleared it.
StillHolding(p) == held \ {p}

InFlight(e) == {c \in Commands : on[c] = e /\ cmd[c] \in {"waiting", "running"}}

\* Mutant of Disposed: the executor is not told.
DisposedNot(e) == {}

\* executor.dispose on an executor without a client ends at once.
Disposed(e) == IF client[e] = "none" THEN {} ELSE {e}

\* Mutant of Drops: the executor is disposed of with the first release.
DropsAlways == TRUE

\* releaseBashExecutor finds that nobody else holds the key.
Drops == refCount = 1

\* A provider's dispose: heldKeys is cleared and each key released once; with
\* the last hold the entry goes and the executor's dispose begins.
DisposeProvider(p) ==
  /\ p \in held
  /\ held' = StillHolding(p)
  /\ refCount' = refCount - 1
  /\ IF Drops
     THEN /\ pooled' = NoExecutor
          /\ disposing' = disposing \cup Disposed(pooled) /\ dropped' = dropped \cup {pooled}
          /\ cut' = cut \cup InFlight(pooled)
     ELSE UNCHANGED <<pooled, disposing, dropped, cut>>
  /\ UNCHANGED <<created, tools, client, command, late, faults>>

-----------------------------------------------------------------------------
(* The ASRT executor and its supervisor.                                   *)

\* executor.run: ensureClient starts a supervisor if there is no promise of
\* one, also on an executor that was disposed of.
Run(c) ==
  LET e == tools[ProviderOf[c]] IN
  /\ cmd[c] = "idle" /\ e # NoExecutor
  /\ cmd' = [cmd EXCEPT ![c] = "waiting"] /\ on' = [on EXCEPT ![c] = e]
  /\ client' = IF client[e] = "none" THEN [client EXCEPT ![e] = "starting"] ELSE client
  /\ cut' = IF e \in disposing THEN cut \cup {c} ELSE cut
  /\ late' = IF e \in dropped THEN late \cup {e} ELSE late
  /\ UNCHANGED <<pool, disposing, dropped, faults>>

Waits(e) == {c \in Commands : on[c] = e /\ cmd[c] = "waiting"}

SupervisorReady(e) ==
  /\ client[e] = "starting"
  /\ client' = [client EXCEPT ![e] = "ready"]
  /\ UNCHANGED <<pool, disposing, dropped, command, history, faults>>

\* init fails: the child is stopped, the promise cleared for the next command,
\* and those that waited for it fail; a dispose that waited is done.
StartFails(e) ==
  /\ Fault /\ client[e] = "starting"
  /\ client' = [client EXCEPT ![e] = "none"]
  /\ disposing' = disposing \ {e}
  /\ cmd' = [c \in Commands |-> IF c \in Waits(e) THEN "failed" ELSE cmd[c]]
  /\ UNCHANGED <<pool, dropped, on, history>>

\* client.run: the request is written, or send throws on a destroyed stdin; a
\* request written after stdin's end is never read.
Send(c) ==
  LET s == client[on[c]] IN
  /\ cmd[c] = "waiting" /\ s \in {"ready", "closing", "exited"}
  /\ cmd' = [cmd EXCEPT ![c] = CASE s = "ready" -> "running"
                                 [] s = "closing" -> "lost"
                                 [] s = "exited" -> "failed"]
  /\ UNCHANGED <<pool, executor, on, history, faults>>

\* The final update of a command arrives; a supervisor that shuts down aborts
\* its commands and may still report them.
CommandDone(c) ==
  /\ cmd[c] = "running" /\ client[on[c]] \in {"ready", "closing"}
  /\ cmd' = [cmd EXCEPT ![c] = "done"]
  /\ UNCHANGED <<pool, executor, on, history, faults>>

\* Mutant of FailsPending: the exit of the child is not noticed.
FailsNothing(e) == {}

\* The exit handler fails every pending command.
FailsPending(e) == {c \in Commands : on[c] = e /\ cmd[c] = "running"}

\* The supervisor exits unasked; clientPromise stays.
SupervisorDies(e) ==
  /\ Fault /\ client[e] = "ready"
  /\ client' = [client EXCEPT ![e] = "exited"]
  /\ cmd' = [c \in Commands |-> IF c \in FailsPending(e) THEN "failed" ELSE cmd[c]]
  /\ UNCHANGED <<pool, disposing, dropped, on, history>>

\* executor.dispose, once a client that is starting has started: shutdown is
\* sent and stdin ended; a supervisor that has exited is only forgotten, and a
\* request not yet written finds its stdin destroyed.
StopSupervisor(e) ==
  /\ e \in disposing
  /\ \/ /\ client[e] = "ready" /\ client' = [client EXCEPT ![e] = "closing"]
        /\ UNCHANGED <<disposing, cmd>>
     \/ /\ client[e] = "exited" /\ client' = [client EXCEPT ![e] = "none"]
        /\ disposing' = disposing \ {e}
        /\ cmd' = [c \in Commands |-> IF c \in Waits(e) THEN "failed" ELSE cmd[c]]
  /\ UNCHANGED <<pool, dropped, on, history, faults>>

\* The supervisor exits, or is killed after five seconds.  The exit handler
\* returns early on a closed client, so what is pending stays pending; a
\* request not yet written finds stdin destroyed.
SupervisorGone(e) ==
  /\ client[e] = "closing"
  /\ client' = [client EXCEPT ![e] = "none"] /\ disposing' = disposing \ {e}
  /\ cmd' = [c \in Commands |-> CASE c \in Waits(e) -> "failed"
                                 [] c \in FailsPending(e) -> "lost"
                                 [] OTHER -> cmd[c]]
  /\ UNCHANGED <<pool, dropped, on, history, faults>>

Next ==
  \/ \E p \in Providers : AcquireShared(p) \/ AcquireNew(p) \/ DisposeProvider(p)
  \/ \E c \in Commands : Run(c) \/ Send(c) \/ CommandDone(c)
  \/ \E e \in Executors : \/ SupervisorReady(e) \/ StartFails(e) \/ SupervisorDies(e)
                          \/ StopSupervisor(e) \/ SupervisorGone(e)

\* Supervisors start, stop and report (every command has a timeout there);
\* what was awaited goes on.  Nobody has to ask for tools or dispose of them.
Fairness ==
  /\ \A c \in Commands : WF_vars(Send(c)) /\ WF_vars(CommandDone(c))
  /\ \A e \in Executors :
       WF_vars(SupervisorReady(e)) /\ WF_vars(StopSupervisor(e)) /\ WF_vars(SupervisorGone(e))

Spec == Init /\ [][Next]_vars /\ Fairness

-----------------------------------------------------------------------------
\* The pool's count is the number of providers that will release it, and the
\* entry exists as long as there is one (acquireBashExecutor, alreadyHeld).
CountIsHolders ==
  /\ refCount = Cardinality(held)
  /\ pooled = NoExecutor <=> held = {}

\* The tools of a provider that holds the key run on the pool's executor, and
\* nobody has disposed of it.
HoldersShareLiveExecutor ==
  \A p \in held : tools[p] = pooled /\ pooled \notin dropped

\* A supervisor process exists only for the pool's executor, for one that is
\* being disposed of, or for one used again after its dispose.
NoStraySupervisor ==
  \A e \in Executors :
    client[e] # "none" => e = pooled \/ e \in disposing \/ e \in late

\* A command that was started settles, unless its executor is disposed of
\* under it.
CommandsSettle ==
  \A c \in Commands :
    cmd[c] \in {"waiting", "running"} ~> (cmd[c] \in {"done", "failed"} \/ c \in cut)
=============================================================================
