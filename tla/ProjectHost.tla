---------------------------- MODULE ProjectHost ----------------------------
(* The project a process serves: loaded by the first request, watched for  *)
(* edits, reloaded through a debouncing gate.  Requests acquire the        *)
(* project and make sure it is watched, with awaits in between; an edit is *)
(* seen by the watcher, the gate, and LoadedAdlProject.reload, which joins *)
(* a reload already in flight.  Each load or reload makes a new registry   *)
(* whose tool providers must be disposed of when it is replaced.           *)
EXTENDS Integers, FiniteSets

CONSTANTS
  Requests,    \* concurrent callers of getLoadedAdlProject
  Roots,       \* project directories
  Asks,        \* the directories each request may ask for
  None,        \* no project, no directory
  MaxLoads,    \* bound on the projects that are loaded
  MaxEdits,    \* bound on edits of the project's files
  MaxErrors,   \* bound on imports and watchers that fail
  MaxGen       \* bound: no reload is requested from this generation on

\* LoadedAdlProject objects, numbered in the order of host.projectLoadCount.
Projects == 1..MaxLoads

ASSUME HostAssumption ==
  /\ None \notin Projects /\ None \notin Roots
  /\ Asks \in [Requests -> SUBSET Roots]
  /\ MaxLoads \in Nat /\ MaxEdits \in Nat /\ MaxErrors \in Nat /\ MaxGen \in Nat

VARIABLES
  disk,       \* how often the files were edited
  project,    \* host.project
  watched,    \* the project of the live watcher, or None
  armed,      \* whether that watcher is subscribed
  notified,   \* the last edit its gate was told of
  edited,     \* the last edit it has an undelivered event for
  timer,      \* the gate's debounce timer runs
  gate,       \* the gate: "idle", or "reloading" (reloadInFlight)
  again,      \* reloadAgain
  pc,         \* each request: "idle", "disposing", "loading", "acquired"
  wants,      \* the root it asked for
  prev,       \* the registry it is disposing of, <<>> if none
  root,       \* the root of each project object, None before it is created
  version,    \* the edit its registry was built from
  reload,     \* its reload: "idle", "importing" or "disposing"
  disposed,   \* its disposed flag
  live,       \* the registries <<project, generation>> not disposed of
  gen,        \* its generation
  failed,     \* lastReloadError is set
  errors,
  overlapped, \* history: two requests were loading at the same time
  joined      \* history: the gate joined a reload that had already imported

host == <<project, watched, armed, notified, edited>>
gateVars == <<timer, gate, again>>
request == <<pc, wants, prev>>
registry == <<root, version, reload, disposed, live, gen, failed>>
history == <<overlapped, joined>>
vars == <<disk, host, gateVars, request, registry, errors, history>>

TypeOK ==
  /\ disk \in 0..MaxEdits /\ errors \in 0..MaxErrors
  /\ project \in Projects \cup {None} /\ watched \in Projects \cup {None}
  /\ notified \in 0..disk /\ edited \in 0..disk
  /\ gate \in {"idle", "reloading"}
  /\ {armed, timer, again, overlapped, joined} \subseteq BOOLEAN
  /\ pc \in [Requests -> {"idle", "disposing", "loading", "acquired"}]
  /\ wants \in [Requests -> Roots \cup {None}]
  /\ prev \in [Requests -> (Projects \X Nat) \cup {<<>>}]
  /\ root \in [Projects -> Roots \cup {None}]
  /\ version \in [Projects -> 0..disk]
  /\ reload \in [Projects -> {"idle", "importing", "disposing"}]
  /\ disposed \in [Projects -> BOOLEAN] /\ failed \in [Projects -> BOOLEAN]
  /\ gen \in [Projects -> Nat]
  /\ live \subseteq Projects \X Nat

Init ==
  /\ disk = 0 /\ errors = 0
  /\ project = None /\ watched = None /\ armed = FALSE /\ notified = 0 /\ edited = 0
  /\ timer = FALSE /\ gate = "idle" /\ again = FALSE
  /\ pc = [c \in Requests |-> "idle"]
  /\ wants = [c \in Requests |-> None] /\ prev = [c \in Requests |-> <<>>]
  /\ root = [p \in Projects |-> None]
  /\ version = [p \in Projects |-> 0] /\ gen = [p \in Projects |-> 0]
  /\ reload = [p \in Projects |-> "idle"]
  /\ disposed = [p \in Projects |-> FALSE] /\ failed = [p \in Projects |-> FALSE]
  /\ live = {}
  /\ overlapped = FALSE /\ joined = FALSE

-----------------------------------------------------------------------------
(* The watcher and its gate.                                               *)

\* A new watcher has a new gate; closing one disposes of its gate.
ResetWatch(p) ==
  /\ watched' = p /\ armed' = FALSE /\ notified' = 0 /\ edited' = 0
  /\ timer' = FALSE /\ gate' = "idle" /\ again' = FALSE

WatcherReady ==
  /\ watched # None /\ ~armed /\ armed' = TRUE
  /\ UNCHANGED <<disk, project, watched, notified, edited, gateVars, request, registry,
                 errors, history>>

\* Arming fails: the watch is forgotten, so that the next request retries.
WatcherFails ==
  /\ watched # None /\ ~armed /\ errors < MaxErrors
  /\ errors' = errors + 1 /\ ResetWatch(None)
  /\ UNCHANGED <<disk, project, request, registry, history>>

\* A file of the project is edited; a subscribed watcher will be told.
Edit ==
  /\ disk < MaxEdits /\ disk' = disk + 1
  /\ edited' = IF armed THEN disk + 1 ELSE edited
  /\ UNCHANGED <<project, watched, armed, notified, gateVars, request, registry,
                 errors, history>>

\* watcher.on("all"): gate.schedule resets the debounce timer.
FileEvent ==
  /\ edited > notified
  /\ notified' = edited /\ timer' = TRUE
  /\ UNCHANGED <<disk, project, watched, armed, edited, gate, again, request, registry,
                 errors, history>>

\* LoadedAdlProject.reload: one reload at a time, later callers join it.
StartReload(p) == reload' = IF reload[p] = "idle" THEN [reload EXCEPT ![p] = "importing"]
                                                  ELSE reload
Joins(p) == joined' = (joined \/ reload[p] = "disposing")

\* Mutant of TimerFires: an event during a reload is taken as reloaded.
TimerFiresOnce ==
  /\ timer /\ timer' = FALSE
  /\ IF gate = "reloading" THEN UNCHANGED <<gate, again, reload, joined>>
     ELSE gate' = "reloading" /\ again' = FALSE /\ StartReload(watched) /\ Joins(watched)
  /\ UNCHANGED <<disk, host, request, root, version, disposed, live, gen, failed, errors,
                 overlapped>>

\* runReload: start one, or remember that another is due.
TimerFires ==
  /\ timer /\ timer' = FALSE
  /\ IF gate = "reloading" THEN again' = TRUE /\ UNCHANGED <<gate, reload, joined>>
     ELSE gate' = "reloading" /\ again' = FALSE /\ StartReload(watched) /\ Joins(watched)
  /\ UNCHANGED <<disk, host, request, root, version, disposed, live, gen, failed, errors,
                 overlapped>>

\* requestAdlProjectReload: reloads the host's project around the gate.
RequestReload ==
  /\ project # None /\ gen[project] < MaxGen
  /\ reload[project] = "idle" /\ StartReload(project)
  /\ UNCHANGED <<disk, host, gateVars, request, root, version, disposed, live, gen, failed,
                 errors, history>>

\* The reload of p settles: its promise is cleared, and the gate, if it waits
\* for it, goes round again or becomes idle.
Settle(p) ==
  IF watched = p /\ gate = "reloading"
  THEN /\ again' = FALSE
       /\ gate' = IF again THEN "reloading" ELSE "idle"
       /\ reload' = [reload EXCEPT ![p] = IF again THEN "importing" ELSE "idle"]
  ELSE reload' = [reload EXCEPT ![p] = "idle"] /\ UNCHANGED <<gate, again>>

\* performReload: the configuration is imported again and the registry
\* replaced in one step, whatever happened to the project meanwhile.
Import(p) ==
  /\ reload[p] = "importing"
  /\ version' = [version EXCEPT ![p] = disk]
  /\ gen' = [gen EXCEPT ![p] = @ + 1]
  /\ live' = live \cup {<<p, gen[p] + 1>>}
  /\ disposed' = [disposed EXCEPT ![p] = FALSE]
  /\ failed' = [failed EXCEPT ![p] = FALSE]
  /\ reload' = [reload EXCEPT ![p] = "disposing"]
  /\ UNCHANGED <<disk, host, gateVars, request, root, errors, history>>

\* The import throws: the old registry stays.
ImportThrows(p) ==
  /\ reload[p] = "importing" /\ errors < MaxErrors
  /\ errors' = errors + 1
  /\ failed' = [failed EXCEPT ![p] = TRUE]
  /\ Settle(p)
  /\ UNCHANGED <<disk, host, timer, request, root, version, disposed, live, gen, history>>

\* Mutant of OldRegistry: the providers of the registry in place.
CurrentRegistry(p) == <<p, gen[p]>>

\* The registry a reload replaced.
OldRegistry(p) == <<p, gen[p] - 1>>

\* Mutant of ReloadDone: the replaced registry is left as it is.
ReloadDoneKeeping(p) ==
  /\ reload[p] = "disposing" /\ Settle(p)
  /\ UNCHANGED <<disk, host, timer, request, root, version, disposed, live, gen, failed,
                 errors, history>>

\* The providers of the replaced registry are gone.
ReloadDone(p) ==
  /\ reload[p] = "disposing"
  /\ live' = live \ {OldRegistry(p)}
  /\ Settle(p)
  /\ UNCHANGED <<disk, host, timer, request, root, version, disposed, gen, failed, errors,
                 history>>

-----------------------------------------------------------------------------
(* The requests.                                                           *)

Loading == {c \in Requests : pc[c] \in {"disposing", "loading"}}

\* acquireAdlProject: reuse the project in place, or drop the watch and load,
\* after the previous project's dispose.  Nothing stops a second load.
Acquire(c, r) ==
  /\ pc[c] = "idle"
  /\ wants' = [wants EXCEPT ![c] = r]
  /\ IF project # None /\ root[project] = r
     THEN /\ pc' = [pc EXCEPT ![c] = "acquired"]
          /\ UNCHANGED <<prev, host, gateVars, disposed, overlapped>>
     ELSE /\ Cardinality(Loading) < Cardinality({p \in Projects : root[p] = None})
          /\ IF project # None /\ ~disposed[project]
             THEN /\ prev' = [prev EXCEPT ![c] = <<project, gen[project]>>]
                  /\ pc' = [pc EXCEPT ![c] = "disposing"]
             ELSE pc' = [pc EXCEPT ![c] = "loading"] /\ prev' = prev
          /\ disposed' = IF project = None THEN disposed
                                           ELSE [disposed EXCEPT ![project] = TRUE]
          /\ overlapped' = (overlapped \/ Loading # {})
          /\ ResetWatch(None) /\ project' = project
  /\ UNCHANGED <<disk, root, version, reload, live, gen, failed, errors, joined>>

\* LoadedAdlProject.dispose has awaited the providers of its registry.
Disposed(c) ==
  /\ pc[c] = "disposing"
  /\ pc' = [pc EXCEPT ![c] = "loading"]
  /\ live' = live \ {prev[c]}
  /\ prev' = [prev EXCEPT ![c] = <<>>]
  /\ UNCHANGED <<disk, host, gateVars, wants, root, version, reload, disposed, gen,
                 failed, errors, history>>

\* loadAdlProject returns: host.project is overwritten, whatever it holds now.
Loaded(c, p) ==
  /\ pc[c] = "loading" /\ root[p] = None /\ \A q \in 1..(p - 1) : root[q] # None
  /\ pc' = [pc EXCEPT ![c] = "acquired"]
  /\ root' = [root EXCEPT ![p] = wants[c]]
  /\ version' = [version EXCEPT ![p] = disk]
  /\ live' = live \cup {<<p, 0>>}
  /\ project' = p
  /\ UNCHANGED <<disk, watched, armed, notified, edited, gateVars, wants, prev, reload, disposed,
                 gen, failed, errors, history>>

\* loadAdlProject throws: the request fails and the host keeps what it had.
LoadThrows(c) ==
  /\ pc[c] = "loading" /\ errors < MaxErrors
  /\ errors' = errors + 1
  /\ pc' = [pc EXCEPT ![c] = "idle"]
  /\ UNCHANGED <<disk, host, gateVars, wants, prev, registry, history>>

\* Mutant of SameWatch: any watcher will do.
AnyWatch == watched # None

\* ensureAdlProjectFileWatch compares the watched root with the project's.
SameWatch == watched # None /\ root[watched] = root[project]

\* ensureAdlProjectFileWatch(true), for the project the host holds by now.
EnsureWatch(c) ==
  /\ pc[c] = "acquired"
  /\ pc' = [pc EXCEPT ![c] = "idle"] /\ wants' = [wants EXCEPT ![c] = None]
  /\ IF SameWatch THEN UNCHANGED <<host, gateVars>>
     ELSE ResetWatch(project) /\ project' = project
  /\ UNCHANGED <<disk, prev, registry, errors, history>>

Next ==
  \/ WatcherReady \/ WatcherFails \/ Edit \/ FileEvent \/ TimerFires \/ RequestReload
  \/ \E p \in Projects : Import(p) \/ ImportThrows(p) \/ ReloadDone(p)
  \/ \E c \in Requests :
       \/ \E r \in Asks[c] : Acquire(c, r)
       \/ Disposed(c) \/ LoadThrows(c) \/ EnsureWatch(c)
       \/ \E p \in Projects : Loaded(c, p)

Spec == Init /\ [][Next]_vars

-----------------------------------------------------------------------------
\* The registry a project serves keeps its tool providers until the project
\* is disposed of, however its reloads succeed, fail or are joined.
RegistryInUseIsLive ==
  \A p \in Projects : root[p] # None /\ ~disposed[p] => <<p, gen[p]>> \in live

\* A project that was never disposed of keeps at most the registry it serves
\* and, while a reload is giving it up, the one before.
ReplacedRegistriesGo ==
  \A p \in Projects : \A g \in 0..gen[p] :
    <<p, g>> \in live /\ g # gen[p] => g = gen[p] - 1 /\ reload[p] = "disposing"

\* Once the gate has come to rest, the watched project serves every edit the
\* gate was told of, or an error, unless the gate joined a reload that had
\* read the files before the edit (createAdlProjectReloadGate, runReload).
EditIsLoaded ==
  watched # None /\ gate = "idle" /\ ~timer /\ ~joined
    => version[watched] >= notified \/ failed[watched]

\* Between requests, and as long as no two loads overlapped, the watcher
\* watches the project that requests are given (acquireAdlProject,
\* ensureAdlProjectFileWatch).
WatchFollowsProject ==
  ~overlapped /\ (\A c \in Requests : pc[c] = "idle") /\ watched # None
    => watched = project
=============================================================================
