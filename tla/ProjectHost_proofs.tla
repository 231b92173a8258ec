------------------------- MODULE ProjectHost_proofs -------------------------
(***************************************************************************)
(* Proofs about module ProjectHost, for any requests, roots and bounds:    *)
(* what the reloads, the gate and overlapping requests keep true of the    *)
(* registries and of the watcher.                                          *)
(***************************************************************************)
EXTENDS ProjectHost, TLAPS

USE HostAssumption

\* Only projects that were loaded are watched, handed out or reloaded; a
\* request knows the directory it asked for.
HostBooks ==
  /\ \A p \in Projects : root[p] = None => gen[p] = 0 /\ ~disposed[p] /\ reload[p] = "idle"
  /\ project # None => root[project] # None
  /\ watched # None => root[watched] # None
  /\ \A c \in Requests : /\ pc[c] = "acquired" => project # None
                         /\ pc[c] # "idle" => wants[c] # None

\* The registry a request disposes of is an old one, or its project's flag
\* is set.
OldOrDisposed ==
  \A c \in Requests, q \in Projects, g \in Nat :
    prev[c] = <<q, g>> => g < gen[q] \/ (g = gen[q] /\ disposed[q])

\* Without an overlap one request loads at a time, and the watcher is on the
\* project in place, or some request has yet to look at it.
OneLoads ==
  ~overlapped =>
    /\ \A c, d \in Loading : c = d
    /\ \A c \in Loading : /\ watched \in {None, project}
                          /\ project # None => root[project] # wants[c]
    /\ watched \notin {None, project} =>
         root[watched] # root[project] /\ \E c \in Requests : pc[c] = "acquired"

\* Where an edit is that the gate was told of: its timer runs, a reload will
\* follow or has still to read the files, or it was read.
EditFollows ==
  watched # None /\ ~joined =>
    /\ gate = "reloading" => reload[watched] \in {"importing", "disposing"}
    /\ ~timer /\ gate = "idle" => version[watched] >= notified \/ failed[watched]
    /\ ~timer /\ gate = "reloading" /\ ~again /\ reload[watched] = "disposing"
         => version[watched] >= notified

IInv ==
  /\ TypeOK /\ HostBooks /\ OldOrDisposed
  /\ RegistryInUseIsLive /\ ReplacedRegistriesGo /\ OneLoads /\ EditFollows

-----------------------------------------------------------------------------
\* A watcher that is reset is well typed.
LEMMA ResetTyped ==
  ASSUME TypeOK, NEW w \in Projects \cup {None}, ResetWatch(w)
  PROVE  /\ watched' \in Projects \cup {None} /\ notified' \in 0..disk /\ edited' \in 0..disk
         /\ gate' \in {"idle", "reloading"} /\ {armed', timer', again'} \subseteq BOOLEAN
<1>1. /\ watched' = w /\ notified' = 0 /\ edited' = 0 /\ gate' = "idle"
      /\ armed' = FALSE /\ timer' = FALSE /\ again' = FALSE
  BY DEF ResetWatch
<1>2. disk \in 0..MaxEdits /\ MaxEdits \in Nat
  BY HostAssumption DEF TypeOK
<1>3. 0 \in 0..disk
  BY <1>2
<1>4. /\ notified' \in 0..disk /\ edited' \in 0..disk
      /\ watched' \in Projects \cup {None} /\ gate' \in {"idle", "reloading"}
  BY <1>1, <1>3
<1>5. {armed', timer', again'} \subseteq BOOLEAN
  BY <1>1, Zenon
<1> QED BY <1>4, <1>5, Zenon

\* A reload that settles leaves the gate and the reloads well typed.
LEMMA SettleTyped ==
  ASSUME TypeOK, NEW p \in Projects, Settle(p)
  PROVE  /\ reload' \in [Projects -> {"idle", "importing", "disposing"}]
         /\ gate' \in {"idle", "reloading"} /\ again' \in BOOLEAN
<1>1. /\ reload \in [Projects -> {"idle", "importing", "disposing"}]
      /\ gate \in {"idle", "reloading"} /\ again \in BOOLEAN
  BY DEF TypeOK
<1>2. \/ again' = FALSE /\ gate' = "reloading" /\ reload' = [reload EXCEPT ![p] = "importing"]
      \/ again' = FALSE /\ gate' = "idle" /\ reload' = [reload EXCEPT ![p] = "idle"]
      \/ again' = again /\ gate' = gate /\ reload' = [reload EXCEPT ![p] = "idle"]
  BY <1>1 DEF Settle
<1> QED BY <1>1, <1>2

\* Every step of the host keeps every variable in its type.
LEMMA TypeStep == ASSUME TypeOK, [Next]_vars PROVE TypeOK'
<1> USE DEF TypeOK, Projects, host, gateVars, request, registry, history
<1>1. ASSUME WatcherReady PROVE TypeOK'
  BY <1>1 DEF WatcherReady
<1>2. ASSUME WatcherFails PROVE TypeOK'
  <2>1. errors' \in 0..MaxErrors
    BY <1>2 DEF WatcherFails
  <2>2. watched' = None /\ notified' = 0 /\ edited' = 0 /\ gate' = "idle" /\ disk \in Nat
    BY <1>2 DEF WatcherFails, ResetWatch
  <2>3. armed' = FALSE /\ timer' = FALSE /\ again' = FALSE
    BY <1>2 DEF WatcherFails, ResetWatch
  <2>4. notified' \in 0..disk /\ edited' \in 0..disk
    BY <2>2
  <2> QED BY <1>2, <2>1, <2>2, <2>3, <2>4 DEF WatcherFails
<1>3. ASSUME Edit PROVE TypeOK'
  <2>1. disk \in Nat /\ disk' = disk + 1 /\ disk' \in 0..MaxEdits
    BY <1>3 DEF Edit
  <2>2. 0..disk \subseteq 0..disk'
    BY <2>1
  <2>3. notified' \in 0..disk' /\ edited' \in 0..disk'
    BY <1>3, <2>1 DEF Edit
  <2>4. version' \in [Projects -> 0..disk']
    BY <1>3, <2>2 DEF Edit
  <2> QED BY <1>3, <2>1, <2>3, <2>4 DEF Edit
<1>4. ASSUME FileEvent PROVE TypeOK'
  BY <1>4 DEF FileEvent
<1>5. ASSUME TimerFires PROVE TypeOK'
  BY <1>5 DEF TimerFires, StartReload, Joins
<1>6. ASSUME RequestReload PROVE TypeOK'
  BY <1>6 DEF RequestReload, StartReload
<1>7. ASSUME NEW p \in Projects, Import(p) PROVE TypeOK'
  BY <1>7 DEF Import
<1>8. ASSUME NEW p \in Projects, ImportThrows(p) PROVE TypeOK'
  <2>1. errors' \in 0..MaxErrors
    BY <1>8 DEF ImportThrows
  <2>2. failed' \in [Projects -> BOOLEAN]
    BY <1>8 DEF ImportThrows
  <2>3. /\ reload' \in [Projects -> {"idle", "importing", "disposing"}]
        /\ gate' \in {"idle", "reloading"} /\ again' \in BOOLEAN
    BY <1>8, SettleTyped DEF ImportThrows
  <2> QED BY <1>8, <2>1, <2>2, <2>3 DEF ImportThrows
<1>9. ASSUME NEW p \in Projects, ReloadDone(p) PROVE TypeOK'
  <2>1. live' \subseteq Projects \X Nat
    BY <1>9 DEF ReloadDone
  <2>2. /\ reload' \in [Projects -> {"idle", "importing", "disposing"}]
        /\ gate' \in {"idle", "reloading"} /\ again' \in BOOLEAN
    BY <1>9, SettleTyped DEF ReloadDone
  <2> QED BY <1>9, <2>1, <2>2 DEF ReloadDone
<1>10. ASSUME NEW c \in Requests, NEW r \in Asks[c], Acquire(c, r) PROVE TypeOK'
  <2>1. wants' \in [Requests -> Roots \cup {None}]
    BY <1>10 DEF Acquire
  <2>2. pc' \in [Requests -> {"idle", "disposing", "loading", "acquired"}]
    <3>1. \/ pc' = [pc EXCEPT ![c] = "acquired"]
          \/ pc' = [pc EXCEPT ![c] = "disposing"]
          \/ pc' = [pc EXCEPT ![c] = "loading"]
      BY <1>10, Zenon DEF Acquire
    <3> QED BY <3>1
  <2>3. prev' \in [Requests -> (Projects \X Nat) \cup {<<>>}]
    <3>1. \/ prev' = prev
          \/ project \in Projects /\ prev' = [prev EXCEPT ![c] = <<project, gen[project]>>]
      <4>1. project # None => project \in Projects
        OBVIOUS
      <4> QED BY <1>10, <4>1, Zenon DEF Acquire
    <3>2. project \in Projects => <<project, gen[project]>> \in Projects \X Nat
      OBVIOUS
    <3> QED BY <3>1, <3>2
  <2>4. disposed' \in [Projects -> BOOLEAN]
    BY <1>10 DEF Acquire
  <2>5. overlapped' \in BOOLEAN
    BY <1>10 DEF Acquire
  <2>6. UNCHANGED <<watched, armed, notified, edited, gateVars>> \/ ResetWatch(None)
    BY <1>10 DEF Acquire
  <2>7. /\ watched' \in Projects \cup {None} /\ notified' \in 0..disk /\ edited' \in 0..disk
        /\ gate' \in {"idle", "reloading"} /\ {armed', timer', again'} \subseteq BOOLEAN
    BY <2>6, ResetTyped
  <2>8. project' = project
    BY <1>10 DEF Acquire
  <2> QED BY <1>10, <2>1, <2>2, <2>3, <2>4, <2>5, <2>7, <2>8 DEF Acquire
<1>11. ASSUME NEW c \in Requests, Disposed(c) PROVE TypeOK'
  <2>1. live' \subseteq Projects \X Nat
    BY <1>11 DEF Disposed
  <2>2. prev' \in [Requests -> (Projects \X Nat) \cup {<<>>}]
    <3>1. PICK e : e = <<>>
      OBVIOUS
    <3>2. prev' = [prev EXCEPT ![c] = e] /\ prev \in [Requests -> (Projects \X Nat) \cup {e}]
      BY <1>11, <3>1 DEF Disposed
    <3> QED BY <3>1, <3>2
  <2>3. pc' \in [Requests -> {"idle", "disposing", "loading", "acquired"}]
    BY <1>11 DEF Disposed
  <2> QED BY <1>11, <2>1, <2>2, <2>3 DEF Disposed
<1>12. ASSUME NEW c \in Requests, LoadThrows(c) PROVE TypeOK'
  BY <1>12 DEF LoadThrows
<1>13. ASSUME NEW c \in Requests, EnsureWatch(c) PROVE TypeOK'
  <2>1. wants' \in [Requests -> Roots \cup {None}]
    BY <1>13 DEF EnsureWatch
  <2>2. pc' \in [Requests -> {"idle", "disposing", "loading", "acquired"}]
    BY <1>13 DEF EnsureWatch
  <2>3. UNCHANGED <<watched, armed, notified, edited, gateVars>> \/ ResetWatch(project)
    BY <1>13 DEF EnsureWatch
  <2>4. /\ watched' \in Projects \cup {None} /\ notified' \in 0..disk /\ edited' \in 0..disk
        /\ gate' \in {"idle", "reloading"} /\ {armed', timer', again'} \subseteq BOOLEAN
    BY <2>3, ResetTyped
  <2>5. project' = project
    BY <1>13 DEF EnsureWatch
  <2> QED BY <1>13, <2>1, <2>2, <2>4, <2>5 DEF EnsureWatch
<1>14. ASSUME NEW c \in Requests, NEW p \in Projects, Loaded(c, p) PROVE TypeOK'
  <2>1. live' \subseteq Projects \X Nat
    BY <1>14 DEF Loaded
  <2>2. root' \in [Projects -> Roots \cup {None}]
    BY <1>14 DEF Loaded
  <2>3. version' \in [Projects -> 0..disk'] /\ disk' = disk
    BY <1>14 DEF Loaded
  <2>4. pc' \in [Requests -> {"idle", "disposing", "loading", "acquired"}]
    BY <1>14 DEF Loaded
  <2> QED BY <1>14, <2>1, <2>2, <2>3, <2>4 DEF Loaded
<1>15. CASE UNCHANGED vars
  <2>1. UNCHANGED <<disk, host, gateVars, request, registry, errors, history>>
    BY <1>15 DEF vars
  <2> QED BY <2>1
<1> QED BY <1>1, <1>2, <1>3, <1>4, <1>5, <1>6, <1>7, <1>8, <1>9, <1>10, <1>11, <1>12, <1>13, <1>14, <1>15 DEF Next

\* Only loaded projects are handed out, watched or reloaded.
LEMMA BooksStep == ASSUME TypeOK, HostBooks, [Next]_vars PROVE HostBooks'
<1> USE DEF TypeOK, Projects, host, gateVars, request, registry, history, HostBooks
<1>1. ASSUME WatcherReady PROVE HostBooks'
  BY <1>1 DEF WatcherReady
<1>2. ASSUME WatcherFails PROVE HostBooks'
  BY <1>2 DEF WatcherFails, ResetWatch
<1>3. ASSUME Edit PROVE HostBooks'
  BY <1>3 DEF Edit
<1>4. ASSUME FileEvent PROVE HostBooks'
  BY <1>4 DEF FileEvent
<1>5. ASSUME TimerFires PROVE HostBooks'
  BY <1>5 DEF TimerFires, StartReload, Joins
<1>6. ASSUME RequestReload PROVE HostBooks'
  BY <1>6 DEF RequestReload, StartReload
<1>7. ASSUME NEW p \in Projects, Import(p) PROVE HostBooks'
  BY <1>7 DEF Import
<1>8. ASSUME NEW p \in Projects, ImportThrows(p) PROVE HostBooks'
  BY <1>8 DEF ImportThrows, Settle
<1>9. ASSUME NEW p \in Projects, ReloadDone(p) PROVE HostBooks'
  BY <1>9 DEF ReloadDone, Settle, OldRegistry
<1>10. ASSUME NEW c \in Requests, NEW r \in Asks[c], Acquire(c, r) PROVE HostBooks'
  <2>1. UNCHANGED <<root, gen, reload, project>> /\ watched' \in {watched, None}
    BY <1>10 DEF Acquire, ResetWatch
  <2>2. \A q \in Projects : root'[q] = None => gen'[q] = 0 /\ ~disposed'[q] /\ reload'[q] = "idle"
    <3>1. \/ disposed' = disposed
          \/ project # None /\ disposed' = [disposed EXCEPT ![project] = TRUE]
      BY <1>10 DEF Acquire
    <3>2. \A q \in Projects : root[q] = None => disposed'[q] = disposed[q]
      BY <3>1
    <3> QED BY <2>1, <3>2
  <2>3. wants' = [wants EXCEPT ![c] = r] /\ r # None /\ wants \in [Requests -> Roots \cup {None}]
    BY <1>10 DEF Acquire
  <2>4. \A d \in Requests : d # c => pc'[d] = pc[d] /\ wants'[d] = wants[d]
    BY <1>10 DEF Acquire
  <2>5. \A d \in Requests : pc'[d] # "idle" => wants'[d] # None
    BY <2>3, <2>4
  <2>6. pc'[c] = "acquired" => project # None
    BY <1>10 DEF Acquire
  <2>7. \A d \in Requests : pc'[d] = "acquired" => project' # None
    BY <2>1, <2>4, <2>6
  <2> QED BY <2>1, <2>2, <2>5, <2>7
<1>11. ASSUME NEW c \in Requests, Disposed(c) PROVE HostBooks'
  BY <1>11 DEF Disposed
<1>12. ASSUME NEW c \in Requests, LoadThrows(c) PROVE HostBooks'
  BY <1>12 DEF LoadThrows
<1>13. ASSUME NEW c \in Requests, EnsureWatch(c) PROVE HostBooks'
  BY <1>13 DEF EnsureWatch, ResetWatch, SameWatch
<1>14. ASSUME NEW c \in Requests, NEW p \in Projects, Loaded(c, p) PROVE HostBooks'
  BY <1>14 DEF Loaded
<1>15. CASE UNCHANGED vars
  BY <1>15 DEF vars
<1> QED BY <1>1, <1>2, <1>3, <1>4, <1>5, <1>6, <1>7, <1>8,
          <1>9, <1>10, <1>11, <1>12, <1>13, <1>14, <1>15 DEF Next

\* What a request disposes of was replaced, or its project was given up.
LEMMA OldStep == ASSUME TypeOK, OldOrDisposed, [Next]_vars PROVE OldOrDisposed'
<1> USE DEF TypeOK, Projects, host, gateVars, request, registry, history, OldOrDisposed
<1>1. ASSUME WatcherReady PROVE OldOrDisposed'
  BY <1>1 DEF WatcherReady
<1>2. ASSUME WatcherFails PROVE OldOrDisposed'
  BY <1>2 DEF WatcherFails, ResetWatch
<1>3. ASSUME Edit PROVE OldOrDisposed'
  BY <1>3 DEF Edit
<1>4. ASSUME FileEvent PROVE OldOrDisposed'
  BY <1>4 DEF FileEvent
<1>5. ASSUME TimerFires PROVE OldOrDisposed'
  BY <1>5 DEF TimerFires, StartReload, Joins
<1>6. ASSUME RequestReload PROVE OldOrDisposed'
  BY <1>6 DEF RequestReload, StartReload
<1>7. ASSUME NEW p \in Projects, Import(p) PROVE OldOrDisposed'
  BY <1>7 DEF Import
<1>8. ASSUME NEW p \in Projects, ImportThrows(p) PROVE OldOrDisposed'
  BY <1>8 DEF ImportThrows, Settle
<1>9. ASSUME NEW p \in Projects, ReloadDone(p) PROVE OldOrDisposed'
  BY <1>9 DEF ReloadDone, Settle, OldRegistry
<1>10. ASSUME NEW c \in Requests, NEW r \in Asks[c], Acquire(c, r) PROVE OldOrDisposed'
  <2> SUFFICES ASSUME NEW d \in Requests, NEW q \in Projects, NEW g \in Nat,
                      prev'[d] = <<q, g>>
               PROVE  g < gen'[q] \/ (g = gen'[q] /\ disposed'[q])
    OBVIOUS
  <2>1. gen' = gen /\ (disposed[q] => disposed'[q])
    BY <1>10 DEF Acquire
  <2>2. CASE prev'[d] = prev[d]
    BY <2>1, <2>2
  <2>3. CASE prev'[d] # prev[d]
    <3>1. /\ d = c /\ prev' = [prev EXCEPT ![c] = <<project, gen[project]>>]
          /\ project # None /\ disposed' = [disposed EXCEPT ![project] = TRUE]
      BY <1>10, <2>3 DEF Acquire
    <3>2. q = project /\ g = gen[q]
      BY <3>1
    <3> QED BY <2>1, <3>1, <3>2
  <2> QED BY <2>2, <2>3
<1>11. ASSUME NEW c \in Requests, Disposed(c) PROVE OldOrDisposed'
  BY <1>11 DEF Disposed
<1>12. ASSUME NEW c \in Requests, LoadThrows(c) PROVE OldOrDisposed'
  BY <1>12 DEF LoadThrows
<1>13. ASSUME NEW c \in Requests, EnsureWatch(c) PROVE OldOrDisposed'
  BY <1>13 DEF EnsureWatch, ResetWatch, SameWatch
<1>14. ASSUME NEW c \in Requests, NEW p \in Projects, Loaded(c, p) PROVE OldOrDisposed'
  BY <1>14 DEF Loaded
<1>15. CASE UNCHANGED vars
  BY <1>15 DEF vars
<1> QED BY <1>1, <1>2, <1>3, <1>4, <1>5, <1>6, <1>7, <1>8,
          <1>9, <1>10, <1>11, <1>12, <1>13, <1>14, <1>15 DEF Next

\* The registry a project serves is not disposed of under it.
LEMMA InUseStep == ASSUME TypeOK, HostBooks, OldOrDisposed, RegistryInUseIsLive, [Next]_vars PROVE RegistryInUseIsLive'
<1> USE DEF TypeOK, Projects, host, gateVars, request, registry, history, HostBooks, OldOrDisposed, RegistryInUseIsLive
<1>1. ASSUME WatcherReady PROVE RegistryInUseIsLive'
  BY <1>1 DEF WatcherReady
<1>2. ASSUME WatcherFails PROVE RegistryInUseIsLive'
  BY <1>2 DEF WatcherFails, ResetWatch
<1>3. ASSUME Edit PROVE RegistryInUseIsLive'
  BY <1>3 DEF Edit
<1>4. ASSUME FileEvent PROVE RegistryInUseIsLive'
  BY <1>4 DEF FileEvent
<1>5. ASSUME TimerFires PROVE RegistryInUseIsLive'
  BY <1>5 DEF TimerFires, StartReload, Joins
<1>6. ASSUME RequestReload PROVE RegistryInUseIsLive'
  BY <1>6 DEF RequestReload, StartReload
<1>7. ASSUME NEW p \in Projects, Import(p) PROVE RegistryInUseIsLive'
  BY <1>7 DEF Import
<1>8. ASSUME NEW p \in Projects, ImportThrows(p) PROVE RegistryInUseIsLive'
  BY <1>8 DEF ImportThrows, Settle
<1>9. ASSUME NEW p \in Projects, ReloadDone(p) PROVE RegistryInUseIsLive'
  BY <1>9 DEF ReloadDone, Settle, OldRegistry
<1>10. ASSUME NEW c \in Requests, NEW r \in Asks[c], Acquire(c, r) PROVE RegistryInUseIsLive'
  BY <1>10 DEF Acquire, ResetWatch
<1>11. ASSUME NEW c \in Requests, Disposed(c) PROVE RegistryInUseIsLive'
  BY <1>11 DEF Disposed
<1>12. ASSUME NEW c \in Requests, LoadThrows(c) PROVE RegistryInUseIsLive'
  BY <1>12 DEF LoadThrows
<1>13. ASSUME NEW c \in Requests, EnsureWatch(c) PROVE RegistryInUseIsLive'
  BY <1>13 DEF EnsureWatch, ResetWatch, SameWatch
<1>14. ASSUME NEW c \in Requests, NEW p \in Projects, Loaded(c, p) PROVE RegistryInUseIsLive'
  BY <1>14 DEF Loaded
<1>15. CASE UNCHANGED vars
  BY <1>15 DEF vars
<1> QED BY <1>1, <1>2, <1>3, <1>4, <1>5, <1>6, <1>7, <1>8,
          <1>9, <1>10, <1>11, <1>12, <1>13, <1>14, <1>15 DEF Next

\* A replaced registry lasts as long as the reload that replaced it.
LEMMA ReplacedStep == ASSUME TypeOK, HostBooks, ReplacedRegistriesGo, [Next]_vars PROVE ReplacedRegistriesGo'
<1> USE DEF TypeOK, Projects, host, gateVars, request, registry, history, HostBooks, ReplacedRegistriesGo
<1>1. ASSUME WatcherReady PROVE ReplacedRegistriesGo'
  BY <1>1 DEF WatcherReady
<1>2. ASSUME WatcherFails PROVE ReplacedRegistriesGo'
  BY <1>2 DEF WatcherFails, ResetWatch
<1>3. ASSUME Edit PROVE ReplacedRegistriesGo'
  BY <1>3 DEF Edit
<1>4. ASSUME FileEvent PROVE ReplacedRegistriesGo'
  BY <1>4 DEF FileEvent
<1>5. ASSUME TimerFires PROVE ReplacedRegistriesGo'
  BY <1>5 DEF TimerFires, StartReload, Joins
<1>6. ASSUME RequestReload PROVE ReplacedRegistriesGo'
  BY <1>6 DEF RequestReload, StartReload
<1>7. ASSUME NEW p \in Projects, Import(p) PROVE ReplacedRegistriesGo'
  <2> SUFFICES ASSUME NEW q \in Projects, NEW g \in 0..gen'[q],
                      <<q, g>> \in live', g # gen'[q]
               PROVE  g = gen'[q] - 1 /\ reload'[q] = "disposing"
    OBVIOUS
  <2>1. gen' = [gen EXCEPT ![p] = gen[p] + 1] /\ reload' = [reload EXCEPT ![p] = "disposing"]
    BY <1>7 DEF Import
  <2>2. CASE q # p
    <3>1. gen'[q] = gen[q] /\ reload'[q] = reload[q]
      BY <2>1, <2>2
    <3>2. <<q, g>> \in live
      BY <1>7, <2>2 DEF Import
    <3> QED BY <3>1, <3>2
  <2>3. CASE q = p
    <3>1. gen'[q] = gen[q] + 1 /\ reload'[q] = "disposing" /\ gen[q] \in Nat
      BY <2>1, <2>3
    <3>2. <<q, g>> \in live /\ g \in 0..gen[q]
      BY <1>7, <2>3, <3>1 DEF Import
    <3>3. g = gen[q]
      BY <1>7, <2>3, <3>2 DEF Import
    <3> QED BY <3>1, <3>3
  <2> QED BY <2>2, <2>3
<1>8. ASSUME NEW p \in Projects, ImportThrows(p) PROVE ReplacedRegistriesGo'
  BY <1>8 DEF ImportThrows, Settle
<1>9. ASSUME NEW p \in Projects, ReloadDone(p) PROVE ReplacedRegistriesGo'
  <2> SUFFICES ASSUME NEW q \in Projects, NEW g \in 0..gen'[q],
                      <<q, g>> \in live', g # gen'[q]
               PROVE  g = gen'[q] - 1 /\ reload'[q] = "disposing"
    OBVIOUS
  <2>1. <<q, g>> \in live /\ <<q, g>> # <<p, gen[p] - 1>> /\ gen' = gen
    BY <1>9 DEF ReloadDone, OldRegistry
  <2>2. g = gen[q] - 1 /\ reload[q] = "disposing"
    BY <2>1
  <2>3. q # p
    BY <2>1, <2>2
  <2>4. reload'[q] = reload[q]
    BY <1>9, <2>3 DEF ReloadDone, Settle
  <2> QED BY <2>1, <2>2, <2>4
<1>10. ASSUME NEW c \in Requests, NEW r \in Asks[c], Acquire(c, r) PROVE ReplacedRegistriesGo'
  BY <1>10 DEF Acquire, ResetWatch
<1>11. ASSUME NEW c \in Requests, Disposed(c) PROVE ReplacedRegistriesGo'
  BY <1>11 DEF Disposed
<1>12. ASSUME NEW c \in Requests, LoadThrows(c) PROVE ReplacedRegistriesGo'
  BY <1>12 DEF LoadThrows
<1>13. ASSUME NEW c \in Requests, EnsureWatch(c) PROVE ReplacedRegistriesGo'
  BY <1>13 DEF EnsureWatch, ResetWatch, SameWatch
<1>14. ASSUME NEW c \in Requests, NEW p \in Projects, Loaded(c, p) PROVE ReplacedRegistriesGo'
  BY <1>14 DEF Loaded
<1>15. CASE UNCHANGED vars
  BY <1>15 DEF vars
<1> QED BY <1>1, <1>2, <1>3, <1>4, <1>5, <1>6, <1>7, <1>8,
          <1>9, <1>10, <1>11, <1>12, <1>13, <1>14, <1>15 DEF Next

\* Where an edit is that the gate was told of.
LEMMA GateStep == ASSUME TypeOK, HostBooks, EditFollows, [Next]_vars PROVE EditFollows'
<1> USE DEF TypeOK, Projects, host, gateVars, request, registry, history, HostBooks, EditFollows
<1>1. ASSUME WatcherReady PROVE EditFollows'
  BY <1>1 DEF WatcherReady
<1>2. ASSUME WatcherFails PROVE EditFollows'
  BY <1>2 DEF WatcherFails, ResetWatch
<1>3. ASSUME Edit PROVE EditFollows'
  BY <1>3 DEF Edit
<1>4. ASSUME FileEvent PROVE EditFollows'
  BY <1>4 DEF FileEvent
<1>5. ASSUME TimerFires PROVE EditFollows'
  BY <1>5 DEF TimerFires, StartReload, Joins
<1>6. ASSUME RequestReload PROVE EditFollows'
  BY <1>6 DEF RequestReload, StartReload
<1>7. ASSUME NEW p \in Projects, Import(p) PROVE EditFollows'
  BY <1>7 DEF Import
<1>8. ASSUME NEW p \in Projects, ImportThrows(p) PROVE EditFollows'
  BY <1>8 DEF ImportThrows, Settle
<1>9. ASSUME NEW p \in Projects, ReloadDone(p) PROVE EditFollows'
  BY <1>9 DEF ReloadDone, Settle, OldRegistry
<1>10. ASSUME NEW c \in Requests, NEW r \in Asks[c], Acquire(c, r) PROVE EditFollows'
  BY <1>10 DEF Acquire, ResetWatch
<1>11. ASSUME NEW c \in Requests, Disposed(c) PROVE EditFollows'
  BY <1>11 DEF Disposed
<1>12. ASSUME NEW c \in Requests, LoadThrows(c) PROVE EditFollows'
  BY <1>12 DEF LoadThrows
<1>13. ASSUME NEW c \in Requests, EnsureWatch(c) PROVE EditFollows'
  BY <1>13 DEF EnsureWatch, ResetWatch, SameWatch
<1>14. ASSUME NEW c \in Requests, NEW p \in Projects, Loaded(c, p) PROVE EditFollows'
  BY <1>14 DEF Loaded
<1>15. CASE UNCHANGED vars
  BY <1>15 DEF vars
<1> QED BY <1>1, <1>2, <1>3, <1>4, <1>5, <1>6, <1>7, <1>8,
          <1>9, <1>10, <1>11, <1>12, <1>13, <1>14, <1>15 DEF Next

\* Without an overlap, the watcher and the project in place stay together.
LEMMA LoadStep == ASSUME TypeOK, HostBooks, OneLoads, [Next]_vars PROVE OneLoads'
<1> USE DEF TypeOK, Projects, host, gateVars, request, registry, history, HostBooks, OneLoads, Loading
<1>1. ASSUME WatcherReady PROVE OneLoads'
  BY <1>1 DEF WatcherReady
<1>2. ASSUME WatcherFails PROVE OneLoads'
  BY <1>2 DEF WatcherFails, ResetWatch
<1>3. ASSUME Edit PROVE OneLoads'
  BY <1>3 DEF Edit
<1>4. ASSUME FileEvent PROVE OneLoads'
  BY <1>4 DEF FileEvent
<1>5. ASSUME TimerFires PROVE OneLoads'
  BY <1>5 DEF TimerFires, StartReload, Joins
<1>6. ASSUME RequestReload PROVE OneLoads'
  BY <1>6 DEF RequestReload, StartReload
<1>7. ASSUME NEW p \in Projects, Import(p) PROVE OneLoads'
  BY <1>7 DEF Import
<1>8. ASSUME NEW p \in Projects, ImportThrows(p) PROVE OneLoads'
  BY <1>8 DEF ImportThrows, Settle
<1>9. ASSUME NEW p \in Projects, ReloadDone(p) PROVE OneLoads'
  BY <1>9 DEF ReloadDone, Settle, OldRegistry
<1>10. ASSUME NEW c \in Requests, NEW r \in Asks[c], Acquire(c, r) PROVE OneLoads'
  <2>1. CASE project # None /\ root[project] = r
    <3>1. UNCHANGED <<root, project, watched, overlapped>> /\ pc' = [pc EXCEPT ![c] = "acquired"]
      BY <1>10, <2>1 DEF Acquire
    <3>2. wants' = [wants EXCEPT ![c] = r] /\ pc[c] = "idle"
      BY <1>10 DEF Acquire
    <3>3. Loading' = Loading /\ \A d \in Loading : wants'[d] = wants[d]
      BY <3>1, <3>2
    <3>4. \A d \in Requests : pc[d] = "acquired" => pc'[d] = "acquired"
      BY <3>1
    <3> HIDE DEF Loading
    <3> QED BY <3>1, <3>3, <3>4
  <2>2. CASE ~(project # None /\ root[project] = r)
    <3> SUFFICES ASSUME ~overlapped' PROVE OneLoads'
      OBVIOUS
    <3>1. Loading = {} /\ watched' = None /\ UNCHANGED <<root, project>>
      BY <1>10, <2>2 DEF Acquire, ResetWatch
    <3>2. wants' = [wants EXCEPT ![c] = r]
      BY <1>10 DEF Acquire
    <3>3. \A d \in Requests : d # c => pc'[d] = pc[d]
      BY <1>10 DEF Acquire
    <3>4. Loading' \subseteq {c}
      BY <3>1, <3>3
    <3>5. wants'[c] = r
      BY <3>2
    <3> HIDE DEF Loading
    <3> QED BY <2>2, <3>1, <3>4, <3>5
  <2> QED BY <2>1, <2>2
<1>11. ASSUME NEW c \in Requests, Disposed(c) PROVE OneLoads'
  BY <1>11 DEF Disposed
<1>12. ASSUME NEW c \in Requests, LoadThrows(c) PROVE OneLoads'
  BY <1>12 DEF LoadThrows
<1>13. ASSUME NEW c \in Requests, EnsureWatch(c) PROVE OneLoads'
  BY <1>13 DEF EnsureWatch, ResetWatch, SameWatch
<1>14. ASSUME NEW c \in Requests, NEW p \in Projects, Loaded(c, p) PROVE OneLoads'
  BY <1>14 DEF Loaded
<1>15. CASE UNCHANGED vars
  BY <1>15 DEF vars
<1> QED BY <1>1, <1>2, <1>3, <1>4, <1>5, <1>6, <1>7, <1>8,
          <1>9, <1>10, <1>11, <1>12, <1>13, <1>14, <1>15 DEF Next

\* The invariant holds when the process starts.
LEMMA InitInv == Init => IInv
<1> SUFFICES ASSUME Init PROVE IInv
  OBVIOUS
<1> USE DEF Init, Projects
<1>1. TypeOK
  <2>1. /\ disk \in 0..MaxEdits /\ errors \in 0..MaxErrors
        /\ notified \in 0..disk /\ edited \in 0..disk
    BY HostAssumption
  <2>2. {armed, timer, again, overlapped, joined} \subseteq BOOLEAN
    BY Zenon
  <2>3. prev \in [Requests -> (Projects \X Nat) \cup {<<>>}]
    <3>1. PICK e : e = <<>>
      OBVIOUS
    <3> QED BY <3>1
  <2>4. /\ version \in [Projects -> 0..disk] /\ gen \in [Projects -> Nat]
        /\ disposed \in [Projects -> BOOLEAN] /\ failed \in [Projects -> BOOLEAN]
    OBVIOUS
  <2> QED BY <2>1, <2>2, <2>3, <2>4 DEF TypeOK
<1>2. HostBooks /\ OldOrDisposed
  BY DEF HostBooks, OldOrDisposed
<1>3. RegistryInUseIsLive /\ ReplacedRegistriesGo
  BY DEF RegistryInUseIsLive, ReplacedRegistriesGo
<1>4. OneLoads /\ EditFollows
  BY DEF OneLoads, EditFollows, Loading
<1> QED BY <1>1, <1>2, <1>3, <1>4 DEF IInv

\* Every step keeps the invariant.
LEMMA StepInv == IInv /\ [Next]_vars => IInv'
<1> SUFFICES ASSUME IInv, [Next]_vars PROVE IInv'
  OBVIOUS
<1> USE DEF IInv
<1>1. TypeOK'
  BY TypeStep
<1>2. HostBooks' /\ OldOrDisposed'
  BY BooksStep, OldStep
<1>3. RegistryInUseIsLive' /\ ReplacedRegistriesGo'
  BY InUseStep, ReplacedStep
<1>4. OneLoads' /\ EditFollows'
  BY LoadStep, GateStep
<1> QED BY <1>1, <1>2, <1>3, <1>4

\* The invariant holds for ever.
LEMMA HostInvariant == Spec => []IInv
<1> QED BY InitInv, StepInv, PTL DEF Spec

-----------------------------------------------------------------------------
\* Every variable of the host, its projects and its requests keeps its type.
THEOREM HostTyped == Spec => []TypeOK
<1>1. IInv => TypeOK
  BY DEF IInv
<1> QED BY HostInvariant, <1>1, PTL

\* Whatever reloads do, whether they succeed, fail, are joined or overlap a
\* dispose, a project that was not given up serves a registry whose tool
\* providers are still there.
THEOREM ServedRegistryLives == Spec => []RegistryInUseIsLive
<1>1. IInv => RegistryInUseIsLive
  BY DEF IInv
<1> QED BY HostInvariant, <1>1, PTL

\* No registry but the served one outlives the reload that replaced it.
THEOREM ReplacedRegistriesEnd == Spec => []ReplacedRegistriesGo
<1>1. IInv => ReplacedRegistriesGo
  BY DEF IInv
<1> QED BY HostInvariant, <1>1, PTL

\* Without overlapping loads, the watcher is on the project that requests get
\* whenever none is under way.
THEOREM WatcherIsOnProject == Spec => []WatchFollowsProject
<1>1. IInv => WatchFollowsProject
  BY DEF IInv, OneLoads, WatchFollowsProject
<1> QED BY HostInvariant, <1>1, PTL

\* A gate at rest has lost no edit it was told of.
THEOREM GateLosesNoEdit == Spec => []EditIsLoaded
<1>1. IInv => EditIsLoaded
  BY DEF IInv, EditFollows, EditIsLoaded
<1> QED BY HostInvariant, <1>1, PTL
=============================================================================
