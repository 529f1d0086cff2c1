----------------------- MODULE KnowledgeMirrorProofs -----------------------
(***************************************************************************)
(* An agent that is up can be started again from its mirrors, for any      *)
(* number of releases, moves of the pointer, crashes and failing calls.    *)
(***************************************************************************)
EXTENDS KnowledgeMirror, TLAPS

-----------------------------------------------------------------------------
(* The inductive invariant.                                                *)

(* The sync at work belongs to an agent that is booting, or to one that is *)
(* up; its release is known once the pointer has been read.                *)
Started ==
    /\ ~up => reload = NoReload
    /\ sync.phase = "off" => sync = NoSync
    /\ sync.phase # "off" => sync.by \in Syncers /\ (sync.by = "boot" <=> ~up)
    /\ sync.phase \in {"mirror", "prune", "record"} => sync.release \in Releases
    /\ sync.phase \in Exchanging => sync.by # "boot"

Shaped == TypeOK /\ Started

(* From the mirror to the hot reload, the lock keeps the sync's release on *)
(* the disk: the prune spares it and nobody else prunes.                   *)
Holding ==
    /\ sync.phase = "prune" => sync.release \in sync.keep \cap disk
    /\ sync.phase = "record" => sync.release \in disk
    /\ sync.phase = "load" /\ sync.by # "boot" => sync.release \in disk

(* An agent that is up would find a mirror because its last sync recorded  *)
(* one that is still there; or it booted on a mirror without such a        *)
(* record, and then nothing but mirrors that are there has been loaded     *)
(* since. Only a prune takes mirrors away, and the sync whose prune does   *)
(* goes on to record its own, or was cut off.                              *)
Recorded == saved.mirrored \in disk

Carried ==
    /\ loaded \in disk /\ reported \in disk
    /\ reload.phase \in Exchanging => reload.release \in disk

Startable ==
    up => /\ sync.phase \in {"off", "read", "mirror", "prune"}
             => cut \/ Recorded \/ Carried
          /\ sync.phase \in {"load"} \cup Exchanging => Recorded

Restartable == Shaped /\ Holding /\ Startable

-----------------------------------------------------------------------------
(* The choice among the releases the status file names.                    *)

(* What is preferred is on the disk when anything is.                      *)
LEMMA PreferredOnDisk ==
    ASSUME NEW r, Available(r)
    PROVE  Preferred(r) \in disk
<1>1. OnDisk(r) \subseteq 1 .. 4 /\ OnDisk(r) # {}
  BY DEF Available, OnDisk, Candidates
<1>2. \E i \in OnDisk(r) : \A j \in OnDisk(r) : i <= j
  BY <1>1
<1>3. PICK i \in OnDisk(r) :
         i = CHOOSE k \in OnDisk(r) : \A j \in OnDisk(r) : k <= j
  BY <1>2
<1>. QED  BY <1>3 DEF Preferred, OnDisk

LEMMA SavedIsAvailable ==
    ASSUME NEW r, saved.mirrored \in disk \/ loaded \in disk
    PROVE  Available(r)
<1>1. CASE saved.mirrored \in disk
  <2>1. 2 \in DOMAIN Candidates(r) /\ Candidates(r)[2] = saved.mirrored
    BY DEF Candidates
  <2>. QED  BY <1>1, <2>1 DEF Available, OnDisk
<1>2. CASE loaded \in disk
  <2>1. 4 \in DOMAIN Candidates(r) /\ Candidates(r)[4] = loaded
    BY DEF Candidates
  <2>. QED  BY <1>2, <2>1 DEF Available, OnDisk
<1>. QED  BY <1>1, <1>2

-----------------------------------------------------------------------------
(* Preservation.                                                           *)

LEMMA IdleTyped ==
    /\ NoSync \in [phase : SyncPhases, by : Syncers \cup {None},
                   release : Ids, keep : SUBSET Releases]
    /\ NoReload \in [phase : ReloadPhases, release : Ids]
    /\ NoSync.phase = "off" /\ NoReload.phase = "idle"
BY DEF NoSync, NoReload, SyncPhases, ReloadPhases, Ids

LEMMA InitRestartable == Init => Restartable
<1>. SUFFICES ASSUME Init PROVE Restartable
  OBVIOUS
<1>1. TypeOK
  <2>1. moves \in 0 .. MaxMoves /\ faults \in 0 .. MaxFaults /\ cloud \in Releases
    BY Assumptions DEF Init
  <2>2. disk \subseteq Releases /\ newer \subseteq disk \X disk /\ cut \in BOOLEAN
    BY DEF Init
  <2>3. /\ saved \in [mirrored : Ids, active : Ids]
        /\ served \in Ids /\ reported \in Ids /\ loaded \in Ids /\ up \in BOOLEAN
    BY DEF Init, Ids
  <2>. QED  BY <2>1, <2>2, <2>3, IdleTyped DEF Init, TypeOK
<1>2. Started /\ Holding /\ Startable
  BY IdleTyped DEF Init, Started, Holding, Startable, Exchanging
<1>. QED  BY <1>1, <1>2 DEF Restartable, Shaped

LEMMA EnvironmentRestartable ==
    ASSUME Restartable, MovePointer \/ AskReload \/ Status \/ Crash
    PROVE  Restartable'
<1>. USE Assumptions DEF Restartable, Shaped, TypeOK, Started, Holding, Startable,
         Recorded, Carried, Exchanging, Syncers, Ids, agent, status, mirrors
<1>1. CASE MovePointer
  BY <1>1 DEF MovePointer
<1>2. CASE AskReload
  BY <1>2 DEF AskReload, ReloadPhases, NoReload
<1>3. CASE Status
  BY <1>3 DEF Status
<1>4. CASE Crash
  <2>1. /\ up' = FALSE /\ served' = None /\ reported' = None
        /\ sync' = NoSync /\ reload' = NoReload
        /\ UNCHANGED <<cloud, moves, disk, newer, cut, saved, loaded>>
        /\ faults' \in 0 .. MaxFaults
    BY <1>4 DEF Crash, Fault
  <2>. QED  BY <2>1, IdleTyped
<1>. QED  BY <1>1, <1>2, <1>3, <1>4

(* However a sync ends, it leaves the lock, or a boot goes on to load.     *)
LEMMA EndSyncShaped ==
    ASSUME Shaped, sync.phase # "off", EndSync, UNCHANGED up
    PROVE  /\ sync' \in [phase : SyncPhases, by : Syncers \cup {None},
                         release : Ids, keep : SUBSET Releases]
           /\ reload' \in [phase : ReloadPhases, release : Ids]
           /\ Started'
           /\ up => sync'.phase = "off"
           /\ sync'.phase \in {"off", "load"}
           /\ sync'.phase = "load" => sync'.by = "boot"
           /\ reload'.phase \in Exchanging
                => reload.phase \in Exchanging /\ reload'.release = reload.release
<1>1. CASE sync.by = "boot"
  <2>1. sync' = [sync EXCEPT !.phase = "load"] /\ reload' = reload
    BY <1>1 DEF EndSync
  <2>. QED  BY <1>1, <2>1 DEF Shaped, TypeOK, Started, SyncPhases, Exchanging
<1>2. CASE sync.by # "boot"
  BY <1>2, IdleTyped
     DEF EndSync, Shaped, TypeOK, Started, ReloadPhases, Exchanging
<1>. QED  BY <1>1, <1>2

LEMMA StartSyncRestartable ==
    ASSUME Restartable, NEW by \in Syncers, StartSync(by)
    PROVE  Restartable'
<1>1. /\ sync' = [NoSync EXCEPT !.phase = "read", !.by = by]
      /\ sync.phase = "off"
      /\ UNCHANGED <<cloud, moves, disk, newer, cut, saved, loaded, up, served, reported,
                     faults>>
  BY DEF StartSync, mirrors, status, agent
<1>2. sync'.phase = "read" /\ sync'.by = by
      /\ sync' \in [phase : SyncPhases, by : Syncers \cup {None},
                    release : Ids, keep : SUBSET Releases]
  BY <1>1, IdleTyped DEF SyncPhases
<1>3. by = "boot" <=> ~up
  BY IdleTyped DEF StartSync, Syncers, Restartable, Shaped, Started
<1>4. /\ reload' \in [phase : ReloadPhases, release : Ids]
      /\ ~up => reload' = NoReload
      /\ reload'.phase \in Exchanging => reload' = reload
  BY <1>3 DEF StartSync, Syncers, Restartable, Shaped, Started, TypeOK, ReloadPhases,
     Exchanging
<1>5. TypeOK'
  BY <1>1, <1>2, <1>4 DEF Restartable, Shaped, TypeOK
<1>6. Started' /\ Holding' /\ Startable'
  BY <1>1, <1>2, <1>3, <1>4
     DEF Restartable, Shaped, Started, Holding, Startable, Recorded, Carried, Exchanging
<1>. QED  BY <1>5, <1>6 DEF Restartable, Shaped

LEMMA FaultTyped ==
    ASSUME TypeOK, Fault \/ Fine
    PROVE  faults' \in 0 .. MaxFaults
BY Assumptions DEF TypeOK, Fault, Fine

LEMMA AddMirrorGrows ==
    ASSUME TypeOK, NEW r \in Releases, AddMirror(r)
    PROVE  /\ disk \subseteq disk' /\ r \in disk' /\ disk' \subseteq Releases
           /\ newer' \subseteq disk' \X disk' /\ cut' = cut
BY DEF AddMirror, TypeOK, mirrors

(* The prune takes no mirror that the sync keeps.                          *)
LEMMA PruneSpares ==
    ASSUME TypeOK, NEW gone \in SUBSET Surplus, Removes(gone)
    PROVE  /\ disk' \subseteq disk /\ sync.keep \cap disk \subseteq disk'
           /\ newer' \subseteq disk' \X disk'
           /\ gone = {} => disk' = disk
BY DEF Removes, Surplus, Kept, TypeOK

LEMMA SyncRestartable ==
    ASSUME Restartable, SyncStep
    PROVE  Restartable'
<1>0. Shaped /\ TypeOK /\ Started /\ faults' \in 0 .. MaxFaults
      /\ UNCHANGED <<cloud, moves>>
  BY FaultTyped
     DEF Restartable, Shaped, SyncStep, ReadPointer, Mirror, Prune, Record, HotLoad,
         HotExchange, Boot, Fine
<1>. USE <1>0
<1>1. CASE ReadPointer
  <2>1. /\ sync.phase = "read"
        /\ UNCHANGED <<disk, newer, cut, saved, loaded, up, served, reported>>
    BY <1>1 DEF ReadPointer, mirrors, status, agent
  <2>2. CASE EndSync
    BY <2>1, <2>2, EndSyncShaped
       DEF Restartable, Shaped, TypeOK, Holding, Startable, Recorded, Carried, Started,
           Exchanging
  <2>3. CASE UNCHANGED reload
             /\ sync' = [sync EXCEPT !.phase = "mirror", !.release = cloud]
    BY <2>1, <2>3
       DEF Restartable, Shaped, TypeOK, Started, Holding, Startable, Recorded, Carried,
           SyncPhases, Exchanging, Ids
  <2>. QED  BY <1>1, <2>2, <2>3 DEF ReadPointer
<1>2. CASE Mirror
  <2>1. /\ sync.phase = "mirror" /\ sync.release \in Releases
        /\ UNCHANGED <<loaded, up, served, reported>>
    BY <1>2 DEF Mirror, agent, Started
  <2>2. CASE Fault /\ saved' = [saved EXCEPT !.active = sync.release] /\ EndSync
             /\ UNCHANGED mirrors
    <3>1. saved' \in [mirrored : Ids, active : Ids] /\ saved'.mirrored = saved.mirrored
      BY <2>1, <2>2 DEF TypeOK, Ids
    <3>. QED  BY <2>1, <2>2, <3>1, EndSyncShaped
              DEF Restartable, Shaped, TypeOK, Holding, Startable, Recorded, Carried,
                  Started, Exchanging, mirrors
  <2>3. CASE AddMirror(sync.release) /\ UNCHANGED <<saved, reload>>
             /\ sync' = [sync EXCEPT !.phase = "prune", !.keep = KeepIds]
    <3>1. /\ disk \subseteq disk' /\ sync.release \in disk' /\ disk' \subseteq Releases
          /\ newer' \subseteq disk' \X disk' /\ cut' = cut
      BY <2>1, <2>3, AddMirrorGrows
    <3>2. /\ KeepIds \in SUBSET Releases /\ sync.release \in KeepIds
      BY <2>1, Assumptions DEF KeepIds, TypeOK, Ids
    <3>. QED  BY <2>1, <2>3, <3>1, <3>2
              DEF Restartable, Shaped, TypeOK, Started, Holding, Startable, Recorded, Carried,
                  SyncPhases, Exchanging
  <2>. QED  BY <1>2, <2>2, <2>3 DEF Mirror
<1>3. CASE Prune
  <2>1. sync.phase = "prune" /\ UNCHANGED <<loaded, up, served, reported>>
    BY <1>3 DEF Prune, agent
  <2>2. ASSUME NEW gone \in SUBSET Surplus, Removes(gone), EndSync,
               cut' = (cut \/ gone # {}), saved' = [saved EXCEPT !.active = sync.release]
        PROVE  Restartable'
    <3>1. saved' \in [mirrored : Ids, active : Ids] /\ saved'.mirrored = saved.mirrored
      BY <2>1, <2>2 DEF TypeOK, Started, Ids
    <3>2. /\ disk' \subseteq disk /\ newer' \subseteq disk' \X disk'
          /\ cut' \in BOOLEAN /\ (cut' \/ (cut' = cut /\ disk' = disk))
      <4>1. CASE gone = {}
        BY <2>2, <4>1, PruneSpares DEF TypeOK
      <4>2. CASE gone # {}
        BY <2>2, <4>2, PruneSpares DEF TypeOK
      <4>. QED  BY <4>1, <4>2
    <3>. QED  BY <2>1, <2>2, <3>1, <3>2, EndSyncShaped
              DEF Restartable, Shaped, TypeOK, Holding, Startable, Recorded, Carried,
                  Started, Exchanging
  <2>3. CASE Removes(Surplus) /\ SyncGoes("record") /\ UNCHANGED <<cut, saved>>
    <3>1. /\ sync' = [sync EXCEPT !.phase = "record"]
          /\ UNCHANGED <<cut, saved, reload>>
      BY <2>3 DEF SyncGoes
    <3>2. disk' \subseteq disk /\ sync.release \in disk' /\ newer' \subseteq disk' \X disk'
      BY <2>1, <2>3, PruneSpares DEF Restartable, Holding
    <3>. QED  BY <2>1, <3>1, <3>2
              DEF Restartable, Shaped, TypeOK, Started, Holding, Startable, SyncPhases,
                  Exchanging
  <2>. QED  BY <1>3, <2>2, <2>3 DEF Prune
<1>4. CASE Record
  <2>1. /\ sync.phase = "record" /\ sync.release \in disk
        /\ saved' = [mirrored |-> sync.release, active |-> sync.release]
        /\ cut' = FALSE /\ UNCHANGED <<disk, newer, loaded, up, served, reported>>
    BY <1>4 DEF Record, mirrors, agent, Restartable, Holding
  <2>2. saved' \in [mirrored : Ids, active : Ids] /\ saved'.mirrored \in disk'
    BY <2>1 DEF TypeOK, Ids
  <2>3. CASE EndSync
    BY <2>1, <2>2, <2>3, EndSyncShaped
       DEF Restartable, Shaped, TypeOK, Holding, Startable, Recorded, Started
  <2>4. CASE sync.by # "boot" /\ SyncGoes("load")
    BY <2>1, <2>2, <2>4
       DEF Restartable, Shaped, TypeOK, Started, Holding, Startable, Recorded, SyncGoes,
           SyncPhases, Exchanging
  <2>. QED  BY <1>4, <2>3, <2>4 DEF Record
<1>5. CASE HotLoad
  <2>1. /\ sync.phase = "load" /\ sync.by # "boot" /\ sync.release \in disk
        /\ up /\ saved.mirrored \in disk
        /\ UNCHANGED <<disk, newer, cut, saved, up, served, reported>>
    BY <1>5 DEF HotLoad, mirrors, agent, Restartable, Holding, Startable, Recorded, Started
  <2>2. CASE EndSync /\ loaded' \in {loaded, sync.release}
    BY <2>1, <2>2, EndSyncShaped
       DEF Restartable, Shaped, TypeOK, Holding, Startable, Recorded, Started
  <2>3. CASE SyncGoes("serve") /\ UNCHANGED loaded
    BY <2>1, <2>3
       DEF Restartable, Shaped, TypeOK, Started, Holding, Startable, Recorded, SyncGoes,
           SyncPhases, Exchanging
  <2>. QED  BY <1>5, <2>2, <2>3 DEF HotLoad
<1>6. CASE HotExchange
  <2>1. /\ sync.phase \in Exchanging /\ sync.by # "boot" /\ up
        /\ saved.mirrored \in disk
        /\ UNCHANGED <<disk, newer, cut, saved, up>>
        /\ {served', reported', loaded'} \subseteq Ids
    BY <1>6
       DEF HotExchange, Exchanging, mirrors, agent, Restartable, Startable, Recorded,
           Started, Serve, Report, Mark, TypeOK
  <2>2. CASE EndSync
    BY <2>1, <2>2, EndSyncShaped
       DEF Restartable, Shaped, TypeOK, Holding, Startable, Recorded, Started, Exchanging
  <2>3. ASSUME NEW phase \in {"report", "mark"}, SyncGoes(phase)
        PROVE  Restartable'
    BY <2>1, <2>3
       DEF Restartable, Shaped, TypeOK, Started, Holding, Startable, Recorded, SyncGoes,
           SyncPhases, Exchanging
  <2>. QED  BY <1>6, <2>2, <2>3 DEF HotExchange
<1>7. CASE Boot
  <2>1. /\ sync.phase = "load" /\ sync.by = "boot" /\ sync' = NoSync
        /\ reload = NoReload /\ reload' = NoReload
        /\ UNCHANGED <<disk, newer, saved>>
    BY <1>7 DEF Boot, Started
  <2>2. CASE Available(None) /\ up' = TRUE /\ served' = Preferred(None)
             /\ reported' = served' /\ loaded' = served' /\ cut' = FALSE
    <3>1. served' \in disk
      BY <2>2, PreferredOnDisk
    <3>2. served' \in Ids
      BY <3>1 DEF TypeOK, Ids
    <3>. QED  BY <2>1, <2>2, <3>1, <3>2, IdleTyped
              DEF Restartable, Shaped, TypeOK, Started, Holding, Startable, Carried,
                  Exchanging
  <2>3. CASE UNCHANGED <<agent, loaded, cut>>
    BY <2>1, <2>3, IdleTyped
       DEF Restartable, Shaped, TypeOK, Started, Holding, Startable, agent, Exchanging
  <2>. QED  BY <1>7, <2>2, <2>3 DEF Boot
<1>. QED  BY <1>1, <1>2, <1>3, <1>4, <1>5, <1>6, <1>7 DEF SyncStep

LEMMA ReloadRestartable ==
    ASSUME Restartable, ReloadStep
    PROVE  Restartable'
<1>0. /\ faults' \in 0 .. MaxFaults
      /\ UNCHANGED <<cloud, moves, disk, newer, cut, saved, up, sync>>
      /\ up
  BY FaultTyped
     DEF Restartable, Shaped, ReloadStep, Resolve, Load, ReloadExchange, Fine, mirrors,
         status, agent, Started, NoReload, Exchanging
<1>. USE <1>0 DEF Restartable, Shaped, TypeOK, Started, Holding, Startable, Recorded,
         Carried, Exchanging, ReloadPhases
<1>1. CASE Resolve
  <2>1. ASSUME Available(reload.release)
        PROVE  Preferred(reload.release) \in Ids
    BY <2>1, PreferredOnDisk DEF Ids
  <2>. QED  BY <1>1, <2>1, IdleTyped DEF Resolve, status, agent
<1>2. CASE Load
  BY <1>2, IdleTyped DEF Load, status, agent
<1>3. CASE ReloadExchange
  BY <1>3, IdleTyped DEF ReloadExchange, ReloadGoes, Serve, Report, Mark
<1>. QED  BY <1>1, <1>2, <1>3 DEF ReloadStep

LEMMA NextRestartable == Restartable /\ [Next]_vars => Restartable'
<1>. SUFFICES ASSUME Restartable, [Next]_vars PROVE Restartable'
  OBVIOUS
<1>1. CASE UNCHANGED vars
  BY <1>1
     DEF vars, mirrors, status, agent, Restartable, Shaped, TypeOK, Started, Holding,
         Startable, Recorded, Carried
<1>. QED  BY <1>1, EnvironmentRestartable, StartSyncRestartable, SyncRestartable,
             ReloadRestartable
          DEF Next

LEMMA AlwaysRestartable == Spec => []Restartable
BY InitRestartable, NextRestartable, PTL DEF Spec

-----------------------------------------------------------------------------

(* The mirror's records keep their shape; in particular only releases that *)
(* have a mirror are ordered by its age.                                   *)
THEOREM TypeCorrect == Spec => []TypeOK
<1>1. Restartable => TypeOK
  BY DEF Restartable, Shaped
<1>. QED  BY <1>1, AlwaysRestartable, PTL

(* A hot reload loads a mirror that is there: between the prune and the    *)
(* load the lock is not given up (apply_follow_cloud_mirror_reload).       *)
THEOREM HotLoadFindsItsMirror ==
    Spec => [](sync.phase = "load" /\ sync.by # "boot" => sync.release \in disk)
<1>1. Restartable
      => (sync.phase = "load" /\ sync.by # "boot" => sync.release \in disk)
  BY DEF Restartable, Holding
<1>. QED  BY <1>1, AlwaysRestartable, PTL

(* An agent that is up and between its syncs would find a mirror to start  *)
(* from without the cloud, after any number of crashes, failing calls,     *)
(* reloads and prunes, of which none since the last record or start failed *)
(* after it had removed a mirror.                                          *)
THEOREM StartsFromItsMirrors == Spec => []StartsWithoutCloud
<1>1. Restartable => StartsWithoutCloud
  BY SavedIsAvailable
     DEF Restartable, Startable, Recorded, Carried, StartsWithoutCloud
<1>. QED  BY <1>1, AlwaysRestartable, PTL
=============================================================================
