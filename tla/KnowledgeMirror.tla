-------------------------- MODULE KnowledgeMirror --------------------------
(***************************************************************************)
(* The local mirror of the cloud's knowledge releases and the release that *)
(* one agent in FOLLOW_CLOUD serves from it (knowledge_release_sync,       *)
(* deps_sync, knowledge_admin_reload).  The syncer reads the active        *)
(* pointer, mirrors its release, prunes old mirrors and swaps the agent    *)
(* over, all under the file lock.  A reload request syncs under that lock  *)
(* and then loads and swaps without it, in another thread.                 *)
(***************************************************************************)
EXTENDS Naturals, FiniteSets

CONSTANTS
    Releases,   \* release ids
    None,
    First,      \* the release that is active at the start
    Complete,   \* releases whose manifest lists the runtime artifacts
    MaxMoves,   \* moves of the active pointer
    MaxFaults   \* crashes and failing calls

ASSUME Assumptions ==
    /\ None \notin Releases
    /\ First \in Releases
    /\ Complete \subseteq Releases
    /\ MaxMoves \in Nat /\ MaxFaults \in Nat

VARIABLES
    cloud,     \* the active release of the control plane
    moves,
    disk,      \* the releases with a verified mirror
    newer,     \* <<s, r>>: the mirror of s was made after that of r
    cut,       \* whether a prune failed part way, and no sync was recorded since
    saved,     \* the status file: the releases last mirrored and active
    loaded,    \* loaded_release_id of the syncer, also in the status file
    up,        \* whether the agent has started
    served,    \* the release of the services that answer questions
    reported,  \* app.state.knowledge_release_id
    sync,      \* the sync under the file lock
    reload,    \* the reload request
    faults

agent == <<up, served, reported>>
status == <<saved, loaded>>
mirrors == <<disk, newer, cut>>
vars == <<cloud, moves, mirrors, status, agent, sync, reload, faults>>

Ids == Releases \cup {None}

\* The steps of exchanging the release: the services, the app state, the syncer.
Exchanging == {"serve", "report", "mark"}
SyncPhases == {"off", "read", "mirror", "prune", "record", "load"} \cup Exchanging
ReloadPhases == {"idle", "asked", "syncing", "resolve", "load"} \cup Exchanging

Syncers == {"boot", "poll", "reload"}
NoSync == [phase |-> "off", by |-> None, release |-> None, keep |-> {}]
NoReload == [phase |-> "idle", release |-> None]

TypeOK ==
    /\ cloud \in Releases
    /\ moves \in 0 .. MaxMoves
    /\ disk \subseteq Releases
    /\ newer \subseteq disk \X disk
    /\ cut \in BOOLEAN
    /\ saved \in [mirrored : Ids, active : Ids]
    /\ up \in BOOLEAN
    /\ served \in Ids /\ reported \in Ids /\ loaded \in Ids
    /\ sync \in [phase : SyncPhases, by : Syncers \cup {None},
                 release : Ids, keep : SUBSET Releases]
    /\ reload \in [phase : ReloadPhases, release : Ids]
    /\ faults \in 0 .. MaxFaults

Init ==
    /\ cloud = First
    /\ moves = 0
    /\ disk = {} /\ newer = {} /\ cut = FALSE
    /\ saved = [mirrored |-> None, active |-> None]
    /\ loaded = None
    /\ up = FALSE
    /\ served = None /\ reported = None
    /\ sync = NoSync
    /\ reload = NoReload
    /\ faults = 0

Fault == faults < MaxFaults /\ faults' = faults + 1
Fine == UNCHANGED faults

-----------------------------------------------------------------------------
(* The control plane moves the pointer, and asks for a reload of the release *)
(* that it has just made active, or of what the agent finds.                 *)

MovePointer ==
    /\ moves < MaxMoves
    /\ moves' = moves + 1
    /\ cloud' \in Releases \ {cloud}
    /\ UNCHANGED <<mirrors, status, agent, sync, reload, faults>>

AskReload ==
    /\ up
    /\ reload.phase = "idle"
    /\ \E r \in {cloud, None} : reload' = [phase |-> "asked", release |-> r]
    /\ UNCHANGED <<cloud, moves, mirrors, status, agent, sync, faults>>

-----------------------------------------------------------------------------
(* The syncer *)

\* The file lock is taken before the agent loads its first index, by the
\* background thread, or by a reload request.
StartSync(by) ==
    /\ sync.phase = "off"
    /\ CASE by = "boot" -> ~up /\ UNCHANGED reload
         [] by = "poll" -> up /\ UNCHANGED reload
         [] by = "reload" -> /\ reload.phase = "asked"
                             /\ reload' = [reload EXCEPT !.phase = "syncing"]
    /\ sync' = [NoSync EXCEPT !.phase = "read", !.by = by]
    /\ UNCHANGED <<cloud, moves, mirrors, status, agent, faults>>

\* However a sync ends, a booting agent loads and a waiting reload goes on.
EndSync ==
    /\ sync' = IF sync.by = "boot" THEN [sync EXCEPT !.phase = "load"] ELSE NoSync
    /\ reload' = IF sync.by = "reload" THEN [reload EXCEPT !.phase = "resolve"] ELSE reload

SyncGoes(phase) == sync' = [sync EXCEPT !.phase = phase] /\ UNCHANGED reload

ReadPointer ==
    /\ sync.phase = "read"
    /\ \/ Fine /\ UNCHANGED reload
          /\ sync' = [sync EXCEPT !.phase = "mirror", !.release = cloud]
       \/ Fault /\ EndSync
    /\ UNCHANGED <<cloud, moves, mirrors, status, agent>>

\* A mirror appears whole under its name (a rename), or not at all, and one that
\* is there is used again.  What the prune has to keep is settled here.
KeepIds == {sync.release, loaded} \ {None}

AddMirror(r) ==
    \/ r \in disk /\ UNCHANGED mirrors
    \/ /\ r \notin disk /\ disk' = disk \cup {r}
       /\ newer' = newer \cup ({r} \X disk)
       /\ UNCHANGED cut

Mirror ==
    /\ sync.phase = "mirror"
    /\ \/ /\ Fine
          /\ AddMirror(sync.release)
          /\ sync' = [sync EXCEPT !.phase = "prune", !.keep = KeepIds]
          /\ UNCHANGED <<saved, reload>>
       \/ /\ Fault
          /\ saved' = [saved EXCEPT !.active = sync.release]
          /\ EndSync
          /\ UNCHANGED mirrors
    /\ UNCHANGED <<cloud, moves, loaded, agent>>

\* Beyond the releases to keep, the newest by their modification times stay until
\* two are there.
Newer(r) == {s \in disk \ sync.keep : <<s, r>> \in newer}

Kept(r) == r \in sync.keep \/ Cardinality(sync.keep) + Cardinality(Newer(r)) < 2

Removes(gone) == disk' = disk \ gone /\ newer' = newer \cap (disk' \X disk')

\* They go one by one, the newest first.  A file that cannot be read or made
\* writable ends the sync where it is.
Surplus == {r \in disk : ~Kept(r)}

Prune ==
    /\ sync.phase = "prune"
    /\ \/ /\ Fine
          /\ Removes(Surplus)
          /\ SyncGoes("record")
          /\ UNCHANGED <<cut, saved>>
       \/ /\ Fault
          /\ \E gone \in SUBSET Surplus :
                /\ gone = {} \/ gone # Surplus
                /\ \A s \in gone, r \in Surplus \ gone : <<s, r>> \in newer
                /\ Removes(gone)
                /\ cut' = (cut \/ gone # {})
          /\ saved' = [saved EXCEPT !.active = sync.release]
          /\ EndSync
    /\ UNCHANGED <<cloud, moves, loaded, agent>>

\* The status is written.  An agent that is behind is then swapped over, unless
\* it is still booting or the mirror is index-only.
Behind_SinceLastSync == saved.mirrored # sync.release
Behind == loaded # sync.release

Record ==
    /\ sync.phase = "record"
    /\ saved' = [mirrored |-> sync.release, active |-> sync.release]
    /\ IF sync.by # "boot" /\ sync.release \in Complete /\ Behind
       THEN SyncGoes("load")
       ELSE EndSync
    /\ cut' = FALSE
    /\ UNCHANGED <<cloud, moves, disk, newer, loaded, agent, faults>>

-----------------------------------------------------------------------------
(* Loading and exchanging the release *)

\* Nothing is loaded if the app reports the release already; the syncer is told.
\* The mirror is there: the prune kept it, and this sync still holds the lock.
AlreadyThere == reported = sync.release

HotLoad ==
    /\ sync.phase = "load" /\ sync.by # "boot"
    /\ \/ Fine /\ AlreadyThere /\ loaded' = sync.release /\ EndSync
       \/ Fine /\ ~AlreadyThere /\ sync.release \in disk /\ UNCHANGED loaded /\ SyncGoes("serve")
       \/ Fault /\ ~AlreadyThere /\ UNCHANGED loaded /\ EndSync
    /\ UNCHANGED <<cloud, moves, mirrors, saved, agent>>

\* The release a request gets, or what the status file names, as far as mirrored.
Candidates_LastLoaded(r) ==
    IF loaded # None THEN <<r, loaded>> ELSE <<r, saved.mirrored>>
Candidates(r) == <<r, saved.mirrored, saved.active, loaded>>

OnDisk(r) == {i \in DOMAIN Candidates(r) : Candidates(r)[i] \in disk}
Available(r) == OnDisk(r) # {}
Preferred(r) == Candidates(r)[CHOOSE i \in OnDisk(r) : \A j \in OnDisk(r) : i <= j]

Resolve ==
    /\ reload.phase = "resolve"
    /\ reload' = IF Available(reload.release)
                 THEN [phase |-> "load", release |-> Preferred(reload.release)]
                 ELSE NoReload
    /\ UNCHANGED <<cloud, moves, mirrors, status, agent, sync, faults>>

\* A mirror that has gone in the meantime is not loaded.
Load ==
    /\ reload.phase = "load"
    /\ \/ Fine /\ reload.release \in disk /\ reload' = [reload EXCEPT !.phase = "serve"]
       \/ Fine /\ reload.release \notin disk /\ reload' = NoReload
       \/ Fault /\ reload' = NoReload
    /\ UNCHANGED <<cloud, moves, mirrors, status, agent, sync>>

\* The exchange: a step for each thing that is replaced, in either thread.
Serve(r) == served' = r /\ UNCHANGED <<reported, loaded>>
Report(r) == reported' = r /\ UNCHANGED <<served, loaded>>
Mark(r) == loaded' = r /\ UNCHANGED <<served, reported>>

HotExchange ==
    /\ \/ sync.phase = "serve" /\ Serve(sync.release) /\ SyncGoes("report")
       \/ sync.phase = "report" /\ Report(sync.release) /\ SyncGoes("mark")
       \/ sync.phase = "mark" /\ Mark(sync.release) /\ EndSync
    /\ UNCHANGED <<cloud, moves, mirrors, saved, up, faults>>

ReloadGoes(phase) == reload' = [reload EXCEPT !.phase = phase]

ReloadExchange ==
    /\ \/ reload.phase = "serve" /\ Serve(reload.release) /\ ReloadGoes("report")
       \/ reload.phase = "report" /\ Report(reload.release) /\ ReloadGoes("mark")
       \/ reload.phase = "mark" /\ Mark(reload.release) /\ reload' = NoReload
    /\ UNCHANGED <<cloud, moves, mirrors, saved, up, sync, faults>>

\* Startup serves what is mirrored, and fails without a mirror.
Boot ==
    /\ sync.phase = "load" /\ sync.by = "boot"
    /\ sync' = NoSync
    /\ \/ /\ Fine /\ Available(None)
          /\ up' = TRUE
          /\ served' = Preferred(None)
          /\ reported' = served' /\ loaded' = served'
          /\ cut' = FALSE
       \/ (Fault \/ (Fine /\ ~Available(None))) /\ UNCHANGED <<agent, loaded, cut>>
    /\ UNCHANGED <<cloud, moves, disk, newer, saved, reload>>

\* The status endpoint tells the syncer what the app reports.
Status ==
    /\ up /\ loaded # reported
    /\ loaded' = reported
    /\ UNCHANGED <<cloud, moves, mirrors, saved, agent, sync, reload, faults>>

\* A new process takes loaded_release_id from the status file.
Crash ==
    /\ Fault
    /\ up' = FALSE
    /\ served' = None /\ reported' = None
    /\ sync' = NoSync
    /\ reload' = NoReload
    /\ UNCHANGED <<cloud, moves, mirrors, status>>

-----------------------------------------------------------------------------

SyncStep == ReadPointer \/ Mirror \/ Prune \/ Record \/ HotLoad \/ HotExchange \/ Boot
ReloadStep == Resolve \/ Load \/ ReloadExchange

Next ==
    \/ MovePointer \/ AskReload
    \/ \E by \in Syncers : StartSync(by)
    \/ SyncStep \/ ReloadStep
    \/ Status \/ Crash

Spec == Init /\ [][Next]_vars

\* The agent is started again, the background thread polls, whoever waits for the
\* lock gets it, and a sync or a request under way goes on.
Fairness ==
    /\ \A by \in Syncers : SF_vars(StartSync(by))
    /\ WF_vars(SyncStep)
    /\ WF_vars(ReloadStep)

FairSpec == Spec /\ Fairness

-----------------------------------------------------------------------------
(* Properties *)

\* Whatever crashes, failures and reloads of other releases there were, once the
\* pointer rests the syncer ends up with the active release as the loaded one,
\* also when a reload and a hot reload mark theirs in the opposite order.
LoadedFollowsCloud ==
    <>[](cloud \in Complete => up /\ loaded = cloud)

\* As long as an agent is up, and between its syncs, its mirrors and the status
\* file are enough to start it again while the cloud is out of reach: the prune
\* and what the syncer records never leave it without a mirror it would find.  Only
\* a prune that fails after it removed some may, until the next sync or start.
StartsWithoutCloud ==
    up /\ sync.phase = "off" /\ ~cut => Available(None)
=============================================================================
