---------------------------- MODULE ReleaseSaga ----------------------------
(***************************************************************************)
(* The Knowledge Portal's release saga: publish, unpublish, reindex,       *)
(* promote, rollback and agent sync, run by portal instances that share    *)
(* one repository and one publish lease, against an Agent whose reloads    *)
(* may fail or be acknowledged to nobody.                                  *)
(*                                                                         *)
(* Every write of a saga to the repository is a step of its own: each one  *)
(* is a separate awaited call in the code, none is conditional on what it  *)
(* overwrites, and an instance may die, or a call fail, between any two.   *)
(***************************************************************************)
EXTENDS Integers, FiniteSets

CONSTANTS
    MaxRequests,        \* requests 1..MaxRequests, numbered by arrival
    InstanceOf,         \* the portal instance that serves each request
    Version, Doc,       \* immutable knowledge versions and their documents
    DocOf,              \* the document a version belongs to
    BootVersions,       \* what a migration bootstrap may have published
    Menu,               \* the operations callers use in this instance
    ReindexScopes,      \* the document sets a reindex is asked for
    MaxFaults,          \* bound on instance crashes and failing calls
    MaxOverruns,        \* bound on leases that run out under a live saga
    None

Request == 1..MaxRequests

(* A request that builds an artifact names it with a fresh id: its own     *)
(* number. Release 0 is the one the migration bootstrap activated.         *)
Release == 0..MaxRequests

Builds == {"publish", "unpublish", "reindex"}
Kind == Builds \cup {"promote", "rollback", "sync"}

ASSUME ConstantsAssumption ==
    /\ MaxRequests \in Nat
    /\ DocOf \in [Version -> Doc]
    /\ \A d \in Doc : \E v \in Version : DocOf[v] = d
    /\ BootVersions \subseteq SUBSET Version
    /\ Menu \subseteq Kind
    /\ ReindexScopes \subseteq SUBSET Doc
    /\ MaxFaults \in Nat
    /\ MaxOverruns \in Nat
    /\ None \notin Release \cup Version \cup Doc

Manifest == [Doc -> Version \cup {None}]
EmptyManifest == [d \in Doc |-> None]

ReleaseStatus == {"ABSENT", "DEPLOYING", "ACTIVE", "FAILED", "GATE_BLOCKED",
                  "ROLLED_BACK", "RELOAD_FAILED"}
Promotable == {"GATE_BLOCKED", "RELOAD_FAILED", "ROLLED_BACK"}
(* Variant: only half-finished activations are superseded.                 *)
DeactivatableUnfinished == {"DEPLOYING", "RELOAD_FAILED"}
Deactivatable == {"ACTIVE", "DEPLOYING", "RELOAD_FAILED"}

VARIABLES
    pointer,      \* the repository's active release id
    localPointer, \* the active-release file beside the artifacts
    loaded,       \* the release the Agent serves from
    status,       \* the stored status of each release
    manifest,     \* the stored manifest of each release
    verStatus,    \* the stored status of each version
    docs,         \* the stored document records
    lease,        \* the request whose publish lease is unexpired
    pc,           \* where each request stands in its handler
    job,          \* the handler's local variables
    faults,       \* crashes and failed calls so far
    overran,      \* the sagas whose lease ran out under them
    crossed,      \* the sagas that were inside the lock with another one
    disturbed     \* what upset the sagas since one last activated alone

(* What happened so far: no handler reads it; faults and overran bound what *)
(* the environment does, the properties are stated over the rest.          *)
history == <<faults, overran, crossed, disturbed>>
store == <<pointer, localPointer, status, manifest, verStatus, docs>>
vars == <<pointer, localPointer, loaded, status, manifest, verStatus, docs,
          lease, pc, job, history>>

(* Places inside the coordination lock, in the order a saga visits them.   *)
Critical ==
    {"collect", "build", "gate", "readprev", "list", "deactivate", "save",
     "point", "local", "savedeploying", "syncdocs", "reload", "settle",
     "finalize", "savefailed", "restorepointer", "restorelocal", "restoreprev",
     "renotify", "savever", "savedoc", "check", "release"}
Ended == {"done", "failed", "dead"}
Outside == {"idle", "gateblock", "presync", "wait", "poll"}
Label == Outside \cup Critical \cup Ended

Job == [kind: Kind \cup {None}, doc: Doc \cup {None},
        ver: Version \cup {None}, scope: SUBSET Doc,
        target: Release \cup {None}, prev: Release \cup {None},
        man: Manifest, todo: SUBSET Release, touch: SUBSET Doc,
        ok: BOOLEAN, initial: BOOLEAN, error: BOOLEAN]

NoJob == [kind |-> None, doc |-> None, ver |-> None, scope |-> {},
          target |-> None, prev |-> None, man |-> EmptyManifest,
          todo |-> {}, touch |-> {}, ok |-> FALSE, initial |-> FALSE,
          error |-> FALSE]

DocRecord == [status: {"APPROVED", "PUBLISHED", "UNPUBLISHED"},
              current: Version \cup {None}]

(* What the migration bootstrap left behind: the imported versions         *)
(* published in one release, DEPLOYING until a first sync has verified it, *)
(* or an empty repository when it never ran. Documents with a newer        *)
(* approved version are APPROVED again.                                    *)
BootManifest(boot) ==
    [d \in Doc |-> IF \E v \in boot : DocOf[v] = d
                   THEN CHOOSE v \in boot : DocOf[v] = d
                   ELSE None]
BootRelease(boot) == IF boot = {} THEN None ELSE 0

Boot(boot, verified) ==
    /\ pointer = BootRelease(boot)
    /\ localPointer = BootRelease(boot)
    /\ loaded = IF verified THEN BootRelease(boot) ELSE None
    /\ status = [r \in Release |-> IF r # BootRelease(boot) THEN "ABSENT"
                                   ELSE IF verified THEN "ACTIVE"
                                   ELSE "DEPLOYING"]
    /\ manifest = [r \in Release |-> IF r = BootRelease(boot)
                                     THEN BootManifest(boot)
                                     ELSE EmptyManifest]
    /\ verStatus = [v \in Version |-> IF v \in boot THEN "PUBLISHED"
                                      ELSE "APPROVED"]
    /\ docs = [d \in Doc |->
                 [status |-> IF \E v \in Version \ boot : DocOf[v] = d
                             THEN "APPROVED" ELSE "PUBLISHED",
                  current |-> BootManifest(boot)[d]]]

Init ==
    /\ \E boot \in BootVersions, verified \in BOOLEAN : Boot(boot, verified)
    /\ lease = None
    /\ pc = [o \in Request |-> "idle"]
    /\ job = [o \in Request |-> NoJob]
    /\ faults = 0 /\ overran = {} /\ crossed = {} /\ disturbed = {}

-----------------------------------------------------------------------------
(* Control flow of a handler.                                              *)

Goto(o, label) == pc' = [pc EXCEPT ![o] = label]

At(o, label) == pc[o] = label
KindOf(o) == job[o].kind
Target(o) == job[o].target

(* Requests arrive in the order of their numbers.                          *)
Arrives(o, kind) ==
    /\ At(o, "idle")
    /\ \A p \in 1..(o - 1) : pc[p] # "idle"
    /\ kind \in Menu

(* Leaving the lock by an exception.                                       *)
Raise(o) == Goto(o, "release") /\ job' = [job EXCEPT ![o].error = TRUE]

-----------------------------------------------------------------------------
(* Before the lock.                                                        *)

SubmitPublish(o, v) ==
    /\ Arrives(o, "publish")
    /\ job' = [job EXCEPT ![o] = [NoJob EXCEPT !.kind = "publish", !.ver = v,
                                               !.doc = DocOf[v],
                                               !.target = o]]
    /\ Goto(o, "wait")
    /\ UNCHANGED <<store, loaded, lease, history>>

SubmitUnpublish(o, d) ==
    /\ Arrives(o, "unpublish")
    /\ job' = [job EXCEPT ![o] = [NoJob EXCEPT !.kind = "unpublish",
                                               !.doc = d, !.target = o]]
    /\ Goto(o, "wait")
    /\ UNCHANGED <<store, loaded, lease, history>>

SubmitReindex(o, scope) ==
    /\ Arrives(o, "reindex")
    /\ job' = [job EXCEPT ![o] = [NoJob EXCEPT !.kind = "reindex",
                                               !.scope = scope,
                                               !.target = o]]
    /\ Goto(o, "wait")
    /\ UNCHANGED <<store, loaded, lease, history>>

(* promote reads its target and asks the gate before it queues for the     *)
(* lock; a blocked candidate is written back from there, outside the lock. *)
SubmitPromote(o, r) ==
    /\ Arrives(o, "promote")
    /\ status[r] # "ABSENT"
    /\ job' = [job EXCEPT ![o] = [NoJob EXCEPT !.kind = "promote",
                                               !.target = r]]
    /\ \/ status[r] \notin Promotable /\ Goto(o, "failed")
       \/ status[r] \in Promotable /\ Goto(o, "wait")
       \/ status[r] \in Promotable /\ Goto(o, "gateblock")
    /\ UNCHANGED <<store, loaded, lease, history>>

PersistGateBlock(o) ==
    /\ At(o, "gateblock")
    /\ status' = [status EXCEPT ![Target(o)] = "GATE_BLOCKED"]
    /\ Goto(o, "failed")
    /\ UNCHANGED <<pointer, localPointer, loaded, manifest, verStatus, docs,
                   lease, job, history>>

(* rollback reads the target and the manifest it replaces before the lock. *)
SubmitRollback(o, r) ==
    /\ Arrives(o, "rollback")
    /\ status[r] # "ABSENT"
    /\ job' = [job EXCEPT ![o] =
                 [NoJob EXCEPT !.kind = "rollback", !.target = r,
                               !.man = IF pointer = None THEN EmptyManifest
                                       ELSE manifest[pointer]]]
    /\ Goto(o, "wait")
    /\ UNCHANGED <<store, loaded, lease, history>>

(* sync decides whether the release may be synced, then reloads the Agent, *)
(* both before the lock.                                                   *)
SubmitSync(o, r) ==
    LET initial == pointer = None /\ status[r] = "RELOAD_FAILED" IN
    /\ Arrives(o, "sync")
    /\ status[r] # "ABSENT"
    /\ job' = [job EXCEPT ![o] = [NoJob EXCEPT !.kind = "sync",
                                               !.target = r,
                                               !.initial = initial]]
    /\ \/ (r = pointer \/ initial) /\ Goto(o, "presync")
       \/ ~(r = pointer \/ initial) /\ Goto(o, "failed")
    /\ UNCHANGED <<store, loaded, lease, history>>

(* The Agent's answer to a reload of release r: loaded and acknowledged,   *)
(* refused, or loaded with the acknowledgement lost (the 15 s timeout). It *)
(* refuses a release that is not the one the local pointer names.          *)
Reload(r, ok) ==
    \/ loaded' = r /\ localPointer \in {None, r}
    \/ ~ok /\ UNCHANGED loaded

NotifyReload(o) ==
    /\ pc[o] \in {"presync", "reload"}
    /\ \E ok \in BOOLEAN :
          /\ Reload(Target(o), ok)
          /\ job' = [job EXCEPT ![o].ok = ok]
    /\ Goto(o, IF At(o, "presync") THEN "wait" ELSE "settle")
    /\ UNCHANGED <<store, lease, history>>

-----------------------------------------------------------------------------
(* The coordination lock: the instance's asyncio.Lock, then the lease.     *)

HoldsLocalLock(o) == pc[o] \in Critical \cup {"poll"}

TakeLocalLock(o) ==
    /\ At(o, "wait")
    /\ \A p \in Request \ {o} :
          InstanceOf[p] = InstanceOf[o] => ~HoldsLocalLock(p)
    /\ Goto(o, "poll")
    /\ UNCHANGED <<store, loaded, lease, job, history>>

FirstStep(kind) ==
    CASE kind = "sync"     -> "check"
      [] kind = "promote"  -> "readprev"
      [] kind = "rollback" -> "gate"
      [] OTHER             -> "collect"

(* Whoever enters while another saga is inside crosses it, and is crossed. *)
NoteEntry(o) ==
    LET inside == {p \in Request : pc[p] \in Critical} IN
    IF inside = {}
    THEN UNCHANGED <<crossed, disturbed>>
    ELSE /\ crossed' = crossed \cup inside \cup {o}
         /\ disturbed' = disturbed \cup {"overlap"}

(* Variant: the lease is owned by the instance instead of the request.     *)
AcquireLeaseForInstance(o) ==
    /\ At(o, "poll")
    /\ lease = None
    /\ lease' = InstanceOf[o]
    /\ Goto(o, FirstStep(KindOf(o)))
    /\ NoteEntry(o)
    /\ UNCHANGED <<store, loaded, job, faults, overran>>

AcquireLease(o) ==
    /\ At(o, "poll")
    /\ lease = None
    /\ lease' = o
    /\ Goto(o, FirstStep(KindOf(o)))
    /\ NoteEntry(o)
    /\ UNCHANGED <<store, loaded, job, faults, overran>>

(* The lease stayed with another instance for the 30 s a caller polls.     *)
AcquireTimeout(o) ==
    /\ At(o, "poll")
    /\ lease # None
    /\ Goto(o, "failed")
    /\ UNCHANGED <<store, loaded, lease, job, history>>

(* Variant: the lease is freed without a look at its owner.                *)
ReleaseAnyLease(o) ==
    /\ At(o, "release")
    /\ lease' = None
    /\ Goto(o, IF job[o].error THEN "failed" ELSE "done")
    /\ job' = [job EXCEPT ![o] = [NoJob EXCEPT !.kind = job[o].kind,
                                               !.ver = job[o].ver]]
    /\ UNCHANGED <<store, loaded, history>>

ReleaseLock(o) ==
    /\ At(o, "release")
    /\ lease' = IF lease = o THEN None ELSE lease
    /\ Goto(o, IF job[o].error THEN "failed" ELSE "done")
    /\ job' = [job EXCEPT ![o] = [NoJob EXCEPT !.kind = job[o].kind,
                                               !.ver = job[o].ver]]
    /\ UNCHANGED <<store, loaded, history>>

(* Variant: a lease lasts until its request returns.                       *)
LeaseExpiresOnReturn ==
    /\ lease # None
    /\ pc[lease] \in {"done", "failed"}
    /\ lease' = None
    /\ UNCHANGED <<store, loaded, pc, job, history>>

(* The TTL runs out. Nobody renews it: not even a saga that is still under *)
(* way, and that goes on as if it had the lock.                            *)
LeaseExpires ==
    /\ lease # None
    /\ overran' = IF pc[lease] \in Ended THEN overran ELSE overran \cup {lease}
    /\ Cardinality(overran') <= MaxOverruns
    /\ lease' = None
    /\ UNCHANGED <<store, loaded, pc, job, faults, crossed, disturbed>>

-----------------------------------------------------------------------------
(* Inside the lock.                                                        *)

IsPublished(v) == v # None /\ verStatus[v] = "PUBLISHED"

ActiveEntry(d) == IF pointer = None THEN None ELSE manifest[pointer][d]

(* Variant: a rebuild looks at the active manifest only.                   *)
CarriedFromManifest(d) ==
    IF IsPublished(ActiveEntry(d)) THEN ActiveEntry(d) ELSE None

(* The version of d a rebuild carries over: the active manifest's entry    *)
(* wins, the document's own published version only fills a gap.            *)
Carried(d) ==
    IF IsPublished(ActiveEntry(d)) THEN ActiveEntry(d)
    ELSE IF IsPublished(docs[d].current) THEN docs[d].current
    ELSE None

CandidateManifest(o) ==
    [d \in Doc |->
        IF KindOf(o) = "reindex"
        THEN IF job[o].scope = {} \/ d \in job[o].scope
             THEN Carried(d) ELSE None
        ELSE IF d = job[o].doc THEN job[o].ver
        ELSE Carried(d)]

(* Variant: publish does not look at the version's status in the lock.     *)
MayStartUnapproved(o) ==
    CASE KindOf(o) = "unpublish" -> \/ docs[job[o].doc].status = "PUBLISHED"
                                    \/ docs[job[o].doc].current # None
      [] OTHER                   -> TRUE

MayStart(o) ==
    CASE KindOf(o) = "publish"   -> verStatus[job[o].ver] = "APPROVED"
      [] KindOf(o) = "unpublish" -> \/ docs[job[o].doc].status = "PUBLISHED"
                                    \/ docs[job[o].doc].current # None
      [] OTHER                   -> TRUE

Collect(o) ==
    /\ At(o, "collect")
    /\ \/ /\ MayStart(o)
          /\ job' = [job EXCEPT ![o].man = CandidateManifest(o)]
          /\ Goto(o, "readprev")
       \/ ~MayStart(o) /\ Raise(o)
    /\ UNCHANGED <<store, loaded, lease, history>>

(* The pointer that a failed reload will restore.                          *)
ReadPrevious(o) ==
    /\ At(o, "readprev")
    /\ job' = [job EXCEPT ![o].prev = pointer]
    /\ Goto(o, IF KindOf(o) = "promote" THEN "list" ELSE "build")
    /\ UNCHANGED <<store, loaded, lease, history>>

(* The artifacts are built, the allow-list and the release gate asked and  *)
(* the source records saved. A failed build stores nothing; a refusal, or  *)
(* a failure of the source catalog, stores the candidate as refused.       *)
BuildCandidate(o) ==
    /\ At(o, "build")
    /\ \/ /\ Goto(o, "list")
          /\ UNCHANGED <<status, manifest, job>>
       \/ /\ Raise(o)
          /\ UNCHANGED <<status, manifest>>
       \/ \E refusal \in {"FAILED", "GATE_BLOCKED"} :
             /\ status' = [status EXCEPT ![Target(o)] = refusal]
             /\ manifest' = [manifest EXCEPT ![Target(o)] = job[o].man]
             /\ Raise(o)
    /\ UNCHANGED <<pointer, localPointer, loaded, verStatus, docs, lease,
                   history>>

(* rollback's gate, inside the lock; nothing is stored when it refuses.    *)
CheckRollbackGate(o) ==
    /\ At(o, "gate")
    /\ \/ Goto(o, "list") /\ UNCHANGED job
       \/ Raise(o)
    /\ UNCHANGED <<store, loaded, lease, history>>

(* deactivate_other_releases lists first and then writes one by one, from  *)
(* the listed copies.                                                      *)
ListOthers(o) ==
    /\ At(o, "list")
    /\ job' = [job EXCEPT ![o].todo = {r \in Release \ {Target(o)} :
                                          status[r] \in Deactivatable}]
    /\ Goto(o, "deactivate")
    /\ UNCHANGED <<store, loaded, lease, history>>

(* Variant: the pointer moves before the candidate is stored.              *)
AfterDeactivationPoint(kind) == IF kind = "sync" THEN "finalize" ELSE "point"

AfterDeactivation(kind) ==
    CASE kind = "rollback" -> "point"
      [] kind = "sync"     -> "finalize"
      [] OTHER             -> "save"

(* Variant: the listing is not advanced after a write.                     *)
DeactivateAgain(o) ==
    /\ At(o, "deactivate")
    /\ \/ \E r \in job[o].todo :
             /\ status' = [status EXCEPT ![r] = "ROLLED_BACK"]
             /\ UNCHANGED <<pc, job>>
       \/ /\ job[o].todo = {}
          /\ Goto(o, AfterDeactivation(KindOf(o)))
          /\ UNCHANGED <<status, job>>
    /\ UNCHANGED <<pointer, localPointer, loaded, manifest, verStatus, docs,
                   lease, history>>

DeactivateNext(o) ==
    /\ At(o, "deactivate")
    /\ \/ \E r \in job[o].todo :
             /\ status' = [status EXCEPT ![r] = "ROLLED_BACK"]
             /\ job' = [job EXCEPT ![o].todo = @ \ {r}]
             /\ UNCHANGED pc
       \/ /\ job[o].todo = {}
          /\ Goto(o, AfterDeactivation(KindOf(o)))
          /\ UNCHANGED <<status, job>>
    /\ UNCHANGED <<pointer, localPointer, loaded, manifest, verStatus, docs,
                   lease, history>>

(* The candidate is stored DEPLOYING: before the pointer moves in activate *)
(* and promote, after it in rollback.                                      *)
SaveDeploying(o) ==
    /\ pc[o] \in {"save", "savedeploying"}
    /\ status' = [status EXCEPT ![Target(o)] = "DEPLOYING"]
    /\ IF KindOf(o) \in Builds
       THEN manifest' = [manifest EXCEPT ![Target(o)] = job[o].man]
       ELSE UNCHANGED manifest
    /\ IF At(o, "save")
       THEN Goto(o, "point") /\ UNCHANGED job
       ELSE /\ Goto(o, "syncdocs")
            /\ job' = [job EXCEPT ![o].touch =
                         {d \in Doc : \/ manifest[Target(o)][d] # None
                                      \/ job[o].man[d] # None}]
    /\ UNCHANGED <<pointer, localPointer, loaded, verStatus, docs, lease,
                   history>>

SetPointer(o) ==
    /\ At(o, "point")
    /\ pointer' = Target(o)
    /\ Goto(o, "local")
    /\ UNCHANGED <<localPointer, loaded, status, manifest, verStatus, docs,
                   lease, job, history>>

AfterLocalPointer(kind) ==
    CASE kind = "rollback" -> "savedeploying"
      [] kind = "sync"     -> "list"
      [] OTHER             -> "reload"

WriteLocalPointer(o) ==
    /\ At(o, "local")
    /\ localPointer' = Target(o)
    /\ Goto(o, AfterLocalPointer(KindOf(o)))
    /\ UNCHANGED <<pointer, loaded, status, manifest, verStatus, docs, lease,
                   job, history>>

(* rollback aligns each document of the target or of the replaced manifest *)
(* with the target manifest.                                               *)
Aligned(record, v) ==
    [status |-> IF v = None /\ record.status = "PUBLISHED" THEN "UNPUBLISHED"
                ELSE IF v # None /\ record.status = "UNPUBLISHED"
                     THEN "PUBLISHED"
                ELSE record.status,
     current |-> v]

SyncNextDocument(o) ==
    /\ At(o, "syncdocs")
    /\ \/ \E d \in job[o].touch :
             /\ docs' = [docs EXCEPT ![d] = Aligned(@, manifest[Target(o)][d])]
             /\ job' = [job EXCEPT ![o].touch = @ \ {d}]
             /\ UNCHANGED pc
       \/ /\ job[o].touch = {}
          /\ Goto(o, "reload")
          /\ UNCHANGED <<docs, job>>
    /\ UNCHANGED <<pointer, localPointer, loaded, status, manifest, verStatus,
                   lease, history>>

-----------------------------------------------------------------------------
(* Settlement after the reload.                                            *)

AfterSettlement(kind) ==
    CASE kind = "publish"   -> "savever"
      [] kind = "unpublish" -> "savedoc"
      [] OTHER              -> "release"

(* The pointer is read again: stale, finalize or compensate. rollback has  *)
(* no compensation; promote restores before it stores its own failure.     *)
Settle(o) ==
    /\ At(o, "settle")
    /\ Goto(o, IF pointer # Target(o) THEN AfterSettlement(KindOf(o))
               ELSE IF job[o].ok THEN "finalize"
               ELSE IF KindOf(o) = "promote" THEN "restorepointer"
               ELSE "savefailed")
    /\ UNCHANGED <<store, loaded, lease, job, history>>

(* A saga that had the lock to itself all along leaves nothing of what     *)
(* others broke off before it.                                             *)
SaveActive(o) ==
    /\ At(o, "finalize")
    /\ status' = [status EXCEPT ![Target(o)] = "ACTIVE"]
    /\ Goto(o, AfterSettlement(KindOf(o)))
    /\ disturbed' = IF o \in crossed THEN disturbed ELSE {}
    /\ UNCHANGED <<pointer, localPointer, loaded, manifest, verStatus, docs,
                   lease, job, faults, overran, crossed>>

(* Variant: a failed reload is stored and nothing restored.                *)
SaveReloadFailedOnly(o) ==
    /\ At(o, "savefailed")
    /\ status' = [status EXCEPT ![Target(o)] = "RELOAD_FAILED"]
    /\ Goto(o, AfterSettlement(KindOf(o)))
    /\ UNCHANGED <<pointer, localPointer, loaded, manifest, verStatus, docs,
                   lease, job, history>>

SaveReloadFailed(o) ==
    /\ At(o, "savefailed")
    /\ status' = [status EXCEPT ![Target(o)] = "RELOAD_FAILED"]
    /\ Goto(o, IF KindOf(o) \in Builds THEN "restorepointer" ELSE "release")
    /\ UNCHANGED <<pointer, localPointer, loaded, manifest, verStatus, docs,
                   lease, job, history>>

(* Variant: promote forgets to store its own failure.                      *)
AfterRestorationDone(kind) == AfterSettlement(kind)

AfterRestoration(kind) ==
    IF kind = "promote" THEN "savefailed" ELSE AfterSettlement(kind)

(* Variant: the compensation leaves the local pointer where it is.         *)
RestorePointerOnly(o) ==
    /\ At(o, "restorepointer")
    /\ pointer' = job[o].prev
    /\ Goto(o, IF job[o].prev = None THEN AfterRestoration(KindOf(o))
               ELSE "restoreprev")
    /\ UNCHANGED <<localPointer, loaded, status, manifest, verStatus, docs,
                   lease, job, history>>

RestorePointer(o) ==
    /\ At(o, "restorepointer")
    /\ pointer' = job[o].prev
    /\ Goto(o, IF job[o].prev = None THEN AfterRestoration(KindOf(o))
               ELSE IF KindOf(o) = "promote" THEN "restoreprev"
               ELSE "restorelocal")
    /\ UNCHANGED <<localPointer, loaded, status, manifest, verStatus, docs,
                   lease, job, history>>

RestoreLocalPointer(o) ==
    /\ At(o, "restorelocal")
    /\ localPointer' = job[o].prev
    /\ Goto(o, IF KindOf(o) = "promote" THEN "renotify" ELSE "restoreprev")
    /\ UNCHANGED <<pointer, loaded, status, manifest, verStatus, docs, lease,
                   job, history>>

RestorePrevious(o) ==
    /\ At(o, "restoreprev")
    /\ status' = [status EXCEPT ![job[o].prev] = "ACTIVE"]
    /\ Goto(o, IF KindOf(o) = "promote" THEN "restorelocal" ELSE "renotify")
    /\ UNCHANGED <<pointer, localPointer, loaded, manifest, verStatus, docs,
                   lease, job, history>>

(* The Agent is told to go back; nobody looks at its answer.               *)
NotifyRestored(o) ==
    /\ At(o, "renotify")
    /\ \E ok \in BOOLEAN : Reload(job[o].prev, ok)
    /\ Goto(o, AfterRestoration(KindOf(o)))
    /\ UNCHANGED <<store, lease, job, history>>

(* publish and unpublish store their document whatever the settlement was. *)
SaveVersion(o) ==
    /\ At(o, "savever")
    /\ verStatus' = [verStatus EXCEPT ![job[o].ver] = "PUBLISHED"]
    /\ Goto(o, "savedoc")
    /\ UNCHANGED <<pointer, localPointer, loaded, status, manifest, docs,
                   lease, job, history>>

SaveDocument(o) ==
    /\ At(o, "savedoc")
    /\ docs' = [docs EXCEPT ![job[o].doc] =
                  IF KindOf(o) = "publish"
                  THEN [status |-> "PUBLISHED", current |-> job[o].ver]
                  ELSE [status |-> "UNPUBLISHED", current |-> None]]
    /\ Goto(o, "release")
    /\ UNCHANGED <<pointer, localPointer, loaded, status, manifest, verStatus,
                   lease, job, history>>

(* sync looks at the pointer again once it has the lock.                   *)
CheckSync(o) ==
    /\ At(o, "check")
    /\ Goto(o, IF pointer # Target(o) /\ ~job[o].initial THEN "release"
               ELSE IF job[o].ok THEN "point"
               ELSE "savefailed")
    /\ UNCHANGED <<store, loaded, lease, job, history>>

-----------------------------------------------------------------------------
(* The environment.                                                        *)

Live == {o \in Request : pc[o] \notin Ended \cup {"idle"}}

(* An instance dies with every request it serves and comes back empty; its *)
(* lease is left to expire.                                                *)
Crash(o) ==
    /\ o \in Live
    /\ faults < MaxFaults
    /\ faults' = faults + 1
    /\ pc' = [p \in Request |->
                IF p \in Live /\ InstanceOf[p] = InstanceOf[o] THEN "dead"
                ELSE pc[p]]
    /\ disturbed' = disturbed \cup {"fault"}
    /\ UNCHANGED <<store, loaded, lease, job, overran, crossed>>

(* A repository or file call raises: the handler leaves the lock from where *)
(* it stands, and no handler undoes what it stored before.                 *)
CallFails(o) ==
    /\ pc[o] \in Critical \ {"release"}
    /\ faults < MaxFaults
    /\ faults' = faults + 1
    /\ Raise(o)
    /\ disturbed' = disturbed \cup {"fault"}
    /\ UNCHANGED <<store, loaded, lease, overran, crossed>>

(* A FILE-mode Agent follows the local pointer on chat and readiness       *)
(* requests.                                                               *)
FollowLocalPointer ==
    /\ localPointer # None
    /\ loaded # localPointer
    /\ loaded' = localPointer
    /\ UNCHANGED <<store, lease, pc, job, history>>

Submit(o) ==
    \/ \E v \in Version : SubmitPublish(o, v)
    \/ \E d \in Doc : SubmitUnpublish(o, d)
    \/ \E scope \in ReindexScopes : SubmitReindex(o, scope)
    \/ \E r \in Release : \/ SubmitPromote(o, r)
                          \/ SubmitRollback(o, r)
                          \/ SubmitSync(o, r)

Prepare(o) ==
    \/ Collect(o) \/ BuildCandidate(o) \/ CheckRollbackGate(o)
    \/ ReadPrevious(o) \/ CheckSync(o)

Commit(o) ==
    \/ ListOthers(o) \/ DeactivateNext(o) \/ SaveDeploying(o)
    \/ SetPointer(o) \/ WriteLocalPointer(o) \/ SyncNextDocument(o)

Settlement(o) ==
    \/ Settle(o) \/ SaveActive(o) \/ SaveReloadFailed(o)
    \/ RestorePointer(o) \/ RestoreLocalPointer(o) \/ RestorePrevious(o)
    \/ NotifyRestored(o) \/ SaveVersion(o) \/ SaveDocument(o)

Step(o) ==
    \/ PersistGateBlock(o) \/ NotifyReload(o) \/ TakeLocalLock(o)
    \/ AcquireLease(o) \/ AcquireTimeout(o) \/ ReleaseLock(o)
    \/ Prepare(o) \/ Commit(o) \/ Settlement(o)

Next ==
    \/ \E o \in Request : Submit(o) \/ Step(o) \/ Crash(o) \/ CallFails(o)
    \/ LeaseExpires
    \/ FollowLocalPointer

Spec == Init /\ [][Next]_vars

(* The event loop resumes every handler it has not lost, every external    *)
(* call returns or times out, asyncio.Lock is first come first served, the *)
(* TTL runs out and the Agent keeps being asked. Nothing obliges callers   *)
(* to arrive, calls to fail or instances to crash.                         *)
FairSpec ==
    /\ Spec
    /\ \A o \in Request : WF_vars(Step(o)) /\ SF_vars(TakeLocalLock(o))
    /\ WF_vars(LeaseExpires)
    /\ WF_vars(FollowLocalPointer)

-----------------------------------------------------------------------------
(* Properties.                                                             *)

(* Every stored record, pointer and handler variable keeps its shape: in   *)
(* particular the pointers only ever name stored release ids.              *)
TypeOK ==
    /\ pointer \in Release \cup {None}
    /\ localPointer \in Release \cup {None}
    /\ loaded \in Release \cup {None}
    /\ status \in [Release -> ReleaseStatus]
    /\ manifest \in [Release -> Manifest]
    /\ verStatus \in [Version -> {"APPROVED", "PUBLISHED"}]
    /\ docs \in [Doc -> DocRecord]
    /\ lease \in Request \cup {None}
    /\ pc \in [Request -> Label]
    /\ job \in [Request -> Job]
    /\ faults \in Nat
    /\ overran \subseteq Request /\ crossed \subseteq Request
    /\ disturbed \subseteq {"overlap", "fault"}

AtRest == \A o \in Request : pc[o] \notin Critical

(* Nothing but its TTL takes the lease from a saga that is still inside:   *)
(* a saga that returns late, or gave up, frees only a lease of its own, so *)
(* that it does not let a third one in (release_publish_lease).            *)
LeaseKept ==
    \A o \in Request : pc[o] \in Critical => lease = o \/ o \in overran

(* At every moment, mid-saga and after any crash, at most one stored       *)
(* release is ACTIVE: peers are deactivated before a candidate is          *)
(* activated, and a compensation demotes before it restores. Sagas that    *)
(* overlap because one outlived its lease may leave two, until the next    *)
(* saga that has the lock to itself activates its release.                 *)
SingleActive ==
    "overlap" \notin disturbed =>
        \A r, s \in Release :
            status[r] = "ACTIVE" /\ status[s] = "ACTIVE" => r = s

(* No saga leaves a release half deployed, or an ACTIVE release that is    *)
(* not the one the pointer names; and whatever overlaps, crashes and       *)
(* failing calls left so, the next activation that has the lock to itself  *)
(* settles. (The bootstrap leaves its own release DEPLOYING until somebody *)
(* syncs it.)                                                              *)
SettledAtRest ==
    disturbed = {} /\ AtRest =>
        \A r \in Release : /\ status[r] = "DEPLOYING" => r = 0
                           /\ status[r] = "ACTIVE" => r = pointer

(* No crash leaves a pointer to a release that was never stored: activate  *)
(* and promote store the candidate before they move either pointer.        *)
PointersResolve ==
    /\ pointer # None => status[pointer] # "ABSENT"
    /\ localPointer # None => status[localPointer] # "ABSENT"

(* Between sagas the file a FILE-mode Agent follows names the repository's *)
(* active release, whenever there is one: from the start, and again after  *)
(* the first activation that follows a disturbance.                        *)
LocalPointerFollows ==
    disturbed = {} /\ AtRest /\ pointer # None => localPointer = pointer

(* An approved version is published by one request: the APPROVED check is  *)
(* made under the lock, so that of two callers the second is refused. Two  *)
(* succeed only if both were in sagas that overlapped.                     *)
PublishedOnce ==
    \A o, p \in Request :
        /\ pc[o] = "done" /\ KindOf(o) = "publish"
        /\ pc[p] = "done" /\ KindOf(p) = "publish"
        /\ job[o].ver = job[p].ver
        => o = p \/ {o, p} \subseteq crossed

(* What the release that o replaces served of d.                           *)
Replaced(o, d) ==
    IF job[o].prev = None THEN None ELSE manifest[job[o].prev][d]

(* The candidate changes its own document and no other: what the replaced  *)
(* release served stays served in the same version, and a published        *)
(* document it did not serve is merged back in.                            *)
CarriesOver(o) ==
    /\ manifest[Target(o)][job[o].doc] = job[o].ver
    /\ \A d \in Doc \ {job[o].doc} :
          IF IsPublished(Replaced(o, d))
          THEN manifest[Target(o)][d] = Replaced(o, d)
          ELSE IsPublished(docs[d].current)
                  => manifest[Target(o)][d] = docs[d].current

(* A publish or unpublish that becomes ACTIVE loses no publication that    *)
(* finished before, nor goes back to another version of it, as long as no  *)
(* other saga was in the lock with it (collect_active_published_versions). *)
NoPublicationLost ==
    [][\A o \in Request \ crossed :
          SaveActive(o) /\ KindOf(o) \in {"publish", "unpublish"}
          => CarriesOver(o)]_vars

(* What the comment beside that rebuild says of it: a document that became *)
(* PUBLISHED without reaching the manifest is merged back in by a later    *)
(* publish. It is not when the manifest has an older version of it.        *)
MergedBack ==
    \A o \in Request :
        At(o, "savever") /\ pointer = Target(o) /\ status[Target(o)] = "ACTIVE"
        => \A d \in Doc \ {job[o].doc} :
               IsPublished(docs[d].current)
               => manifest[Target(o)][d] = docs[d].current

(* A saga whose reload failed hands the lock back with the release it      *)
(* found: the pointer is where it was, and that release is ACTIVE again,   *)
(* or was overwritten by a promote's gate refusal, which takes no lock; so *)
(* it is for every saga that no other overlapped.                          *)
FailedActivationKeepsOld ==
    [][\A o \in Request \ crossed :
          ReleaseLock(o) /\ KindOf(o) \in Builds /\ ~job[o].error /\ ~job[o].ok
          => /\ pointer = job[o].prev
             /\ pointer # None
                    => status[pointer] \in {"ACTIVE", "GATE_BLOCKED"}]_vars

(* Every request that is accepted ends, by its return, its exception or    *)
(* its instance's death, whatever crashed holding the lease.               *)
RequestsEnd ==
    \A o \in Request : pc[o] # "idle" ~> pc[o] \in Ended

(* A lease is never kept for ever.                                         *)
LeaseRecovers == []<>(lease = None)

(* The Agent converges on the active release: when it follows the local    *)
(* pointer, it ends up serving the release the repository calls active,    *)
(* unless a disturbance is the last that happened.                         *)
AgentConverges == <>[](disturbed = {} /\ pointer # None => loaded = pointer)
=============================================================================
