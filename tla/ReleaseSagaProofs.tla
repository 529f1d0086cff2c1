------------------------- MODULE ReleaseSagaProofs -------------------------
(***************************************************************************)
(* Safety of the release saga for any number of requests, instances,       *)
(* documents and versions.                                                 *)
(***************************************************************************)
EXTENDS ReleaseSaga, TLAPS

USE DEF history

-----------------------------------------------------------------------------
(* The inductive invariants.                                               *)

Working(o) == pc[o] \notin Ended \cup {"idle"}

(* A request at work has a known operation on a known release.             *)
TargetsKnown ==
    \A o \in Request :
        /\ Working(o) => Target(o) \in Release /\ KindOf(o) \in Kind
        /\ At(o, "check") => KindOf(o) = "sync"

Typed == TypeOK /\ TargetsKnown

(* No release is ACTIVE but, perhaps, those of R.                          *)
ActiveWithin(R) == \A r \in Release : status[r] = "ACTIVE" => r \in R

(* What a saga that is alone in the lock has done to the ACTIVE releases,  *)
(* whatever it found: it works through its listing, then only its target   *)
(* can be ACTIVE, then, once the target is stored DEPLOYING, nothing is,   *)
(* until it finalizes or restores.                                         *)
Clearing(o) == At(o, "deactivate") => ActiveWithin({Target(o)} \cup job[o].todo)

Cleared(o) ==
    \/ pc[o] \in {"save", "savedeploying", "finalize"}
    \/ pc[o] \in {"point", "local"} /\ KindOf(o) = "rollback"
    => ActiveWithin({Target(o)})

Quiet(o) ==
    \/ pc[o] \in {"syncdocs", "reload", "settle", "restorepointer",
                  "restoreprev"}
    \/ pc[o] = "restorelocal" /\ KindOf(o) # "promote"
    \/ pc[o] = "savefailed" /\ KindOf(o) \in Builds
    \/ pc[o] \in {"point", "local"} /\ KindOf(o) \notin {"rollback", "sync"}
    => ActiveWithin({})

Demoting(o) == Clearing(o) /\ Cleared(o) /\ Quiet(o)
Demotes == \A o \in Request \ crossed : Demoting(o)

(* A request may move a pointer to its target once the target is stored:   *)
(* at once for the operations on an existing release, after the save for   *)
(* the ones that build it.                                                 *)
Stored(r) == r # None => status[r] # "ABSENT"

AfterSave == {"point", "local", "savedeploying", "syncdocs", "reload", "settle",
              "finalize", "savefailed"}

TargetStored(o) ==
    \/ Working(o) /\ KindOf(o) \notin Builds
    \/ pc[o] \in AfterSave
    => Stored(Target(o))

Restorable(o) == TargetStored(o) /\ Stored(job[o].prev)

Resolves ==
    /\ Typed
    /\ Stored(pointer) /\ Stored(localPointer)
    /\ \A o \in Request : Restorable(o)

-----------------------------------------------------------------------------
(* Type correctness.                                                       *)

LEMMA NoJobIsJob == NoJob \in Job
BY ConstantsAssumption DEF NoJob, Job, EmptyManifest, Manifest, Release

LEMMA BootTyped ==
    ASSUME NEW boot \in BootVersions
    PROVE  BootManifest(boot) \in Manifest /\ BootRelease(boot) \in Release \cup {None}
<1>1. boot \subseteq Version
  BY ConstantsAssumption
<1>2. ASSUME NEW d \in Doc
      PROVE  BootManifest(boot)[d] \in Version \cup {None}
  <2>1. CASE \E v \in boot : DocOf[v] = d
    <3>1. (CHOOSE v \in boot : DocOf[v] = d) \in boot
      BY <2>1
    <3>. QED  BY <2>1, <3>1, <1>1 DEF BootManifest
  <2>2. CASE ~\E v \in boot : DocOf[v] = d
    BY <2>2 DEF BootManifest
  <2>. QED  BY <2>1, <2>2
<1>3. BootManifest(boot) \in Manifest
  <2>1. BootManifest(boot) = [d \in Doc |-> BootManifest(boot)[d]]
    BY DEF BootManifest
  <2>. QED  BY <2>1, <1>2 DEF Manifest
<1>4. BootRelease(boot) \in Release \cup {None}
  BY ConstantsAssumption DEF BootRelease, Release
<1>. QED  BY <1>3, <1>4

LEMMA InitTyped == Init => Typed
<1>. SUFFICES ASSUME Init PROVE Typed
  OBVIOUS
<1>1. PICK boot \in BootVersions, verified \in BOOLEAN : Boot(boot, verified)
  BY DEF Init
<1>2. pointer \in Release \cup {None} /\ localPointer \in Release \cup {None}
      /\ loaded \in Release \cup {None}
  BY <1>1, BootTyped DEF Boot
<1>3. status \in [Release -> ReleaseStatus]
  BY <1>1 DEF Boot, ReleaseStatus
<1>4. manifest \in [Release -> Manifest]
  BY <1>1, BootTyped DEF Boot, EmptyManifest, Manifest
<1>5. verStatus \in [Version -> {"APPROVED", "PUBLISHED"}]
  BY <1>1 DEF Boot
<1>6. docs \in [Doc -> DocRecord]
  BY <1>1, BootTyped DEF Boot, DocRecord, Manifest
<1>7. lease \in Request \cup {None} /\ pc \in [Request -> Label]
      /\ job \in [Request -> Job] /\ faults \in Nat /\ overran \subseteq Request
      /\ crossed \subseteq Request /\ disturbed \subseteq {"overlap", "fault"}
  BY NoJobIsJob DEF Init, Label, Outside
<1>8. TargetsKnown
  BY DEF Init, TargetsKnown, Working, At, Ended
<1>. QED  BY <1>2, <1>3, <1>4, <1>5, <1>6, <1>7, <1>8 DEF Typed, TypeOK

(* The local variables of a request at work.                               *)
LEMMA WorkingJob ==
    ASSUME Typed, NEW o \in Request, Working(o)
    PROVE  job[o] \in Job /\ job[o].target \in Release /\ job[o].kind \in Kind
BY DEF Typed, TypeOK, TargetsKnown, Target, KindOf

(* One request moves to a label with a new job; the others stay.           *)
LEMMA MoveTyped ==
    ASSUME Typed, NEW o \in Request, NEW label \in Label, NEW j \in Job,
           Goto(o, label), job' = [job EXCEPT ![o] = j],
           label \notin Ended \cup {"idle"}
               => j.target \in Release /\ j.kind \in Kind,
           label = "check" => j.kind = "sync"
    PROVE  pc' \in [Request -> Label] /\ job' \in [Request -> Job] /\ TargetsKnown'
BY DEF Typed, TypeOK, TargetsKnown, Working, At, Target, KindOf, Goto

(* One request moves to a label and keeps its job.                         *)
LEMMA GotoTyped ==
    ASSUME Typed, NEW o \in Request, NEW label \in Label,
           Goto(o, label), UNCHANGED job,
           Working(o) \/ label \in Ended,
           label = "check" => KindOf(o) = "sync"
    PROVE  pc' \in [Request -> Label] /\ TargetsKnown'
BY DEF Typed, TypeOK, TargetsKnown, Working, At, Target, KindOf, Goto

LEMMA RaiseTyped ==
    ASSUME Typed, NEW o \in Request, Working(o), Raise(o)
    PROVE  pc' \in [Request -> Label] /\ job' \in [Request -> Job] /\ TargetsKnown'
<1>. DEFINE j == [job[o] EXCEPT !.error = TRUE]
<1>0. job[o] \in Job
  BY DEF Typed, TypeOK
<1>1. j \in Job /\ j.target = Target(o) /\ j.kind = KindOf(o)
  BY <1>0 DEF Job, Target, KindOf
<1>2. "release" \in Label
  BY DEF Label, Critical
<1>3. job' = [job EXCEPT ![o] = j]
  BY DEF Raise
<1>. QED  BY <1>1, <1>2, <1>3, MoveTyped DEF Typed, TargetsKnown, Raise

LEMMA SubmitTyped ==
    ASSUME Typed, NEW o \in Request, Submit(o)
    PROVE  Typed'
<1>0. o \in Release /\ {"wait", "failed", "gateblock", "presync"} \subseteq Label
  BY ConstantsAssumption DEF Request, Release, Label, Outside, Ended
<1>1. ASSUME NEW v \in Version, SubmitPublish(o, v)
      PROVE  Typed'
  <2>. DEFINE j == [NoJob EXCEPT !.kind = "publish", !.ver = v,
                                 !.doc = DocOf[v], !.target = o]
  <2>1. "publish" \in Kind /\ DocOf[v] \in Doc
    BY ConstantsAssumption DEF Kind, Builds
  <2>2. j \in Job /\ j.target \in Release /\ j.kind \in Kind
    BY <1>0, <2>1, NoJobIsJob DEF Job
  <2>. QED  BY <1>0, <1>1, <2>2, MoveTyped
               DEF SubmitPublish, Typed, TypeOK, store
<1>2. ASSUME NEW d \in Doc, SubmitUnpublish(o, d)
      PROVE  Typed'
  <2>. DEFINE j == [NoJob EXCEPT !.kind = "unpublish", !.doc = d, !.target = o]
  <2>1. j \in Job /\ j.target \in Release /\ j.kind \in Kind
    BY <1>0, NoJobIsJob DEF Job, Kind, Builds
  <2>. QED  BY <1>0, <1>2, <2>1, MoveTyped
               DEF SubmitUnpublish, Typed, TypeOK, store
<1>3. ASSUME NEW scope \in ReindexScopes, SubmitReindex(o, scope)
      PROVE  Typed'
  <2>. DEFINE j == [NoJob EXCEPT !.kind = "reindex", !.scope = scope, !.target = o]
  <2>1. scope \in SUBSET Doc
    BY ConstantsAssumption
  <2>2. j \in Job /\ j.target \in Release /\ j.kind \in Kind
    BY <1>0, <2>1, NoJobIsJob DEF Job, Kind, Builds
  <2>. QED  BY <1>0, <1>3, <2>2, MoveTyped
               DEF SubmitReindex, Typed, TypeOK, store
<1>4. ASSUME NEW r \in Release, SubmitPromote(o, r)
      PROVE  Typed'
  <2>. DEFINE j == [NoJob EXCEPT !.kind = "promote", !.target = r]
  <2>1. j \in Job /\ j.target \in Release /\ j.kind \in Kind
    BY NoJobIsJob DEF Job, Kind
  <2>2. PICK label \in {"failed", "wait", "gateblock"} : Goto(o, label)
    BY <1>4 DEF SubmitPromote
  <2>. QED  BY <1>0, <1>4, <2>1, <2>2, MoveTyped
               DEF SubmitPromote, Typed, TypeOK, store
<1>5. ASSUME NEW r \in Release, SubmitRollback(o, r)
      PROVE  Typed'
  <2>. DEFINE man == IF pointer = None THEN EmptyManifest ELSE manifest[pointer]
              j == [NoJob EXCEPT !.kind = "rollback", !.target = r, !.man = man]
  <2>1. man \in Manifest
    BY DEF Typed, TypeOK, EmptyManifest, Manifest
  <2>2. j \in Job /\ j.target \in Release /\ j.kind \in Kind
    BY <2>1, NoJobIsJob DEF Job, Kind
  <2>. QED  BY <1>0, <1>5, <2>2, MoveTyped
               DEF SubmitRollback, Typed, TypeOK, store
<1>6. ASSUME NEW r \in Release, SubmitSync(o, r)
      PROVE  Typed'
  <2>. DEFINE initial == pointer = None /\ status[r] = "RELOAD_FAILED"
              j == [NoJob EXCEPT !.kind = "sync", !.target = r, !.initial = initial]
  <2>1. j \in Job /\ j.target \in Release /\ j.kind \in Kind
    BY NoJobIsJob DEF Job, Kind
  <2>2. PICK label \in {"failed", "presync"} : Goto(o, label)
    BY <1>6 DEF SubmitSync
  <2>. QED  BY <1>0, <1>6, <2>1, <2>2, MoveTyped
               DEF SubmitSync, Typed, TypeOK, store
<1>. QED  BY <1>1, <1>2, <1>3, <1>4, <1>5, <1>6 DEF Submit

LEMMA LockTyped ==
    ASSUME Typed, NEW o \in Request,
           \/ TakeLocalLock(o) \/ AcquireLease(o) \/ AcquireTimeout(o)
           \/ ReleaseLock(o)
    PROVE  Typed'
<1>1. CASE TakeLocalLock(o)
  BY <1>1, GotoTyped
     DEF TakeLocalLock, At, Working, Ended, Label, Outside, Typed, TypeOK, store
<1>2. CASE AcquireLease(o)
  <2>1. /\ FirstStep(KindOf(o)) \in Label
        /\ FirstStep(KindOf(o)) = "check" => KindOf(o) = "sync"
        /\ Working(o)
    BY <1>2 DEF AcquireLease, At, Working, Ended, FirstStep, Label, Critical
  <2>2. crossed' \subseteq Request /\ disturbed' \subseteq {"overlap", "fault"}
    BY <1>2 DEF AcquireLease, NoteEntry, Typed, TypeOK
  <2>. QED  BY <1>2, <2>1, <2>2, GotoTyped DEF AcquireLease, Typed, TypeOK, store
<1>3. CASE AcquireTimeout(o)
  BY <1>3, GotoTyped DEF AcquireTimeout, Ended, Label, Typed, TypeOK, store
<1>4. CASE ReleaseLock(o)
  <2>. DEFINE j == [NoJob EXCEPT !.kind = job[o].kind, !.ver = job[o].ver]
  <2>1. j \in Job
    BY NoJobIsJob DEF Job, Typed, TypeOK
  <2>2. PICK label \in {"failed", "done"} : Goto(o, label)
    BY <1>4 DEF ReleaseLock
  <2>3. label \in Label /\ label \in Ended /\ label # "check"
    BY DEF Label, Ended
  <2>. QED  BY <1>4, <2>1, <2>2, <2>3, MoveTyped
               DEF ReleaseLock, Typed, TypeOK, store
<1>. QED  BY <1>1, <1>2, <1>3, <1>4

(* A manifest that a rebuild collects.                                     *)
LEMMA CandidateTyped ==
    ASSUME Typed, NEW o \in Request
    PROVE  CandidateManifest(o) \in Manifest
<1>1. ASSUME NEW d \in Doc
      PROVE  Carried(d) \in Version \cup {None}
  BY DEF Carried, ActiveEntry, IsPublished, Typed, TypeOK, Manifest, DocRecord
<1>2. job[o].ver \in Version \cup {None}
  BY DEF Typed, TypeOK, Job
<1>. QED  BY <1>1, <1>2 DEF CandidateManifest, Manifest

LEMMA PrepareTyped ==
    ASSUME Typed, NEW o \in Request, Prepare(o)
    PROVE  Typed'
<1>1. CASE Collect(o)
  <2>. DEFINE j == [job[o] EXCEPT !.man = CandidateManifest(o)]
  <2>1. Working(o)
    BY <1>1 DEF Collect, At, Working, Ended
  <2>2. CASE MayStart(o)
    <3>1. j \in Job /\ j.target \in Release /\ j.kind \in Kind
      BY <2>1, CandidateTyped
         DEF Typed, TypeOK, TargetsKnown, Target, KindOf, Job
    <3>2. "readprev" \in Label
      BY DEF Label, Critical
    <3>. QED  BY <1>1, <2>2, <3>1, <3>2, MoveTyped
                 DEF Collect, Typed, TypeOK, store
  <2>3. CASE ~MayStart(o)
    BY <1>1, <2>1, <2>3, RaiseTyped DEF Collect, Typed, TypeOK, store
  <2>. QED  BY <2>2, <2>3
<1>2. CASE BuildCandidate(o)
  <2>1. Working(o) /\ "list" \in Label
    BY <1>2 DEF BuildCandidate, At, Working, Ended, Label, Critical
  <2>2. CASE Goto(o, "list") /\ UNCHANGED <<status, manifest, job>>
    BY <1>2, <2>1, <2>2, GotoTyped DEF BuildCandidate, Typed, TypeOK
  <2>3. CASE Raise(o) /\ UNCHANGED <<status, manifest>>
    BY <1>2, <2>1, <2>3, RaiseTyped DEF BuildCandidate, Typed, TypeOK
  <2>4. ASSUME NEW refusal \in {"FAILED", "GATE_BLOCKED"},
               status' = [status EXCEPT ![Target(o)] = refusal],
               manifest' = [manifest EXCEPT ![Target(o)] = job[o].man],
               Raise(o)
        PROVE  Typed'
    <3>1. status' \in [Release -> ReleaseStatus]
      BY <2>4 DEF Typed, TypeOK, ReleaseStatus
    <3>2. manifest' \in [Release -> Manifest]
      BY <2>4 DEF Typed, TypeOK, Job
    <3>. QED  BY <1>2, <2>1, <2>4, <3>1, <3>2, RaiseTyped
                 DEF BuildCandidate, Typed, TypeOK
  <2>. QED  BY <1>2, <2>2, <2>3, <2>4 DEF BuildCandidate
<1>3. CASE CheckRollbackGate(o)
  <2>1. Working(o) /\ "list" \in Label
    BY <1>3 DEF CheckRollbackGate, At, Working, Ended, Label, Critical
  <2>. QED  BY <1>3, <2>1, GotoTyped, RaiseTyped
               DEF CheckRollbackGate, Typed, TypeOK, store
<1>4. CASE ReadPrevious(o)
  <2>. DEFINE j == [job[o] EXCEPT !.prev = pointer]
  <2>1. Working(o)
    BY <1>4 DEF ReadPrevious, At, Working, Ended
  <2>2. j \in Job /\ j.target \in Release /\ j.kind \in Kind
    BY <2>1, WorkingJob DEF Typed, TypeOK, Job
  <2>3. PICK label \in {"list", "build"} : Goto(o, label)
    BY <1>4 DEF ReadPrevious
  <2>4. label \in Label /\ label # "check"
    BY DEF Label, Critical
  <2>. QED  BY <1>4, <2>2, <2>3, <2>4, MoveTyped
               DEF ReadPrevious, Typed, TypeOK, store
<1>5. CASE CheckSync(o)
  <2>1. Working(o)
    BY <1>5 DEF CheckSync, At, Working, Ended
  <2>2. PICK label \in {"release", "point", "savefailed"} : Goto(o, label)
    BY <1>5 DEF CheckSync
  <2>3. label \in Label /\ label # "check"
    BY DEF Label, Critical
  <2>. QED  BY <1>5, <2>1, <2>2, <2>3, GotoTyped
               DEF CheckSync, Typed, TypeOK, store
<1>. QED  BY <1>1, <1>2, <1>3, <1>4, <1>5 DEF Prepare

LEMMA CommitTyped ==
    ASSUME Typed, NEW o \in Request, Commit(o)
    PROVE  Typed'
<1>1. CASE ListOthers(o)
  <2>. DEFINE j == [job[o] EXCEPT !.todo = {r \in Release \ {Target(o)} :
                                              status[r] \in Deactivatable}]
  <2>1. Working(o) /\ "deactivate" \in Label
    BY <1>1 DEF ListOthers, At, Working, Ended, Label, Critical
  <2>2. j \in Job /\ j.target \in Release /\ j.kind \in Kind
    BY <2>1, WorkingJob DEF Job
  <2>. QED  BY <1>1, <2>1, <2>2, MoveTyped DEF ListOthers, Typed, TypeOK, store
<1>2. CASE DeactivateNext(o)
  <2>1. Working(o) /\ At(o, "deactivate")
    BY <1>2 DEF DeactivateNext, At, Working, Ended
  <2>2. ASSUME NEW r \in job[o].todo,
               status' = [status EXCEPT ![r] = "ROLLED_BACK"],
               job' = [job EXCEPT ![o].todo = @ \ {r}],
               UNCHANGED pc
        PROVE  Typed'
    <3>. DEFINE j == [job[o] EXCEPT !.todo = @ \ {r}]
    <3>1. j \in Job /\ j.target \in Release /\ j.kind \in Kind
      BY <2>1, WorkingJob DEF Job
    <3>2. Goto(o, "deactivate") /\ "deactivate" \in Label
      BY <2>1, <2>2 DEF Goto, At, Label, Critical, Typed, TypeOK
    <3>3. status' \in [Release -> ReleaseStatus]
      BY <2>2 DEF Typed, TypeOK, ReleaseStatus
    <3>. QED  BY <1>2, <2>2, <3>1, <3>2, <3>3, MoveTyped
                 DEF DeactivateNext, Typed, TypeOK
  <2>3. ASSUME Goto(o, AfterDeactivation(KindOf(o))), UNCHANGED <<status, job>>
        PROVE  Typed'
    <3>1. AfterDeactivation(KindOf(o)) \in Label
          /\ AfterDeactivation(KindOf(o)) # "check"
      BY DEF AfterDeactivation, Label, Critical
    <3>. QED  BY <1>2, <2>1, <2>3, <3>1, GotoTyped
                 DEF DeactivateNext, Typed, TypeOK
  <2>. QED  BY <1>2, <2>2, <2>3 DEF DeactivateNext
<1>3. CASE SaveDeploying(o)
  <2>1. Working(o) /\ job[o] \in Job
    BY <1>3 DEF SaveDeploying, Working, Ended, Typed, TypeOK
  <2>2. status' \in [Release -> ReleaseStatus]
    BY <1>3 DEF SaveDeploying, Typed, TypeOK, ReleaseStatus
  <2>3. manifest' \in [Release -> Manifest]
    BY <1>3, <2>1 DEF SaveDeploying, Typed, TypeOK, Job
  <2>4. CASE At(o, "save")
    <3>1. "point" \in Label
      BY DEF Label, Critical
    <3>. QED  BY <1>3, <2>1, <2>2, <2>3, <2>4, <3>1, GotoTyped
              DEF SaveDeploying, Typed, TypeOK
  <2>5. CASE ~At(o, "save")
    <3>. DEFINE touch == {d \in Doc : \/ manifest[Target(o)][d] # None
                                       \/ job[o].man[d] # None}
                j == [job[o] EXCEPT !.touch = touch]
    <3>1. j \in Job /\ j.target \in Release /\ j.kind \in Kind
      BY <2>1, WorkingJob DEF Job
    <3>2. "syncdocs" \in Label
      BY DEF Label, Critical
    <3>. QED  BY <1>3, <2>2, <2>3, <2>5, <3>1, <3>2, MoveTyped
              DEF SaveDeploying, Typed, TypeOK
  <2>. QED  BY <2>4, <2>5
<1>4. CASE SetPointer(o)
  <2>1. Working(o) /\ job[o] \in Job
    BY <1>4 DEF SetPointer, At, Working, Ended, Typed, TypeOK
  <2>2. PICK label \in {"local"} : Goto(o, label)
    BY <1>4 DEF SetPointer
  <2>3. label \in Label /\ label # "check"
    BY DEF Label, Critical
  <2>4. pointer' \in Release \cup {None}
    BY <1>4, <2>1 DEF SetPointer, Typed, TargetsKnown
  <2>. QED  BY <1>4, <2>1, <2>2, <2>3, <2>4, GotoTyped
               DEF SetPointer, Typed, TypeOK
<1>5. CASE WriteLocalPointer(o)
  <2>1. Working(o) /\ job[o] \in Job
    BY <1>5 DEF WriteLocalPointer, At, Working, Ended, Typed, TypeOK
  <2>2. PICK label \in {"savedeploying", "list", "reload"} : Goto(o, label)
    BY <1>5 DEF WriteLocalPointer, AfterLocalPointer
  <2>3. label \in Label /\ label # "check"
    BY DEF Label, Critical
  <2>4. localPointer' \in Release \cup {None}
    BY <1>5, <2>1 DEF WriteLocalPointer, Typed, TargetsKnown
  <2>. QED  BY <1>5, <2>1, <2>2, <2>3, <2>4, GotoTyped
               DEF WriteLocalPointer, Typed, TypeOK
<1>6. CASE SyncNextDocument(o)
  <2>1. Working(o) /\ At(o, "syncdocs")
    BY <1>6 DEF SyncNextDocument, At, Working, Ended
  <2>2. ASSUME NEW d \in job[o].touch,
               docs' = [docs EXCEPT ![d] = Aligned(@, manifest[Target(o)][d])],
               job' = [job EXCEPT ![o].touch = @ \ {d}],
               UNCHANGED pc
        PROVE  Typed'
    <3>. DEFINE j == [job[o] EXCEPT !.touch = @ \ {d}]
    <3>1. j \in Job /\ j.target \in Release /\ j.kind \in Kind
      BY <2>1, WorkingJob DEF Job
    <3>2. Goto(o, "syncdocs") /\ "syncdocs" \in Label
      BY <2>1, <2>2 DEF Goto, At, Label, Critical, Typed, TypeOK
    <3>3. d \in Doc /\ manifest[Target(o)][d] \in Version \cup {None}
      BY <2>1 DEF Typed, TypeOK, TargetsKnown, Job, Manifest
    <3>4. docs[d] \in DocRecord
      BY <3>3 DEF Typed, TypeOK
    <3>5. Aligned(docs[d], manifest[Target(o)][d]) \in DocRecord
      BY <3>3, <3>4 DEF Aligned, DocRecord
    <3>6. docs' \in [Doc -> DocRecord]
      BY <2>2, <3>3, <3>5 DEF Typed, TypeOK
    <3>. QED  BY <1>6, <3>1, <3>2, <3>6, <2>2, MoveTyped
                 DEF SyncNextDocument, Typed, TypeOK
  <2>3. ASSUME Goto(o, "reload"), UNCHANGED <<docs, job>>
        PROVE  Typed'
    <3>1. "reload" \in Label
      BY DEF Label, Critical
    <3>. QED  BY <1>6, <2>1, <2>3, <3>1, GotoTyped
                 DEF SyncNextDocument, Typed, TypeOK
  <2>. QED  BY <1>6, <2>2, <2>3 DEF SyncNextDocument
<1>. QED  BY <1>1, <1>2, <1>3, <1>4, <1>5, <1>6 DEF Commit

LEMMA SettlementTyped ==
    ASSUME Typed, NEW o \in Request, Settlement(o)
    PROVE  Typed'
<1>1. CASE Settle(o)
  <2>1. Working(o) /\ job[o] \in Job
    BY <1>1 DEF Settle, At, Working, Ended, Typed, TypeOK
  <2>2. PICK label \in {"savever", "savedoc", "release", "finalize",
             "restorepointer", "savefailed"} : Goto(o, label)
    BY <1>1 DEF Settle, AfterSettlement
  <2>3. label \in Label /\ label # "check"
    BY DEF Label, Critical
  <2>4. UNCHANGED <<store, loaded>>
    BY <1>1, <2>1 DEF Settle
  <2>. QED  BY <1>1, <2>1, <2>2, <2>3, <2>4, GotoTyped
               DEF Settle, Typed, TypeOK, store
<1>2. CASE SaveActive(o)
  <2>1. Working(o) /\ job[o] \in Job
    BY <1>2 DEF SaveActive, At, Working, Ended, Typed, TypeOK
  <2>2. PICK label \in {"savever", "savedoc", "release"} : Goto(o, label)
    BY <1>2 DEF SaveActive, AfterSettlement
  <2>3. label \in Label /\ label # "check"
    BY DEF Label, Critical
  <2>4. status' \in [Release -> ReleaseStatus]
        /\ disturbed' \subseteq {"overlap", "fault"}
    BY <1>2, <2>1 DEF SaveActive, Typed, TypeOK, ReleaseStatus
  <2>. QED  BY <1>2, <2>1, <2>2, <2>3, <2>4, GotoTyped
               DEF SaveActive, Typed, TypeOK
<1>3. CASE SaveReloadFailed(o)
  <2>1. Working(o) /\ job[o] \in Job
    BY <1>3 DEF SaveReloadFailed, At, Working, Ended, Typed, TypeOK
  <2>2. PICK label \in {"restorepointer", "release"} : Goto(o, label)
    BY <1>3 DEF SaveReloadFailed
  <2>3. label \in Label /\ label # "check"
    BY DEF Label, Critical
  <2>4. status' \in [Release -> ReleaseStatus]
    BY <1>3, <2>1 DEF SaveReloadFailed, Typed, TypeOK, ReleaseStatus
  <2>. QED  BY <1>3, <2>1, <2>2, <2>3, <2>4, GotoTyped
               DEF SaveReloadFailed, Typed, TypeOK
<1>4. CASE RestorePointer(o)
  <2>1. Working(o) /\ job[o] \in Job
    BY <1>4 DEF RestorePointer, At, Working, Ended, Typed, TypeOK
  <2>2. PICK label \in {"savefailed", "savever", "savedoc", "release",
             "restoreprev", "restorelocal"} : Goto(o, label)
    BY <1>4 DEF RestorePointer, AfterRestoration, AfterSettlement
  <2>3. label \in Label /\ label # "check"
    BY DEF Label, Critical
  <2>4. pointer' \in Release \cup {None}
    BY <1>4, <2>1 DEF RestorePointer, Job
  <2>. QED  BY <1>4, <2>1, <2>2, <2>3, <2>4, GotoTyped
               DEF RestorePointer, Typed, TypeOK
<1>5. CASE RestoreLocalPointer(o)
  <2>1. Working(o) /\ job[o] \in Job
    BY <1>5 DEF RestoreLocalPointer, At, Working, Ended, Typed, TypeOK
  <2>2. PICK label \in {"renotify", "restoreprev"} : Goto(o, label)
    BY <1>5 DEF RestoreLocalPointer
  <2>3. label \in Label /\ label # "check"
    BY DEF Label, Critical
  <2>4. localPointer' \in Release \cup {None}
    BY <1>5, <2>1 DEF RestoreLocalPointer, Job
  <2>. QED  BY <1>5, <2>1, <2>2, <2>3, <2>4, GotoTyped
               DEF RestoreLocalPointer, Typed, TypeOK
<1>6. CASE RestorePrevious(o)
  <2>1. Working(o) /\ job[o] \in Job
    BY <1>6 DEF RestorePrevious, At, Working, Ended, Typed, TypeOK
  <2>2. PICK label \in {"restorelocal", "renotify"} : Goto(o, label)
    BY <1>6 DEF RestorePrevious
  <2>3. label \in Label /\ label # "check"
    BY DEF Label, Critical
  <2>4. status' \in [Release -> ReleaseStatus]
    BY <1>6, <2>1 DEF RestorePrevious, Typed, TypeOK, ReleaseStatus
  <2>. QED  BY <1>6, <2>1, <2>2, <2>3, <2>4, GotoTyped
               DEF RestorePrevious, Typed, TypeOK
<1>7. CASE NotifyRestored(o)
  <2>1. Working(o) /\ job[o] \in Job
    BY <1>7 DEF NotifyRestored, At, Working, Ended, Typed, TypeOK
  <2>2. PICK label \in {"savefailed", "savever", "savedoc",
             "release"} : Goto(o, label)
    BY <1>7 DEF NotifyRestored, AfterRestoration, AfterSettlement
  <2>3. label \in Label /\ label # "check"
    BY DEF Label, Critical
  <2>4. loaded' \in Release \cup {None}
    BY <1>7, <2>1 DEF NotifyRestored, Reload, Job, Typed, TypeOK
  <2>. QED  BY <1>7, <2>1, <2>2, <2>3, <2>4, GotoTyped
               DEF NotifyRestored, Typed, TypeOK, store
<1>8. CASE SaveVersion(o)
  <2>1. Working(o) /\ job[o] \in Job
    BY <1>8 DEF SaveVersion, At, Working, Ended, Typed, TypeOK
  <2>2. PICK label \in {"savedoc"} : Goto(o, label)
    BY <1>8 DEF SaveVersion
  <2>3. label \in Label /\ label # "check"
    BY DEF Label, Critical
  <2>4. verStatus' \in [Version -> {"APPROVED", "PUBLISHED"}]
    BY <1>8, <2>1 DEF SaveVersion, Typed, TypeOK
  <2>. QED  BY <1>8, <2>1, <2>2, <2>3, <2>4, GotoTyped
               DEF SaveVersion, Typed, TypeOK
<1>9. CASE SaveDocument(o)
  <2>1. Working(o) /\ job[o] \in Job
    BY <1>9 DEF SaveDocument, At, Working, Ended, Typed, TypeOK
  <2>2. PICK label \in {"release"} : Goto(o, label)
    BY <1>9 DEF SaveDocument
  <2>3. label \in Label /\ label # "check"
    BY DEF Label, Critical
  <2>4. docs' \in [Doc -> DocRecord]
    BY <1>9, <2>1 DEF SaveDocument, Typed, TypeOK, DocRecord, Job
  <2>. QED  BY <1>9, <2>1, <2>2, <2>3, <2>4, GotoTyped
               DEF SaveDocument, Typed, TypeOK
<1>. QED  BY <1>1, <1>2, <1>3, <1>4, <1>5, <1>6, <1>7, <1>8, <1>9
             DEF Settlement

LEMMA StepTyped ==
    ASSUME Typed, NEW o \in Request, Step(o)
    PROVE  Typed'
<1>1. CASE PersistGateBlock(o)
  <2>1. Working(o) /\ "failed" \in Label \cap Ended
    BY <1>1 DEF PersistGateBlock, At, Working, Ended, Label
  <2>2. status' \in [Release -> ReleaseStatus]
    BY <1>1 DEF PersistGateBlock, Typed, TypeOK, ReleaseStatus
  <2>. QED  BY <1>1, <2>1, <2>2, GotoTyped DEF PersistGateBlock, Typed, TypeOK
<1>2. CASE NotifyReload(o)
  <2>1. Working(o)
    BY <1>2 DEF NotifyReload, Working, Ended
  <2>2. PICK ok \in BOOLEAN : Reload(Target(o), ok)
                              /\ job' = [job EXCEPT ![o].ok = ok]
    BY <1>2 DEF NotifyReload
  <2>. DEFINE j == [job[o] EXCEPT !.ok = ok]
  <2>3. j \in Job /\ j.target \in Release /\ j.kind \in Kind
    BY <2>1, WorkingJob DEF Job
  <2>4. PICK label \in {"wait", "settle"} : Goto(o, label)
    BY <1>2 DEF NotifyReload
  <2>5. label \in Label /\ label # "check"
    BY DEF Label, Critical, Outside
  <2>6. loaded' \in Release \cup {None}
    BY <2>1, <2>2 DEF Reload, Typed, TypeOK, TargetsKnown
  <2>. QED  BY <1>2, <2>2, <2>3, <2>4, <2>5, <2>6, MoveTyped
            DEF NotifyReload, Typed, TypeOK, store
<1>3. CASE TakeLocalLock(o) \/ AcquireLease(o) \/ AcquireTimeout(o) \/ ReleaseLock(o)
  BY <1>3, LockTyped
<1>. QED  BY <1>1, <1>2, <1>3, PrepareTyped, CommitTyped, SettlementTyped
             DEF Step

LEMMA NextTyped == Typed /\ [Next]_vars => Typed'
<1>. SUFFICES ASSUME Typed, [Next]_vars
              PROVE  Typed'
  OBVIOUS
<1>1. ASSUME NEW o \in Request, Crash(o)
      PROVE  Typed'
  <2>1. pc' \in [Request -> Label]
    BY <1>1 DEF Crash, Typed, TypeOK, Label, Ended
  <2>2. \A p \in Request : pc'[p] = pc[p] \/ pc'[p] = "dead"
    BY <1>1 DEF Crash
  <2>3. TargetsKnown'
    BY <1>1, <2>2
       DEF Crash, Typed, TargetsKnown, Working, At, Target, KindOf, Ended
  <2>4. faults' \in Nat /\ disturbed' \subseteq {"overlap", "fault"}
    BY <1>1 DEF Crash, Typed, TypeOK
  <2>. QED  BY <1>1, <2>1, <2>3, <2>4 DEF Crash, Typed, TypeOK, store
<1>2. ASSUME NEW o \in Request, CallFails(o)
      PROVE  Typed'
  <2>1. Working(o)
    BY <1>2 DEF CallFails, Working, Critical, Ended
  <2>2. faults' \in Nat /\ disturbed' \subseteq {"overlap", "fault"}
    BY <1>2 DEF CallFails, Typed, TypeOK
  <2>. QED  BY <1>2, <2>1, <2>2, RaiseTyped DEF CallFails, Typed, TypeOK, store
<1>3. CASE LeaseExpires
  BY <1>3 DEF LeaseExpires, Typed, TypeOK, TargetsKnown, Working, At, Target,
     KindOf, store
<1>4. CASE FollowLocalPointer
  BY <1>4
     DEF FollowLocalPointer, Typed, TypeOK, TargetsKnown, Working, At, Target,
              KindOf, store
<1>5. CASE UNCHANGED vars
  BY <1>5 DEF vars, Typed, TypeOK, TargetsKnown, Working, At, Target, KindOf
<1>. QED  BY <1>1, <1>2, <1>3, <1>4, <1>5, SubmitTyped, StepTyped DEF Next

LEMMA AlwaysTyped == Spec => []Typed
BY InitTyped, NextTyped, PTL DEF Spec

(* Every record, pointer and handler variable keeps its shape, whatever    *)
(* crashes, fails or expires.                                              *)
THEOREM TypeCorrect == Spec => []TypeOK
<1>1. Typed => TypeOK
  BY DEF Typed
<1>. QED  BY <1>1, AlwaysTyped, PTL

-----------------------------------------------------------------------------
(* The coordination lock.                                                  *)

OthersStay(o) ==
    \A p \in Request \ {o} : pc'[p] = pc[p] /\ job'[p] = job[p]

(* What a saga does inside the lock leaves the lease and the others alone. *)
LEMMA InsideLock ==
    ASSUME Typed, NEW o \in Request,
           Prepare(o) \/ Commit(o) \/ Settlement(o) \/ CallFails(o)
    PROVE  /\ pc[o] \in Critical /\ pc'[o] \in Critical
           /\ UNCHANGED <<lease, overran, crossed>>
           /\ OthersStay(o)
<1>. USE DEF Typed, TypeOK, OthersStay, Goto, Raise, At, Critical
<1>1. CASE Prepare(o)
  BY <1>1 DEF Prepare, Collect, BuildCandidate, CheckRollbackGate,
     ReadPrevious, CheckSync
<1>2. CASE Commit(o)
  BY <1>2 DEF Commit, ListOthers, DeactivateNext, AfterDeactivation,
     SaveDeploying, SetPointer, WriteLocalPointer, AfterLocalPointer,
     SyncNextDocument
<1>3. CASE Settlement(o)
  BY <1>3 DEF Settlement, Settle, SaveActive, SaveReloadFailed, RestorePointer,
              RestoreLocalPointer, RestorePrevious, NotifyRestored, SaveVersion,
              SaveDocument, AfterSettlement, AfterRestoration
<1>4. CASE CallFails(o)
  BY <1>4 DEF CallFails
<1>. QED  BY <1>1, <1>2, <1>3, <1>4

(* What a request does before it has the lock, or when it gives up.        *)
LEMMA OutsideLock ==
    ASSUME Typed, NEW o \in Request,
           \/ Submit(o) \/ PersistGateBlock(o) \/ TakeLocalLock(o)
           \/ AcquireTimeout(o) \/ (NotifyReload(o) /\ pc[o] = "presync")
    PROVE  /\ pc[o] \in Outside /\ pc'[o] \notin Critical
           /\ UNCHANGED <<lease, history>>
           /\ OthersStay(o)
<1>. USE DEF Typed, TypeOK, OthersStay, Goto, At, Critical, Outside, Arrives
<1>1. CASE Submit(o)
  <2>. USE <1>1 DEF Submit, SubmitPublish, SubmitUnpublish, SubmitReindex,
                    SubmitPromote, SubmitRollback, SubmitSync
  <2>1. pc[o] = "idle" /\ UNCHANGED <<lease, history>>
    BY ONLY <1>1 DEF Submit, SubmitPublish, SubmitUnpublish, SubmitReindex,
       SubmitPromote, SubmitRollback, SubmitSync, Arrives, At
  <2>2. pc'[o] \notin Critical
    OBVIOUS
  <2>3. \A p \in Request \ {o} : pc'[p] = pc[p]
    OBVIOUS
  <2>4. \A p \in Request \ {o} : job'[p] = job[p]
    OBVIOUS
  <2>. QED  BY ONLY <2>1, <2>2, <2>3, <2>4 DEF OthersStay, Outside
<1>2. CASE ~Submit(o)
  BY <1>2 DEF PersistGateBlock, TakeLocalLock, AcquireTimeout, NotifyReload
<1>. QED  BY <1>1, <1>2

LEMMA NextLeaseKept == Typed /\ LeaseKept /\ [Next]_vars => LeaseKept'
<1>. SUFFICES ASSUME Typed, LeaseKept, [Next]_vars
              PROVE  LeaseKept'
  OBVIOUS
<1>0. None \notin Request
  BY ConstantsAssumption DEF Request, Release
<1>1. ASSUME NEW o \in Request,
             Prepare(o) \/ Commit(o) \/ Settlement(o) \/ CallFails(o)
      PROVE  LeaseKept'
  BY <1>1, InsideLock DEF LeaseKept, OthersStay
<1>2. ASSUME NEW o \in Request,
             \/ Submit(o) \/ PersistGateBlock(o) \/ TakeLocalLock(o)
             \/ AcquireTimeout(o) \/ (NotifyReload(o) /\ pc[o] = "presync")
      PROVE  LeaseKept'
  BY <1>2, OutsideLock DEF LeaseKept, OthersStay
<1>3. ASSUME NEW o \in Request, NotifyReload(o), pc[o] # "presync"
      PROVE  LeaseKept'
  BY <1>3 DEF NotifyReload, LeaseKept, Typed, TypeOK, Goto, At, Critical
<1>4. ASSUME NEW o \in Request, AcquireLease(o)
      PROVE  LeaseKept'
  BY <1>0, <1>4 DEF AcquireLease, LeaseKept, Typed, TypeOK, Goto
<1>5. ASSUME NEW o \in Request, ReleaseLock(o)
      PROVE  LeaseKept'
  BY <1>0, <1>5 DEF ReleaseLock, LeaseKept, Typed, TypeOK, Goto, At, Critical
<1>6. ASSUME NEW o \in Request, Crash(o)
      PROVE  LeaseKept'
  BY <1>6 DEF Crash, LeaseKept, Critical
<1>7. CASE LeaseExpires
  BY <1>7 DEF LeaseExpires, LeaseKept, Ended, Critical
<1>8. CASE FollowLocalPointer \/ UNCHANGED vars
  BY <1>8 DEF FollowLocalPointer, vars, LeaseKept
<1>9. ASSUME NEW o \in Request,
      Submit(o) \/ Step(o) \/ Crash(o) \/ CallFails(o)
      PROVE  LeaseKept'
  <2>1. CASE NotifyReload(o)
    BY <2>1, <1>2, <1>3
  <2>2. CASE Submit(o) \/ PersistGateBlock(o) \/ TakeLocalLock(o) \/ AcquireTimeout(o)
    BY <2>2, <1>2
  <2>3. CASE Prepare(o) \/ Commit(o) \/ Settlement(o) \/ CallFails(o)
    BY <2>3, <1>1
  <2>4. CASE AcquireLease(o) \/ ReleaseLock(o) \/ Crash(o)
    BY <2>4, <1>4, <1>5, <1>6
  <2>. QED  BY <1>9, <2>1, <2>2, <2>3, <2>4 DEF Step
<1>. QED  BY <1>7, <1>8, <1>9 DEF Next

(* A saga inside the lock has the lease until its TTL runs out: no return, *)
(* time-out, crash or failing call of another frees it.                    *)
THEOREM OnlyTheTtlTakesTheLease == Spec => []LeaseKept
<1>1. Init => LeaseKept
  BY DEF Init, LeaseKept, Critical
<1>. QED  BY <1>1, NextLeaseKept, AlwaysTyped, PTL DEF Spec

-----------------------------------------------------------------------------
(* What a step may change. Inside the lock only a saga moves a pointer or  *)
(* stores anything; every other step enters or leaves the lock, or refuses *)
(* a promotion at the gate.                                                *)

Inside(o) == pc[o] \in Critical

SagaStep(o) ==
    \/ Prepare(o) \/ Commit(o) \/ Settlement(o)
    \/ NotifyReload(o) /\ pc[o] = "reload"

(* A saga that is alone in the lock settles what was disturbed.            *)
Heals(o) == SaveActive(o) /\ o \notin crossed /\ disturbed' = {}

Untouched(p) == pc'[p] = pc[p] /\ job'[p] = job[p]

Enters(p) ==
    /\ pc[p] \in Outside
    /\ \/ pc'[p] \in Outside \cup {"failed", "check"}
       \/ pc'[p] = "collect" /\ KindOf(p)' # "sync"
       \/ pc'[p] = "gate" /\ KindOf(p)' = "rollback"
       \/ pc'[p] = "readprev" /\ KindOf(p)' = "promote"
    /\ KindOf(p)' = "publish" => job'[p].ver \in Version
    /\ KindOf(p)' \in {"publish", "unpublish"} => job'[p].doc \in Doc

Leaves(p) ==
    /\ \/ pc'[p] \in {"failed", "dead"}
       \/ pc'[p] = "release" /\ job'[p].error /\ pc[p] \in Critical
       \/ pc'[p] = "done" /\ pc[p] = "release" /\ ~job[p].error
    /\ pc[p] # "idle"
    /\ KindOf(p)' = KindOf(p) /\ job'[p].ver = job[p].ver

SetAside ==
    /\ UNCHANGED <<pointer, localPointer, manifest, verStatus, docs>>
    /\ \A r \in Release : status'[r] \in {status[r], "GATE_BLOCKED"}
    /\ \A p \in Request : Untouched(p) \/ Enters(p) \/ Leaves(p)

Entered(p) == pc[p] \notin Critical /\ pc'[p] \in Critical

(* Whoever enters beside another saga is noted, and nobody else is.        *)
Noted ==
    /\ crossed \subseteq crossed' /\ disturbed \subseteq disturbed'
    /\ \A p \in crossed' \ crossed : pc'[p] \in Critical
    /\ crossed' # crossed => "overlap" \in disturbed'
    /\ \A p, q \in Request :
          Entered(p) /\ pc'[q] \in Critical /\ p # q => {p, q} \subseteq crossed'

Aside ==
    /\ SetAside /\ Noted
    /\ "fault" \notin disturbed' =>
         \A p \in Request : pc[p] \in Critical \ {"release"} => Untouched(p)

(* A publish is for a known version from its submission on, a publish or   *)
(* unpublish at work for a known document, and each operation comes only   *)
(* by its own places inside the lock.                                      *)
Preparing == {"collect", "readprev", "build", "gate"}
RollbackOnly == {"gate", "savedeploying", "syncdocs"}

Routed(o) ==
    /\ KindOf(o) = "publish" /\ pc[o] # "idle" => job[o].ver \in Version
    /\ /\ KindOf(o) \in {"publish", "unpublish"}
       /\ pc[o] \notin Ended \cup {"idle", "release"}
       => job[o].doc \in Doc
    /\ pc[o] \in Preparing => KindOf(o) # "sync"
    /\ pc[o] \in RollbackOnly => KindOf(o) = "rollback"
    /\ pc[o] = "save" => KindOf(o) \notin {"rollback", "sync"}

LEMMA SubmitAside ==
    ASSUME Typed, NEW o \in Request, Submit(o)
    PROVE  Aside
<1>0. pc \in [Request -> Label] /\ job \in [Request -> Job]
  BY DEF Typed, TypeOK
<1>1. UNCHANGED <<pointer, localPointer, manifest, verStatus, docs, status>>
  BY DEF Submit, SubmitPublish, SubmitUnpublish, SubmitReindex, SubmitPromote,
     SubmitRollback, SubmitSync, store
<1>2. pc'[o] \in {"wait", "failed", "gateblock", "presync"}
  BY <1>0 DEF Submit, SubmitPublish, SubmitUnpublish, SubmitReindex,
     SubmitPromote, SubmitRollback, SubmitSync, Goto
<1>3. /\ KindOf(o)' = "publish" => job'[o].ver \in Version
      /\ KindOf(o)' \in {"publish", "unpublish"} => job'[o].doc \in Doc
  <2>1. ASSUME NEW v \in Version, SubmitPublish(o, v)
        PROVE  job'[o].ver = v /\ job'[o].doc \in Doc
    <3>1. DocOf[v] \in Doc
      BY ConstantsAssumption
    <3>. QED  BY <1>0, <2>1, <3>1, NoJobIsJob DEF SubmitPublish, Job
  <2>2. ASSUME NEW d \in Doc, SubmitUnpublish(o, d)
        PROVE  KindOf(o)' = "unpublish" /\ job'[o].doc \in Doc
    BY <1>0, <2>2, NoJobIsJob DEF SubmitUnpublish, KindOf, Job
  <2>3. ASSUME NEW scope \in ReindexScopes, SubmitReindex(o, scope)
        PROVE  KindOf(o)' = "reindex"
    BY <1>0, <2>3, NoJobIsJob DEF SubmitReindex, KindOf, Job
  <2>4. ASSUME NEW r \in Release, SubmitPromote(o, r)
        PROVE  KindOf(o)' = "promote"
    BY <1>0, <2>4, NoJobIsJob DEF SubmitPromote, KindOf, Job
  <2>5. ASSUME NEW r \in Release, SubmitRollback(o, r)
        PROVE  KindOf(o)' = "rollback"
    BY <1>0, <2>5, NoJobIsJob DEF SubmitRollback, KindOf, Job
  <2>6. ASSUME NEW r \in Release, SubmitSync(o, r)
        PROVE  KindOf(o)' = "sync"
    BY <1>0, <2>6, NoJobIsJob DEF SubmitSync, KindOf, Job
  <2>. QED  BY <2>1, <2>2, <2>3, <2>4, <2>5, <2>6 DEF Submit
<1>4. OthersStay(o) /\ UNCHANGED history /\ pc[o] \in Outside
  BY OutsideLock
<1>5. Enters(o)
  BY <1>2, <1>3, <1>4 DEF Enters, Outside
<1>6. SetAside /\ ~Entered(o)
  BY <1>1, <1>2, <1>4, <1>5 DEF SetAside, Untouched, OthersStay, Entered, Critical
<1>7. \A p \in Request : ~Entered(p)
  BY <1>4, <1>6 DEF Entered, OthersStay
<1>8. ASSUME NEW p \in Request, pc[p] \in Critical
      PROVE  Untouched(p)
  BY <1>4, <1>8 DEF Untouched, OthersStay, Outside, Critical
<1>. QED  BY <1>4, <1>6, <1>7, <1>8 DEF Aside, Noted

LEMMA LockAside ==
    ASSUME Typed, NEW o \in Request, \A p \in Request : Routed(p),
           \/ PersistGateBlock(o) \/ (NotifyReload(o) /\ pc[o] = "presync")
           \/ TakeLocalLock(o) \/ AcquireLease(o) \/ AcquireTimeout(o)
           \/ ReleaseLock(o)
    PROVE  Aside
<1>0. /\ pc \in [Request -> Label] /\ job \in [Request -> Job] /\ job[o] \in Job
      /\ status \in [Release -> ReleaseStatus]
  BY DEF Typed, TypeOK
<1>1. /\ UNCHANGED <<pointer, localPointer, manifest, verStatus, docs>>
      /\ \A r \in Release : status'[r] \in {status[r], "GATE_BLOCKED"}
      /\ pc[o] \in Outside \cup {"release"} /\ OthersStay(o)
  BY <1>0 DEF PersistGateBlock, NotifyReload, TakeLocalLock, AcquireLease,
     AcquireTimeout, ReleaseLock, store, At, OthersStay, Goto, Outside
<1>2. /\ KindOf(o)' = KindOf(o) /\ job'[o].ver = job[o].ver
      /\ pc[o] # "release" => job'[o].doc = job[o].doc
  <2>1. CASE ReleaseLock(o)
    BY <1>0, <2>1, NoJobIsJob DEF ReleaseLock, KindOf, Job, At
  <2>2. CASE ~ReleaseLock(o)
    BY <1>0, <2>2 DEF PersistGateBlock, NotifyReload, TakeLocalLock,
       AcquireLease,
       AcquireTimeout, KindOf, Job
  <2>. QED  BY <2>1, <2>2
<1>3. Enters(o) \/ Leaves(o)
  <2>1. CASE ReleaseLock(o)
    BY <1>0, <1>2, <2>1 DEF ReleaseLock, Goto, At, Leaves
  <2>2. CASE PersistGateBlock(o) \/ AcquireTimeout(o)
    BY <1>0, <1>2, <2>2 DEF PersistGateBlock, AcquireTimeout, Goto, At, Leaves
  <2>3. CASE TakeLocalLock(o)
    BY <1>0, <1>2, <2>3
       DEF TakeLocalLock, Goto, At, Enters, Outside, Routed, Ended
  <2>5. CASE NotifyReload(o) /\ pc[o] = "presync"
    BY <1>0, <1>2, <2>5
       DEF NotifyReload, Goto, At, Enters, Outside, Routed, Ended
  <2>4. CASE AcquireLease(o)
    <3>1. pc[o] = "poll" /\ pc'[o] = FirstStep(KindOf(o))
      BY <1>0, <2>4 DEF AcquireLease, Goto, At
    <3>2. \/ pc'[o] = "check"
          \/ pc'[o] = "readprev" /\ KindOf(o) = "promote"
          \/ pc'[o] = "gate" /\ KindOf(o) = "rollback"
          \/ pc'[o] = "collect" /\ KindOf(o) # "sync"
      BY <3>1 DEF FirstStep
    <3>. QED  BY <1>2, <3>1, <3>2 DEF Enters, Routed, Outside, Ended
  <2>. QED  BY <2>1, <2>2, <2>3, <2>4, <2>5
<1>4. SetAside
  BY <1>1, <1>3 DEF SetAside, Untouched, OthersStay
<1>5. ASSUME NEW p \in Request, pc[p] \in Critical \ {"release"}
      PROVE  Untouched(p)
  BY <1>1, <1>5 DEF Untouched, OthersStay, Outside, Critical
<1>6. Noted
  <2>1. CASE AcquireLease(o)
    <3>1. o \notin {p \in Request : pc[p] \in Critical}
      BY <1>0, <2>1 DEF AcquireLease, At, Critical
    <3>2. FirstStep(KindOf(o)) \in Critical
      BY DEF FirstStep, Critical
    <3>3. pc'[o] \in Critical /\ \A p \in Request \ {o} : pc'[p] = pc[p]
      BY <1>0, <2>1, <3>2 DEF AcquireLease, Goto
    <3>. QED  BY <2>1, <3>1, <3>3 DEF AcquireLease, NoteEntry, Noted, Entered
  <2>2. CASE ~AcquireLease(o)
    <3>1. UNCHANGED <<crossed, disturbed>>
      BY <2>2 DEF PersistGateBlock, NotifyReload, TakeLocalLock, AcquireTimeout,
         ReleaseLock
    <3>2. pc'[o] \notin Critical
      BY <1>0, <2>2 DEF PersistGateBlock, NotifyReload, TakeLocalLock,
         AcquireTimeout, ReleaseLock, At, Goto, Critical
    <3>. QED  BY <1>1, <3>1, <3>2 DEF Noted, Entered, OthersStay
  <2>. QED  BY <2>1, <2>2
<1>. QED  BY <1>4, <1>5, <1>6 DEF Aside

LEMMA SagaStays ==
    ASSUME Typed, NEW o \in Request, SagaStep(o)
    PROVE  /\ pc[o] \in Critical /\ pc'[o] \in Critical /\ OthersStay(o)
           /\ crossed' = crossed
           /\ disturbed' = disturbed \/ Heals(o)
<1>1. CASE NotifyReload(o) /\ pc[o] = "reload"
  BY <1>1 DEF NotifyReload, Critical, OthersStay, Goto, At, Typed, TypeOK
<1>2. CASE Prepare(o) \/ Commit(o) \/ Settlement(o)
  <2>1. disturbed' = disturbed \/ Heals(o)
    BY <1>2 DEF Prepare, Collect, BuildCandidate, CheckRollbackGate,
       ReadPrevious, CheckSync, Commit, ListOthers, DeactivateNext,
       SaveDeploying, SetPointer, WriteLocalPointer, SyncNextDocument,
       Settlement, Settle, SaveActive, SaveReloadFailed, RestorePointer,
       RestoreLocalPointer, RestorePrevious, NotifyRestored, SaveVersion,
       SaveDocument, Heals
  <2>. QED  BY <1>2, <2>1, InsideLock
<1>. QED  BY <1>1, <1>2 DEF SagaStep

(* Every step is one of a saga inside the lock or leaves them aside.       *)
LEMMA StepSorted ==
    ASSUME Typed, \A p \in Request : Routed(p), [Next]_vars
    PROVE  (\E o \in Request : SagaStep(o)) \/ Aside
<1>0. pc \in [Request -> Label] /\ job \in [Request -> Job]
  BY DEF Typed, TypeOK
<1>1. ASSUME NEW o \in Request, CallFails(o)
      PROVE  Aside
  <2>1. OthersStay(o) /\ crossed' = crossed /\ pc[o] \in Critical
    BY <1>1, InsideLock
  <2>2. Leaves(o) /\ "fault" \in disturbed' /\ disturbed \subseteq disturbed'
    BY <1>0, <1>1, <2>1 DEF CallFails, Critical, Raise, Goto, Leaves, KindOf, Job
  <2>3. UNCHANGED <<pointer, localPointer, manifest, verStatus, docs, status>>
    BY <1>1 DEF CallFails, store
  <2>. QED  BY <2>1, <2>2, <2>3
            DEF Aside, SetAside, Noted, Entered, Untouched, OthersStay
<1>2. ASSUME NEW o \in Request, Crash(o)
      PROVE  Aside
  <2>1. "fault" \in disturbed' /\ disturbed \subseteq disturbed' /\ crossed' = crossed
    BY <1>2 DEF Crash
  <2>2. \A p \in Request : Untouched(p) \/ (Leaves(p) /\ pc'[p] = "dead")
    BY <1>0, <1>2 DEF Crash, Live, Untouched, Leaves, KindOf
  <2>3. \A p \in Request : ~Entered(p)
    BY <2>2 DEF Untouched, Entered, Critical
  <2>4. UNCHANGED <<pointer, localPointer, manifest, verStatus, docs, status>>
    BY <1>2 DEF Crash, store
  <2>. QED  BY <2>1, <2>2, <2>3, <2>4 DEF Aside, SetAside, Noted
<1>3. CASE LeaseExpires \/ FollowLocalPointer \/ UNCHANGED vars
  BY <1>3 DEF LeaseExpires, FollowLocalPointer, vars, store, Aside, SetAside,
     Noted, Entered, Untouched
<1>4. ASSUME NEW o \in Request, Step(o)
      PROVE  SagaStep(o) \/ Aside
  <2>1. CASE NotifyReload(o)
    BY <2>1, LockAside DEF NotifyReload, SagaStep
  <2>. QED  BY <1>4, <2>1, LockAside DEF Step, SagaStep
<1>. QED  BY <1>1, <1>2, <1>3, <1>4, SubmitAside DEF Next

(* Inside the lock a request keeps its version and the answer of the       *)
(* reload until it asks for one.                                           *)
LEMMA SameVersion ==
    ASSUME Typed, NEW o \in Request, SagaStep(o)
    PROVE  /\ job'[o] \in Job /\ pc[o] \in Critical \ {"release"}
           /\ KindOf(o)' = KindOf(o) /\ Target(o)' = Target(o)
           /\ job'[o].ver = job[o].ver /\ job'[o].doc = job[o].doc
           /\ pc[o] # "reload" => job'[o].ok = job[o].ok
           /\ pc[o] # "readprev" => job'[o].prev = job[o].prev
           /\ pc[o] # "collect" => job'[o].man = job[o].man
<1>0. job \in [Request -> Job] /\ job' \in [Request -> Job]
  <2>1. [Next]_vars
    BY DEF Next, Step, SagaStep
  <2>. QED  BY <2>1, NextTyped DEF Typed, TypeOK
<1>. USE <1>0 DEF Job, Raise, KindOf, Target, At, Critical
<1>1. CASE Prepare(o)
  BY <1>1 DEF Prepare, Collect, BuildCandidate, CheckRollbackGate,
     ReadPrevious, CheckSync
<1>2. CASE Commit(o)
  BY <1>2 DEF Commit, ListOthers, DeactivateNext, SaveDeploying, SetPointer,
              WriteLocalPointer, SyncNextDocument
<1>3. CASE Settlement(o)
  BY <1>3 DEF Settlement, Settle, SaveActive, SaveReloadFailed, RestorePointer,
              RestoreLocalPointer, RestorePrevious, NotifyRestored, SaveVersion,
              SaveDocument
<1>4. CASE NotifyReload(o) /\ pc[o] = "reload"
  BY <1>4 DEF NotifyReload
<1>. QED  BY <1>1, <1>2, <1>3, <1>4 DEF SagaStep

(* A saga prepares first, and only then stores.                            *)
LEMMA SagaRouted ==
    ASSUME Typed, NEW o \in Request, SagaStep(o)
    PROVE  /\ pc'[o] \in Preparing => pc[o] \in Preparing
           /\ pc'[o] \in RollbackOnly
                => pc[o] \in RollbackOnly \/ KindOf(o) = "rollback"
           /\ pc'[o] = "save" => KindOf(o) \notin {"rollback", "sync"}
<1>. USE DEF Preparing, RollbackOnly, Goto, Raise, At, Typed, TypeOK
<1>1. CASE Prepare(o)
  BY <1>1 DEF Prepare, Collect, BuildCandidate, CheckRollbackGate,
     ReadPrevious, CheckSync
<1>2. CASE Commit(o)
  BY <1>2 DEF Commit, ListOthers, DeactivateNext, AfterDeactivation,
     SaveDeploying,
     SetPointer, WriteLocalPointer, AfterLocalPointer, SyncNextDocument
<1>3. CASE Settlement(o)
  BY <1>3 DEF Settlement, Settle, SaveActive, SaveReloadFailed, RestorePointer,
              RestoreLocalPointer, RestorePrevious, NotifyRestored, SaveVersion,
              SaveDocument, AfterSettlement, AfterRestoration
<1>4. CASE NotifyReload(o) /\ pc[o] = "reload"
  BY <1>4 DEF NotifyReload
<1>. QED  BY <1>1, <1>2, <1>3, <1>4 DEF SagaStep

(* Who shares the lock: sagas that do are marked for good, and the overlap *)
(* is on record until a saga that was alone all along has activated its    *)
(* release.                                                                *)
Crossing ==
    /\ \A o, p \in Request : Inside(o) /\ Inside(p) /\ o # p => o \in crossed
    /\ \A o \in crossed : Inside(o) \/ pc[o] \in Ended
    /\ "overlap" \notin disturbed => \A o \in crossed : ~Inside(o)

Locked ==
    /\ Typed /\ Crossing
    /\ \A o \in Request : Routed(o)

(* An unmarked saga that is inside is the only one.                        *)
LEMMA Alone ==
    ASSUME Crossing, NEW o \in Request, Inside(o),
           NEW p \in Request \ crossed, p # o
    PROVE  ~Inside(p)
BY DEF Crossing

LEMMA SagaCrossing ==
    ASSUME Typed, Crossing, NEW o \in Request, SagaStep(o)
    PROVE  Crossing'
<1>1. /\ Inside(o) /\ Inside(o)' /\ crossed' = crossed
      /\ \A p \in Request \ {o} : pc'[p] = pc[p]
      /\ crossed \subseteq Request
      /\ disturbed' = disturbed \/ Heals(o)
  BY SagaStays DEF Inside, OthersStay, Typed, TypeOK
<1>2. \A p \in Request : Inside(p)' <=> Inside(p)
  BY <1>1 DEF Inside
<1>3. \A p \in crossed : Inside(p)' \/ pc'[p] \in Ended
  BY <1>1, <1>2 DEF Crossing
<1>4. Heals(o) => \A p \in crossed : ~Inside(p)
  BY <1>1 DEF Crossing, Heals
<1>. QED  BY <1>1, <1>2, <1>3, <1>4 DEF Crossing

LEMMA AsideCrossing ==
    ASSUME Typed, Crossing, Aside
    PROVE  Crossing'
<1>1. /\ crossed \subseteq crossed' /\ disturbed \subseteq disturbed'
      /\ \A p \in crossed' \ crossed : Inside(p)'
      /\ crossed' # crossed => "overlap" \in disturbed'
      /\ crossed \subseteq Request
  BY DEF Aside, Noted, Inside, Typed, TypeOK
<1>2. ASSUME NEW p \in Request, NEW q \in Request, Inside(p)', Inside(q)', p # q
      PROVE  p \in crossed'
  <2>1. CASE Entered(p) \/ Entered(q)
    BY <1>2, <2>1 DEF Aside, Noted, Inside
  <2>2. CASE ~Entered(p) /\ ~Entered(q)
    BY <1>1, <1>2, <2>2 DEF Entered, Inside, Crossing
  <2>. QED  BY <2>1, <2>2
<1>3. ASSUME NEW p \in crossed
      PROVE  /\ Inside(p)' \/ pc'[p] \in Ended
             /\ ~Inside(p) => ~Inside(p)'
  <2>1. Inside(p) \/ pc[p] \in Ended
    BY <1>3 DEF Crossing
  <2>2. Untouched(p) \/ Leaves(p) \/ Enters(p)
    BY <1>1, <1>3 DEF Aside, SetAside
  <2>3. ~Enters(p)
    BY <2>1 DEF Enters, Inside, Critical, Ended, Outside
  <2>. QED  BY <2>1, <2>2, <2>3
            DEF Untouched, Leaves, Inside, Critical, Ended
<1>. QED  BY <1>1, <1>2, <1>3 DEF Crossing

LEMMA NextLocked == Locked /\ [Next]_vars => Locked'
<1>. SUFFICES ASSUME Locked, [Next]_vars
              PROVE  Crossing' /\ \A p \in Request : Routed(p)'
  BY NextTyped DEF Locked
<1>1. ASSUME NEW o \in Request, SagaStep(o)
      PROVE  Crossing' /\ \A p \in Request : Routed(p)'
  <2>1. Routed(o)'
    BY <1>1, SameVersion, SagaRouted DEF Locked, Routed, Critical, Ended
  <2>2. \A p \in Request \ {o} : Routed(p)'
    BY <1>1, SagaStays DEF Locked, OthersStay, Routed, KindOf
  <2>. QED  BY <1>1, <2>1, <2>2, SagaCrossing DEF Locked
<1>2. CASE Aside
  <2>1. ASSUME NEW p \in Request
        PROVE  Routed(p)'
    BY <1>2, <2>1 DEF Aside, SetAside, Untouched, Enters, Leaves, Routed,
       Preparing, RollbackOnly, Outside, Ended, KindOf, Locked
  <2>. QED  BY <1>2, <2>1, AsideCrossing DEF Locked
<1>. QED  BY <1>1, <1>2, StepSorted DEF Locked

LEMMA InitLocked == Init => Locked
<1>1. Init => \A o \in Request : Routed(o)
  BY DEF Init, Routed, Preparing, RollbackOnly
<1>2. Init => Crossing
  BY DEF Init, Crossing, Inside, Critical
<1>. QED  BY <1>1, <1>2, InitTyped DEF Locked

-----------------------------------------------------------------------------
(* At most one ACTIVE release.                                             *)

AtMostOne ==
    \A r, s \in Release : status[r] = "ACTIVE" /\ status[s] = "ACTIVE" => r = s

OneActive == Locked /\ SingleActive /\ Demotes

(* Saves that make no release ACTIVE keep what was known of the ACTIVE.    *)
NoneActivated == \A r \in Release : status'[r] = "ACTIVE" => status[r] = "ACTIVE"

LEMMA PrepareDemotes ==
    ASSUME Typed, NEW o \in Request, Prepare(o)
    PROVE  NoneActivated /\ Demoting(o)'
<1>. USE DEF Typed, TypeOK, NoneActivated, Demoting, Clearing, Cleared,
             Quiet, At, Goto, Raise, KindOf, Target
<1>1. CASE Collect(o)
  BY <1>1 DEF Collect, store
<1>2. CASE BuildCandidate(o)
  BY <1>2 DEF BuildCandidate
<1>3. CASE CheckRollbackGate(o)
  BY <1>3 DEF CheckRollbackGate, store
<1>4. CASE ReadPrevious(o)
  BY <1>4 DEF ReadPrevious, store
<1>5. CASE CheckSync(o)
  BY <1>5 DEF CheckSync, store, TargetsKnown, Builds
<1>. QED  BY <1>1, <1>2, <1>3, <1>4, <1>5 DEF Prepare

LEMMA CommitDemotes ==
    ASSUME Typed, NEW o \in Request, Demoting(o), Commit(o)
    PROVE  NoneActivated /\ Demoting(o)'
<1>0. pc[o] \in Critical /\ Target(o) \in Release
  BY InsideLock DEF Typed, TargetsKnown, Working, Critical, Ended
<1>. USE DEF Typed, TypeOK, NoneActivated, Demoting, Clearing, Cleared,
             Quiet, At, Goto, KindOf, Target
<1>1. CASE ListOthers(o)
  BY <1>0, <1>1 DEF ListOthers, ActiveWithin, Deactivatable, store
<1>2. CASE DeactivateNext(o)
  <2>0. At(o, "deactivate") /\ ActiveWithin({Target(o)} \cup job[o].todo)
    BY <1>2 DEF DeactivateNext
  <2>1. ASSUME NEW r \in job[o].todo,
               status' = [status EXCEPT ![r] = "ROLLED_BACK"],
               job' = [job EXCEPT ![o].todo = @ \ {r}],
               UNCHANGED pc
        PROVE  NoneActivated /\ Demoting(o)'
    <3>1. /\ Target(o)' = Target(o)
          /\ job'[o].todo = job[o].todo \ {r}
          /\ pc'[o] = "deactivate"
          /\ r \in Release
      BY <2>0, <2>1 DEF Job
    <3>2. NoneActivated /\ status'[r] # "ACTIVE"
      BY <2>1, <3>1
    <3>3. ActiveWithin({Target(o)} \cup job[o].todo)'
      BY <2>0, <2>1, <3>1, <3>2 DEF ActiveWithin
    <3>. QED  BY <3>1, <3>2, <3>3
  <2>2. ASSUME job[o].todo = {}, Goto(o, AfterDeactivation(KindOf(o))),
               UNCHANGED <<status, job>>
        PROVE  NoneActivated /\ Demoting(o)'
    BY <1>0, <2>0, <2>2 DEF ActiveWithin, AfterDeactivation
  <2>. QED  BY <1>2, <2>1, <2>2 DEF DeactivateNext
<1>3. CASE SaveDeploying(o)
  BY <1>0, <1>3 DEF SaveDeploying, ActiveWithin
<1>4. CASE SetPointer(o)
  BY <1>0, <1>4 DEF SetPointer, ActiveWithin
<1>5. CASE WriteLocalPointer(o)
  BY <1>0, <1>5 DEF WriteLocalPointer, AfterLocalPointer, ActiveWithin
<1>6. CASE SyncNextDocument(o)
  BY <1>0, <1>6 DEF SyncNextDocument, ActiveWithin
<1>. QED  BY <1>1, <1>2, <1>3, <1>4, <1>5, <1>6 DEF Commit

LEMMA SettlementDemotes ==
    ASSUME Typed, NEW o \in Request, Demoting(o), Settlement(o)
    PROVE  /\ Demoting(o)'
           /\ AtMostOne \/ SaveActive(o) => AtMostOne'
<1>0. pc[o] \in Critical /\ Target(o) \in Release
  BY InsideLock DEF Typed, TargetsKnown, Working, Critical, Ended
<1>. USE DEF Typed, TypeOK, AtMostOne, Demoting, Clearing, Cleared,
             Quiet, ActiveWithin, At, Goto, KindOf, Target,
             SaveActive
<1>1. CASE Settle(o)
  BY <1>0, <1>1 DEF Settle, AfterSettlement, Builds, store
<1>2. CASE SaveActive(o)
  BY <1>0, <1>2 DEF SaveActive, AfterSettlement
<1>3. CASE SaveReloadFailed(o)
  BY <1>0, <1>3 DEF SaveReloadFailed
<1>4. CASE RestorePointer(o)
  BY <1>0, <1>4 DEF RestorePointer, AfterRestoration, AfterSettlement, Builds
<1>5. CASE RestoreLocalPointer(o)
  BY <1>0, <1>5 DEF RestoreLocalPointer
<1>6. CASE RestorePrevious(o)
  BY <1>0, <1>6 DEF RestorePrevious
<1>7. CASE NotifyRestored(o)
  BY <1>0, <1>7
     DEF NotifyRestored, AfterRestoration, AfterSettlement, Builds, store
<1>8. CASE SaveVersion(o)
  BY <1>0, <1>8 DEF SaveVersion
<1>9. CASE SaveDocument(o)
  BY <1>0, <1>9 DEF SaveDocument
<1>. QED  BY <1>1, <1>2, <1>3, <1>4, <1>5, <1>6, <1>7, <1>8, <1>9
             DEF Settlement

(* A step that leaves a saga's job and place alone, and makes no release   *)
(* ACTIVE, leaves what the saga knows.                                     *)
LEMMA OthersDemote ==
    ASSUME NEW p \in Request, NoneActivated, Demoting(p),
           pc'[p] = pc[p], job'[p] = job[p]
    PROVE  Demoting(p)'
BY DEF NoneActivated, Demoting, Clearing, Cleared, Quiet, ActiveWithin, At,
   KindOf, Target

LEMMA OutsideDemotes ==
    ASSUME NEW p \in Request, pc'[p] \notin Critical
    PROVE  Demoting(p)'
BY DEF Demoting, Clearing, Cleared, Quiet, At, Critical

LEMMA SagaDemotes ==
    ASSUME Typed, NEW o \in Request, Demoting(o), SagaStep(o)
    PROVE  /\ Demoting(o)'
           /\ AtMostOne \/ Heals(o) => AtMostOne'
<1>1. CASE NotifyReload(o) /\ pc[o] = "reload"
  <2>1. status' = status /\ pc'[o] = "settle" /\ ~Heals(o)
    BY <1>1 DEF NotifyReload, At, Goto, Typed, TypeOK, store, Heals, SaveActive
  <2>2. ActiveWithin({})
    BY <1>1 DEF Demoting, Quiet
  <2>. QED  BY <2>1, <2>2
            DEF Demoting, Clearing, Cleared, Quiet, ActiveWithin, At, AtMostOne
<1>2. CASE Prepare(o) \/ Commit(o)
  <2>1. ~Heals(o)
    BY <1>2 DEF Prepare, Collect, BuildCandidate, CheckRollbackGate,
       ReadPrevious, CheckSync, Commit, ListOthers, DeactivateNext,
       SaveDeploying, SetPointer, WriteLocalPointer, SyncNextDocument, Heals,
       SaveActive, At
  <2>2. NoneActivated /\ Demoting(o)'
    BY <1>2, PrepareDemotes, CommitDemotes
  <2>. QED  BY <2>1, <2>2 DEF NoneActivated, AtMostOne
<1>3. CASE Settlement(o)
  BY <1>3, SettlementDemotes DEF Heals
<1>. QED  BY <1>1, <1>2, <1>3 DEF SagaStep

LEMMA NextOneActive == OneActive /\ [Next]_vars => OneActive'
<1>. SUFFICES ASSUME OneActive, [Next]_vars
              PROVE  SingleActive' /\ Demotes'
  BY NextLocked DEF OneActive
<1>0. Locked /\ Typed /\ Crossing
  BY DEF OneActive, Locked
<1>1. ASSUME NEW o \in Request, SagaStep(o)
      PROVE  SingleActive' /\ Demotes'
  <2>1. /\ Inside(o) /\ crossed' = crossed /\ OthersStay(o)
        /\ disturbed' = disturbed \/ Heals(o)
    BY <1>0, <1>1, SagaStays DEF Inside
  <2>2. o \notin crossed => Demoting(o)' /\ (AtMostOne \/ Heals(o) => AtMostOne')
    BY <1>0, <1>1, SagaDemotes DEF OneActive, Demotes
  <2>3. ASSUME NEW p \in Request \ crossed, p # o
        PROVE  Demoting(p)'
    <3>1. pc'[p] \notin Critical
      BY <1>0, <2>1, <2>3, Alone DEF Inside, OthersStay
    <3>. QED  BY <3>1, OutsideDemotes
  <2>4. SingleActive'
    <3>1. CASE Heals(o)
      BY <2>2, <3>1 DEF Heals, AtMostOne, SingleActive
    <3>2. CASE disturbed' = disturbed /\ "overlap" \notin disturbed
      BY <1>0, <2>1, <2>2, <3>2 DEF OneActive, Crossing, AtMostOne, SingleActive
    <3>. QED  BY <2>1, <3>1, <3>2 DEF SingleActive
  <2>. QED  BY <2>1, <2>2, <2>3, <2>4 DEF Demotes
<1>2. CASE Aside
  <2>1. NoneActivated
    BY <1>2 DEF Aside, SetAside, NoneActivated
  <2>2. ASSUME NEW p \in Request \ crossed'
        PROVE  Demoting(p)'
    <3>1. Demoting(p)
      BY <1>2, <2>2 DEF Aside, Noted, OneActive, Demotes
    <3>2. CASE Untouched(p)
      BY <2>1, <3>1, <3>2, OthersDemote DEF Untouched
    <3>3. CASE Enters(p) \/ Leaves(p)
      BY <3>3 DEF Enters, Leaves, Outside, Demoting, Clearing, Cleared, Quiet, At
    <3>. QED  BY <1>2, <3>2, <3>3 DEF Aside, SetAside
  <2>3. SingleActive'
    BY <1>2, <2>1 DEF Aside, Noted, OneActive, SingleActive, NoneActivated
  <2>. QED  BY <2>2, <2>3 DEF Demotes
<1>. QED  BY <1>0, <1>1, <1>2, StepSorted DEF Locked

LEMMA InitOneActive == Init => OneActive
<1>. SUFFICES ASSUME Init PROVE SingleActive /\ Demotes
  BY InitLocked DEF OneActive
<1>1. SingleActive
  BY DEF Init, Boot, SingleActive
<1>2. Demotes
  BY DEF Init, Demotes, Demoting, Clearing, Cleared, Quiet, At
<1>. QED  BY <1>1, <1>2

(* At most one stored release is ACTIVE, mid-saga and after any crash or   *)
(* failing call; a saga that outlives its lease may break it only once     *)
(* another one has entered beside it, and only until a saga that is alone  *)
(* activates its release.                                                  *)
THEOREM AtMostOneActive == Spec => []SingleActive
<1>1. OneActive => SingleActive
  BY DEF OneActive
<1>. QED  BY <1>1, InitOneActive, NextOneActive, PTL DEF Spec

-----------------------------------------------------------------------------
(* The pointers name stored releases.                                      *)

NoneRemoved == \A r \in Release : status[r] # "ABSENT" => status'[r] # "ABSENT"

ResolvesAfter(o) ==
    NoneRemoved /\ Stored(pointer)' /\ Stored(localPointer)' /\ Restorable(o)'

LEMMA SubmitResolves ==
    ASSUME Resolves, NEW o \in Request, Submit(o)
    PROVE  status' = status /\ UNCHANGED <<pointer,
      localPointer>> /\ Restorable(o)'
<1>0. NoJob.prev = None /\ pc \in [Request -> Label] /\ job \in [Request -> Job]
  BY DEF NoJob, Resolves, Typed, TypeOK
<1>1. status' = status /\ UNCHANGED <<pointer, localPointer>>
  BY DEF Submit, SubmitPublish, SubmitUnpublish, SubmitReindex, SubmitPromote,
         SubmitRollback, SubmitSync, store
<1>2. ASSUME NEW v \in Version, SubmitPublish(o, v)
      PROVE  job'[o].prev = None /\ TargetStored(o)'
  <2>. DEFINE j == [NoJob EXCEPT !.kind = "publish", !.ver = v,
                                 !.doc = DocOf[v], !.target = o]
  <2>1. j.prev = None /\ j.kind = "publish" /\ j.target = o
    BY <1>0, NoJobIsJob DEF Job
  <2>2. job'[o] = j
    BY <1>0, <1>2 DEF SubmitPublish
  <2>3. pc'[o] = "wait"
    BY <1>0, <1>2 DEF SubmitPublish, Goto
  <2>. QED  BY <1>1, <2>1, <2>2, <2>3
               DEF TargetStored, AfterSave, Stored, Target, KindOf, Builds
<1>3. ASSUME NEW d \in Doc, SubmitUnpublish(o, d)
      PROVE  job'[o].prev = None /\ TargetStored(o)'
  <2>. DEFINE j == [NoJob EXCEPT !.kind = "unpublish", !.doc = d, !.target = o]
  <2>1. j.prev = None /\ j.kind = "unpublish" /\ j.target = o
    BY <1>0, NoJobIsJob DEF Job
  <2>2. job'[o] = j
    BY <1>0, <1>3 DEF SubmitUnpublish
  <2>3. pc'[o] = "wait"
    BY <1>0, <1>3 DEF SubmitUnpublish, Goto
  <2>. QED  BY <1>1, <2>1, <2>2, <2>3
               DEF TargetStored, AfterSave, Stored, Target, KindOf, Builds
<1>4. ASSUME NEW scope \in ReindexScopes, SubmitReindex(o, scope)
      PROVE  job'[o].prev = None /\ TargetStored(o)'
  <2>. DEFINE j == [NoJob EXCEPT !.kind = "reindex", !.scope = scope,
                                 !.target = o]
  <2>1. j.prev = None /\ j.kind = "reindex" /\ j.target = o
    BY <1>0, NoJobIsJob DEF Job
  <2>2. job'[o] = j
    BY <1>0, <1>4 DEF SubmitReindex
  <2>3. pc'[o] = "wait"
    BY <1>0, <1>4 DEF SubmitReindex, Goto
  <2>. QED  BY <1>1, <2>1, <2>2, <2>3
               DEF TargetStored, AfterSave, Stored, Target, KindOf, Builds
<1>5. ASSUME NEW r \in Release, SubmitPromote(o, r)
      PROVE  job'[o].prev = None /\ TargetStored(o)'
  <2>. DEFINE j == [NoJob EXCEPT !.kind = "promote", !.target = r]
  <2>1. j.prev = None /\ j.kind = "promote" /\ j.target = r
    BY <1>0, NoJobIsJob DEF Job
  <2>2. job'[o] = j
    BY <1>0, <1>5 DEF SubmitPromote
  <2>3. status[r] # "ABSENT"
    BY <1>5 DEF SubmitPromote
  <2>. QED  BY <1>1, <2>1, <2>2, <2>3
               DEF TargetStored, AfterSave, Stored, Target, KindOf, Builds
<1>6. ASSUME NEW r \in Release, SubmitRollback(o, r)
      PROVE  job'[o].prev = None /\ TargetStored(o)'
  <2>. DEFINE j == [NoJob EXCEPT !.kind = "rollback", !.target = r,
                                 !.man = IF pointer = None THEN EmptyManifest
                                         ELSE manifest[pointer]]
  <2>1. j.prev = None /\ j.kind = "rollback" /\ j.target = r
    BY <1>0, NoJobIsJob DEF Job
  <2>2. job'[o] = j
    BY <1>0, <1>6 DEF SubmitRollback
  <2>3. status[r] # "ABSENT"
    BY <1>6 DEF SubmitRollback
  <2>. QED  BY <1>1, <2>1, <2>2, <2>3
               DEF TargetStored, AfterSave, Stored, Target, KindOf, Builds
<1>7. ASSUME NEW r \in Release, SubmitSync(o, r)
      PROVE  job'[o].prev = None /\ TargetStored(o)'
  <2>. DEFINE j == [NoJob EXCEPT
                  !.kind = "sync", !.target = r,
                  !.initial = (pointer = None /\ status[r] = "RELOAD_FAILED")]
  <2>1. j.prev = None /\ j.kind = "sync" /\ j.target = r
    BY <1>0, NoJobIsJob DEF Job
  <2>2. job'[o] = j
    BY <1>0, <1>7 DEF SubmitSync
  <2>3. status[r] # "ABSENT"
    BY <1>7 DEF SubmitSync
  <2>. QED  BY <1>1, <2>1, <2>2, <2>3
               DEF TargetStored, AfterSave, Stored, Target, KindOf, Builds
<1>8. job'[o].prev = None /\ TargetStored(o)'
  BY <1>2, <1>3, <1>4, <1>5, <1>6, <1>7 DEF Submit
<1>. QED  BY <1>1, <1>8 DEF Restorable, Stored

(* Inside the lock a request keeps its operation and its target; the only  *)
(* release it ever notes to come back to is the one the pointer names.     *)
LEMMA SameSaga ==
    ASSUME Typed, NEW o \in Request,
           Prepare(o) \/ Commit(o) \/ Settlement(o) \/ CallFails(o)
    PROVE  /\ job'[o].kind = job[o].kind
           /\ job'[o].target = job[o].target
           /\ job'[o].prev \in {job[o].prev, pointer}
<1>0. job \in [Request -> Job]
  BY DEF Typed, TypeOK
<1>. USE <1>0 DEF Job, Raise
<1>1. CASE Prepare(o)
  BY <1>1 DEF Prepare, Collect, BuildCandidate, CheckRollbackGate,
     ReadPrevious, CheckSync
<1>2. CASE Commit(o)
  BY <1>2 DEF Commit, ListOthers, DeactivateNext, SaveDeploying, SetPointer,
              WriteLocalPointer, SyncNextDocument
<1>3. CASE Settlement(o)
  BY <1>3 DEF Settlement, Settle, SaveActive, SaveReloadFailed, RestorePointer,
              RestoreLocalPointer, RestorePrevious, NotifyRestored, SaveVersion,
              SaveDocument
<1>4. CASE CallFails(o)
  BY <1>4 DEF CallFails
<1>. QED  BY <1>1, <1>2, <1>3, <1>4

LEMMA SagaNoneRemoved ==
    ASSUME Typed, NEW o \in Request,
           Prepare(o) \/ Commit(o) \/ Settlement(o) \/ CallFails(o)
    PROVE  NoneRemoved
<1>0. status \in [Release -> ReleaseStatus]
  BY DEF Typed, TypeOK
<1>. USE <1>0 DEF NoneRemoved
<1>1. CASE Prepare(o)
  BY <1>1
     DEF Prepare, Collect, BuildCandidate, CheckRollbackGate, ReadPrevious,
              CheckSync, store
<1>2. CASE Commit(o)
  BY <1>2 DEF Commit, ListOthers, DeactivateNext, SaveDeploying, SetPointer,
              WriteLocalPointer, SyncNextDocument, store
<1>3. CASE Settlement(o)
  BY <1>3 DEF Settlement, Settle, SaveActive, SaveReloadFailed, RestorePointer,
              RestoreLocalPointer, RestorePrevious, NotifyRestored, SaveVersion,
              SaveDocument, store
<1>4. CASE CallFails(o)
  BY <1>4 DEF CallFails, store
<1>. QED  BY <1>1, <1>2, <1>3, <1>4

(* A request that builds reaches the labels after the save by the save.    *)
LEMMA SavedFirst ==
    ASSUME Typed, NEW o \in Request,
           Prepare(o) \/ Commit(o) \/ Settlement(o) \/ CallFails(o),
           KindOf(o) \in Builds, pc'[o] \in AfterSave
    PROVE  pc[o] \in AfterSave \/ status'[Target(o)] # "ABSENT"
<1>0. pc \in [Request -> Label] /\ (At(o, "check") => KindOf(o) = "sync")
      /\ status \in [Release -> ReleaseStatus] /\ KindOf(o) \notin {"rollback", "sync"}
  BY DEF Typed, TypeOK, TargetsKnown, Builds
<1>. USE <1>0 DEF Goto, Raise, At, AfterSave
<1>1. CASE Prepare(o)
  BY <1>1
     DEF Prepare, Collect, BuildCandidate, CheckRollbackGate, ReadPrevious,
              CheckSync, Builds
<1>2. CASE Commit(o)
  <2>1. CASE SaveDeploying(o)
    <3>1. Target(o) \in Release
      BY <2>1 DEF SaveDeploying, Typed, TargetsKnown, Working, Ended
    <3>. QED  BY <2>1, <3>1 DEF SaveDeploying
  <2>. QED  BY <1>2, <2>1
               DEF Commit, ListOthers, DeactivateNext, AfterDeactivation,
                SetPointer, WriteLocalPointer, SyncNextDocument
<1>3. CASE Settlement(o)
  BY <1>3 DEF Settlement, Settle, SaveActive, SaveReloadFailed, RestorePointer,
              RestoreLocalPointer, RestorePrevious, NotifyRestored, SaveVersion,
              SaveDocument, AfterSettlement, AfterRestoration, Builds
<1>4. CASE CallFails(o)
  BY <1>4 DEF CallFails
<1>. QED  BY <1>1, <1>2, <1>3, <1>4

(* A saga moves a pointer to its target or back to the release it noted.   *)
LEMMA SagaPointers ==
    ASSUME NEW o \in Request,
           Prepare(o) \/ Commit(o) \/ Settlement(o) \/ CallFails(o)
    PROVE  /\ \/ pointer' \in {pointer, job[o].prev}
              \/ pointer' = Target(o) /\ pc[o] \in AfterSave
           /\ \/ localPointer' \in {localPointer, job[o].prev}
              \/ localPointer' = Target(o) /\ pc[o] \in AfterSave
<1>1. CASE Prepare(o)
  BY <1>1
     DEF Prepare, Collect, BuildCandidate, CheckRollbackGate, ReadPrevious,
              CheckSync, store
<1>2. CASE Commit(o)
  BY <1>2 DEF Commit, ListOthers, DeactivateNext, SaveDeploying, SetPointer,
              WriteLocalPointer, SyncNextDocument, store, At, AfterSave
<1>3. CASE Settlement(o)
  BY <1>3 DEF Settlement, Settle, SaveActive, SaveReloadFailed, RestorePointer,
              RestoreLocalPointer, RestorePrevious, NotifyRestored, SaveVersion,
              SaveDocument, store
<1>4. CASE CallFails(o)
  BY <1>4 DEF CallFails, store
<1>. QED  BY <1>1, <1>2, <1>3, <1>4

LEMMA SagaResolves ==
    ASSUME Resolves, NEW o \in Request,
           Prepare(o) \/ Commit(o) \/ Settlement(o) \/ CallFails(o)
    PROVE  ResolvesAfter(o)
<1>1. /\ Typed /\ Working(o) /\ Restorable(o)
      /\ pointer \in Release \cup {None} /\ Stored(pointer)
      /\ localPointer \in Release \cup {None} /\ Stored(localPointer)
      /\ job[o].prev \in Release \cup {None} /\ Target(o) \in Release
  BY InsideLock
     DEF Resolves, Typed, TypeOK, TargetsKnown, Working, Critical, Ended, Job
<1>2. NoneRemoved
  BY <1>1, SagaNoneRemoved
<1>3. /\ job[o].prev # None => status'[job[o].prev] # "ABSENT"
      /\ pointer # None => status'[pointer] # "ABSENT"
      /\ localPointer # None => status'[localPointer] # "ABSENT"
  BY <1>1, <1>2 DEF Restorable, Stored, NoneRemoved
<1>4. pc[o] \in AfterSave => status'[Target(o)] # "ABSENT"
  BY <1>1, <1>2, ConstantsAssumption
     DEF Restorable, TargetStored, Stored, NoneRemoved
<1>5. Stored(pointer)' /\ Stored(localPointer)'
  BY <1>3, <1>4, SagaPointers DEF Stored
<1>6. Stored(job[o].prev)'
  BY <1>1, <1>3, SameSaga DEF Stored
<1>7. TargetStored(o)'
  <2>1. Target(o)' = Target(o) /\ KindOf(o)' = KindOf(o)
    BY <1>1, SameSaga DEF Target, KindOf
  <2>2. CASE KindOf(o) \in Builds
    BY <1>1, <1>4, <2>1, <2>2, SavedFirst
       DEF TargetStored, Stored, AfterSave, Builds
  <2>3. CASE KindOf(o) \notin Builds
    <3>1. status'[Target(o)] # "ABSENT"
      BY <1>1, <1>2, <2>3, ConstantsAssumption
         DEF Restorable, TargetStored, Stored, NoneRemoved
    <3>. QED  BY <2>1, <3>1 DEF TargetStored, Stored
  <2>. QED  BY <2>2, <2>3
<1>. QED  BY <1>2, <1>5, <1>6, <1>7 DEF ResolvesAfter, Restorable

(* The other requests' releases stay stored.                               *)
LEMMA OthersRestorable ==
    ASSUME Typed, NEW p \in Request, NoneRemoved, Restorable(p),
      job'[p] = job[p],
           pc'[p] = pc[p] \/ pc'[p] \in Ended
    PROVE  Restorable(p)'
<1>1. /\ job[p].prev \in Release \cup {None}
      /\ Working(p) \/ pc[p] \in AfterSave => Target(p) \in Release
  BY DEF Typed, TypeOK, Job, TargetsKnown, Working, AfterSave, Ended
<1>2. Stored(job[p].prev)'
  BY <1>1 DEF Restorable, Stored, NoneRemoved
<1>3. TargetStored(p)'
  BY <1>1
     DEF Restorable, TargetStored, Stored, NoneRemoved, Working, AfterSave,
     Ended,
              Target, KindOf
<1>. QED  BY <1>2, <1>3 DEF Restorable

(* The other handlers' steps store nothing but a gate refusal.             *)
LEMMA HandlerResolves ==
    ASSUME Resolves, NEW o \in Request,
           \/ PersistGateBlock(o) \/ NotifyReload(o) \/ TakeLocalLock(o)
           \/ AcquireLease(o) \/ AcquireTimeout(o) \/ ReleaseLock(o)
    PROVE  ResolvesAfter(o) /\ OthersStay(o)
<1>0. /\ Typed /\ Restorable(o) /\ Stored(pointer) /\ Stored(localPointer)
      /\ pc \in [Request -> Label] /\ job \in [Request -> Job] /\ job[o] \in Job
      /\ status \in [Release -> ReleaseStatus]
  BY DEF Resolves, Typed, TypeOK
<1>1. NoneRemoved /\ UNCHANGED <<pointer, localPointer>> /\ OthersStay(o)
  BY <1>0 DEF PersistGateBlock, NotifyReload, TakeLocalLock, AcquireLease,
     AcquireTimeout,
     ReleaseLock, NoneRemoved, OthersStay, Goto, store
<1>2. Stored(pointer)' /\ Stored(localPointer)'
  BY <1>0, <1>1 DEF Stored, NoneRemoved, Typed, TypeOK
<1>3. Restorable(o)'
  <2>1. CASE PersistGateBlock(o) \/ AcquireTimeout(o)
    BY <1>0, <1>1, <2>1, OthersRestorable
       DEF PersistGateBlock, AcquireTimeout, Goto, Ended
  <2>2. CASE TakeLocalLock(o) \/ AcquireLease(o)
    BY <1>0, <2>2
       DEF TakeLocalLock, AcquireLease, FirstStep, Goto, At, Restorable,
       TargetStored, Stored, Working, Ended, AfterSave, Target, KindOf, store
  <2>3. CASE NotifyReload(o)
    <3>1. /\ job'[o].prev = job[o].prev /\ Target(o)' = Target(o)
          /\ KindOf(o)' = KindOf(o) /\ status' = status
      BY <1>0, <2>3 DEF NotifyReload, Target, KindOf, Job, store
    <3>2. /\ Working(o)
          /\ pc'[o] = "wait" \/ (pc[o] \in AfterSave /\ pc'[o] = "settle")
      BY <1>0, <2>3 DEF NotifyReload, Goto, At, Working, Ended, AfterSave
    <3>. QED  BY <1>0, <3>1, <3>2
                 DEF Restorable, TargetStored, Stored, AfterSave
  <2>4. CASE ReleaseLock(o)
    <3>. DEFINE j == [NoJob EXCEPT !.kind = job[o].kind, !.ver = job[o].ver]
    <3>1. NoJob.prev = None
      BY DEF NoJob
    <3>2. j.prev = None
      BY <3>1, NoJobIsJob DEF Job
    <3>3. job'[o] = j /\ pc'[o] \in {"failed", "done"}
      BY <1>0, <2>4 DEF ReleaseLock, Goto
    <3>. QED  BY <3>2, <3>3
                 DEF Restorable, TargetStored, Stored, Working, Ended,
                 AfterSave
  <2>. QED  BY <2>1, <2>2, <2>3, <2>4
<1>. QED  BY <1>1, <1>2, <1>3 DEF ResolvesAfter

LEMMA NextResolves == Resolves /\ [Next]_vars => Resolves'
<1>. SUFFICES ASSUME Resolves, [Next]_vars
              PROVE  Resolves'
  OBVIOUS
<1>0. Typed /\ Typed'
  BY NextTyped DEF Resolves
<1>1. ASSUME NEW o \in Request, ResolvesAfter(o), OthersStay(o)
      PROVE  Resolves'
  BY <1>0, <1>1, OthersRestorable DEF Resolves, ResolvesAfter, OthersStay
<1>2. ASSUME NEW o \in Request, Submit(o)
      PROVE  Resolves'
  <2>1. status' = status /\ UNCHANGED <<pointer, localPointer>> /\ Restorable(o)'
    BY <1>2, SubmitResolves
  <2>2. ResolvesAfter(o)
    BY <2>1 DEF ResolvesAfter, NoneRemoved, Resolves, Stored
  <2>3. OthersStay(o)
    BY <1>0, <1>2, OutsideLock
  <2>. QED  BY <1>1, <2>2, <2>3
<1>3. ASSUME NEW o \in Request,
             Prepare(o) \/ Commit(o) \/ Settlement(o) \/ CallFails(o)
      PROVE  Resolves'
  <2>1. ResolvesAfter(o)
    BY <1>3, SagaResolves
  <2>2. OthersStay(o)
    BY <1>0, <1>3, InsideLock
  <2>. QED  BY <1>1, <2>1, <2>2
<1>4. ASSUME NEW o \in Request, Step(o)
      PROVE  Resolves'
  BY <1>1, <1>3, <1>4, HandlerResolves DEF Step
<1>5. ASSUME UNCHANGED <<status, pointer, localPointer, job>>,
             \A p \in Request : pc'[p] = pc[p] \/ pc'[p] \in Ended
      PROVE  Resolves'
  <2>1. NoneRemoved
    BY <1>5 DEF NoneRemoved
  <2>2. Stored(pointer)' /\ Stored(localPointer)'
    BY <1>5 DEF Resolves, Stored
  <2>3. ASSUME NEW p \in Request
        PROVE  Restorable(p)'
    BY <1>0, <1>5, <2>1, OthersRestorable DEF Resolves
  <2>. QED  BY <1>0, <2>2, <2>3 DEF Resolves
<1>6. ASSUME NEW o \in Request, Crash(o)
      PROVE  Resolves'
  BY <1>5, <1>6 DEF Crash, store, Ended
<1>7. CASE LeaseExpires \/ FollowLocalPointer \/ UNCHANGED vars
  BY <1>5, <1>7 DEF LeaseExpires, FollowLocalPointer, vars, store
<1>. QED  BY <1>2, <1>3, <1>4, <1>6, <1>7 DEF Next

LEMMA InitResolves == Init => Resolves
<1>. SUFFICES ASSUME Init PROVE Resolves
  OBVIOUS
<1>1. PICK boot \in BootVersions, verified \in BOOLEAN : Boot(boot, verified)
  BY DEF Init
<1>2. Stored(pointer) /\ Stored(localPointer)
  BY <1>1, BootTyped DEF Boot, Stored
<1>3. NoJob.prev = None
  BY DEF NoJob
<1>4. \A o \in Request : Restorable(o)
  BY <1>3 DEF Init, Restorable, TargetStored, Stored, Working, AfterSave
<1>. QED  BY <1>2, <1>4, InitTyped DEF Resolves

(* Both pointers name a stored release after any crash, failing call or    *)
(* lease that ran out: no request moves one before its target is stored.   *)
THEOREM PointersNameStoredReleases == Spec => []PointersResolve
<1>1. Resolves => PointersResolve
  BY DEF Resolves, Stored, PointersResolve
<1>. QED  BY <1>1, InitResolves, NextResolves, PTL DEF Spec

-----------------------------------------------------------------------------
(* Where the pointers are while a saga moves them and takes them back.     *)

OnTarget(o) ==
    \/ pc[o] \in {"local", "savedeploying", "syncdocs", "reload", "settle",
                  "finalize"}
    \/ pc[o] \in {"list", "deactivate"} /\ KindOf(o) = "sync"
    => pointer = Target(o)

LocalOnTarget(o) ==
    \/ pc[o] \in {"savedeploying", "syncdocs", "reload", "settle", "finalize"}
    \/ pc[o] \in {"list", "deactivate"} /\ KindOf(o) = "sync"
    => localPointer = Target(o)

BackOnPrevious(o) ==
    pc[o] \in {"restorelocal", "restoreprev", "renotify"}
    => pointer = job[o].prev /\ pointer # None

(* A build whose reload failed reaches its settlement only by the way that *)
(* restores the release it noted.                                          *)
ServesPrevious(o) ==
    /\ pointer = job[o].prev
    /\ pointer # None => status[pointer] \in {"ACTIVE", "GATE_BLOCKED"}

Restored(o) ==
    KindOf(o) \in Builds =>
        /\ pc[o] = "finalize" => job[o].ok
        /\ pc[o] = "renotify" => ServesPrevious(o)
        /\ \/ pc[o] \in {"savever", "savedoc"}
           \/ pc[o] = "release" /\ ~job[o].error
           => job[o].ok \/ ServesPrevious(o)

Positioned(o) ==
    OnTarget(o) /\ LocalOnTarget(o) /\ BackOnPrevious(o) /\ Restored(o)

LEMMA SagaPositioned ==
    ASSUME Typed, NEW o \in Request, SagaStep(o), Routed(o), Positioned(o)
    PROVE  Positioned(o)'
<1>0. /\ pc \in [Request -> Label] /\ job[o] \in Job /\ job \in [Request -> Job]
      /\ status \in [Release -> ReleaseStatus]
      /\ Target(o) \in Release /\ KindOf(o) \in Kind
      /\ At(o, "check") => KindOf(o) = "sync"
      /\ pc[o] \in Preparing => KindOf(o) # "sync"
  BY SameVersion DEF Routed, Typed, TypeOK, TargetsKnown, Working, Critical,
     Ended
<1>1. /\ job'[o] \in Job
      /\ KindOf(o)' = KindOf(o) /\ Target(o)' = Target(o)
      /\ pc[o] # "reload" => job'[o].ok = job[o].ok
      /\ pc[o] # "readprev" => job'[o].prev = job[o].prev
      /\ Raise(o) => pc'[o] = "release" /\ job'[o].error
  BY <1>0, SameVersion DEF Raise, Goto, Job
<1>. USE <1>0, <1>1 DEF Positioned, OnTarget, LocalOnTarget, BackOnPrevious,
         Restored, ServesPrevious, At, Goto, Builds, Preparing
<1>2. CASE Prepare(o)
  <2>1. CASE Collect(o)
    BY <2>1 DEF Collect, store
  <2>2. CASE BuildCandidate(o)
    BY <2>2 DEF BuildCandidate
  <2>3. CASE CheckRollbackGate(o)
    BY <2>3 DEF CheckRollbackGate, store
  <2>4. CASE ReadPrevious(o)
    BY <2>4 DEF ReadPrevious, store
  <2>5. CASE CheckSync(o)
    BY <2>5 DEF CheckSync, store
  <2>. QED  BY <1>2, <2>1, <2>2, <2>3, <2>4, <2>5 DEF Prepare
<1>3. CASE Commit(o)
  <2>1. CASE ListOthers(o)
    BY <2>1 DEF ListOthers, store
  <2>2. CASE DeactivateNext(o)
    BY <2>2 DEF DeactivateNext, AfterDeactivation
  <2>3. CASE SaveDeploying(o)
    BY <2>3 DEF SaveDeploying
  <2>4. CASE SetPointer(o)
    BY <2>4 DEF SetPointer
  <2>5. CASE WriteLocalPointer(o)
    BY <2>5 DEF WriteLocalPointer, AfterLocalPointer
  <2>6. CASE SyncNextDocument(o)
    BY <2>6 DEF SyncNextDocument
  <2>. QED  BY <1>3, <2>1, <2>2, <2>3, <2>4, <2>5, <2>6 DEF Commit
<1>4. CASE Settlement(o)
  <2>1. CASE Settle(o)
    BY <2>1 DEF Settle, AfterSettlement, store
  <2>2. CASE SaveActive(o)
    BY <2>2 DEF SaveActive, AfterSettlement
  <2>3. CASE SaveReloadFailed(o)
    BY <2>3 DEF SaveReloadFailed
  <2>4. CASE RestorePointer(o)
    BY <2>4 DEF RestorePointer, AfterRestoration, AfterSettlement
  <2>5. CASE RestoreLocalPointer(o)
    BY <2>5 DEF RestoreLocalPointer
  <2>6. CASE RestorePrevious(o)
    BY <2>6 DEF RestorePrevious, Job
  <2>7. CASE NotifyRestored(o)
    BY <2>7 DEF NotifyRestored, AfterRestoration, AfterSettlement, store
  <2>8. CASE SaveVersion(o)
    BY <2>8 DEF SaveVersion
  <2>9. CASE SaveDocument(o)
    BY <2>9 DEF SaveDocument
  <2>. QED  BY <1>4, <2>1, <2>2, <2>3, <2>4, <2>5, <2>6, <2>7, <2>8, <2>9
               DEF Settlement
<1>5. CASE NotifyReload(o) /\ pc[o] = "reload"
  BY <1>5 DEF NotifyReload, store
<1>. QED  BY <1>2, <1>3, <1>4, <1>5 DEF SagaStep

LEMMA AsidePositioned ==
    ASSUME Typed, NEW p \in Request, Aside, Positioned(p)
    PROVE  Positioned(p)'
<1>0. /\ pointer \in Release \cup {None}
      /\ UNCHANGED <<pointer, localPointer>>
  BY DEF Typed, TypeOK, Aside, SetAside
<1>1. pointer # None => status'[pointer] \in {status[pointer], "GATE_BLOCKED"}
  BY <1>0 DEF Aside, SetAside
<1>. USE DEF Positioned, OnTarget, LocalOnTarget, BackOnPrevious, Restored,
         ServesPrevious
<1>2. CASE Untouched(p)
  BY <1>0, <1>1, <1>2 DEF Untouched, KindOf, Target
<1>3. CASE Enters(p)
  BY <1>3 DEF Enters, Outside, Builds
<1>4. CASE Leaves(p)
  BY <1>4 DEF Leaves
<1>. QED  BY <1>2, <1>3, <1>4 DEF Aside, SetAside

(* Nothing is claimed of a request outside the lock.                       *)
LEMMA OutsidePositioned ==
    ASSUME NEW p \in Request, pc'[p] \notin Critical
    PROVE  Positioned(p)'
BY DEF Positioned, OnTarget, LocalOnTarget, BackOnPrevious, Restored,
   Critical

Positions == Locked /\ \A o \in Request \ crossed : Positioned(o)

LEMMA NextPositions == Positions /\ [Next]_vars => Positions'
<1>. SUFFICES ASSUME Positions, [Next]_vars, NEW p \in Request \ crossed'
              PROVE  Positioned(p)'
  BY NextLocked DEF Positions
<1>0. Locked /\ Typed /\ Crossing
  BY DEF Positions, Locked
<1>1. ASSUME NEW o \in Request, SagaStep(o)
      PROVE  Positioned(p)'
  <2>1. Inside(o) /\ crossed' = crossed /\ OthersStay(o)
    BY <1>0, <1>1, SagaStays DEF Inside
  <2>2. CASE p = o
    BY <1>0, <1>1, <2>1, <2>2, SagaPositioned DEF Positions, Locked
  <2>3. CASE p # o
    <3>1. pc'[p] \notin Critical
      BY <1>0, <2>1, <2>3, Alone DEF Inside, OthersStay
    <3>. QED  BY <3>1, OutsidePositioned
  <2>. QED  BY <2>2, <2>3
<1>2. CASE Aside
  BY <1>0, <1>2, AsidePositioned DEF Positions, Aside, Noted
<1>. QED  BY <1>0, <1>1, <1>2, StepSorted DEF Locked

LEMMA InitPositions == Init => Positions
<1>1. Init => \A o \in Request : Positioned(o)
  BY DEF Init, Positioned, OnTarget, LocalOnTarget, BackOnPrevious, Restored
<1>. QED  BY <1>1, InitLocked DEF Positions

(* A build whose reload failed, in a saga that no other overlapped, hands  *)
(* the lock back with the pointer where it found it and that release       *)
(* ACTIVE again, or refused by a promote's gate, whatever crashed, failed  *)
(* or outlived its lease before.                                           *)
THEOREM FailedActivationsRestore == Spec => FailedActivationKeepsOld
<1>1. Positions /\ [Next]_vars
      => [\A o \in Request \ crossed :
             ReleaseLock(o) /\ KindOf(o) \in Builds /\ ~job[o].error /\ ~job[o].ok
             => /\ pointer = job[o].prev
                /\ pointer # None
                       => status[pointer] \in {"ACTIVE", "GATE_BLOCKED"}]_vars
  BY DEF Positions, Positioned, Restored, ServesPrevious, ReleaseLock, At
<1>. QED  BY <1>1, InitPositions, NextPositions, PTL DEF Spec,
             FailedActivationKeepsOld

-----------------------------------------------------------------------------
(* What rests between the sagas of a system that nothing disturbed since   *)
(* one last activated alone.                                               *)

(* An undisturbed saga is alone: nobody who is marked is inside any more.  *)
LEMMA Undisturbed ==
    ASSUME Locked, disturbed = {}, NEW o \in Request, Inside(o)
    PROVE  o \notin crossed /\ \A p \in Request : Inside(p) => p = o
BY DEF Locked, Crossing

(* A step of a saga that leaves the system undisturbed heals it, or is of  *)
(* a saga that found it so.                                                *)
LEMMA UndisturbedStep ==
    ASSUME Locked, NEW o \in Request, SagaStep(o), disturbed' = {}
    PROVE  Heals(o) \/ (disturbed = {} /\ o \notin crossed
                        /\ \A p \in Request : Inside(p) => p = o)
<1>1. Inside(o) /\ (disturbed' = disturbed \/ Heals(o))
  BY SagaStays DEF Locked, Inside
<1>. QED  BY <1>1, Undisturbed

(* The file beside the artifacts is behind the pointer only while a saga   *)
(* that moved the pointer is about to write it.                            *)
Moving(o) ==
    \/ pc[o] \in {"local", "restorelocal"}
    \/ pc[o] = "restoreprev" /\ KindOf(o) = "promote"

Follows == pointer # None => localPointer = pointer

FollowsOrMoves == disturbed = {} => Follows \/ \E o \in Request : Moving(o)

LEMMA SagaFollows ==
    ASSUME Typed, NEW o \in Request, SagaStep(o), Routed(o), Positioned(o),
           Follows \/ Moving(o)
    PROVE  Follows' \/ Moving(o)'
<1>0. /\ pc \in [Request -> Label] /\ (At(o, "check") => KindOf(o) = "sync")
      /\ KindOf(o)' = KindOf(o) /\ Target(o)' = Target(o)
  BY SameVersion DEF Typed, TypeOK, TargetsKnown
<1>. USE <1>0 DEF Follows, Moving, At, Goto
<1>1. CASE UNCHANGED <<pointer, localPointer>> /\ ~Moving(o)
  BY <1>1
<1>2. CASE Prepare(o)
  BY <1>1, <1>2 DEF Prepare, Collect, BuildCandidate, CheckRollbackGate,
     ReadPrevious, CheckSync, store
<1>3. CASE Commit(o)
  <2>1. CASE SetPointer(o)
    BY <2>1 DEF SetPointer
  <2>2. CASE WriteLocalPointer(o)
    BY <2>2 DEF WriteLocalPointer, Positioned, OnTarget
  <2>. QED  BY <1>1, <1>3, <2>1, <2>2 DEF Commit, ListOthers, DeactivateNext,
               SaveDeploying, SyncNextDocument, store
<1>4. CASE Settlement(o)
  <2>1. CASE RestorePointer(o)
    BY <2>1 DEF RestorePointer
  <2>2. CASE RestoreLocalPointer(o)
    BY <2>2 DEF RestoreLocalPointer, Positioned, BackOnPrevious
  <2>3. CASE RestorePrevious(o)
    BY <2>3 DEF RestorePrevious
  <2>. QED  BY <1>1, <1>4, <2>1, <2>2, <2>3 DEF Settlement, Settle, SaveActive,
               SaveReloadFailed, NotifyRestored, SaveVersion, SaveDocument,
               store
<1>5. CASE NotifyReload(o) /\ pc[o] = "reload"
  BY <1>1, <1>5 DEF NotifyReload, store
<1>. QED  BY <1>2, <1>3, <1>4, <1>5 DEF SagaStep

LEMMA NextFollows ==
    Positions /\ FollowsOrMoves /\ [Next]_vars => FollowsOrMoves'
<1>. SUFFICES ASSUME Positions, FollowsOrMoves, [Next]_vars, disturbed' = {}
              PROVE  Follows' \/ \E p \in Request : Moving(p)'
  BY DEF FollowsOrMoves
<1>0. Locked /\ Typed /\ \A p \in Request : Routed(p)
  BY DEF Positions, Locked
<1>1. ASSUME NEW o \in Request, SagaStep(o)
      PROVE  Follows' \/ \E p \in Request : Moving(p)'
  <2>1. CASE Heals(o)
    <3>1. Positioned(o) /\ At(o, "finalize")
      BY <2>1 DEF Heals, SaveActive, Positions
    <3>2. pointer = Target(o) /\ localPointer = Target(o)
      BY <3>1 DEF Positioned, OnTarget, LocalOnTarget, At
    <3>. QED  BY <2>1, <3>2 DEF Heals, SaveActive, Follows
  <2>2. CASE /\ disturbed = {} /\ o \notin crossed
             /\ \A p \in Request : Inside(p) => p = o
    <3>1. \A p \in Request : Moving(p) => p = o
      BY <2>2 DEF Moving, Inside, Critical
    <3>2. Follows \/ Moving(o)
      BY <2>2, <3>1 DEF FollowsOrMoves
    <3>. QED  BY <1>0, <1>1, <2>2, <3>2, SagaFollows DEF Positions
  <2>. QED  BY <1>0, <1>1, <2>1, <2>2, UndisturbedStep
<1>2. CASE Aside
  <2>1. disturbed = {} /\ "fault" \notin disturbed'
    BY <1>2 DEF Aside, Noted
  <2>2. \A p \in Request : Moving(p) => Moving(p)'
    BY <1>2, <2>1 DEF Aside, Moving, Critical, Untouched, KindOf
  <2>3. Follows => Follows'
    BY <1>2 DEF Aside, SetAside, Follows
  <2>. QED  BY <2>1, <2>2, <2>3 DEF FollowsOrMoves
<1>. QED  BY <1>0, <1>1, <1>2, StepSorted

(* The file a FILE-mode Agent follows names the active release whenever no *)
(* saga is inside the lock, from the start and again after the first       *)
(* activation that follows crashes, failing calls or overlapping sagas.    *)
THEOREM LocalPointerAtRest == Spec => []LocalPointerFollows
<1>1. Init => FollowsOrMoves
  BY DEF Init, Boot, FollowsOrMoves, Follows
<1>2. FollowsOrMoves => LocalPointerFollows
  BY DEF FollowsOrMoves, LocalPointerFollows, AtRest, Follows, Moving, Critical
<1>. QED  BY <1>1, <1>2, InitPositions, NextPositions, NextFollows, PTL DEF Spec

-----------------------------------------------------------------------------
(* Nothing half deployed.                                                  *)

DeployingWithin(R) == \A r \in Release : status[r] = "DEPLOYING" => r \in R

(* What a saga that is alone has done to the releases others left          *)
(* DEPLOYING: from its last deactivation on there is none but its target.  *)
Superseding(o) ==
    /\ At(o, "deactivate") => DeployingWithin({Target(o)} \cup job[o].todo)
    /\ \/ pc[o] \in {"save", "savedeploying", "syncdocs", "reload", "settle",
                     "finalize"}
       \/ pc[o] \in {"point", "local"} /\ KindOf(o) # "sync"
       => DeployingWithin({Target(o)})

LEMMA SagaSuperseding ==
    ASSUME Typed, NEW o \in Request, SagaStep(o), Superseding(o)
    PROVE  Superseding(o)'
<1>0. /\ pc \in [Request -> Label] /\ (At(o, "check") => KindOf(o) = "sync")
      /\ KindOf(o)' = KindOf(o) /\ Target(o)' = Target(o)
      /\ status \in [Release -> ReleaseStatus] /\ job \in [Request -> Job]
      /\ job'[o] \in Job /\ Target(o) \in Release
  BY SameVersion DEF Typed, TypeOK, TargetsKnown, Working, Critical, Ended
<1>. USE <1>0 DEF Superseding, DeployingWithin, At, Goto
<1>1. CASE Prepare(o)
  BY <1>1 DEF Prepare, Collect, BuildCandidate, CheckRollbackGate,
     ReadPrevious, CheckSync, Raise, store
<1>2. CASE Commit(o)
  <2>1. CASE ListOthers(o)
    BY <2>1 DEF ListOthers, Deactivatable, Job, store
  <2>2. CASE DeactivateNext(o)
    <3>0. At(o, "deactivate") /\ DeployingWithin({Target(o)} \cup job[o].todo)
      BY <2>2 DEF DeactivateNext
    <3>1. ASSUME NEW r \in job[o].todo,
                 status' = [status EXCEPT ![r] = "ROLLED_BACK"],
                 job' = [job EXCEPT ![o].todo = @ \ {r}],
                 UNCHANGED pc
          PROVE  Superseding(o)'
      <4>1. job'[o].todo = job[o].todo \ {r} /\ r \in Release
        BY <3>1 DEF Job
      <4>2. /\ status'[r] # "DEPLOYING"
            /\ \A s \in Release : status'[s] = "DEPLOYING" => status[s] = "DEPLOYING"
        BY <3>1, <4>1
      <4>3. DeployingWithin({Target(o)} \cup job[o].todo)'
        BY <3>0, <4>1, <4>2
      <4>. QED  BY <3>0, <3>1, <4>3
    <3>2. ASSUME job[o].todo = {}, Goto(o, AfterDeactivation(KindOf(o))),
                 UNCHANGED <<status, job>>
          PROVE  Superseding(o)'
      BY <3>0, <3>2 DEF AfterDeactivation
    <3>. QED  BY <2>2, <3>1, <3>2 DEF DeactivateNext
  <2>3. CASE SaveDeploying(o)
    BY <2>3 DEF SaveDeploying
  <2>4. CASE SetPointer(o)
    BY <2>4 DEF SetPointer
  <2>5. CASE WriteLocalPointer(o)
    BY <2>5 DEF WriteLocalPointer, AfterLocalPointer
  <2>6. CASE SyncNextDocument(o)
    BY <2>6 DEF SyncNextDocument
  <2>. QED  BY <1>2, <2>1, <2>2, <2>3, <2>4, <2>5, <2>6 DEF Commit
<1>3. CASE Settlement(o)
  BY <1>3 DEF Settlement, Settle, SaveActive, SaveReloadFailed, RestorePointer,
     RestoreLocalPointer, RestorePrevious, NotifyRestored, SaveVersion,
     SaveDocument, AfterSettlement, AfterRestoration, store
<1>4. CASE NotifyReload(o) /\ pc[o] = "reload"
  BY <1>4 DEF NotifyReload, store
<1>. QED  BY <1>1, <1>2, <1>3, <1>4 DEF SagaStep

LEMMA AsideSuperseding ==
    ASSUME NEW p \in Request, Aside, Superseding(p)
    PROVE  Superseding(p)'
<1>1. \A r \in Release : status'[r] = "DEPLOYING" => status[r] = "DEPLOYING"
  BY DEF Aside, SetAside
<1>2. CASE Untouched(p)
  BY <1>1, <1>2
     DEF Untouched, Superseding, DeployingWithin, At, KindOf, Target
<1>3. CASE Enters(p) \/ Leaves(p)
  BY <1>3 DEF Enters, Leaves, Superseding, At, Outside
<1>. QED  BY <1>2, <1>3 DEF Aside, SetAside

Superseded == Locked /\ \A o \in Request \ crossed : Superseding(o)

LEMMA NextSuperseded == Superseded /\ [Next]_vars => Superseded'
<1>. SUFFICES ASSUME Superseded, [Next]_vars, NEW p \in Request \ crossed'
              PROVE  Superseding(p)'
  BY NextLocked DEF Superseded
<1>0. Locked /\ Typed /\ Crossing
  BY DEF Superseded, Locked
<1>1. ASSUME NEW o \in Request, SagaStep(o)
      PROVE  Superseding(p)'
  <2>1. Inside(o) /\ crossed' = crossed /\ OthersStay(o)
    BY <1>0, <1>1, SagaStays DEF Inside
  <2>2. CASE p = o
    BY <1>0, <1>1, <2>1, <2>2, SagaSuperseding DEF Superseded
  <2>3. CASE p # o
    <3>1. pc'[p] \notin Critical
      BY <1>0, <2>1, <2>3, Alone DEF Inside, OthersStay
    <3>. QED  BY <3>1 DEF Superseding, At, Critical
  <2>. QED  BY <2>2, <2>3
<1>2. CASE Aside
  BY <1>2, AsideSuperseding DEF Superseded, Aside, Noted
<1>. QED  BY <1>0, <1>1, <1>2, StepSorted DEF Locked

(* A release is DEPLOYING only while the saga that stored it so is still   *)
(* in the lock and will finalize it or store its failure.                  *)
Deploys(o) ==
    \/ pc[o] \in {"syncdocs", "reload", "settle", "finalize", "savefailed"}
    \/ pc[o] \in {"point", "local"} /\ KindOf(o) \in Builds \cup {"promote"}
    \/ /\ pc[o] \in {"restorepointer", "restoreprev", "restorelocal", "renotify"}
       /\ KindOf(o) = "promote"

(* A sync moves the pointer before it supersedes the others.               *)
Supersedes(o) == KindOf(o) = "sync" /\ pc[o] \in {"local", "list", "deactivate"}

DeployingIsOwned(r) ==
    status[r] = "DEPLOYING" /\ r # 0
    => \E o \in Request : Deploys(o) /\ Target(o) = r

ActiveIsPointed(r) ==
    status[r] = "ACTIVE" => r = pointer \/ \E o \in Request : Supersedes(o)

Settled ==
    disturbed = {} => \A r \in Release : DeployingIsOwned(r) /\ ActiveIsPointed(r)

(* What one saga has to answer for.                                        *)
OwnedBy(o, r) ==
    /\ status[r] = "DEPLOYING" /\ r # 0 => Deploys(o) /\ Target(o) = r
    /\ status[r] = "ACTIVE" => r = pointer \/ Supersedes(o)

LEMMA SagaSettles ==
    ASSUME Typed, NEW o \in Request, SagaStep(o), Routed(o), Positioned(o),
           Demoting(o), NEW r \in Release, OwnedBy(o, r)
    PROVE  OwnedBy(o, r)'
<1>0. /\ pc \in [Request -> Label] /\ (At(o, "check") => KindOf(o) = "sync")
      /\ pc[o] \in Preparing => KindOf(o) # "sync"
      /\ pc[o] = "save" => KindOf(o) \notin {"rollback", "sync"}
      /\ KindOf(o)' = KindOf(o) /\ Target(o)' = Target(o)
      /\ status \in [Release -> ReleaseStatus] /\ job[o] \in Job
      /\ Target(o) \in Release /\ KindOf(o) \in Kind
  BY SameVersion DEF Typed, TypeOK, TargetsKnown, Routed, Working,
     Critical,
     Ended
<1>. USE <1>0 DEF OwnedBy, Deploys, Supersedes, At, Goto
<1>2. CASE Prepare(o)
  <2>1. CASE Collect(o)
    BY <2>1 DEF Collect, Raise, store
  <2>2. CASE BuildCandidate(o)
    BY <2>2 DEF BuildCandidate, Raise
  <2>3. CASE CheckRollbackGate(o)
    BY <2>3 DEF CheckRollbackGate, Raise, store
  <2>4. CASE ReadPrevious(o)
    BY <2>4 DEF ReadPrevious, Raise, store
  <2>5. CASE CheckSync(o)
    BY <2>5 DEF CheckSync, Raise, store
  <2>. QED  BY <1>2, <2>1, <2>2, <2>3, <2>4, <2>5 DEF Prepare
<1>3. CASE Commit(o)
  <2>1. CASE ListOthers(o)
    BY <2>1 DEF ListOthers, store
  <2>2. CASE DeactivateNext(o)
    <3>1. ASSUME NEW s \in job[o].todo,
                 status' = [status EXCEPT ![s] = "ROLLED_BACK"], UNCHANGED pc
          PROVE  OwnedBy(o, r)'
      BY <2>2, <3>1 DEF DeactivateNext, Job
    <3>2. ASSUME job[o].todo = {}, Goto(o, AfterDeactivation(KindOf(o))),
                 UNCHANGED status
          PROVE  OwnedBy(o, r)'
      BY <2>2, <3>2 DEF DeactivateNext, AfterDeactivation, Demoting, Clearing,
         ActiveWithin, Positioned, OnTarget
    <3>. QED  BY <2>2, <3>1, <3>2 DEF DeactivateNext
  <2>3. CASE SaveDeploying(o)
    BY <2>3 DEF SaveDeploying, Builds, Kind
  <2>4. CASE SetPointer(o)
    BY <2>4 DEF SetPointer, Builds, Kind, Demoting, Cleared, Quiet, ActiveWithin
  <2>5. CASE WriteLocalPointer(o)
    BY <2>5 DEF WriteLocalPointer, AfterLocalPointer, Builds, Kind
  <2>6. CASE SyncNextDocument(o)
    BY <2>6 DEF SyncNextDocument
  <2>. QED  BY <1>3, <2>1, <2>2, <2>3, <2>4, <2>5, <2>6 DEF Commit
<1>4. CASE Settlement(o)
  <2>. USE DEF Positioned, OnTarget, BackOnPrevious, Demoting, Quiet, Cleared,
           ActiveWithin
  <2>1. CASE Settle(o)
    BY <2>1 DEF Settle, AfterSettlement, store
  <2>2. CASE SaveActive(o)
    BY <2>2 DEF SaveActive, AfterSettlement
  <2>3. CASE SaveReloadFailed(o)
    BY <2>3 DEF SaveReloadFailed
  <2>4. CASE RestorePointer(o)
    BY <2>4 DEF RestorePointer, AfterRestoration, AfterSettlement
  <2>5. CASE RestoreLocalPointer(o)
    BY <2>5 DEF RestoreLocalPointer
  <2>6. CASE RestorePrevious(o)
    BY <2>6 DEF RestorePrevious, Job
  <2>7. CASE NotifyRestored(o)
    BY <2>7 DEF NotifyRestored, AfterRestoration, AfterSettlement, store
  <2>8. CASE SaveVersion(o)
    BY <2>8 DEF SaveVersion
  <2>9. CASE SaveDocument(o)
    BY <2>9 DEF SaveDocument
  <2>. QED  BY <1>4, <2>1, <2>2, <2>3, <2>4, <2>5, <2>6, <2>7, <2>8, <2>9
               DEF Settlement
<1>5. CASE NotifyReload(o) /\ pc[o] = "reload"
  BY <1>5 DEF NotifyReload, store
<1>. QED  BY <1>2, <1>3, <1>4, <1>5 DEF SagaStep

LEMMA NextSettled ==
    Positions /\ OneActive /\ Superseded /\ Settled /\ [Next]_vars => Settled'
<1>. SUFFICES ASSUME Positions, OneActive, Superseded, Settled, [Next]_vars,
                     disturbed' = {}, NEW r \in Release
              PROVE  DeployingIsOwned(r)' /\ ActiveIsPointed(r)'
  BY DEF Settled
<1>0. Locked /\ Typed /\ \A p \in Request : Routed(p)
  BY DEF Positions, Locked
<1>1. ASSUME NEW o \in Request, SagaStep(o)
      PROVE  DeployingIsOwned(r)' /\ ActiveIsPointed(r)'
  <2>1. CASE Heals(o)
    <3>1. o \in Request \ crossed /\ At(o, "finalize") /\ SaveActive(o)
      BY <2>1 DEF Heals, SaveActive
    <3>2. pointer' = Target(o)
      BY <3>1 DEF Positions, Positioned, OnTarget, At, SaveActive
    <3>3. ActiveWithin({Target(o)}) /\ DeployingWithin({Target(o)})
      BY <3>1 DEF OneActive, Demotes, Demoting, Cleared, Superseded,
         Superseding, At
    <3>4. status \in [Release -> ReleaseStatus]
          /\ status' = [status EXCEPT ![Target(o)] = "ACTIVE"]
      BY <1>0, <3>1 DEF SaveActive, Typed, TypeOK
    <3>5. /\ status'[r] # "DEPLOYING"
          /\ status'[r] = "ACTIVE" => r = Target(o)
      BY <3>3, <3>4 DEF ActiveWithin, DeployingWithin
    <3>. QED  BY <3>2, <3>5 DEF DeployingIsOwned, ActiveIsPointed
  <2>2. CASE /\ disturbed = {} /\ o \notin crossed
             /\ \A p \in Request : Inside(p) => p = o
    <3>1. \A p \in Request : Deploys(p) \/ Supersedes(p) => p = o
      BY <2>2 DEF Deploys, Supersedes, Inside, Critical
    <3>2. OwnedBy(o, r)
      BY <2>2, <3>1 DEF Settled, DeployingIsOwned, ActiveIsPointed, OwnedBy
    <3>3. Positioned(o) /\ Demoting(o)
      BY <2>2 DEF Positions, OneActive, Demotes
    <3>4. OwnedBy(o, r)'
      BY <1>0, <1>1, <3>2, <3>3, SagaSettles
    <3>. QED  BY <3>4 DEF OwnedBy, DeployingIsOwned, ActiveIsPointed
  <2>. QED  BY <1>0, <1>1, <2>1, <2>2, UndisturbedStep
<1>2. CASE Aside
  <2>1. disturbed = {} /\ "fault" \notin disturbed'
    BY <1>2 DEF Aside, Noted
  <2>2. \A p \in Request : (Deploys(p) => Deploys(p)' /\ Target(p)' = Target(p))
                           /\ (Supersedes(p) => Supersedes(p)')
    BY <1>2, <2>1
       DEF Aside, Deploys, Supersedes, Critical, Untouched, KindOf, Target
  <2>3. pointer' = pointer /\ status'[r] \in {status[r], "GATE_BLOCKED"}
    BY <1>2 DEF Aside, SetAside
  <2>. QED  BY <2>1, <2>2, <2>3 DEF Settled, DeployingIsOwned, ActiveIsPointed
<1>. QED  BY <1>0, <1>1, <1>2, StepSorted

(* At rest no release is left DEPLOYING, or ACTIVE without the pointer     *)
(* naming it, from the start and again after the first activation, in a    *)
(* saga of its own, that follows crashes, failing calls or overlaps.       *)
THEOREM NothingHalfDeployedAtRest == Spec => []SettledAtRest
<1>1. Init => Settled
  <2>. SUFFICES ASSUME Init, NEW r \in Release
                PROVE  DeployingIsOwned(r) /\ ActiveIsPointed(r)
    BY DEF Settled
  <2>1. PICK boot \in BootVersions, verified \in BOOLEAN : Boot(boot, verified)
    BY DEF Init
  <2>2. /\ pointer = BootRelease(boot)
        /\ status[r] # "ABSENT" => r = BootRelease(boot)
    BY <2>1 DEF Boot
  <2>3. BootRelease(boot) \in {0, None} /\ r # None
    BY ConstantsAssumption DEF BootRelease
  <2>. QED  BY <2>2, <2>3 DEF DeployingIsOwned, ActiveIsPointed
<1>2. Settled => SettledAtRest
  BY DEF Settled, SettledAtRest, DeployingIsOwned, ActiveIsPointed, AtRest,
     Deploys,
     Supersedes, Critical
<1>3. Init => Superseded
  BY InitLocked DEF Init, Superseded, Superseding, At
<1>. QED  BY <1>1, <1>2, <1>3, InitPositions, NextPositions, InitOneActive,
             NextOneActive, NextSuperseded, NextSettled, PTL DEF Spec

-----------------------------------------------------------------------------
(* Publications: that each happens once.                                   *)

(* A publish works on an approved version until it stores it published.    *)
Underway(o) ==
    /\ KindOf(o) = "publish"
    /\ pc[o] \in {"readprev", "build", "list", "deactivate", "save", "point",
                  "local", "reload", "settle", "finalize", "savefailed",
                  "restorepointer", "restorelocal", "restoreprev", "renotify",
                  "savever"}

Committed(o) ==
    /\ KindOf(o) = "publish"
    /\ \/ pc[o] \in {"savedoc", "done"}
       \/ pc[o] = "release" /\ ~job[o].error

StillApproved(o) == Underway(o) => verStatus[job[o].ver] = "APPROVED"
IsStored(o) == Committed(o) => verStatus[job[o].ver] = "PUBLISHED"

CommittedOnce ==
    /\ \A o \in Request : IsStored(o)
    /\ \A o \in Request \ crossed : StillApproved(o)
    /\ \A o \in Request, p \in Request :
          /\ o # p /\ p \notin crossed
          /\ Committed(p) /\ (Committed(o) \/ Underway(o))
          => job[o].ver # job[p].ver

(* A saga takes an approved version in hand, commits its publication once, *)
(* and no publication is ever taken back.                                  *)
LEMMA SagaCommits ==
    ASSUME Typed, NEW o \in Request, SagaStep(o), Routed(o)
    PROVE  /\ Committed(o)' => \/ Committed(o) /\ verStatus' = verStatus
                               \/ Underway(o) /\ IsStored(o)'
           /\ Underway(o)' => /\ verStatus' = verStatus
                              /\ \/ Underway(o)
                                 \/ verStatus[job[o].ver] = "APPROVED"
           /\ \A v \in Version : verStatus[v] = "PUBLISHED"
                                 => verStatus'[v] = "PUBLISHED"
<1>0. /\ pc \in [Request -> Label] /\ (At(o, "check") => KindOf(o) = "sync")
      /\ job \in [Request -> Job]
      /\ verStatus \in [Version -> {"APPROVED", "PUBLISHED"}]
      /\ KindOf(o)' = KindOf(o) /\ job'[o].ver = job[o].ver
      /\ Raise(o) => pc'[o] = "release" /\ job'[o].error
      /\ pc[o] \in RollbackOnly => KindOf(o) = "rollback"
      /\ KindOf(o) = "publish" /\ pc[o] # "idle" => job[o].ver \in Version
  BY SameVersion DEF Typed, TypeOK, TargetsKnown, Raise, Goto, Job, Routed
<1>. USE <1>0 DEF Committed, Underway, RollbackOnly, At, Goto
<1>1. CASE Prepare(o)
  <2>1. CASE Collect(o)
    BY <2>1 DEF Collect, MayStart, store
  <2>. QED  BY <1>1, <2>1 DEF Prepare, BuildCandidate, CheckRollbackGate,
               ReadPrevious, CheckSync, store
<1>2. CASE Commit(o)
  BY <1>2 DEF Commit, ListOthers, DeactivateNext, AfterDeactivation,
     SaveDeploying, SetPointer, WriteLocalPointer, AfterLocalPointer,
     SyncNextDocument, store
<1>3. CASE Settlement(o)
  <2>1. CASE SaveVersion(o)
    <3>1. /\ pc[o] = "savever" /\ pc'[o] = "savedoc"
          /\ verStatus' = [verStatus EXCEPT ![job[o].ver] = "PUBLISHED"]
      BY <2>1 DEF SaveVersion
    <3>2. /\ KindOf(o) = "publish" => verStatus'[job'[o].ver] = "PUBLISHED"
          /\ \A v \in Version : verStatus[v] = "PUBLISHED"
                                => verStatus'[v] = "PUBLISHED"
      BY <3>1
    <3>. QED  BY <3>1, <3>2 DEF IsStored
  <2>2. CASE SaveDocument(o)
    BY <2>2 DEF SaveDocument, Job
  <2>3. CASE Settle(o) \/ SaveActive(o)
    BY <2>3 DEF Settle, SaveActive, AfterSettlement, store
  <2>4. CASE SaveReloadFailed(o)
    BY <2>4 DEF SaveReloadFailed, Builds
  <2>5. CASE RestorePointer(o)
    BY <2>5 DEF RestorePointer, AfterRestoration, AfterSettlement
  <2>6. CASE RestoreLocalPointer(o) \/ RestorePrevious(o)
    BY <2>6 DEF RestoreLocalPointer, RestorePrevious
  <2>7. CASE NotifyRestored(o)
    BY <2>7 DEF NotifyRestored, AfterRestoration, AfterSettlement, store
  <2>. QED  BY <1>3, <2>1, <2>2, <2>3, <2>4, <2>5, <2>6, <2>7 DEF Settlement
<1>4. CASE NotifyReload(o) /\ pc[o] = "reload"
  BY <1>4 DEF NotifyReload, store
<1>. QED  BY <1>1, <1>2, <1>3, <1>4 DEF SagaStep

LEMMA AsideCommits ==
    ASSUME NEW p \in Request, Aside
    PROVE  /\ Committed(p)' => Committed(p) /\ job'[p].ver = job[p].ver
           /\ Underway(p)' => Underway(p) /\ job'[p].ver = job[p].ver
           /\ verStatus' = verStatus
<1>. USE DEF Committed, Underway
<1>1. CASE Untouched(p)
  BY <1>1 DEF Untouched, KindOf, Aside, SetAside
<1>2. CASE Enters(p)
  BY <1>2 DEF Enters, Outside, Aside, SetAside
<1>3. CASE Leaves(p)
  BY <1>3 DEF Leaves, KindOf, Aside, SetAside
<1>. QED  BY <1>1, <1>2, <1>3 DEF Aside, SetAside

Publications == Locked /\ CommittedOnce

LEMMA NextPublications == Publications /\ [Next]_vars => Publications'
<1>. SUFFICES ASSUME Publications, [Next]_vars
              PROVE  CommittedOnce'
  BY NextLocked DEF Publications
<1>0. /\ Locked /\ Typed /\ Crossing /\ CommittedOnce
      /\ \A p \in Request : Routed(p)
  BY DEF Publications, Locked
<1>1. ASSUME NEW o \in Request, SagaStep(o)
      PROVE  CommittedOnce'
  <2>1. Inside(o) /\ crossed' = crossed /\ job'[o].ver = job[o].ver
    BY <1>0, <1>1, SagaStays, SameVersion DEF Inside
  <2>2. ASSUME NEW p \in Request, p # o
        PROVE  /\ Committed(p)' <=> Committed(p)
               /\ Underway(p)' <=> Underway(p)
               /\ job'[p].ver = job[p].ver
    BY <1>0, <1>1, <2>2, SagaStays
       DEF OthersStay, Committed, Underway, KindOf
  <2>3. /\ Committed(o)' => \/ Committed(o) /\ verStatus' = verStatus
                            \/ Underway(o) /\ IsStored(o)'
        /\ Underway(o)' => /\ verStatus' = verStatus
                           /\ \/ Underway(o)
                              \/ verStatus[job[o].ver] = "APPROVED"
        /\ \A v \in Version : verStatus[v] = "PUBLISHED"
                              => verStatus'[v] = "PUBLISHED"
    BY <1>0, <1>1, SagaCommits
  <2>4. ASSUME NEW p \in Request
        PROVE  IsStored(p)'
    <3>1. CASE p = o
      BY <1>0, <2>1, <2>3, <3>1 DEF IsStored, CommittedOnce
    <3>2. CASE p # o
      <4>. SUFFICES ASSUME Committed(p)'
                    PROVE  verStatus'[job'[p].ver] = "PUBLISHED"
        BY DEF IsStored
      <4>1. Committed(p) /\ job'[p].ver = job[p].ver
        BY <2>2, <3>2
      <4>2. verStatus[job[p].ver] = "PUBLISHED" /\ job[p].ver \in Version
        BY <1>0, <4>1 DEF CommittedOnce, IsStored, Routed, Committed
      <4>. QED  BY <2>3, <4>1, <4>2
    <3>. QED  BY <3>1, <3>2
  <2>5. ASSUME NEW p \in Request \ crossed
        PROVE  StillApproved(p)'
    <3>1. CASE p = o
      BY <1>0, <2>1, <2>3, <2>5, <3>1 DEF StillApproved, CommittedOnce
    <3>2. CASE p # o
      <4>1. ~Inside(p)
        BY <1>0, <2>1, <2>5, <3>2, Alone
      <4>2. ~Underway(p)
        BY <4>1 DEF Underway, Inside, Critical
      <4>. QED  BY <2>2, <3>2, <4>2 DEF StillApproved
    <3>. QED  BY <3>1, <3>2
  <2>6. ASSUME NEW q \in Request, NEW p \in Request, q # p, p \notin crossed,
               Committed(p)', Committed(q)' \/ Underway(q)'
        PROVE  job'[q].ver # job'[p].ver
    <3>1. CASE p # o /\ q # o
      BY <1>0, <2>2, <2>6, <3>1 DEF CommittedOnce
    <3>2. CASE p = o
      <4>1. q # o /\ ~Inside(q)
        BY <1>0, <2>1, <2>6, <3>2 DEF Crossing
      <4>2. Committed(q) /\ job'[q].ver = job[q].ver
        BY <2>2, <2>6, <4>1 DEF Underway, Inside, Critical
      <4>3. CASE Committed(o)
        BY <1>0, <2>1, <2>6, <3>2, <4>2, <4>3 DEF CommittedOnce
      <4>4. CASE Underway(o)
        <5>1. verStatus[job[o].ver] = "APPROVED"
          BY <1>0, <2>6, <3>2, <4>4 DEF CommittedOnce, StillApproved
        <5>2. verStatus[job[q].ver] = "PUBLISHED"
          BY <1>0, <4>2 DEF CommittedOnce, IsStored
        <5>. QED  BY <2>1, <3>2, <4>2, <5>1, <5>2
      <4>. QED  BY <2>3, <2>6, <3>2, <4>3, <4>4
    <3>3. CASE q = o
      <4>1. Committed(p) /\ job'[p].ver = job[p].ver
        BY <2>2, <2>6, <3>3
      <4>2. CASE Committed(o) \/ Underway(o)
        BY <1>0, <2>1, <2>6, <3>3, <4>1, <4>2 DEF CommittedOnce
      <4>3. CASE verStatus[job[o].ver] = "APPROVED"
        <5>1. verStatus[job[p].ver] = "PUBLISHED"
          BY <1>0, <4>1 DEF CommittedOnce, IsStored
        <5>. QED  BY <2>1, <3>3, <4>1, <4>3, <5>1
      <4>. QED  BY <2>3, <2>6, <3>3, <4>2, <4>3
    <3>. QED  BY <3>1, <3>2, <3>3
  <2>7. \A p \in Request \ crossed' : StillApproved(p)'
    BY <2>1, <2>5
  <2>8. \A q, p \in Request :
           /\ q # p /\ p \notin crossed'
           /\ Committed(p)' /\ (Committed(q)' \/ Underway(q)')
           => job'[q].ver # job'[p].ver
    BY ONLY <2>1, <2>6
  <2>. QED  BY ONLY <2>4, <2>7, <2>8 DEF CommittedOnce
<1>2. CASE Aside
  <2>1. ASSUME NEW p \in Request
        PROVE  /\ Committed(p)' => Committed(p) /\ job'[p].ver = job[p].ver
               /\ Underway(p)' => Underway(p) /\ job'[p].ver = job[p].ver
               /\ verStatus' = verStatus
    BY <1>2, AsideCommits
  <2>2. crossed \subseteq crossed'
    BY <1>2 DEF Aside, Noted
  <2>3. ASSUME NEW p \in Request
        PROVE  /\ IsStored(p)'
               /\ p \notin crossed' => StillApproved(p)'
    BY <1>0, <2>1, <2>2 DEF CommittedOnce, IsStored, StillApproved
  <2>4. ASSUME NEW q \in Request, NEW p \in Request, q # p, p \notin crossed',
               Committed(p)', Committed(q)' \/ Underway(q)'
        PROVE  job'[q].ver # job'[p].ver
    BY <1>0, <2>1, <2>2, <2>4 DEF CommittedOnce
  <2>. QED  BY ONLY <2>3, <2>4 DEF CommittedOnce
<1>. QED  BY <1>0, <1>1, <1>2, StepSorted

LEMMA InitPublications == Init => Publications
<1>1. Init => \A o \in Request : pc[o] = "idle"
  BY DEF Init
<1>2. (\A o \in Request : pc[o] = "idle") => CommittedOnce
  BY DEF CommittedOnce, IsStored, StillApproved, Committed, Underway
<1>. QED  BY <1>1, <1>2, InitLocked DEF Publications

(* Of any number of publish requests for one approved version, at most one *)
(* succeeds, on whatever instances and after whatever crashes, unless both *)
(* were in sagas that overlapped because one had outlived its lease.       *)
THEOREM OnePublishSucceeds == Spec => []PublishedOnce
<1>1. Publications => PublishedOnce
  BY DEF Publications, CommittedOnce, Committed, PublishedOnce
<1>. QED  BY <1>1, InitPublications, NextPublications, PTL DEF Spec

-----------------------------------------------------------------------------
(* Publications: what a candidate carries over.                            *)

(* What the release r had of d, if there is one.                           *)
Entry(r, d) == IF r = None THEN None ELSE manifest[r][d]

(* The candidate of man has version v of its own document, and of every    *)
(* other what it has to carry over from the release r.                     *)
Carries(man, own, v, r) ==
    /\ man[own] = v
    /\ \A d \in Doc \ {own} :
          IF IsPublished(Entry(r, d)) THEN man[d] = Entry(r, d)
          ELSE IsPublished(docs[d].current) => man[d] = docs[d].current

Finalizing == {"point", "local", "reload", "settle", "finalize"}
Collected == {"build", "list", "deactivate", "save"} \cup Finalizing

(* Between its collection and its settlement a publish or unpublish has,   *)
(* in its copy and from its save on in the stored manifest, what it has to *)
(* carry over from the release the pointer named.                          *)
Gathered(o) ==
    KindOf(o) \in {"publish", "unpublish"} =>
        /\ At(o, "readprev") => Carries(job[o].man, job[o].doc, job[o].ver, pointer)
        /\ pc[o] \in Collected
           => Carries(job[o].man, job[o].doc, job[o].ver, job[o].prev)
        /\ pc[o] \in Finalizing => manifest[Target(o)] = job[o].man

(* What a collection gathers.                                              *)
LEMMA CandidateCarries ==
    ASSUME NEW o \in Request, KindOf(o) \in {"publish", "unpublish"},
           job[o].doc \in Doc
    PROVE  Carries(CandidateManifest(o), job[o].doc, job[o].ver, pointer)
BY DEF CandidateManifest, Carries, Carried, ActiveEntry, Entry

(* Where a saga that builds goes on with what it collected: it changes     *)
(* nothing it depends on but by its own save.                              *)
LEMMA CollectedFirst ==
    ASSUME Typed, NEW o \in Request, SagaStep(o), Routed(o),
           KindOf(o) \in {"publish", "unpublish"},
           ~Collect(o), ~SaveDeploying(o),
           pc'[o] \in Collected \cup {"readprev"}
    PROVE  /\ UNCHANGED <<manifest, verStatus, docs>>
           /\ \/ pc[o] = "readprev" /\ pc'[o] = "build" /\ job'[o].prev = pointer
              \/ /\ pc[o] \in Collected /\ pc'[o] # "readprev"
                 /\ pc'[o] \in Finalizing => pc[o] \in Finalizing
<1>0. /\ pc \in [Request -> Label] /\ (At(o, "check") => KindOf(o) = "sync")
      /\ job \in [Request -> Job] /\ job[o] \in Job
      /\ pc[o] \in RollbackOnly => KindOf(o) = "rollback"
  BY DEF Typed, TypeOK, TargetsKnown, Routed
<1>. USE <1>0 DEF Collected, Finalizing, RollbackOnly, At, Goto
<1>1. CASE Prepare(o)
  <2>1. CASE ReadPrevious(o)
    BY <2>1 DEF ReadPrevious, Job, store
  <2>. QED  BY <1>1, <2>1 DEF Prepare, BuildCandidate, CheckRollbackGate,
               CheckSync, Raise, store
<1>2. CASE Commit(o)
  BY <1>2 DEF Commit, ListOthers, DeactivateNext, AfterDeactivation,
     SetPointer, WriteLocalPointer, AfterLocalPointer, SyncNextDocument, store
<1>3. CASE Settlement(o)
  <2>1. CASE Settle(o) \/ SaveActive(o)
    BY <2>1 DEF Settle, SaveActive, AfterSettlement, store
  <2>2. CASE SaveReloadFailed(o)
    BY <2>2 DEF SaveReloadFailed
  <2>3. CASE RestorePointer(o)
    BY <2>3 DEF RestorePointer, AfterRestoration, AfterSettlement
  <2>4. CASE RestoreLocalPointer(o) \/ RestorePrevious(o)
    BY <2>4 DEF RestoreLocalPointer, RestorePrevious
  <2>5. CASE NotifyRestored(o)
    BY <2>5 DEF NotifyRestored, AfterRestoration, AfterSettlement, store
  <2>6. CASE SaveVersion(o) \/ SaveDocument(o)
    BY <2>6 DEF SaveVersion, SaveDocument
  <2>. QED  BY <1>3, <2>1, <2>2, <2>3, <2>4, <2>5, <2>6 DEF Settlement
<1>4. CASE NotifyReload(o) /\ pc[o] = "reload"
  BY <1>4 DEF NotifyReload, store
<1>. QED  BY <1>1, <1>2, <1>3, <1>4 DEF SagaStep

LEMMA SagaGathers ==
    ASSUME Typed, NEW o \in Request, SagaStep(o), Routed(o), Gathered(o)
    PROVE  Gathered(o)'
<1>0. /\ pc[o] \in Critical \ {"release"} /\ pc \in [Request -> Label]
      /\ job[o] \in Job /\ job \in [Request -> Job] /\ job'[o] \in Job
      /\ KindOf(o)' = KindOf(o) /\ Target(o)' = Target(o)
      /\ job'[o].ver = job[o].ver /\ job'[o].doc = job[o].doc
      /\ pc[o] # "readprev" => job'[o].prev = job[o].prev
      /\ pc[o] # "collect" => job'[o].man = job[o].man
      /\ Target(o) \in Release /\ manifest \in [Release -> Manifest]
  BY SameVersion DEF Typed, TypeOK, TargetsKnown, Working, Critical, Ended
<1>. SUFFICES ASSUME KindOf(o) \in {"publish", "unpublish"}
              PROVE  Gathered(o)'
  BY <1>0 DEF Gathered
<1>1. job[o].doc \in Doc
  BY <1>0 DEF Routed, Critical, Ended
<1>2. CASE Collect(o)
  <2>1. CASE Goto(o, "readprev") /\ job' = [job EXCEPT ![o].man = CandidateManifest(o)]
    <3>1. pc'[o] = "readprev" /\ job'[o].man = CandidateManifest(o)
      BY <1>0, <2>1 DEF Goto, Job
    <3>2. UNCHANGED <<pointer, manifest, verStatus, docs>>
      BY <1>2 DEF Collect, store
    <3>3. Carries(CandidateManifest(o), job[o].doc, job[o].ver, pointer)
      BY <1>1, CandidateCarries
    <3>4. Carries(job[o].man, job[o].doc, job[o].ver, pointer)'
      BY <1>0, <3>1, <3>2, <3>3 DEF Carries, Entry, IsPublished
    <3>. QED  BY <3>1, <3>4 DEF Gathered, Collected, Finalizing
  <2>2. CASE Raise(o)
    BY <1>0, <2>2 DEF Raise, Goto, Gathered, Collected, Finalizing, At
  <2>. QED  BY <1>2, <2>1, <2>2 DEF Collect
<1>3. CASE SaveDeploying(o)
  <2>1. pc[o] = "save" /\ pc'[o] = "point"
    <3>1. pc[o] # "savedeploying"
      BY DEF Routed, RollbackOnly
    <3>. QED  BY <1>0, <1>3, <3>1 DEF SaveDeploying, At, Goto
  <2>2. /\ manifest' = [manifest EXCEPT ![Target(o)] = job[o].man]
        /\ UNCHANGED <<verStatus, docs>>
    BY <1>3 DEF SaveDeploying, Builds
  <2>3. /\ job'[o].man = job[o].man /\ job'[o].prev = job[o].prev
        /\ job[o].man \in Manifest /\ job[o].prev \in Release \cup {None}
    BY <1>0, <2>1 DEF Job
  <2>4. Carries(job[o].man, job[o].doc, job[o].ver, job[o].prev)
    BY <2>1 DEF Gathered, Collected
  <2>5. manifest'[Target(o)] = job'[o].man
    BY <1>0, <2>2, <2>3
  <2>6. Carries(job[o].man, job[o].doc, job[o].ver, job[o].prev)'
    <3>1. CASE job[o].prev = Target(o)
      <4>1. job[o].prev # None /\ manifest'[job[o].prev] = job[o].man
        BY <1>0, <2>3, <2>5, <3>1, ConstantsAssumption
      <4>. QED  BY ONLY <4>1, <1>0, <2>2, <2>3, <2>4 DEF Carries, Entry, IsPublished
    <3>2. CASE job[o].prev # Target(o)
      <4>1. job[o].prev # None => manifest'[job[o].prev] = manifest[job[o].prev]
        BY <1>0, <2>2, <2>3, <3>2
      <4>. QED  BY ONLY <4>1, <1>0, <2>2, <2>3, <2>4 DEF Carries, Entry, IsPublished
    <3>. QED  BY <3>1, <3>2
  <2>. QED  BY <1>0, <2>1, <2>5, <2>6 DEF Gathered, At
<1>4. CASE ~Collect(o) /\ ~SaveDeploying(o)
  <2>. SUFFICES ASSUME pc'[o] \in Collected \cup {"readprev"}
                PROVE  Gathered(o)'
    BY DEF Gathered, Collected, At
  <2>1. /\ UNCHANGED <<manifest, verStatus, docs>>
        /\ \/ pc[o] = "readprev" /\ pc'[o] = "build" /\ job'[o].prev = pointer
           \/ /\ pc[o] \in Collected /\ pc'[o] # "readprev"
              /\ pc'[o] \in Finalizing => pc[o] \in Finalizing
    BY <1>4, CollectedFirst
  <2>2. CASE pc[o] = "readprev" /\ pc'[o] = "build" /\ job'[o].prev = pointer
    <3>1. Carries(job[o].man, job[o].doc, job[o].ver, pointer)
      BY <2>2 DEF Gathered, At
    <3>2. Carries(job[o].man, job[o].doc, job[o].ver, job[o].prev)'
      BY <1>0, <2>1, <2>2, <3>1 DEF Carries, Entry, IsPublished
    <3>. QED  BY <2>2, <3>2 DEF Gathered, Finalizing, At
  <2>3. CASE /\ pc[o] \in Collected /\ pc'[o] # "readprev"
             /\ pc'[o] \in Finalizing => pc[o] \in Finalizing
    <3>1. job'[o].man = job[o].man /\ job'[o].prev = job[o].prev
      BY <1>0, <2>3 DEF Collected, Finalizing
    <3>2. Carries(job[o].man, job[o].doc, job[o].ver, job[o].prev)
      BY <2>3 DEF Gathered
    <3>3. Carries(job[o].man, job[o].doc, job[o].ver, job[o].prev)'
      BY <1>0, <2>1, <3>1, <3>2 DEF Carries, Entry, IsPublished
    <3>4. pc'[o] \in Finalizing => manifest'[Target(o)'] = job'[o].man
      BY <1>0, <2>1, <2>3, <3>1 DEF Gathered
    <3>. QED  BY <2>3, <3>3, <3>4 DEF Gathered, At
  <2>. QED  BY <2>1, <2>2, <2>3
<1>. QED  BY <1>2, <1>3, <1>4

LEMMA AsideGathers ==
    ASSUME NEW p \in Request, Aside, Gathered(p)
    PROVE  Gathered(p)'
<1>1. UNCHANGED <<pointer, manifest, verStatus, docs>>
  BY DEF Aside, SetAside
<1>2. CASE Untouched(p)
  BY <1>1, <1>2 DEF Untouched, Gathered, Carries, Entry, IsPublished, At,
     KindOf, Target
<1>3. CASE Enters(p) \/ Leaves(p)
  BY <1>3 DEF Enters, Leaves, Gathered, Collected, Finalizing, Outside, At
<1>. QED  BY <1>2, <1>3 DEF Aside, SetAside

Gathers == Locked /\ \A o \in Request \ crossed : Gathered(o)

LEMMA NextGathers == Gathers /\ [Next]_vars => Gathers'
<1>. SUFFICES ASSUME Gathers, [Next]_vars, NEW p \in Request \ crossed'
              PROVE  Gathered(p)'
  BY NextLocked DEF Gathers
<1>0. Locked /\ Typed /\ Crossing
  BY DEF Gathers, Locked
<1>1. ASSUME NEW o \in Request, SagaStep(o)
      PROVE  Gathered(p)'
  <2>1. Inside(o) /\ crossed' = crossed /\ OthersStay(o)
    BY <1>0, <1>1, SagaStays DEF Inside
  <2>2. CASE p = o
    BY <1>0, <1>1, <2>1, <2>2, SagaGathers DEF Gathers, Locked
  <2>3. CASE p # o
    <3>1. pc'[p] \notin Critical
      BY <1>0, <2>1, <2>3, Alone DEF Inside, OthersStay
    <3>. QED  BY <3>1 DEF Gathered, Collected, Finalizing, At, Critical
  <2>. QED  BY <2>2, <2>3
<1>2. CASE Aside
  BY <1>2, AsideGathers DEF Gathers, Aside, Noted
<1>. QED  BY <1>0, <1>1, <1>2, StepSorted DEF Locked

(* A publish or unpublish that becomes ACTIVE changes its own document     *)
(* only: it carries over what the release it replaces served, in the same  *)
(* version, and every published document that release did not serve,       *)
(* whatever others did before it took the lock and as long as no other was *)
(* in the lock with it.                                                    *)
THEOREM PublishLosesNothing == Spec => NoPublicationLost
<1>1. Gathers /\ [Next]_vars
      => [\A o \in Request \ crossed :
             SaveActive(o) /\ KindOf(o) \in {"publish", "unpublish"}
             => CarriesOver(o)]_vars
  <2>. SUFFICES ASSUME Gathers, NEW o \in Request \ crossed, SaveActive(o),
                       KindOf(o) \in {"publish", "unpublish"}
                PROVE  CarriesOver(o)
    OBVIOUS
  <2>1. At(o, "finalize") /\ Gathered(o)
    BY DEF Gathers, SaveActive
  <2>2. /\ Carries(job[o].man, job[o].doc, job[o].ver, job[o].prev)
        /\ manifest[Target(o)] = job[o].man
    BY <2>1 DEF Gathered, Collected, Finalizing, At
  <2>. QED  BY <2>2 DEF Carries, CarriesOver, Entry, Replaced
<1>2. Init => Gathers
  BY InitLocked DEF Init, Gathers, Gathered, Collected, Finalizing, At
<1>. QED  BY <1>1, <1>2, NextGathers, PTL DEF Spec, NoPublicationLost
=============================================================================
