----------------------------- MODULE ExportJobs -----------------------------
(***************************************************************************)
(* One export job of the backoffice (export_service and its parts): the    *)
(* durable record, claimed under a lease; the runs that claim it, build an *)
(* artifact and commit it; the recovery scanner; the expiry and the        *)
(* sweeper of artifacts.  Every instance keeps a copy of the job in memory *)
(* (_jobs), which the status endpoint and the scanner overwrite while a    *)
(* run is under way.  A call of the file store is one step; the Firestore  *)
(* store reads, yields and acts on what it read.                           *)
(***************************************************************************)
EXTENDS Naturals, FiniteSets

CONSTANTS
    Instances,    \* backoffice processes
    Runs,         \* slots for the background tasks of _run_job
    InstanceOf,   \* the instance a slot belongs to
    Polled,       \* the instances that status requests reach
    Stores,       \* the job stores considered: "FILE", "FIRESTORE"
    MaxAttempts,  \* max_attempts of a job
    MaxFaults     \* failures, stalls, lost answers and crashes, for each store

ASSUME Assumptions ==
    /\ InstanceOf \in [Runs -> Instances]
    /\ Polled \subseteq Instances
    /\ Stores \subseteq {"FILE", "FIRESTORE"}
    /\ MaxAttempts \in Nat \ {0}
    /\ MaxFaults \in [Stores -> Nat]

VARIABLES
    store,    \* the job store of this deployment
    job,      \* the durable record
    claims,   \* claims so far; a claim's number is its lease token
    content,  \* artifacts stored, each under the token of the run that made it
    overdue,  \* whether expires_at has passed
    cache,    \* cache[i]: the copy of instance i
    view,     \* view[i]: what instance i has read and not yet acted on
    run,      \* run[r]: the task in slot r
    late,     \* renewals that Firestore has read and not yet written
    faults

vars == <<store, job, claims, content, overdue, cache, view, run, late, faults>>

Tokens == 1 .. claims
Ended == {"COMPLETED", "FAILED", "EXPIRED"}
Statuses == {"none", "deleted", "QUEUED", "RUNNING"} \cup Ended
Records == [status : Statuses, attempt : Nat, token : Nat, ref : Nat, live : BOOLEAN]

\* A record without a lease (clear_lease_fields); no token, no artifact is 0.
Released(status, attempt, ref) ==
    [status |-> status, attempt |-> attempt, token |-> 0, ref |-> ref, live |-> FALSE]
Nothing == Released("none", 0, 0)

Claimed(attempt, token) ==
    [status |-> "RUNNING", attempt |-> attempt, token |-> token, ref |-> 0, live |-> TRUE]

Phases == {"idle", "creating", "scheduled", "executing", "uploaded", "audited",
           "failing", "settling"}
Tasks == [phase : Phases, token : Nat, attempt : Nat, retry : BOOLEAN]
Idle == [phase |-> "idle", token |-> 0, attempt |-> 0, retry |-> FALSE]

\* What an instance goes by of a record that it holds in memory.
Over(record) == record.status \in {"COMPLETED", "FAILED"}
Copy(record) == [attempt |-> record.attempt, ref |-> record.ref, over |-> Over(record)]
Copies == [attempt : Nat, ref : Nat, over : BOOLEAN]
\* over is TRUE only so that no record of a job has this copy.
NoCopy == [attempt |-> 0, ref |-> 0, over |-> TRUE]
Views == [for : {"nobody", "scanner", "reader"}, copy : Copies]
NoView == [for |-> "nobody", copy |-> NoCopy]

TypeOK ==
    /\ store \in Stores
    /\ job \in Records
    /\ claims \in Nat
    /\ content \subseteq Tokens
    /\ overdue \in BOOLEAN
    /\ cache \in [Instances -> Copies]
    /\ view \in [Instances -> Views]
    /\ run \in [Runs -> Tasks]
    /\ late \subseteq [attempt : Nat, token : Nat]
    /\ faults \in 0 .. MaxFaults[store]

Init ==
    /\ store \in Stores
    /\ job = Nothing
    /\ claims = 0
    /\ content = {}
    /\ overdue = FALSE
    /\ cache = [i \in Instances |-> NoCopy]
    /\ view = [i \in Instances |-> NoView]
    /\ run = [r \in Runs |-> Idle]
    /\ late = {}
    /\ faults = 0

Fault == faults < MaxFaults[store] /\ faults' = faults + 1
Fine == UNCHANGED faults

Goto(r, phase) == run' = [run EXCEPT ![r].phase = phase]
Finish(r) == run' = [run EXCEPT ![r] = Idle]
Fails(r, retry) == run' = [run EXCEPT ![r].phase = "failing", ![r].retry = retry]
Cached(r, copy) == cache' = [cache EXCEPT ![InstanceOf[r]] = copy]

\* Variant: any running lease will do.
Owns_AnyLease(r) == job.status = "RUNNING"

\* owns_running_lease: by worker and token, whether or not the lease has lapsed.
Owns(r) == job.status = "RUNNING" /\ job.token = run[r].token

\* The content that a run has uploaded and not yet committed: its own entry of
\* _pending_content_refs, for the others an artifact below the minimum age.
Pending(r) == run[r].phase \in {"uploaded", "audited"}

-----------------------------------------------------------------------------
(* Creation *)

\* create_job stores the job, then audits it; without the audit it is deleted.
Create(r) ==
    /\ job.status = "none"
    /\ run[r].phase = "idle"
    /\ job' = Released("QUEUED", 0, 0)
    /\ Cached(r, Copy(job'))
    /\ Goto(r, "creating")
    /\ UNCHANGED <<store, claims, content, overdue, view, late, faults>>

AuditCreate(r) ==
    /\ run[r].phase = "creating"
    /\ \/ Fine /\ Goto(r, "scheduled") /\ UNCHANGED <<job, cache>>
       \/ Fault /\ Finish(r) /\ job' = Released("deleted", 0, 0) /\ Cached(r, NoCopy)
    /\ UNCHANGED <<store, claims, content, overdue, view, late>>

-----------------------------------------------------------------------------
(* A run *)

\* Variant: the job of a dead run is not taken over.
MayClaim_QueuedOnly == job.status = "QUEUED"

\* claim_job: a queued job or one whose lease has lapsed.
MayClaim == job.status = "QUEUED" \/ (job.status = "RUNNING" /\ ~job.live)

Claim(r) ==
    /\ run[r].phase = "scheduled"
    /\ IF MayClaim
       THEN /\ claims' = claims + 1
            /\ job' = Claimed(job.attempt + 1, claims')
            /\ Cached(r, Copy(job'))
            /\ run' = [run EXCEPT ![r] = [Idle EXCEPT !.phase = "executing",
                                          !.token = claims', !.attempt = job'.attempt]]
       ELSE Finish(r) /\ UNCHANGED <<claims, job, cache>>
    /\ UNCHANGED <<store, content, overdue, view, late, faults>>

\* The query and its upload; either may raise, and only some errors are retryable.
Execute(r) ==
    /\ run[r].phase = "executing"
    /\ \/ Fine /\ content' = content \cup {run[r].token} /\ Goto(r, "uploaded")
       \/ Fault /\ (\E retry \in BOOLEAN : Fails(r, retry)) /\ UNCHANGED content
    /\ UNCHANGED <<store, job, claims, overdue, cache, view, late>>

\* A completion that cannot be audited takes its artifact with it.
AuditCompletion(r) ==
    /\ run[r].phase = "uploaded"
    /\ \/ Fine /\ Goto(r, "audited") /\ UNCHANGED content
       \/ Fault /\ Fails(r, FALSE) /\ content' = content \ {run[r].token}
    /\ UNCHANGED <<store, job, claims, overdue, cache, view, late>>

\* complete_if_owner.  Its answer may be lost on the way from Firestore: the
\* run then takes the commit for failed and deletes the artifact.
Commit(r) ==
    /\ run[r].phase = "audited"
    /\ IF Owns(r)
       THEN job' = Released("COMPLETED", run[r].attempt, run[r].token)
       ELSE UNCHANGED job
    /\ \/ /\ Fine
          /\ Finish(r)
          /\ IF Owns(r)
             THEN Cached(r, Copy(job')) /\ UNCHANGED content
             ELSE content' = content \ {run[r].token} /\ UNCHANGED cache
       \/ /\ store = "FIRESTORE"
          /\ Fault
          /\ Fails(r, TRUE)
          /\ content' = content \ {run[r].token}
          /\ UNCHANGED cache
    /\ UNCHANGED <<store, claims, overdue, view, late>>

\* The record that a failing run goes by: the copy in memory, whoever left it.
Current(r) ==
    LET copy == cache[InstanceOf[r]]
    IN  IF copy # NoCopy THEN copy ELSE [NoCopy EXCEPT !.attempt = run[r].attempt]

Fail(r) ==
    /\ run[r].phase = "failing"
    /\ content' = content \ {Current(r).ref}
    /\ run' = [run EXCEPT ![r].phase = "settling",
                          ![r].attempt = Current(r).attempt,
                          ![r].retry = @ /\ Current(r).attempt < MaxAttempts]
    /\ Cached(r, [Current(r) EXCEPT !.ref = 0])
    /\ UNCHANGED <<store, job, claims, overdue, view, late, faults>>

\* requeue_if_owner, which schedules the next run, or complete_if_owner.
Settled(r) == Released(IF run[r].retry THEN "QUEUED" ELSE "FAILED", run[r].attempt, 0)

Settle(r) ==
    /\ run[r].phase = "settling"
    /\ job' = IF Owns(r) THEN Settled(r) ELSE job
    /\ \/ /\ Fine
          /\ IF Owns(r) THEN Cached(r, Copy(job')) ELSE UNCHANGED cache
          /\ IF Owns(r) /\ run[r].retry
             THEN run' = [run EXCEPT ![r] = [Idle EXCEPT !.phase = "scheduled"]]
             ELSE Finish(r)
       \/ store = "FIRESTORE" /\ Fault /\ Finish(r) /\ UNCHANGED cache
    /\ UNCHANGED <<store, claims, content, overdue, view, late>>

-----------------------------------------------------------------------------
(* Leases *)

\* renew_lease extends the lease of a job that is still its own.  Firestore
\* reads the job and writes it back later, whatever it has become.
Renewal(r) == [attempt |-> run[r].attempt, token |-> run[r].token]

\* Variant: the file store, too, writes back later what it has read.
Renew_ReadThenWrite(r) ==
    /\ run[r].phase \in {"executing", "uploaded", "audited", "failing"}
    /\ Owns(r)
    /\ late' = late \cup {Renewal(r)}
    /\ UNCHANGED <<store, job, claims, content, overdue, cache, view, run, faults>>

Renew(r) ==
    /\ run[r].phase \in {"executing", "uploaded", "audited", "failing"}
    /\ Owns(r)
    /\ IF store = "FILE"
       THEN job' = [job EXCEPT !.live = TRUE] /\ UNCHANGED late
       ELSE late' = late \cup {Renewal(r)} /\ UNCHANGED job
    /\ UNCHANGED <<store, claims, content, overdue, cache, view, run, faults>>

\* The write lands, or is lost with the task that renews.
RenewalLands(w) ==
    /\ late' = late \ {w}
    /\ \/ /\ job' = Claimed(w.attempt, w.token)
          /\ IF job.token = w.token THEN Fine ELSE Fault
       \/ UNCHANGED <<job, faults>> /\ \A r \in Runs : run[r].token # w.token
    /\ UNCHANGED <<store, claims, content, overdue, cache, view, run>>

\* A lease lapses once its run is gone, or when the instance stalls.
Lapse ==
    /\ job.status = "RUNNING" /\ job.live
    /\ job' = [job EXCEPT !.live = FALSE]
    /\ IF \E r \in Runs : run[r].token = job.token THEN Fault ELSE Fine
    /\ UNCHANGED <<store, claims, content, overdue, cache, view, run, late>>

Crash(i) ==
    /\ Fault
    /\ run' = [r \in Runs |-> IF InstanceOf[r] = i THEN Idle ELSE run[r]]
    /\ run' # run
    /\ cache' = [cache EXCEPT ![i] = NoCopy]
    /\ view' = [view EXCEPT ![i] = NoView]
    /\ UNCHANGED <<store, job, claims, content, overdue, late>>

-----------------------------------------------------------------------------
(* Recovery, status and expiry *)

\* recover_interrupted_jobs keeps the copy it listed and schedules a claim.
Recover(i, copy) ==
    /\ cache' = [cache EXCEPT ![i] = copy]
    /\ \E r \in Runs : /\ InstanceOf[r] = i /\ run[r].phase = "idle"
                       /\ Goto(r, "scheduled")
    /\ UNCHANGED <<job, content>>

\* The job is over, and its artifact goes.
Expire(copy) ==
    /\ job' = Released("EXPIRED", copy.attempt, 0)
    /\ content' = content \ {copy.ref}

MustExpire(copy) == overdue /\ copy.over

\* get_job, the status endpoint, keeps the copy it read and expires it.
Answer(i, copy) ==
    /\ IF MustExpire(copy) THEN Expire(copy) ELSE UNCHANGED <<job, content>>
    /\ cache' = [cache EXCEPT ![i] = IF MustExpire(copy) THEN Copy(job') ELSE copy]
    /\ UNCHANGED run

Use(i, for, copy) ==
    IF for = "scanner" THEN Recover(i, copy) ELSE Answer(i, copy)

Read(i, for) ==
    /\ view[i] = NoView
    /\ job.status \notin {"none", "deleted"}
    /\ IF for = "scanner" THEN MayClaim ELSE i \in Polled
    /\ IF store = "FILE"
       THEN Use(i, for, Copy(job)) /\ UNCHANGED view
       ELSE /\ view' = [view EXCEPT ![i] = [for |-> for, copy |-> Copy(job)]]
            /\ UNCHANGED <<job, content, cache, run>>
    /\ UNCHANGED <<store, claims, overdue, late, faults>>

Act(i) ==
    /\ view[i] # NoView
    /\ Use(i, view[i].for, view[i].copy)
    /\ view' = [view EXCEPT ![i] = NoView]
    /\ UNCHANGED <<store, claims, overdue, late, faults>>

TimePasses ==
    /\ ~overdue
    /\ overdue' = TRUE
    /\ UNCHANGED <<store, job, claims, content, cache, view, run, late, faults>>

\* purge_expired_jobs expires the jobs it lists.
Purge(i) ==
    /\ MustExpire(Copy(job))
    /\ Expire(Copy(job))
    /\ cache' = [cache EXCEPT ![i] = Copy(job')]
    /\ UNCHANGED <<store, claims, overdue, view, run, late, faults>>

\* purge_orphan_artifacts: an artifact past the minimum age (three leases, so
\* its upload was committed by now) that neither the store nor this instance
\* refers to.
PastMinimumAge_Off(a) == TRUE  \* variant: no minimum age
PastMinimumAge(a) == \A r \in Runs : Pending(r) => run[r].token # a
Orphan_NoJob(i, a) == job.status \in {"deleted", "EXPIRED"}  \* variant: by job
Orphan(i, a) ==
    /\ a # job.ref /\ a # cache[i].ref
    /\ \A r \in Runs : InstanceOf[r] = i /\ Pending(r) => run[r].token # a

Sweep(i, a) ==
    /\ a \in content
    /\ Orphan(i, a)
    /\ PastMinimumAge(a)
    /\ content' = content \ {a}
    /\ UNCHANGED <<store, job, claims, overdue, cache, view, run, late, faults>>

-----------------------------------------------------------------------------

Step(r) ==
    \/ AuditCreate(r) \/ Claim(r) \/ Execute(r) \/ AuditCompletion(r)
    \/ Commit(r) \/ Fail(r) \/ Settle(r)

Next ==
    \/ \E r \in Runs : Create(r) \/ Step(r) \/ Renew(r)
    \/ \E w \in late : RenewalLands(w)
    \/ \E i \in Instances :
           \/ \E for \in {"scanner", "reader"} : Read(i, for)
           \/ Act(i) \/ Purge(i) \/ Crash(i)
           \/ \E a \in content : Sweep(i, a)
    \/ Lapse \/ TimePasses

Spec == Init /\ [][Next]_vars

\* The event loop runs its tasks; the scanner and the sweeper run periodically
\* in every instance; time passes.
Fairness ==
    /\ \A r \in Runs : WF_vars(Step(r))
    /\ \A i \in Instances :
           /\ SF_vars(Read(i, "scanner")) /\ WF_vars(Act(i))
           /\ WF_vars(Purge(i))
           /\ WF_vars(\E a \in content : Sweep(i, a))
    /\ WF_vars(Lapse)

FairSpec == Spec /\ Fairness

-----------------------------------------------------------------------------
(* Properties *)

\* On the file store a job that has ended only ever expires, whatever renewals,
\* recoveries and late runs do, or is withdrawn with a creation that could not
\* be audited: another instance may have run it by then.
EndedIsFinal ==
    [][store = "FILE" /\ job.status \in Ended \cup {"deleted"} =>
          job'.status \in {job.status, "EXPIRED", "deleted"}]_vars

\* The result of a job is the work of the run that claimed it last: a run that
\* lost its lease cannot commit (on the file store).
LastClaimWins ==
    store = "FILE" /\ job.status = "COMPLETED" => job.ref = claims

\* A completed job has its artifact (on the file store): no sweep, in whatever
\* instance, takes it before or after the commit.  A run that fails after it
\* lost the job is the exception: it deletes what the shared map names, the
\* artifact of the run that took the job over.
ResultKeepsArtifact ==
    [][store = "FILE" /\ job'.status = "COMPLETED" /\ ~(\E r \in Runs : Fail(r)) =>
          \/ job'.ref \in content'
          \/ job.status = "COMPLETED" /\ job.ref \notin content]_vars

\* A job that waits or runs ends, whatever crashes, stalls and errors it meets.
JobEnds == job.status \in {"QUEUED", "RUNNING"} ~> job.status \in Ended \cup {"deleted"}

\* What crashes and lost runs leave behind is swept (on the file store): again
\* and again nothing is stored but the artifact of the job.
ArtifactsSettle == store = "FILE" => []<>(content \subseteq {job.ref})
=============================================================================
