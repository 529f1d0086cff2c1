# TLA+ models of the Teams agent platform

This directory holds TLA+ specifications of the stateful core of the platform,
the TLC configurations that check them on small instances, and TLAPS proofs of
the safety properties that matter most. Paths below are relative to the
repository; `kp/` stands for `agent_service/src/knowledge_portal/`,
`agent/` for `agent_service/src/agent_service/`, `ops/` for
`agent_service/src/ai_ops_backoffice/`.

## 1. The system

| Component | State | Operations | Talks to | What is hard |
|---|---|---|---|---|
| Release saga (`kp/release/`, `kp/services/release_service.py`) | release records, active pointer, local pointer file, version and document status | publish, unpublish, reindex, promote, rollback, sync | repository (Firestore, file or memory), Agent (HTTP reload), source catalog, release gate | many awaited writes with no transaction; reads before the lock; compensation; crash between writes |
| Publish lease (`kp/repository.py`, `kp/firestore_repository.py`) | one leased record | acquire, release, expiry | every saga | TTL shorter than a saga; crash of the owner |
| Migration bootstrap (`kp/migration_bootstrap.py`) | first release, versions, documents | import and activate | repository | leaves its release DEPLOYING until a sync |
| Agent reload (`agent/routers/knowledge_admin_reload.py`, `agent/deps.py`) | loaded release | reload, follow the local pointer | portal, artifact store | stale requests, lost acknowledgements |
| Document lifecycle (`kp/services/`) | documents, versions, drafts, reviews | create, revise, submit, approve, discard | release saga | writes from stale copies |
| Portal idempotency (`kp/services/context.py`) | keys and cached responses | claim, complete, fail | publish, rollback | read-then-write claims, 15 s wait, restart |
| Knowledge mirror (`agent/knowledge_release_sync.py`) | local cache of releases | sync, mirror, prune, hot reload | Firestore, GCS, Agent | pruning what is loaded; control plane failures |
| Handoff (`agent/handoff*.py`) | cases with versions, one active per requester | create, transition, expire, close | workflow, tickets | optimistic concurrency; expiry racing an answer |
| Event outbox (`agent/operations/delivery/`) | journal of deliveries per sink | register, claim, settle, expire, reconcile | primary store, sinks | at-least-once delivery, lease expiry, restart |
| Issue workflow (`agent/workflow*.py`, `agent/graph.py`) | conversation state | turns | retrieval, language model, tickets, handoff | mostly sequential per conversation |
| Execution jobs (`ops/evaluation_domain/job_*.py`) | jobs with leases and fencing tokens | enqueue, claim, heartbeat, checkpoint, complete, cancel | evaluation worker | zombie workers, reclaim, maximum of attempts |
| Evaluation runs (`ops/evaluation_domain/run*.py`, `job_worker*.py`) | runs, case results, outbox entries | create, dispatch, recover, cancel, execute, resume, complete | execution jobs | two repositories without a common transaction; leases checked before writes; resume after a crash |
| Evaluation gate (`ops/evaluation_domain/gate_*.py`) | runs, decisions | evaluate, decide | release saga | a decision for a stale manifest |
| Export jobs (`ops/services/export_job_*.py`) | jobs with lease tokens | claim, renew, complete, collect | artifact store | renewal outside a transaction; reclaim |
| FAQ and quality cases (`ops/faq_domain/`, `ops/quality_domain/`) | records with revisions | lifecycle transitions | audit outbox | stale revisions |
| Governance, budgets, pricing, queries (`ops/`) | configuration and aggregates | read and record | | little interaction |
| Teams adapter, citation gateway, PDF converter, playground, console, infrastructure | little or none | | | not protocol code |

What makes the main components correct:

* **Release saga.** At every moment at most one release is ACTIVE; the pointers
  name stored releases; a finished saga leaves nothing half deployed; the file a
  local Agent follows names the active release; a version is published once; a
  rebuild carries over what was served, in the same version; a failed reload hands
  back what it found; requests end and the Agent converges. Where a saga outlives
  its lease and overlaps another, or is cut off, some of this is lost, until the
  next saga that has the lock to itself activates a release.
* **Lease.** Nothing but its TTL takes it from a saga that is inside; a lease whose
  owner died becomes free.
* **Execution and export jobs.** Only the holder of the newest token changes a
  job; a job that was completed stays as it is; a job is not run more often
  than its maximum; a run has one job.
* **Evaluation runs.** A run that says COMPLETED has all its results; a COMPLETED
  job has a run that ended; a worker that lost its job overwrites nothing of its
  successor; a committed run gets a job, and its job ends.
* **Outbox.** An accepted event reaches every sink at least once before its
  retention ends; no sink gets an event that the primary does not have.
* **Handoff.** At most one active case per requester; a transition is applied
  to the version it was decided on.
* **Export jobs.** A result is the work of the last claim and keeps its artifact;
  a job that ended stays ended; leftovers are swept; every job ends.
* **Documents.** What a release serves was approved, with that text, however
  calls overlap.
* **Mirror.** What the agent needs to start stays mirrored, and the loaded
  release follows the pointer.

`PROJECT.json` lists every component, the hazards at their lines, the map from
definitions to source lines, runs, mutants, findings and theorems.

## 2. Modules

| Module | Role |
|---|---|
| `ReleaseSaga` | the portal's release saga with its lock, its store and the Agent |
| `MCReleaseSaga`, `ReleaseSagaProofs` | small instances of it for TLC; proofs about it |
| `JobLeases` | the job repository, with any client: what evaluation runs may rely on |
| `JobLeasesProofs` | proofs about it; it is checked as part of `EvaluationRuns`, which uses its actions |
| `EvaluationRuns` | evaluation runs with their callers and workers, on top of the actions of `JobLeases` |
| `MCEvaluationRuns` | small instances |
| `EvaluationRunsProofs` | types, that `EvaluationRuns` implements `JobLeases`, completeness of results; what the leases buy: nothing is overwritten, and jobs and runs agree |
| `EventDelivery` | abstract specification: what the delivery of an event promises |
| `DeliveryOutbox` | the journal and the processes that implement `EventDelivery` |
| `MCDeliveryOutbox`, `DeliveryOutboxProofs` | a small instance; types, safety and the refinement |
| `CaseLifecycle` | abstract specification: what the handoff of a requester promises |
| `HandoffCases` | the handoff cases of a requester under racing turns, which implement `CaseLifecycle` |
| `MCHandoffCases`, `HandoffCasesProofs` | a small instance; types, one open case, nothing overwritten, confirmed summaries, told statuses, the refinement |
| `ExportJobs` | export jobs with runs, leases, recovery and sweeping, on two job stores |
| `MCExportJobs`, `ExportJobsProofs` | a small instance; what lease tokens buy on the file store |
| `KnowledgeMirror` | the mirror of the cloud's releases and the release an agent serves from it |
| `MCKnowledgeMirror`, `KnowledgeMirrorProofs` | a small instance; the agent can be started from its mirrors |
| `PortalDocuments` | a document with its versions and reviews under overlapping calls |
| `MCPortalDocuments`, `PortalDocumentsProofs` | small instances; only approved text is served |

### ReleaseSaga

A request is a handler running on a portal instance; `pc[o]` is where it
stands, `job[o]` its local variables. Every awaited call that stores something
is a step of its own, because that is where the event loop may switch, an
instance may die and a call may raise.

| Code | Model |
|---|---|
| repository `active_release_id`, release records | `pointer`, `status`, `manifest` (a manifest maps a document to a version or to `None`) |
| `write_active_release_pointer` file | `localPointer` |
| the Agent's `knowledge_release_id` | `loaded` |
| version and document records | `verStatus`, `docs` (status and `current_published_version_id`) |
| `acquire_publish_lease`, `release_publish_lease` | `lease`, `AcquireLease`, `AcquireTimeout`, `ReleaseLock`, `LeaseExpires` |
| `self._publish_lock` | `TakeLocalLock` (label `wait` queues on it, `poll` polls the lease) |
| `collect_active_published_versions` | `Carried`, `CandidateManifest`, `Collect` |
| `activate_release` up to the commit | `ReadPrevious`, `BuildCandidate` (built, build failed, refused by the allow-list, the gate or the source catalog) |
| `deactivate_other_releases` | `ListOthers`, then one `DeactivateNext` per listed release |
| `commit_active_release_pointer` | `SaveDeploying`, `SetPointer`, `WriteLocalPointer` |
| `notify_agent_reload` and the endpoint | `NotifyReload`, `Reload`: done, refused, or done with the answer lost; a request for a release that the local pointer does not name is refused |
| `settle_after_agent_reload`, `settle_promote_after_agent_reload` | `Settle`, `SaveActive`, `SaveReloadFailed`, `RestorePointer`, `RestoreLocalPointer`, `RestorePrevious`, `NotifyRestored`; a promote restores in another order than a build, as in the code |
| `sync_documents_to_rollback_manifest` | one `SyncNextDocument` per document |
| `sync_agent_release` | `SubmitSync`, `NotifyReload` before the lock, `CheckSync` in it |
| `promote_candidate_release` | `SubmitPromote` and `PersistGateBlock` outside the lock |
| an exception or a crash | `CallFails`, `Crash` |

Release ids are fresh (`new_id`), so the release that request `o` builds is
called `o`; release 0 is the bootstrap's. Listings are written back from the
listed copy: only the status matters, since nothing else of a stored release
changes. `DeactivateNext` takes the listed releases in any order.

The lease is never renewed, so that `LeaseExpires` may take it at any step, from a
dead owner or from one that is still at work (`overran`, at most `MaxOverruns` of
them). Four history variables that no handler reads record what happened: `faults`
and `overran`; `crossed`, the sagas that were in the lock together with another one
(`NoteEntry` marks both when the second enters); and `disturbed`, the kinds of upset
since a saga that was alone last activated its release. The properties say with
them which saga, or which moment, they are about.

Abstracted: document content, artifacts and hashes, audit entries, permissions,
idempotency keys, the unit scope check of a rollback, and the statuses BUILDING
and READY, which no operation stores. The model is of a FILE-mode deployment
with an Agent URL: the local pointer file exists, and reloads are sent.

### JobLeases

`jobs[j]` is the stored job, `held[w]` what worker `w` believes to hold: a job
and the fencing token of its claim. Every action is one call of the repository,
which the code makes atomic: a Firestore transaction, or the file lock in FILE
mode (constant `Store`).

| Code | Model |
|---|---|
| `enqueue_job` with its logical key document | `Enqueue`; the key is the run, so that `HasJob(RunOf[j])` is the duplicate check |
| `claim_job`, `build_claimed_job` | `Claimable`, `ClaimJob`, `ClaimedJob`: a queued job, or a running one whose lease has run out and that has attempts left; the token grows with every claim |
| a claim that meets a job without attempts left | `FailExhausted`; owner and token stay in the record. In FILE mode only the job that the call returns is written back, so there it does not happen |
| `assert_lease_ownership` | `Owns` |
| `heartbeat`, `save_checkpoint`, `complete_job`, `request_cancellation` | `Heartbeat`, `SaveCheckpoint`, `CompleteJob`, `RequestCancellation` |
| `lease_until` against the clock | `LeaseExpires`: the lease of a running job is live until this step |
| a worker that dies, or whose call is refused | `Abandon` |

Abstracted: time stamps, payloads and checkpoints (only their being written
under the lease matters), the order in which claimable jobs are offered (any of
them may be claimed), and revision numbers, which a transaction makes invisible.
`JobLeases` lets the holder complete a job in any terminal state; which one it
is, `EvaluationRuns` says.

### EvaluationRuns

A caller creates a run (`creator[r]` is what it still has to do) or cancels it
(`cancel[r]`); a worker thread polls and executes (`pc[w]`, `mem[w]`); its
heartbeat thread renews the lease at any moment in between (`KeepAlive`).

| Code | Model |
|---|---|
| `_commit_queued_run`, `_execute_or_dispatch`, `remove_outbox_job` | `CreateRun`, `DispatchCreated`, `RemoveCreated`; `CreatorStops` between any two |
| `cancel_run` | `ReadForCancel`, `RequestJobCancel`, `CommitCancel`: the status that is written depends on the run read first; `CancelStops` |
| `_drain_outbox_jobs` | `LoadOutbox`, one `Dispatch` or `DispatchFails` per entry, `DeleteDispatched` |
| `_recover_legacy_queued_runs` | `ListQueued`, `RecoverRun` with a job id of its own |
| `ExecutionJobWorker.step` | `ClaimNext`, `SkipExhausted`, `NothingToClaim` |
| `_execute_claimed_job` | `CheckCancelRequest`, `DropCancelled`, `Start`, ..., `Finish`, `FailJob`, `LoseLease` |
| `execute_run` | `LoadRun`, `SaveRunning`, `LoadPrior` |
| `execute_case_loop` | `NextSide` (a side that has a result is skipped), `PersistItem`, `SaveProgress`, `StopEarly` (cancelled, or out of budget), `AllExecuted` |
| `_check_lease` | `CheckLease`, a step of its own before each write to the other repository |
| `commit_run_completion` | `CommitFinal`, which replaces all results of the run by `Executed` |
| any exception | `ExecutionFails`, then `FailJob` |
| the process dies | `Crash` |

A result is the token of the claim that made it; 0 means that there is none. A
case has two sides, baseline and candidate, which is why `Item` counts twice the
cases. A write to the evaluation repository loads the state and commits it under
its revision; a loser of that race starts again with the lease check, so that
the attempt that succeeds is one step of the model, and the last retry that
fails is `ExecutionFails`.

Left out: inline execution (`execute_inline`), preflight, the content of results
and the comparison summary, and the in-memory backend, whose calls are the same
under a lock. No code stores a run as FAILED or PARTIAL
(`mark_run_enqueue_failed` has no caller), and the model has no such status.

### EventDelivery and DeliveryOutbox

`EventDelivery` knows neither journal nor processes: an event is accepted as one
fact, targets are reached in order (the primary first), a target that holds the
fact may be acknowledged, and an event may be given up. `DeliveryOutbox` is
`agent/operations/delivery/`; a call of the journal is one transaction and one
step.

| Code | Model |
|---|---|
| journal record, its deliveries | `fact`, `status`, `attempts` (the claims so far, which stand for the lease token), `due`, `past` |
| what primary and sinks hold; writes abandoned at the timeout | `holds`, `late` |
| `register`, `CompositeOperationalStore.append`, `reconcile_primary` | `Register`, `Append`, `Reconcile` |
| `update_wake`, `claim_record` | `Available`, `Claimable`, `ClaimRecord` |
| `_write` | `Write`, `WriteFails`, `LateWrite` |
| `settle_record` | `Owns`, `SettledAs`, `Settle` |
| rounds of `run_once` and `deliver_event` | `Poll`, `StartDelivery`, `NothingClaimed`, `EndRound` |
| `purge`, `expire_record` | `Purge`, `ExpireRecord`; `ExpireOnTheWay` is an expiry met by a call that answers nothing, which only the file store writes back |
| the process stops; clocks | `Crash`; `TimePasses`, `LeaseRunsOut`, `RetentionEnds` |

The refinement mapping: `accepted` is `fact`, `reached` are the targets that hold
it, `acknowledged` are the deliveries that are done, and an event is `over` when
its retention has ended or its primary refused it.

### CaseLifecycle and HandoffCases

`CaseLifecycle` knows no turns, copies or versions: a case is opened when there is
no open one, its summary takes up messages or is confirmed while it is offered or
reviewed, and it advances: from the offer over the review to the human session and
to its end, never back, and to a session or a ticket only if it is confirmed in
that moment.

`HandoffCases` models the cases of one requester in one conversation (`agent/handoff_repository.py`,
`agent/workflow_handoff_*.py`, `agent/ticket_dedupe.py`). A turn is one message;
nothing in the code orders the turns of a requester. What a turn has yet to do is
its `plan`, a sequence of store calls that the routing nodes extend, so that every
store call is a step of its own.

The refinement mapping (`Shown`): a case without its version, and the active index
as the open case.

| Code | Model |
|---|---|
| stored case, active index, audit events | `case`, `active`, `told` |
| ticket service and request ledger | `ticket`, `ledger` |
| `get_active_case` | `ReadIndex`, `ReadCase`; a case whose session is over is expired on the way |
| `create_case` | `CreateCase`, `Found` |
| `_mutate` | `Current` (versions are compared), `Store` |
| `transition`, `close_case`, `update_summary` | `Move` with `Allowed`, `Close`, `Summarise` |
| the audit event after a transition | `Tell` |
| `_route_handoff`, `_evaluate_handoff`, `_cancel_active_handoff` | `Route` with `RoutePlans`, `Evaluate`, `Drop` |
| `_deduped_ticket_result` and the ticket calls | `Lookup`, `CreateTicket`, `NoTicket`, `RecordTicket` |
| a failing store call or a stopped instance; session expiry | `Crash`; `SessionEnds` |

It is the Firestore repository. The in-memory one expires a case under its one
lock, where this one reads first and transitions then. Which of the plans a
message takes is up to the models that read it, and is a choice.

### ExportJobs

One job (`ops/services/export_job_*.py`); jobs share nothing. `store` says which
of the two job stores this is: the file store acts in the step in which it reads,
Firestore renews a lease by a read and a later write, and its answers may be lost.

| Code | Model |
|---|---|
| the record; artifacts; the shared in-memory map | `job`, `content`, `cache` |
| a lease token | the number of the claim, `claims` |
| `create_job` with its audit | `Create`, `AuditCreate` |
| `claim_job` | `Claim` |
| a run: query and upload, audit, `complete_if_owner` | `Execute`, `AuditCompletion`, `Commit` |
| `_fail_or_requeue_export`, `requeue_if_owner` | `Fail`, `Settle` |
| `renew_lease` | `Renew`; `RenewalLands` on Firestore |
| `recover_interrupted_jobs`, `get_job` | `Read` and `Act`, which do `Recover` or `Answer` |
| `purge_expired_jobs`, `purge_orphan_artifacts` | `Purge`, `Sweep` |
| lease end, retention, a crash | `Lapse`, `TimePasses`, `Crash` |

The minimum age of a swept artifact is three leases; that a run commits its upload
within it is an assumption (`PastMinimumAge`), as the code makes it.

### KnowledgeMirror

An agent in FOLLOW_CLOUD (`agent/knowledge_release_sync.py`, `agent/deps_sync.py`,
`agent/routers/knowledge_admin_reload.py`). The background thread, a booting agent
and a reload request sync under the file lock; the reload request then loads and
exchanges the services without it.

| Code | Model |
|---|---|
| active release of the control plane | `cloud`, `MovePointer` |
| verified mirrors with their modification times, status file, `loaded_release_id` | `disk` and `newer`, `saved`, `loaded` |
| the services, `app.state.knowledge_release_id` | `served`, `reported` |
| a sync: pointer, mirror, prune, status | `StartSync`, `ReadPointer`, `Mirror`, `Prune` (which may raise between two removals: `cut`), `Record` |
| hot reload | `HotLoad`, `HotExchange` |
| reload request | `AskReload`, `Resolve`, `Load`, `ReloadExchange` |
| startup, status endpoint, crash | `Boot`, `Status`, `Crash` |

Modification times only matter by their order, which is the relation `newer`: a
mirror is newer than those that are there when it appears, and two that appear one
after the other never tie. `Candidates` is the order in which a booting or
reloading agent tries the releases it knows of.

Left out: the modes PINNED and LOCAL_SANDBOX, the inventory check of a download
and the in-place replacement of a mirror whose manifest changed. `reload_knowledge`
reads the loaded release before it waits for the lock; the model reads it after.

### PortalDocuments

One document (`kp/services/`): most calls read it through `get_document`, decide on
their copies, and store the copies one after the other with no comparison. `call`
holds what a handler has read, `todo` what it has yet to store.

| Code | Model |
|---|---|
| `get_document` with its refresh of an asset warning | `ReadDocument`, `ReadDraft`, `Refresh` |
| `update_draft`, `validate_document`, `submit_for_review` | `UpdateDraft`, `ValidateDocument`, `SubmitForReview` |
| `start_revision`, `remove_document`, `discard_draft` | `StartRevision`, `RemoveDocument`, `DiscardDraft` |
| `decide_review` | `ReadReview`, `ReadReviewed`, `DecideReview` |
| `publish_version`, `unpublish_document`, a rebuild for another document | `EnterLock`, `Publish`, `Unpublish`, `Rebuild` with `Carried`, `Activate` |
| the writes of a call, in the code's order | `SaveReview`, `SaveVersion`, `SaveDocument` |

`Activate` is `ReleaseSaga` seen from one document: afterwards the new release
serves or the previous one does, and the call ends or an exception leaves it. A
handler may stop between any two writes, since there is no fairness. `approvals`
is a history variable: what a reviewer approved, with the text read for it. A
content stands for the text, its metadata and its file; test cases, uploads of
assets, imports and roles are left out.

## 3. Runs

### ReleaseSaga

All runs use two instances (requests alternate between them), two documents and
versions `v1`, `v2` of one and `v3` of the other; the bootstrap has published `v1`.

| Run | Bounds | Shows |
|---|---|---|
| `overlap` | 3 requests, `publish` or `promote`, 1 lease that runs out under a live saga, versions `v1`, `v3` | `LeaseKept`, `SingleActive`, `SettledAtRest` |
| `concurrent` | 3 requests of any kind but `reindex`, no fault and no overrun, all three versions | `NoPublicationLost`, `FailedActivationKeepsOld` |
| `crash` | 2 requests of any kind, any reindex scope, 1 fault, versions `v1`, `v3`, under `FairSpec` | `TypeOK`, `PointersResolve`, `LocalPointerFollows`, `PublishedOnce`; `RequestsEnd`, `AgentConverges`, `LeaseRecovers` |
| `x_MergedBack` | 2 requests of any kind but `reindex`, all three versions | a disagreement between the code and a text (section 5) |

Two requests suffice for every pairwise interleaving under one lock; the third
lets a request find what two others left, and it shares an instance with the first,
so that it queues on `asyncio.Lock`. In `overlap` the first two cross and leave what
they leave, and the third runs on it, beside a late one or alone. Publish and promote
are the sagas that activate by the two orders of writing the code has. In
`concurrent` the document with two versions lets a publish meet a published document
that the manifest has in an older version, after a compensated publish. One fault
suffices to leave every intermediate store behind, and the second request of `crash`
then runs on it. That crashes and overruns do not occur in one run is a matter of
its size: the theorems of section 4 allow any number of both, of any requests.
`Init` starts from a booted repository (verified or still DEPLOYING), and in
`concurrent` and `crash` also from an empty one. `CHECK_DEADLOCK FALSE` because
requests are finitely many and the system stops when all have ended.

**Fairness** (`FairSpec`): every handler is resumed by its event loop and every
external call returns or times out (weak fairness of `Step`); `asyncio.Lock`
wakes waiters first come, first served (strong fairness of `TakeLocalLock`);
the TTL runs out (weak fairness of `LeaseExpires`); chat and readiness requests
keep arriving, and each compares the loaded release with the file (weak fairness
of `FollowLocalPointer`). Polling of the lease needs no strong fairness: a
request that never gets it times out. Nothing forces requests, failures or
crashes.

### JobLeases and EvaluationRuns

| Run | Bounds | Shows |
|---|---|---|
| `fenced` | 2 workers, 1 run with 2 job ids and 1 case (2 sides), 2 attempts, 1 cancellation, 1 fault, leases last through a write | `TypeOK`, `CompletedJobEndedRun`, `CompletedRunHasResults`, `ResultsOnlyAdvance`; `LeaseSpec`: the system implements `JobLeases`; of the jobs `TokensAreUnique`, `AttemptsBounded`, `OneJobPerRun`, `CompletionIsFinal` |
| `runs_live` | the same without cancellation; leases may run out at any step | `RunsGetJobs`, `JobsEnd` |

Runs share nothing but the workers, so that one run is enough for the properties
of a run; two job ids let the creator or the outbox race the recovery, which
makes up an id of its own. Two attempts let a job be taken over once and be
exhausted the next time, and two workers are the late one and its successor. With
two sides a take-over happens before, between and after the stored results, so
that resuming, skipping and finishing all occur. One fault is a crash, a failed
dispatch or a raised exception at any step. `SYMMETRY` over the workers is used
where no liveness is checked. `CHECK_DEADLOCK FALSE` because the bounds on
cancellations and faults and the single run let the system come to rest.

`LeaseOutlivesWrite = TRUE` says that no lease runs out between the check and
the write made under it. The code relies on it (a lease is 60 s and renewed
every 15 s, a write is one commit) and cannot guarantee it: a worker suspended
between the two overwrites its successor, against `docs/ai-ops-production-readiness-refactor-spec.md:98`.
It concerns `ResultsOnlyAdvance` and `CompletedJobEndedRun` only, which therefore
say nothing of that window; the other properties of `fenced` have theorems without it.

What these properties do not say: a stale cancellation may turn a COMPLETED run
into a CANCELLED one (`CompletedJobEndedRun` asks that it ended); a resumed run that
stops early may drop stored results (`CompletedRunHasResults` is about COMPLETED
runs); `JobsEnd` is about the job on Firestore, not about the run of a job that
failed by exhaustion, nor about the file repository, which does not store that
failure.

**Fairness** (`FairSpec`): worker threads loop for ever and their calls return
(weak fairness of `Poll(w) \/ Work(w)`), and the clock runs out on a lease that
nobody keeps alive (weak fairness of `Unattended(j)`). Callers, cancellations,
faults, heartbeats and the expiry of an attended lease are not fair: no property
needs them to happen.

### Outbox, handoff, exports, mirror and documents

| Run | Bounds | Shows |
|---|---|---|
| `outbox` | 1 worker, 1 caller, 1 event with 2 possible facts, 2 sinks, 2 faults, FILE | `NoSinkAhead`, `DoneIsDelivered`, `DeliverySpec` (the outbox implements `EventDelivery`), `EventsSettle` |
| `handoff` | 2 cases, 2 turns with a request id each, 1 fault | `OneOpenCase`, `ConfirmedOnly`, `StatusIsTold`, `NothingOverwritten`, `LifecycleSpec` (the turns implement `CaseLifecycle`) |
| `exports` | both stores, 2 instances with a run slot each, 2 attempts, 2 faults (1 on Firestore) | `LastClaimWins`, `EndedIsFinal`, `ResultKeepsArtifact`, `JobEnds`, `ArtifactsSettle` |
| `mirror` | 4 releases, two of them index-only, 3 moves of the pointer, 2 faults | `StartsWithoutCloud`, `LoadedFollowsCloud` |
| `documents` | 2 handlers, 5 calls, 2 versions, 1 review, 2 contents, one of them with an asset warning | `ServedWasApproved` |
| `x_ApprovedAsSubmitted` | the same with 3 calls | a disagreement between the code and a text (section 5) |

Why they are enough:

* `outbox`: events share nothing but the batch, whose limit of 2 is below the
  number of targets, so that a round may be full. A worker and an inline caller are
  two claimants of one delivery; two facts make the conflict at the primary. With
  two faults a lease may end under a write that has failed, or a late write may
  follow a crash.
* `handoff`: two turns are every race of two store calls; `Init` starts from any
  case that earlier turns may have left. The second case is the one that a turn
  opens after the first has ended. `SYMMETRY` over the cases (no liveness).
* `exports`: two instances with a run each are the late run and its successor, with
  a scanner and a sweeper in each. Two attempts let a job be retried and then fail;
  two faults let a lease lapse under a run and its successor crash. Firestore's
  interleavings of reads and writes are bounded by one fault; the four properties
  about `store = "FILE"` are not claimed of it, since its renewal writes back a job
  that has ended meanwhile.
* `mirror`: the prune spares two mirrors, so that the third is the one that goes. A
  prune that is cut short between two removals needs four, and a fault before, which
  left the third there. Three moves lead through all four releases, or away from one
  and back to it.
* `documents`: an approval and its publication take three calls (submit, decide,
  publish); the other two are an edit, a view, a revision or a rebuild that overlaps
  any of them. Two contents tell an approved text from another.

`CHECK_DEADLOCK FALSE` everywhere here because faults, calls, moves or turns are
bounded and the system then comes to rest.

**Fairness.** `DeliveryOutbox`: processes go on and their calls return or time out
(weak fairness of `Step(p)`), workers poll for ever (`Poll(p)`), backoffs and
unattended leases end (`TimePasses`). `ExportJobs`: the event loop runs its tasks
(`Step(r)`, `Act(i)`), purge and sweep run periodically in every instance, a lease
nobody renews lapses; the scanner finds a recoverable job whenever it looks often
enough, although between its looks the job may be taken (strong fairness of
`Read(i, "scanner")`). `KnowledgeMirror`: a sync or request under way goes on (weak
fairness of `SyncStep`, `ReloadStep`), and whoever waits for the file lock gets it
in the end (strong fairness of `StartSync(by)`: the lock is free again and again
and retried). Requests, moves, failures, crashes, stalls, lease ends under a live
process, late writes and the end of retention are nowhere fair.

**Mutants.** Every property of a passing run has a variant of a mapped
definition, written before it and marked `Variant:`, that changes it as a
plausible bug would, and under which the run fails.

## 4. Proofs

### ReleaseSaga

`ReleaseSagaProofs` proves, for every number of requests, instances, documents
and versions, and any number of faults:

| Theorem | Statement |
|---|---|
| `TypeCorrect` | `Spec => []TypeOK` |
| `OnlyTheTtlTakesTheLease` | `Spec => []LeaseKept` |
| `AtMostOneActive` | `Spec => []SingleActive` |
| `PointersNameStoredReleases` | `Spec => []PointersResolve` |
| `FailedActivationsRestore` | `Spec => FailedActivationKeepsOld` |
| `LocalPointerAtRest` | `Spec => []LocalPointerFollows` |
| `NothingHalfDeployedAtRest` | `Spec => []SettledAtRest` |
| `OnePublishSucceeds` | `Spec => []PublishedOnce` |
| `PublishLosesNothing` | `Spec => NoPublicationLost` |

None of them assumes anything of the lease: sagas may outlive it in any number.
The properties are instead about a saga that no other overlapped (`FailedActivationKeepsOld`,
`NoPublicationLost`), about two sagas that did not both overlap (`PublishedOnce`), or
about a moment since the last upset of which a saga that was alone has activated
its release (the others; for `SingleActive` crashes and failing calls are no upset).

* `Typed` adds to `TypeOK` that a request at work has a known kind and target:
  without it the writes indexed by `Target(o)` could not be typed.
* `Locked` is what the lease still buys when it may run out: by `Crossing`, sagas
  that are inside together are marked in `crossed`, so that an unmarked saga inside
  is alone there (`Alone`). Every claim about what a saga has done so far is made of
  unmarked sagas, and a saga that is entered upon simply leaves the claim. `Routed`
  says which labels a kind of saga can stand at.
* Every step of `Next` is sorted once (`StepSorted`): it is a step of a saga in the
  lock, or it is `Aside` and touches no pointer, no manifest, and of the statuses at
  most one that a promote's gate blocks.
* `OneActive` is `SingleActive` with what an unmarked saga has done so far. While
  it deactivates, ACTIVE releases are its target or still listed (`Clearing`);
  before its target is stored only the target can be ACTIVE (`Cleared`); from then
  until it finalizes or restores, none is (`Quiet`). `SingleActive` alone is not
  inductive: `SaveActive` needs to know that the listing was complete and nobody
  else activated since. The claims do not need an undisturbed past, because the
  listing finds whatever overlapping sagas left; that is why `SaveActive` of an
  unmarked saga heals.
* `Resolves` says that both pointers and every release that a compensation
  would restore are stored (`Stored`, `Restorable`). Statuses never go back to
  ABSENT, so that overlapping sagas keep it too.
* `Positions` says, per label of an unmarked saga, where the pointer is relative to
  it: on the release it read as previous, on its target, or back again (`OnTarget`,
  `BackOnPrevious`, `Restored`), and that the local file is on the target once it was
  written. `FollowsOrMoves` adds that, undisturbed, the file agrees with the pointer
  unless a saga is between the two writes; `Settled` that then a DEPLOYING release
  has its saga (`DeployingIsOwned`) and an ACTIVE one is pointed to unless a sync is
  superseding it (`ActiveIsPointed`). At rest nobody is in the lock, and the
  properties remain; `SaveActive` of an unmarked saga establishes both whatever was
  there before (`Superseded` says that it has cleared every other release).
* `Publications`: a publish at work has an approved version (`CommittedOnce`), so that
  a second one that does not overlap it cannot start. `Gathers`: what an unmarked saga
  collected in the lock still is what the replaced release serves and the documents
  say (`Gathered`), until it activates, because only sagas in the lock change either.

### JobLeases

`JobLeasesProofs` proves, for every set of workers, jobs and runs and every
number of attempts, from `LeaseSpec` alone:

| Theorem | Statement |
|---|---|
| `LeaseTypes` | `[]LeaseTypeOK` |
| `TokensUnique` | `[]TokensAreUnique` |
| `AttemptsAreBounded` | `[]AttemptsBounded` |
| `RunHasOneJob` | `[]OneJobPerRun` |
| `CompletionFinal` | `CompletionIsFinal` |

The inductive invariant `LeaseInv` adds `TokenCountsClaims` to the parts of the
properties: a job that waits has token 1 and no owner, and any other has one
token more than attempts. `TokensAreUnique` needs only that a claim raises the
token; `AttemptsBounded` needs the equation, because the code bounds attempts
and the property counts claims.

### EvaluationRuns

| Theorem | Statement | Assumption |
|---|---|---|
| `RunTypes` | `Spec => []TypeOK` | |
| `RunsUseLeases` | `Spec => LeaseSpec` | |
| `CompletedRunsHaveResults` | `Spec => []CompletedRunHasResults` | |
| `LateWorkersOverwriteNothing` | `Spec => ResultsOnlyAdvance` | `LeaseOutlivesWrite` |
| `CompletedJobsEndRuns` | `Spec => []CompletedJobEndedRun` | `LeaseOutlivesWrite` |

By `RunsUseLeases` every theorem about `JobLeases` holds of the composed system.
Its proof is that each step of a caller or worker makes one call, none, or lets
a lease expire (`StepCalls`); `Finish` needs to know that the outcome it passes
on is one (`Placed`).

* `Typed` is `LeaseInv`, the types, that a worker at work has a claim, and
  `Placed`: what the label of a worker says of its local variables. The side it
  executes had no result when it looked, and an outcome COMPLETED means that the
  loop is through. With it `CompletedRunHasResults` is inductive: whoever commits
  has a result, read or made, for every side.
* `Fences`: whoever is about to write owns its job and the lease is live. Calls
  of others leave a live lease alone (`LiveLeaseStays`), and the assumption is
  what rules out the clock.
* `ResultsCovered`: a result carries a token that the store gave out for the
  job of its run. The owner holds the newest one, so what it writes is no older
  than what it replaces (`OwnerCovers`).
* `SeenCurrent`: what the owner of a job read of earlier results is what is
  stored. Only the owner writes (`OwnerWrites`), and it writes where it had read
  nothing. Without it `CommitFinal`, which puts back what was read at the start
  of the attempt, could replace a newer result by an older one.
* For `CompletedJobsEndRuns`: a COMPLETED job has no owner, the owner that is
  about to finish has ended the run, and a run that has ended is taken back to
  RUNNING only by the owner of its job (`EndedRunStays`), of which there is then
  none.

### DeliveryOutbox

For every set of events, facts, sinks and processes and any number of faults:

| Theorem | Statement |
|---|---|
| `OutboxTyped` | `Spec => []TypeOK` |
| `SinksFollowPrimary` | `Spec => []NoSinkAhead` |
| `DoneWasDelivered` | `Spec => []DoneIsDelivered` |
| `OutboxDelivers` | `Spec => DeliverySpec`: every step is one of `EventDelivery`, or none |

The argument has two halves. A target that holds the accepted fact keeps it
(`Kept`): a sink is only given that fact, and the primary refuses another. And a
sink is only written under a lease that was given when the primary was done
(`LeaseSound`), also when the write lands after its timeout (`LateSound`).
`NoSinkAhead` is not inductive without both, since lease and late write outlive the
journal entry they were claimed from, which may expire and be registered again.
`JournalSound` says what the statuses of a record tell of each other, and
`RoundsLeft` types the rounds.

### HandoffCases

For every number of turns, cases, requests and faults:

| Theorem | Statement |
|---|---|
| `TypeCorrect` | `Spec => []TypeOK` |
| `AtMostOneOpenCase` | `Spec => []OneOpenCase` |
| `TurnsOverwriteNothing` | `Spec => NothingOverwritten` |
| `OnlyConfirmedGoOn` | `Spec => []CasesConfirmed`, the first half of `ConfirmedOnly` |
| `TicketsHoldWhatWasConfirmed` | `OwnRequests` implies `Spec => []ConfirmedOnly` |
| `EveryStatusTold` | `Spec => []StatusIsTold` |
| `HandoffsFollowLifecycle` | `Spec => LifecycleSpec`: every step is one of `CaseLifecycle`, or none |

`OwnRequests` says that no two messages share a request id. The adapter mints one
per message, so this is how the repository is used; the theorem needs it: when
`RequestOf` maps two turns to one id, TLC finds a case that is routed to a ticket
which another turn has made without a case.

* The first two invariants look at what a store call does and at no plan.
  `UpToDate` is what comparing versions relies on: what a turn has seen of a case is
  not newer than the case, and is the case if the versions agree. `Numbered` says
  that a stored case has a version. With them a write that passes the comparison
  extends what is stored, and the index moves with the case.
* The others depend on which step of a turn comes before which. `Grammar` and
  `Entries` say it of any plan: a status is followed by its event, a session is
  opened after a confirmation, a ticket is looked up, made and recorded in that
  order, and nothing asks for a second one. The invariant is about sequences that
  are cut at the front and extended there: `SuffixFine` and `JoinFine` are the two
  lemmas about them, one lemma per constant plan says that it is one, and `TurnsTo`
  sums up what a step may make of a plan (`EveryStepTurns`).
* `Standing` is what a turn stands on: before it opens a session or makes the ticket
  its case goes to, it holds a confirmed summary; before it tells, a status. With
  `UpToDate` a move that passes the comparison finds the case as the turn holds it,
  hence confirmed (`OnlyConfirmedGoOn`).
* `ToldOrDue`: while no turn was cut off, the status of each case was told, or a turn
  holds that status and is about to tell it. The turn that moves a case holds the
  new status and tells it next, so that a status that is overtaken owes nothing.
* `Backed`: a turn that may still make a ticket finds nothing under its key
  (`Fresh`), one that is past it finds the case as it holds it (`Written`), and a
  routed case has its ticket. Tickets never change (`TicketsStay`) and ended cases
  do not either, so that the two stay in step.
* The refinement has one lemma per kind of write. By `UpToDate` a write that passes
  the comparison is made on the case as it is, by `OneOpenCase` that case is the
  open one (`StoreShows`), by `Confirmed` it is confirmed when it goes to a session
  or a ticket (`MoveImplements`), and the table `Allowed` only goes forward
  (`TransitionsGoForward`). Every other step is a stutter (`OthersLook`).

### ExportJobs

For every number of instances, runs, attempts and faults:

| Theorem | Statement |
|---|---|
| `ExportTyped` | `Spec => []TypeOK` |
| `OnlyTheLastClaimWins` | `Spec => []LastClaimWins` |
| `EndedStaysEnded` | `Spec => EndedIsFinal` |
| `ResultsKeepArtifacts` | `Spec => ResultKeepsArtifact` |

On the file store (`FileInv`): nothing that was read is acted on later
(`NothingPending`); the running lease and the result carry the newest token
(`NewestClaim`); no two runs have one token (`TokensApart`); what a record or a
copy of it refers to was made by a run that is over (`RefsOver`), so that no run or
sweep deletes by its own token what a result names; and an upload that waits for
its commit is there (`UploadsKept`).

### KnowledgeMirror

For every set of releases and any number of moves and faults:

| Theorem | Statement |
|---|---|
| `TypeCorrect` | `Spec => []TypeOK` |
| `HotLoadFindsItsMirror` | `[]`: what a hot reload is about to load is mirrored |
| `StartsFromItsMirrors` | `Spec => []StartsWithoutCloud` |

Only a prune takes a mirror away, and it spares the release of its own sync
(`Holding`), which that sync goes on to record. So between syncs the release that the
status file names as mirrored is there (`Recorded`) — unless no sync of this process
has got that far: then the agent booted on a mirror, and nothing but mirrors that
are there has been loaded, reported or is being exchanged since (`Carried`).
`StartsWithoutCloud` is not inductive, as a prune alone would break it. A prune that
raises between two removals (`cut`) may have taken the recorded mirror, and the sync
ends without a record: without the exception TLC finds, with four releases, that a
reload marks another release the prune took and that the next sync fails too, so that
nothing the agent knows of is mirrored. The next record or start makes up for it. A crash
between the prune and the record does leave a status file that names only what is
gone; that is why the property is about an agent that is up.

### PortalDocuments

For every set of versions, reviews, contents and handlers and any number of calls:

| Theorem | Statement |
|---|---|
| `PortalTyped` | `Spec => []TypeOK` |
| `OnlyApprovedIsServed` | `Spec => []ServedWasApproved` |

The invariant follows the copies: wherever a copy of a version is, in the store
(`StoreSound`), in what a handler has read (`CallSound`) or in what it has yet to
store (`TodoSound`), if its status is APPROVED or PUBLISHED then a reviewer
approved its text. An edit keeps this because it resets the status in the same
copy, and a decision because the review is stored before the version. So stale
writes may lose an edit or a status, but bring out nothing that was not approved.

### What is proved and what is not

Each invariant was model-checked before it was proved. The step lemmas have one
step per action.

Every invariant and every action property that a run checks has a theorem. Only
model-checked are the liveness properties (the prover does not handle fairness or
ENABLED): `RequestsEnd`, `AgentConverges`, `LeaseRecovers`, `RunsGetJobs`, `JobsEnd`,
`EventsSettle`, `JobEnds`, `ArtifactsSettle` and `LoadedFollowsCloud`. The proofs use
no recursive definition, and the finite bounds of the runs (`MaxFaults`, `MaxCancels`,
`MaxCalls`, `Cases`) are arbitrary naturals or sets in them.

Three assumptions are hypotheses of theorems and not of the models:
`LeaseOutlivesWrite` (no lease of a job runs out between its check and the write),
`OwnRequests` (a request id per message) and the file store in `ExportJobs`. They
are needed: with `LeaseOutlivesWrite = FALSE`, with one id for two messages, and
without `store = "FILE"`, TLC finds a counterexample to each property whose theorem has the
hypothesis. Sections 3 and 5 say what the code then does.

## 5. What the code does and its texts deny

Runs show the first two; the others were met while modelling, and their steps are
in the models.

| What happens | Code | Text |
|---|---|---|
| an edit that had passed its checks before a submission is stored after it, and the pending review approves the other text; `snapshot_hash` is read nowhere (run `x_ApprovedAsSubmitted`) | `kp/services/review_service.py:152` | `docs/knowledge-operations-portal-spec.md:208`, `docs/ai-ops-knowledge-portal-consolidation-spec.md:531` |
| a publish of a revision whose reload failed is compensated, but leaves document and version PUBLISHED; the active manifest has the older version, and every later publish carries that one on instead of merging the newer one back (run `x_MergedBack`) | `kp/release/publish.py:123` | `kp/release/publish.py:125` |
| a saga longer than 30 s lets a second one in; two releases end ACTIVE | `kp/services/release_service.py:45` | `agent_service/tests/test_portal_reliability_hardening.py:1009` |
| once its attempts are used up a job is FAILED, and its run stays RUNNING for ever | `ops/evaluation_domain/firestore_job_repository.py:136` | `docs/golden-eval-set-four-phase-spec.md:110` |
| in FILE mode the job whose attempts are used up is failed in memory only | `ops/evaluation_domain/file_job_repository.py:63` | `agent_service/tests/test_pr1_storage_and_execution.py:324` |
| a cancellation between the load of a run and its RUNNING write is overwritten | `ops/evaluation_domain/run_service.py:172` | `docs/golden-eval-set-four-phase-spec.md:231` |
| a failing export run that lost its job deletes the artifact of its successor | `ops/services/export_job_runner.py:167` | |
| a hot reload and a reload request exchange services and ids alternately | `agent/deps_sync.py:85` | `docs/knowledge-control-plane-and-local-gcs-sync-spec-20260922.md:43` |

Other behaviours that the models take over from the code, and that limit what
can be stated of it: a failed reload restores the previous release as ACTIVE
whether or not the Agent went back; a sync of a failed first release keeps its
exemption under the lock; an unpublish whose reload failed cannot be retried;
compensation takes a release from ROLLED_BACK to ACTIVE; a rollback reads the
replaced manifest before the lock; a worker whose lease runs out inside a write
overwrites its successor; the late holder of a job that was failed for its
attempts completes it; a resumed run that is cancelled loses stored results; a
renewal of an export lease on Firestore undoes a completion; the prune of the
mirror does not spare a release that a reload has resolved and not yet loaded,
nor keep the recorded mirror when it fails half way, and a crash may then leave
a status file that names only what was pruned; the reported and the loaded
release may differ until the status endpoint is asked. The hazards in
`PROJECT.json` name the lines.

## 6. Not modelled, and what is left

| Component | Why not |
|---|---|
| Portal idempotency | a claim is a read and a write without a transaction, waits 15 s and goes on: it gives no guarantee a property could state, and two calls with one key do what two calls do |
| PDF conversion and ingestion jobs | file conversion in one process; no lease, no retry, no second writer |
| Artifact publisher and service catalog | building an index is data processing; its outcomes are choices of `BuildCandidate` |
| Issue workflow and conversation store | the graph is driven by model answers; what it stores for a handoff is in `HandoffCases` |
| Retrieval and answer generation | numeric ranking and language-model calls; no protocol state |
| Evaluation release gate | its verdict is a choice of `BuildCandidate` and `PersistGateBlock`; the evaluation compares numbers of one stored run |
| FAQ domain, quality cases | each transition compares the revision of one record in one transaction |
| Governance, budgets, pricing, queries | record keeping and read-side queries |
| Teams adapter, citation gateway, shared kernels, PDF converter, playground, console, infrastructure | formatting, forwarding, wiring, value types, user interface |

Left out of the components that are modelled:

* `ReleaseSaga`: a rollback whose reload fails leaves pointer and documents on the
  failed target (`kp/release/rollback_steps.py:151`). The step is in the model, and no
  property says it should be otherwise.
* `KnowledgeMirror`: the status endpoint reads and then corrects the loaded id
  (`agent/routers/knowledge_admin.py:98`), here one step (`Status`); what lies between is
  another exchange, after which the endpoint corrects it again when asked again.
  A removal that fails silently (`ignore_errors` in `Prune`) is left out, and one reload
  request is under way at a time. `served` is in no property: two threads that exchange services and
  ids alternately may leave it different from `loaded`.
* `HandoffCases`: a supplemented summary is assumed to keep what it held, though a
  model writes it; `expire_due_cases` (`agent/handoff_repository.py:330`), which nothing
  calls, does what `ReadCase` does when it meets a case that is due, over all cases; the
  ticket service is assumed to honour a key once, and the key is sent with an execution
  context only (`agent/ticket_http.py:69`).
* `ExportJobs`: an expiry deletes the artifact and then stores EXPIRED
  (`ops/services/export_service.py:380`, `:388`), here one step; a job that is left
  between the two is overdue, and every read and purge expires overdue jobs first. The
  renewal that undoes a commit or a claim on Firestore (`RenewalLands`) needs no
  failure in the code, only a race; it is charged to `MaxFaults`, which bounds it so
  that `JobEnds` means: if it stops happening. The renewals during the last bookkeeping
  of a run (`export_job_runner.py:247`), a second delete that raises
  (`export_content.py:193`; the job would stay RUNNING until its lease lapses) and the
  in-memory copy of a deleted record (`export_service.py:349`) are left out.
* `PortalDocuments`: `Carried` reads several records at once (`kp/release/publish.py:108`);
  imports, and the save of a version by an asset upload
  (`kp/services/upload_service.py:276`), are not among the calls.
* `EvaluationRuns`: see the end of its runs in section 3.

What is left: the liveness properties stay with TLC. `ReleaseSaga` and `ExportJobs`
have no abstract specification yet, as `DeliveryOutbox`, `EvaluationRuns` and
`HandoffCases` have; one for the saga would say what readers of the pointers may
see of overlapping deployments, one for the exports what holds on Firestore too,
where the present properties are only claimed of the file store.
