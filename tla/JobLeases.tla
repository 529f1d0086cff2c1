----------------------------- MODULE JobLeases -----------------------------
(***************************************************************************)
(* The execution-job repository of the evaluation domain: jobs that        *)
(* workers claim under a lease, with a fencing token that grows with every *)
(* claim. Each repository call is one step, a transaction in Firestore and *)
(* a section under the file lock in FILE mode. Its clients are workers     *)
(* that use the token of the claim they made, and nothing else is assumed  *)
(* of them: EvaluationRuns says what the real worker does.                 *)
(*                                                                         *)
(* Abstracted: the order in which a claim tries jobs (any), timestamps (a  *)
(* lease is live or expired), checkpoint_ref, last_error and revision,     *)
(* which no operation reads.                                               *)
(***************************************************************************)
EXTENDS Naturals, FiniteSets

CONSTANTS
    Worker,        \* worker threads, one per process
    Job,           \* job ids
    Run,           \* evaluation runs; logical_key is made of the run id
    RunOf,         \* the run that a job executes
    MaxAttempts,   \* ExecutionJob.max_attempts
    Store,         \* job_store_mode
    None

ASSUME RunOfAssumption == RunOf \in [Job -> Run]
ASSUME MaxAttemptsAssumption == MaxAttempts \in Nat \ {0}
ASSUME StoreAssumption == Store \in {"FILE", "FIRESTORE"}
ASSUME NoneAssumption == None \notin Worker

VARIABLES
    jobs,          \* the stored job, or None
    held           \* the claim a worker works under, or None

leaseVars == <<jobs, held>>

-----------------------------------------------------------------------------
(* PARTIAL is left out: a job gets it from the run, and no code stores a   *)
(* run with it.                                                            *)
Terminal == {"COMPLETED", "FAILED", "CANCELLED"}
JobState == {"QUEUED", "RUNNING"} \union Terminal

JobRecord ==
    [state: JobState, owner: Worker \union {None},
     lease: {"none", "live", "expired"}, attempt: 1..MaxAttempts,
     token: Nat \ {0}, cancel: BOOLEAN]

Claim == [job: Job, token: Nat \ {0}]

ASSUME NoneIsNoRecord == None \notin JobRecord \union Claim

NewJob ==
    [state |-> "QUEUED", owner |-> None, lease |-> "none", attempt |-> 1,
     token |-> 1, cancel |-> FALSE]

Stored(j) == jobs[j] # None

(* Variant: a job that has ended does not block its key.                   *)
BlocksKeyUnlessEnded(j) == Stored(j) /\ jobs[j].state \in {"QUEUED", "RUNNING"}

(* Every state blocks a second job with the key, terminal ones included.   *)
BlocksKey(j) == Stored(j) /\ jobs[j].state \in {"QUEUED", "RUNNING"} \union Terminal

HasJob(r) == \E j \in Job : RunOf[j] = r /\ BlocksKey(j)

Lapsed(j) == Stored(j) /\ jobs[j].state = "RUNNING" /\ jobs[j].lease = "expired"

Claimable(j) ==
    \/ Stored(j) /\ jobs[j].state = "QUEUED"
    \/ Lapsed(j) /\ jobs[j].attempt < MaxAttempts

(* Variant: attempts are used up one claim later than Claimable says.      *)
ExhaustedLate(j) == Lapsed(j) /\ jobs[j].attempt > MaxAttempts

Exhausted(j) == Lapsed(j) /\ jobs[j].attempt >= MaxAttempts

(* The token first, then the owner; neither state nor expiry is looked at. *)
Owns(w) ==
    /\ held[w] # None
    /\ jobs[held[w].job].token = held[w].token
    /\ jobs[held[w].job].owner = w

(* Variant: a reclaim is not counted as an attempt.                        *)
ClaimedUncounted(job, w) ==
    [job EXCEPT !.state = "RUNNING", !.owner = w, !.lease = "live",
                !.token = @ + 1]

(* Variant: a reclaim keeps the token of the claim it takes over.          *)
ClaimedSameToken(job, w) ==
    [job EXCEPT !.state = "RUNNING", !.owner = w, !.lease = "live",
                !.attempt = IF job.state = "RUNNING" THEN @ + 1 ELSE @,
                !.token = IF job.state = "RUNNING" THEN @ ELSE @ + 1]

ClaimedJob(job, w) ==
    [job EXCEPT !.state = "RUNNING", !.owner = w, !.lease = "live",
                !.attempt = IF job.state = "RUNNING" THEN @ + 1 ELSE @,
                !.token = @ + 1]

(* The owner and the token stay.                                           *)
MaxAttemptsFailedJob(job) == [job EXCEPT !.state = "FAILED"]

CompletedJob(job, state) ==
    [job EXCEPT !.state = state, !.owner = None, !.lease = "none"]

(* Variant: a cancellation request also marks jobs that have ended.        *)
CancelRequestedAlways(job) == [job EXCEPT !.cancel = TRUE]

CancelRequestedJob(job) ==
    IF job.state \in Terminal THEN job ELSE [job EXCEPT !.cancel = TRUE]

-----------------------------------------------------------------------------
LeaseInit ==
    /\ jobs = [j \in Job |-> None]
    /\ held = [w \in Worker |-> None]

(* An id or a key that exists already returns the stored job.              *)
Enqueue(j) ==
    /\ ~Stored(j) /\ ~HasJob(RunOf[j])
    /\ jobs' = [jobs EXCEPT ![j] = NewJob]
    /\ UNCHANGED held

ClaimJob(w, j) ==
    /\ held[w] = None
    /\ Claimable(j)
    /\ jobs' = [jobs EXCEPT ![j] = ClaimedJob(@, w)]
    /\ held' = [held EXCEPT ![w] = [job |-> j, token |-> jobs'[j].token]]

(* A claim that meets a job whose attempts are used up fails it, and goes  *)
(* on to the next. In FILE mode only the job that the claim returns is     *)
(* written, so that this one stays as it is.                               *)
FailExhausted(j) ==
    /\ Store = "FIRESTORE"
    /\ Exhausted(j)
    /\ jobs' = [jobs EXCEPT ![j] = MaxAttemptsFailedJob(@)]
    /\ UNCHANGED held

Heartbeat(w) ==
    /\ Owns(w)
    /\ jobs' = [jobs EXCEPT ![held[w].job].lease = "live"]
    /\ UNCHANGED held

(* A checkpoint changes only checkpoint_ref and heartbeat_at.              *)
SaveCheckpoint(w) == Owns(w) /\ UNCHANGED leaseVars

CompleteJob(w, state) ==
    /\ Owns(w)
    /\ jobs' = [jobs EXCEPT ![held[w].job] = CompletedJob(@, state)]
    /\ held' = [held EXCEPT ![w] = None]

RequestCancellation(j) ==
    /\ Stored(j)
    /\ jobs' = [jobs EXCEPT ![j] = CancelRequestedJob(@)]
    /\ UNCHANGED held

(* The worker gives up its claim: a call was refused, it failed or died.   *)
Abandon(w) ==
    /\ held[w] # None
    /\ held' = [held EXCEPT ![w] = None]
    /\ UNCHANGED jobs

LeaseExpires(j) ==
    /\ Stored(j) /\ jobs[j].state = "RUNNING" /\ jobs[j].lease = "live"
    /\ jobs' = [jobs EXCEPT ![j].lease = "expired"]
    /\ UNCHANGED held

LeaseNext ==
    \/ \E j \in Job :
          \/ Enqueue(j) \/ FailExhausted(j)
          \/ RequestCancellation(j) \/ LeaseExpires(j)
    \/ \E w \in Worker :
          \/ \E j \in Job : ClaimJob(w, j)
          \/ Heartbeat(w) \/ SaveCheckpoint(w) \/ Abandon(w)
          \/ \E state \in Terminal : CompleteJob(w, state)

LeaseSpec == LeaseInit /\ [][LeaseNext]_leaseVars

-----------------------------------------------------------------------------
LeaseTypeOK ==
    /\ jobs \in [Job -> JobRecord \union {None}]
    /\ held \in [Worker -> Claim \union {None}]

(* A token names one claim: two workers never hold the same token of a     *)
(* job, and none holds a token that the store has not given out.           *)
TokensAreUnique ==
    /\ \A w \in Worker :
          held[w] # None =>
              Stored(held[w].job) /\ held[w].token <= jobs[held[w].job].token
    /\ \A v, w \in Worker :
          held[v] # None /\ held[v] = held[w] => v = w

(* Every claim counts: a job is started at most max_attempts times, over   *)
(* all workers, expiries and restarts.                                     *)
AttemptsBounded ==
    \A j \in Job : Stored(j) => jobs[j].token <= MaxAttempts + 1

(* However a run comes to be enqueued (the creator, the outbox, the        *)
(* recovery of queued runs), it has one job.                               *)
OneJobPerRun ==
    \A i, j \in Job : Stored(i) /\ Stored(j) /\ RunOf[i] = RunOf[j] => i = j

(* A job that its holder completed never changes again: no late worker, no *)
(* claim and no cancellation touches it.                                   *)
CompletionIsFinal ==
    [][\A j \in Job :
          Stored(j) /\ jobs[j].state \in Terminal /\ jobs[j].owner = None
          => jobs'[j] = jobs[j]]_leaseVars
=============================================================================
