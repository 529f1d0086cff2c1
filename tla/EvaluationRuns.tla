--------------------------- MODULE EvaluationRuns --------------------------
(***************************************************************************)
(* Evaluation runs of the AI operations back office: a run is committed    *)
(* together with an outbox entry, dispatched as an execution job, executed *)
(* by a worker under the lease of the job, and may be cancelled meanwhile. *)
(* Runs and case results live in the evaluation repository, jobs in the    *)
(* job repository (JobLeases); no transaction spans the two.               *)
(*                                                                         *)
(* Between two repository calls anything may happen. A write to the        *)
(* evaluation repository loads the state and commits it under its          *)
(* revision; a worker that loses this race starts again with the check of  *)
(* the lease, so that the write that succeeds is one step.                 *)
(***************************************************************************)
EXTENDS JobLeases

CONSTANTS
    OutboxJob,            \* the job id in the outbox entry of a run
    Cases,                \* number of cases in the set version of a run
    MaxCancels,           \* bound: cancellation requests
    MaxFaults,            \* bound: crashes and failing calls of workers
    LeaseOutlivesWrite    \* no lease expires between its check and the write

ASSUME OutboxJobAssumption ==
    /\ OutboxJob \in [Run -> Job]
    /\ \A r \in Run : RunOf[OutboxJob[r]] = r
ASSUME CasesAssumption == Cases \in Nat
ASSUME BoundsAssumption == MaxCancels \in Nat /\ MaxFaults \in Nat
ASSUME LeaseOutlivesWriteAssumption == LeaseOutlivesWrite \in BOOLEAN

VARIABLES
    runs,      \* status of the stored run, or None
    results,   \* case results of a run: the token under which each was made
    outbox,    \* runs with an outbox entry
    creator,   \* what create_run still has to do after its commit
    cancel,    \* the cancellation in progress on a run
    pc, mem,   \* where a worker stands, and its local variables
    cancels, faults

runVars == <<runs, results, outbox>>
callVars == <<creator, cancel, cancels>>
workVars == <<pc, mem>>
vars == <<leaseVars, runVars, callVars, workVars, faults>>

-----------------------------------------------------------------------------
(* No code stores a run as FAILED: mark_run_enqueue_failed has no caller.  *)
RunStatus == {"QUEUED", "RUNNING", "COMPLETED", "CANCELLED"}

ASSUME NoneIsNoStatus == None \notin RunStatus

(* Variant: a run that is under way is left to whoever executes it.        *)
EndedOrUnderWay(status) == status \in {"RUNNING", "COMPLETED", "CANCELLED"}

Ended(status) == status \in {"COMPLETED", "CANCELLED"}

(* Each case has two sides, executed one after the other and stored one by *)
(* one; only the first is preceded by a look at the run and the budget.    *)
Item == 1..(2 * Cases)
StartsCase(i) == i % 2 = 1

NoResults == [i \in Item |-> 0]

Polling == {"idle", "dispatch", "list", "recover"}
Checked == {"drop", "start", "checkSave", "checkItem", "progress",
            "checkFinal", "finish", "fail"}
Writing == {"save", "item", "final"}
Working == Checked \union Writing \union {"claimed", "load", "prior", "case"}

NoMem == [batch |-> {}, seen |-> NoResults, at |-> 1, outcome |-> None]

MyRun(w) == RunOf[held[w].job]
MyToken(w) == held[w].token

Goto(w, label) == pc' = [pc EXCEPT ![w] = label]
BecomesIdle(w) == Goto(w, "idle") /\ mem' = [mem EXCEPT ![w] = NoMem]

Init ==
    /\ LeaseInit
    /\ runs = [r \in Run |-> None]
    /\ results = [r \in Run |-> NoResults]
    /\ outbox = {}
    /\ creator = [r \in Run |-> "none"]
    /\ cancel = [r \in Run |-> [at |-> "none", saw |-> None]]
    /\ pc = [w \in Worker |-> "idle"]
    /\ mem = [w \in Worker |-> NoMem]
    /\ cancels = 0
    /\ faults = 0

-----------------------------------------------------------------------------
(* create_run.                                                             *)

(* Variant: the outbox entry is not part of the commit.                    *)
CreateWithoutOutbox(r) ==
    /\ runs[r] = None
    /\ runs' = [runs EXCEPT ![r] = "QUEUED"]
    /\ creator' = [creator EXCEPT ![r] = "dispatch"]
    /\ UNCHANGED <<leaseVars, results, outbox, cancel, cancels, workVars, faults>>

CreateRun(r) ==
    /\ runs[r] = None
    /\ runs' = [runs EXCEPT ![r] = "QUEUED"]
    /\ outbox' = outbox \union {r}
    /\ creator' = [creator EXCEPT ![r] = "dispatch"]
    /\ UNCHANGED <<leaseVars, results, cancel, cancels, workVars, faults>>

DispatchCreated(r) ==
    /\ creator[r] = "dispatch"
    /\ \/ Enqueue(OutboxJob[r])
       \/ HasJob(r) /\ UNCHANGED leaseVars
    /\ creator' = [creator EXCEPT ![r] = "remove"]
    /\ UNCHANGED <<runVars, cancel, cancels, workVars, faults>>

RemoveCreated(r) ==
    /\ creator[r] = "remove"
    /\ outbox' = outbox \ {r}
    /\ creator' = [creator EXCEPT ![r] = "none"]
    /\ UNCHANGED <<leaseVars, runs, results, cancel, cancels, workVars, faults>>

(* A failed dispatch or removal is only logged; or the instance dies.      *)
CreatorStops(r) ==
    /\ creator[r] # "none"
    /\ creator' = [creator EXCEPT ![r] = "none"]
    /\ UNCHANGED <<leaseVars, runVars, cancel, cancels, workVars, faults>>

-----------------------------------------------------------------------------
(* cancel_run reads the run, then asks the job, then writes the run it     *)
(* read with another status.                                               *)

ReadForCancel(r) ==
    /\ cancel[r].at = "none" /\ cancels < MaxCancels
    /\ runs[r] # None
    /\ cancel' = [cancel EXCEPT ![r] = [at |-> "request", saw |-> runs[r]]]
    /\ cancels' = cancels + 1
    /\ UNCHANGED <<leaseVars, runVars, creator, workVars, faults>>

RequestJobCancel(r) ==
    /\ cancel[r].at = "request"
    /\ \/ \E j \in Job : RunOf[j] = r /\ RequestCancellation(j)
       \/ (\A j \in Job : RunOf[j] = r => ~Stored(j)) /\ UNCHANGED leaseVars
    /\ cancel' = [cancel EXCEPT ![r].at = "commit"]
    /\ UNCHANGED <<runVars, creator, cancels, workVars, faults>>

CommitCancel(r) ==
    /\ cancel[r].at = "commit"
    /\ runs' = [runs EXCEPT ![r] = IF Ended(cancel[r].saw) THEN @ ELSE "CANCELLED"]
    /\ cancel' = [cancel EXCEPT ![r] = [at |-> "none", saw |-> None]]
    /\ UNCHANGED <<leaseVars, results, outbox, creator, cancels, workVars, faults>>

(* A revision conflict is raised to the caller; or the instance dies.      *)
CancelStops(r) ==
    /\ cancel[r].at # "none"
    /\ cancel' = [cancel EXCEPT ![r] = [at |-> "none", saw |-> None]]
    /\ UNCHANGED <<leaseVars, runVars, creator, cancels, workVars, faults>>

-----------------------------------------------------------------------------
(* The worker loop: recover_undispatched_runs, then claim a job.           *)

LoadOutbox(w) ==
    /\ pc[w] = "idle"
    /\ mem' = [mem EXCEPT ![w].batch = outbox]
    /\ Goto(w, IF outbox = {} THEN "list" ELSE "dispatch")
    /\ UNCHANGED <<leaseVars, runVars, callVars, faults>>

Dispatch(w) ==
    /\ pc[w] = "dispatch"
    /\ \E r \in mem[w].batch : Enqueue(OutboxJob[r])
    /\ UNCHANGED <<runVars, callVars, workVars, faults>>

(* A dispatch that fails leaves its entry in the outbox.                   *)
DispatchFails(w) ==
    /\ pc[w] = "dispatch" /\ faults < MaxFaults
    /\ \E r \in mem[w].batch : mem' = [mem EXCEPT ![w].batch = @ \ {r}]
    /\ faults' = faults + 1
    /\ UNCHANGED <<leaseVars, runVars, callVars, pc>>

DeleteDispatched(w) ==
    /\ pc[w] = "dispatch"
    /\ \A r \in mem[w].batch : HasJob(r)
    /\ outbox' = outbox \ mem[w].batch
    /\ mem' = [mem EXCEPT ![w].batch = {}]
    /\ Goto(w, "list")
    /\ UNCHANGED <<leaseVars, runs, results, callVars, faults>>

ListQueued(w) ==
    /\ pc[w] = "list"
    /\ mem' = [mem EXCEPT ![w].batch = {r \in Run : runs[r] = "QUEUED"}]
    /\ Goto(w, "recover")
    /\ UNCHANGED <<leaseVars, runVars, callVars, faults>>

(* A listed run without a job in progress gets one under a new id, which   *)
(* the key check drops if there is a job at all. Younger runs are skipped. *)
RecoverRun(w) ==
    /\ pc[w] = "recover"
    /\ \E r \in mem[w].batch, j \in Job :
          RunOf[j] = r /\ j # OutboxJob[r] /\ Enqueue(j)
    /\ UNCHANGED <<runVars, callVars, workVars, faults>>

ClaimNext(w) ==
    /\ pc[w] = "recover"
    /\ \E j \in Job : ClaimJob(w, j)
    /\ mem' = [mem EXCEPT ![w].batch = {}]
    /\ Goto(w, "claimed")
    /\ UNCHANGED <<runVars, callVars, faults>>

SkipExhausted(w) ==
    /\ pc[w] = "recover"
    /\ \E j \in Job : FailExhausted(j)
    /\ UNCHANGED <<runVars, callVars, workVars, faults>>

NothingToClaim(w) ==
    /\ pc[w] = "recover"
    /\ \A j \in Job : ~Claimable(j) /\ (Store = "FIRESTORE" => ~Exhausted(j))
    /\ BecomesIdle(w)
    /\ UNCHANGED <<leaseVars, runVars, callVars, faults>>

-----------------------------------------------------------------------------
(* The execution of a claimed job.                                         *)

CheckCancelRequest(w) ==
    /\ pc[w] = "claimed"
    /\ Goto(w, IF jobs[held[w].job].cancel THEN "drop" ELSE "start")
    /\ UNCHANGED <<leaseVars, runVars, callVars, mem, faults>>

DropCancelled(w) ==
    /\ pc[w] = "drop"
    /\ CompleteJob(w, "CANCELLED")
    /\ BecomesIdle(w)
    /\ UNCHANGED <<runVars, callVars, faults>>

Start(w) ==
    /\ pc[w] = "start"
    /\ SaveCheckpoint(w)
    /\ Goto(w, "load")
    /\ UNCHANGED <<runVars, callVars, mem, faults>>

(* execute_run returns a run that has ended as it is.                      *)
LoadRun(w) ==
    /\ pc[w] = "load"
    /\ \/ /\ Ended(runs[MyRun(w)])
          /\ mem' = [mem EXCEPT ![w].outcome =
                       IF runs[MyRun(w)] = "CANCELLED" THEN "CANCELLED" ELSE "COMPLETED"]
          /\ Goto(w, "finish")
       \/ /\ ~Ended(runs[MyRun(w)])
          /\ Goto(w, "checkSave")
          /\ UNCHANGED mem
    /\ UNCHANGED <<leaseVars, runVars, callVars, faults>>

(* Variant: the write is not preceded by a check of the lease.             *)
SkipLeaseCheck(w, check, next) ==
    /\ pc[w] = check
    /\ Goto(w, next)
    /\ UNCHANGED <<leaseVars, runVars, callVars, mem, faults>>

(* _check_lease: a heartbeat, then a checkpoint.                           *)
CheckLease(w, check, next) ==
    /\ pc[w] = check
    /\ Heartbeat(w)
    /\ Goto(w, next)
    /\ UNCHANGED <<runVars, callVars, mem, faults>>

SaveRunning(w) ==
    /\ pc[w] = "save"
    /\ runs' = [runs EXCEPT ![MyRun(w)] = "RUNNING"]
    /\ Goto(w, "prior")
    /\ UNCHANGED <<leaseVars, results, outbox, callVars, mem, faults>>

LoadPrior(w) ==
    /\ pc[w] = "prior"
    /\ mem' = [mem EXCEPT ![w].seen = results[MyRun(w)]]
    /\ Goto(w, "case")
    /\ UNCHANGED <<leaseVars, runVars, callVars, faults>>

(* A case side that has a result already is not executed again.            *)
NextSide(w) ==
    /\ pc[w] = "case" /\ mem[w].at \in Item
    /\ StartsCase(mem[w].at) => runs[MyRun(w)] # "CANCELLED"
    /\ IF mem[w].seen[mem[w].at] # 0
       THEN mem' = [mem EXCEPT ![w].at = @ + 1] /\ UNCHANGED pc
       ELSE Goto(w, "checkItem") /\ UNCHANGED mem
    /\ UNCHANGED <<leaseVars, runVars, callVars, faults>>

(* The run was cancelled, or what it executed so far used up its tokens or *)
(* its cost limit.                                                         *)
StopEarly(w) ==
    /\ pc[w] = "case" /\ mem[w].at \in Item
    /\ StartsCase(mem[w].at)
    /\ runs[MyRun(w)] = "CANCELLED" \/ mem[w].at > 1
    /\ mem' = [mem EXCEPT ![w].outcome = "CANCELLED"]
    /\ Goto(w, "checkFinal")
    /\ UNCHANGED <<leaseVars, runVars, callVars, faults>>

PersistItem(w) ==
    /\ pc[w] = "item"
    /\ results' = [results EXCEPT ![MyRun(w)][mem[w].at] = MyToken(w)]
    /\ Goto(w, "progress")
    /\ UNCHANGED <<leaseVars, runs, outbox, callVars, mem, faults>>

SaveProgress(w) ==
    /\ pc[w] = "progress"
    /\ Heartbeat(w)
    /\ mem' = [mem EXCEPT ![w].at = @ + 1]
    /\ Goto(w, "case")
    /\ UNCHANGED <<runVars, callVars, faults>>

AllExecuted(w) ==
    /\ pc[w] = "case" /\ mem[w].at \notin Item
    /\ mem' = [mem EXCEPT ![w].outcome = "COMPLETED"]
    /\ Goto(w, "checkFinal")
    /\ UNCHANGED <<leaseVars, runVars, callVars, faults>>

(* Variant: the results that were resumed are not among the executed ones. *)
ExecutedHere(w) ==
    [i \in Item |-> IF i < mem[w].at /\ mem[w].seen[i] = 0 THEN MyToken(w) ELSE 0]

(* executed_cases: resumed results are reused, the others are this claim's. *)
Executed(w) ==
    [i \in Item |-> IF i >= mem[w].at THEN 0
                    ELSE IF mem[w].seen[i] # 0 THEN mem[w].seen[i] ELSE MyToken(w)]

(* commit_run_completion replaces the run and all its case results.        *)
CommitFinal(w) ==
    /\ pc[w] = "final"
    /\ runs' = [runs EXCEPT ![MyRun(w)] = mem[w].outcome]
    /\ results' = [results EXCEPT ![MyRun(w)] = Executed(w)]
    /\ Goto(w, "finish")
    /\ UNCHANGED <<leaseVars, outbox, callVars, mem, faults>>

Finish(w) ==
    /\ pc[w] = "finish"
    /\ CompleteJob(w, mem[w].outcome)
    /\ BecomesIdle(w)
    /\ UNCHANGED <<runVars, callVars, faults>>

(* Variant: the error path marks the job failed without looking at claims. *)
FailJobUnchecked(w) ==
    /\ pc[w] = "fail"
    /\ jobs' = [jobs EXCEPT ![held[w].job] = CompletedJob(@, "FAILED")]
    /\ held' = [held EXCEPT ![w] = None]
    /\ BecomesIdle(w)
    /\ UNCHANGED <<runVars, callVars, faults>>

FailJob(w) ==
    /\ pc[w] = "fail"
    /\ CompleteJob(w, "FAILED")
    /\ BecomesIdle(w)
    /\ UNCHANGED <<runVars, callVars, faults>>

(* Variant: the worker goes on to poll with the claim still in hand.       *)
LoseLeaseKeepsClaim(w) ==
    /\ pc[w] \in Checked /\ ~Owns(w)
    /\ BecomesIdle(w)
    /\ UNCHANGED <<leaseVars, runVars, callVars, faults>>

(* A refused call ends the work on the job.                                *)
LoseLease(w) ==
    /\ pc[w] \in Checked /\ ~Owns(w)
    /\ Abandon(w)
    /\ BecomesIdle(w)
    /\ UNCHANGED <<runVars, callVars, faults>>

(* Any other exception on the way: a missing adapter or set version, the   *)
(* store, or a revision conflict on the last retry.                        *)
ExecutionFails(w) ==
    /\ pc[w] \in Working \ {"fail"} /\ faults < MaxFaults
    /\ faults' = faults + 1
    /\ Goto(w, "fail")
    /\ UNCHANGED <<leaseVars, runVars, callVars, mem>>

(* The heartbeat thread, between claim and completion.                     *)
KeepAlive(w) ==
    /\ pc[w] \in Working
    /\ Heartbeat(w)
    /\ UNCHANGED <<runVars, callVars, workVars, faults>>

Crash(w) ==
    /\ pc[w] # "idle" /\ faults < MaxFaults
    /\ faults' = faults + 1
    /\ \/ Abandon(w)
       \/ held[w] = None /\ UNCHANGED leaseVars
    /\ BecomesIdle(w)
    /\ UNCHANGED <<runVars, callVars>>

(* Heartbeats are lost or late, or the holder is gone or suspended.        *)
Expire(j) ==
    /\ LeaseExpires(j)
    /\ LeaseOutlivesWrite =>
         \A w \in Worker : pc[w] \in Writing /\ Owns(w) => held[w].job # j
    /\ UNCHANGED <<runVars, callVars, workVars, faults>>

-----------------------------------------------------------------------------
Caller(r) ==
    \/ CreateRun(r) \/ DispatchCreated(r) \/ RemoveCreated(r) \/ CreatorStops(r)
    \/ ReadForCancel(r) \/ RequestJobCancel(r) \/ CommitCancel(r) \/ CancelStops(r)

Poll(w) ==
    \/ LoadOutbox(w) \/ Dispatch(w) \/ DeleteDispatched(w)
    \/ ListQueued(w) \/ RecoverRun(w)
    \/ ClaimNext(w) \/ SkipExhausted(w) \/ NothingToClaim(w)

Work(w) ==
    \/ CheckCancelRequest(w) \/ DropCancelled(w) \/ Start(w) \/ LoadRun(w)
    \/ CheckLease(w, "checkSave", "save") \/ SaveRunning(w) \/ LoadPrior(w)
    \/ NextSide(w) \/ StopEarly(w) \/ AllExecuted(w)
    \/ CheckLease(w, "checkItem", "item") \/ PersistItem(w) \/ SaveProgress(w)
    \/ CheckLease(w, "checkFinal", "final") \/ CommitFinal(w) \/ Finish(w)
    \/ FailJob(w) \/ LoseLease(w)

Next ==
    \/ \E r \in Run : Caller(r)
    \/ \E w \in Worker :
          Poll(w) \/ Work(w)
          \/ DispatchFails(w) \/ ExecutionFails(w) \/ KeepAlive(w) \/ Crash(w)
    \/ \E j \in Job : Expire(j)

Spec == Init /\ [][Next]_vars

(* Worker threads run; the lease of a job that nobody works on runs out.   *)
Unattended(j) == Expire(j) /\ \A w \in Worker : Owns(w) => held[w].job # j

FairSpec ==
    /\ Spec
    /\ \A w \in Worker : WF_vars(Poll(w) \/ Work(w))
    /\ \A j \in Job : WF_vars(Unattended(j))

-----------------------------------------------------------------------------
TypeOK ==
    /\ LeaseTypeOK
    /\ runs \in [Run -> RunStatus \union {None}]
    /\ results \in [Run -> [Item -> Nat]]
    /\ outbox \subseteq Run
    /\ creator \in [Run -> {"none", "dispatch", "remove"}]
    /\ cancel \in [Run -> [at: {"none", "request", "commit"},
                           saw: RunStatus \union {None}]]
    /\ pc \in [Worker -> Polling \union Working]
    /\ mem \in [Worker -> [batch: SUBSET Run, seen: [Item -> Nat],
                           at: 1..(2 * Cases + 1),
                           outcome: {"COMPLETED", "CANCELLED", None}]]
    /\ cancels \in 0..MaxCancels /\ faults \in 0..MaxFaults
    /\ \A w \in Worker : pc[w] \in Working <=> held[w] # None

(* A run that is COMPLETED has a result for every side of every case,      *)
(* whichever workers made them and whatever was resumed.                   *)
CompletedRunHasResults ==
    \A r \in Run : runs[r] = "COMPLETED" => \A i \in Item : results[r][i] # 0

(* The job repository and the evaluation repository agree in the end: the  *)
(* run of a COMPLETED job has ended.                                       *)
CompletedJobEndedRun ==
    \A j \in Job :
        Stored(j) /\ jobs[j].state = "COMPLETED"
        => runs[RunOf[j]] \in {"COMPLETED", "CANCELLED"}

(* A worker that lost its job overwrites no result of its successor.       *)
ResultsOnlyAdvance ==
    [][\A r \in Run, i \in Item :
          results'[r][i] # 0 => results'[r][i] >= results[r][i]]_vars

(* A committed run gets its job, whatever happens to its creator.          *)
RunsGetJobs == \A r \in Run : runs[r] # None ~> HasJob(r)

(* A job ends: COMPLETED, CANCELLED or, once its attempts are used up,     *)
(* FAILED.                                                                 *)
JobsEnd == \A j \in Job : Stored(j) ~> Stored(j) /\ jobs[j].state \in Terminal
=============================================================================
