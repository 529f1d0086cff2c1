------------------------ MODULE EvaluationRunsProofs ------------------------
(***************************************************************************)
(* Evaluation runs use the job repository as JobLeases says, for any       *)
(* number of workers, runs, jobs, cases, cancellations and faults; and     *)
(* what follows for runs and their results.                                *)
(***************************************************************************)
EXTENDS EvaluationRuns, JobLeasesProofs

-----------------------------------------------------------------------------
(* The types, less those of the job repository.                            *)
Memory == [batch: SUBSET Run, seen: [Item -> Nat], at: 1..(2 * Cases + 1),
           outcome: {"COMPLETED", "CANCELLED", None}]
Cancellation == [at: {"none", "request", "commit"}, saw: RunStatus \union {None}]

StoresTyped ==
    /\ runs \in [Run -> RunStatus \union {None}]
    /\ results \in [Run -> [Item -> Nat]]
    /\ outbox \subseteq Run

CallersTyped ==
    /\ creator \in [Run -> {"none", "dispatch", "remove"}]
    /\ cancel \in [Run -> Cancellation]
    /\ cancels \in 0..MaxCancels

WorkersTyped ==
    /\ pc \in [Worker -> Polling \union Working]
    /\ mem \in [Worker -> Memory]
    /\ faults \in 0..MaxFaults

ClaimsAtWork == \A w \in Worker : pc[w] \in Working <=> held[w] # None

(* Where a worker stands, label l, says something of its local variables   *)
(* m: a side that is being executed has no result yet, and an execution    *)
(* that comes to its end has an outcome, which is COMPLETED only when the  *)
(* loop over the cases is through.                                         *)
Placed(l, m) ==
    /\ l \in {"checkItem", "item", "progress"} => m.at \in Item
    /\ l \in {"checkItem", "item"} => m.seen[m.at] = 0
    /\ l \in {"checkFinal", "final", "finish"} => m.outcome \in {"COMPLETED", "CANCELLED"}
    /\ l \in {"checkFinal", "final"} /\ m.outcome = "COMPLETED"
       => m.at = 2 * Cases + 1

WorkersPlaced == \A w \in Worker : Placed(pc[w], mem[w])

Typed ==
    /\ LeaseInv
    /\ StoresTyped /\ CallersTyped /\ WorkersTyped
    /\ ClaimsAtWork /\ WorkersPlaced

USE CasesAssumption, BoundsAssumption, OutboxJobAssumption, RunOfAssumption,
    NoneAssumption, NoneIsNoRecord, NoneIsNoStatus

LEMMA TypedIsTypeOK == Typed => TypeOK
BY DEF Typed, TypeOK, LeaseInv, StoresTyped, CallersTyped, WorkersTyped,
       ClaimsAtWork, Memory, Cancellation

-----------------------------------------------------------------------------
(* A call of the job repository: its steps but the passing of time.        *)
LeaseCall ==
    \/ \E j \in Job : Enqueue(j) \/ FailExhausted(j) \/ RequestCancellation(j)
    \/ \E w \in Worker :
          \/ \E j \in Job : ClaimJob(w, j)
          \/ Heartbeat(w) \/ SaveCheckpoint(w) \/ Abandon(w)
          \/ \E state \in Terminal : CompleteJob(w, state)

(* Every step makes a call, changes nothing there, or lets a lease expire. *)
LEMMA CallerCalls ==
    ASSUME NEW r \in Run, Caller(r)
    PROVE  [LeaseCall]_leaseVars
<1>1. CASE DispatchCreated(r)
    BY <1>1 DEF DispatchCreated, LeaseCall
<1>2. CASE RequestJobCancel(r)
    BY <1>2 DEF RequestJobCancel, LeaseCall
<1>3. CASE \/ CreateRun(r) \/ RemoveCreated(r) \/ CreatorStops(r)
           \/ ReadForCancel(r) \/ CommitCancel(r) \/ CancelStops(r)
    BY <1>3 DEF CreateRun, RemoveCreated, CreatorStops, ReadForCancel,
                CommitCancel, CancelStops
<1>4. QED
    BY <1>1, <1>2, <1>3 DEF Caller

LEMMA PollCalls ==
    ASSUME Typed, NEW w \in Worker, Poll(w)
    PROVE  [LeaseCall]_leaseVars
<1>1. CASE Dispatch(w)
  <2>1. PICK r \in Run : Enqueue(OutboxJob[r])
      BY <1>1 DEF Dispatch, Typed, WorkersTyped, Memory
  <2>2. QED
      BY <2>1 DEF LeaseCall
<1>2. CASE RecoverRun(w)
    BY <1>2 DEF RecoverRun, LeaseCall
<1>3. CASE ClaimNext(w)
    BY <1>3 DEF ClaimNext, LeaseCall
<1>4. CASE SkipExhausted(w)
    BY <1>4 DEF SkipExhausted, LeaseCall
<1>5. CASE LoadOutbox(w) \/ DeleteDispatched(w) \/ ListQueued(w) \/ NothingToClaim(w)
    BY <1>5 DEF LoadOutbox, DeleteDispatched, ListQueued, NothingToClaim
<1>6. QED
    BY <1>1, <1>2, <1>3, <1>4, <1>5 DEF Poll

LEMMA WorkCalls ==
    ASSUME Typed, NEW w \in Worker, Work(w)
    PROVE  [LeaseCall]_leaseVars
<1>1. CASE DropCancelled(w)
    BY <1>1 DEF DropCancelled, LeaseCall, Terminal
<1>2. CASE Start(w)
    BY <1>2 DEF Start, LeaseCall
<1>3. ASSUME NEW check, NEW next, CheckLease(w, check, next)
      PROVE  [LeaseCall]_leaseVars
    BY <1>3 DEF CheckLease, LeaseCall
<1>4. CASE SaveProgress(w)
    BY <1>4 DEF SaveProgress, LeaseCall
<1>5. CASE Finish(w)
  <2>1. mem[w].outcome \in Terminal
      BY <1>5 DEF Finish, Typed, WorkersPlaced, Placed, WorkersTyped, Memory, Terminal
  <2>2. QED
      BY <1>5, <2>1 DEF Finish, LeaseCall
<1>6. CASE FailJob(w)
    BY <1>6 DEF FailJob, LeaseCall, Terminal
<1>7. CASE LoseLease(w)
    BY <1>7 DEF LoseLease, LeaseCall
<1>8. CASE \/ CheckCancelRequest(w) \/ LoadRun(w) \/ SaveRunning(w) \/ LoadPrior(w)
           \/ NextSide(w) \/ StopEarly(w) \/ AllExecuted(w) \/ PersistItem(w)
           \/ CommitFinal(w)
    BY <1>8 DEF CheckCancelRequest, LoadRun, SaveRunning, LoadPrior, NextSide,
                StopEarly, AllExecuted, PersistItem, CommitFinal
<1>9. QED
    BY <1>1, <1>2, <1>3, <1>4, <1>5, <1>6, <1>7, <1>8 DEF Work

LEMMA StepCalls ==
    ASSUME Typed, [Next]_vars
    PROVE  [LeaseCall]_leaseVars \/ \E j \in Job : Expire(j)
<1>1. ASSUME NEW w \in Worker,
             DispatchFails(w) \/ ExecutionFails(w) \/ KeepAlive(w) \/ Crash(w)
      PROVE  [LeaseCall]_leaseVars
    BY <1>1 DEF DispatchFails, ExecutionFails, KeepAlive, Crash, LeaseCall
<1>2. ASSUME UNCHANGED vars PROVE [LeaseCall]_leaseVars
    BY <1>2 DEF vars
<1>3. QED
    BY <1>1, <1>2, CallerCalls, PollCalls, WorkCalls DEF Next

LEMMA StepImplements == Typed /\ [Next]_vars => [LeaseNext]_leaseVars
<1>1. LeaseCall => LeaseNext
    BY DEF LeaseCall, LeaseNext
<1>2. ASSUME NEW j \in Job, Expire(j) PROVE LeaseNext
    BY <1>2 DEF Expire, LeaseNext
<1>3. QED
    BY <1>1, <1>2, StepCalls

-----------------------------------------------------------------------------
(* The types are kept.                                                     *)

(* A worker that moves to another label, with other local variables.       *)
LEMMA WorkerMoves ==
    ASSUME Typed, NEW w \in Worker, NEW label \in Polling \union Working,
           NEW m \in Memory,
           pc' = [pc EXCEPT ![w] = label], mem' = [mem EXCEPT ![w] = m],
           faults' \in 0..MaxFaults,
           held' \in [Worker -> Claim \union {None}],
           \A v \in Worker : v # w => held'[v] = held[v],
           label \in Working <=> held'[w] # None,
           Placed(label, m)
    PROVE  WorkersTyped' /\ ClaimsAtWork' /\ WorkersPlaced'
<1>1. /\ pc'[w] = label /\ mem'[w] = m
      /\ \A v \in Worker : v # w => pc'[v] = pc[v] /\ mem'[v] = mem[v]
    BY DEF Typed, WorkersTyped
<1>2. WorkersTyped'
    BY DEF Typed, WorkersTyped
<1>3. ClaimsAtWork'
    BY <1>1 DEF Typed, ClaimsAtWork
<1>4. WorkersPlaced'
    BY <1>1 DEF Typed, WorkersPlaced, Placed
<1>5. QED
    BY <1>2, <1>3, <1>4

(* A worker that moves on with its local variables as they are.            *)
LEMMA WorkerGoesTo ==
    ASSUME Typed, NEW w \in Worker, NEW label \in Polling \union Working,
           Goto(w, label), UNCHANGED <<mem, faults, held>>,
           label \in Working <=> held[w] # None,
           Placed(label, mem[w])
    PROVE  WorkersTyped' /\ ClaimsAtWork' /\ WorkersPlaced'
<1>1. mem[w] \in Memory /\ mem' = [mem EXCEPT ![w] = mem[w]]
    BY DEF Typed, WorkersTyped
<1>2. held' \in [Worker -> Claim \union {None}] /\ faults' \in 0..MaxFaults
    BY DEF Typed, LeaseInv, LeaseTypeOK, WorkersTyped
<1>3. QED
    BY <1>1, <1>2, WorkerMoves DEF Goto

(* A worker that goes back to poll gives up its claim, if it has one.      *)
LEMMA WorkerIdles ==
    ASSUME Typed, NEW w \in Worker, BecomesIdle(w), faults' \in 0..MaxFaults,
           held' = [held EXCEPT ![w] = None] \/ (held[w] = None /\ held' = held)
    PROVE  WorkersTyped' /\ ClaimsAtWork' /\ WorkersPlaced'
<1>1. NoMem \in Memory
    BY DEF NoMem, Memory, NoResults
<1>2. "idle" \in (Polling \union Working) \ Working
    BY DEF Polling, Working, Checked, Writing
<1>3. held' \in [Worker -> Claim \union {None}] /\ held'[w] = None
    BY DEF Typed, LeaseInv, LeaseTypeOK
<1>4. Placed("idle", NoMem)
    BY DEF Placed
<1>5. QED
    BY <1>1, <1>2, <1>3, <1>4, WorkerMoves DEF BecomesIdle, Goto, Typed, LeaseInv, LeaseTypeOK

(* Steps of others leave the workers alone.                                *)
LEMMA WorkersRest ==
    ASSUME Typed, UNCHANGED <<workVars, faults, held>>
    PROVE  WorkersTyped' /\ ClaimsAtWork' /\ WorkersPlaced'
BY DEF Typed, WorkersTyped, ClaimsAtWork, WorkersPlaced, Placed, workVars

LEMMA StoresRest ==
    ASSUME Typed, UNCHANGED runVars
    PROVE  StoresTyped'
BY DEF Typed, StoresTyped, runVars

LEMMA CallersRest ==
    ASSUME Typed, UNCHANGED callVars
    PROVE  CallersTyped'
BY DEF Typed, CallersTyped, callVars

KeepTypes == StoresTyped' /\ CallersTyped' /\ WorkersTyped' /\ ClaimsAtWork' /\ WorkersPlaced'

LEMMA CallerTyped ==
    ASSUME Typed, NEW r \in Run, Caller(r)
    PROVE  KeepTypes
<1>1. UNCHANGED <<workVars, faults, held>>
    BY DEF Caller, CreateRun, DispatchCreated, RemoveCreated, CreatorStops,
           ReadForCancel, RequestJobCancel, CommitCancel, CancelStops,
           Enqueue, RequestCancellation, leaseVars
<1>2. StoresTyped'
  <2>1. CASE CreateRun(r)
      BY <2>1 DEF CreateRun, Typed, StoresTyped, RunStatus
  <2>2. CASE RemoveCreated(r)
      BY <2>2 DEF RemoveCreated, Typed, StoresTyped
  <2>3. CASE CommitCancel(r)
      BY <2>3 DEF CommitCancel, Typed, StoresTyped, RunStatus
  <2>4. CASE \/ DispatchCreated(r) \/ CreatorStops(r) \/ ReadForCancel(r)
             \/ RequestJobCancel(r) \/ CancelStops(r)
      BY <2>4, StoresRest DEF DispatchCreated, CreatorStops, ReadForCancel,
                              RequestJobCancel, CancelStops
  <2>5. QED
      BY <2>1, <2>2, <2>3, <2>4 DEF Caller
<1>3. CallersTyped'
  <2> USE DEF Typed, CallersTyped, Cancellation
  <2>1. CASE CreateRun(r) \/ DispatchCreated(r) \/ RemoveCreated(r) \/ CreatorStops(r)
      BY <2>1 DEF CreateRun, DispatchCreated, RemoveCreated, CreatorStops
  <2>2. CASE ReadForCancel(r)
      BY <2>2 DEF ReadForCancel, StoresTyped
  <2>3. CASE RequestJobCancel(r)
      BY <2>3 DEF RequestJobCancel
  <2>4. CASE CommitCancel(r) \/ CancelStops(r)
      BY <2>4 DEF CommitCancel, CancelStops
  <2>5. QED
      BY <2>1, <2>2, <2>3, <2>4 DEF Caller
<1>4. QED
    BY <1>1, <1>2, <1>3, WorkersRest DEF KeepTypes

LEMMA LabelKinds ==
    /\ \A l \in Polling : l \notin Working
    /\ \A l \in {"claimed", "drop", "start", "load", "checkSave", "save", "prior",
                "case", "checkItem", "item", "progress", "checkFinal", "final",
                "finish", "fail"} : l \in Working
BY DEF Polling, Working, Checked, Writing

(* What a worker at work has in hand.                                      *)
LEMMA AtWork ==
    ASSUME Typed, NEW w \in Worker, pc[w] \in Working
    PROVE  /\ held[w] \in Claim /\ held[w].job \in Job /\ held[w].token \in Nat \ {0}
           /\ Stored(held[w].job)
           /\ MyRun(w) \in Run /\ MyToken(w) \in Nat \ {0}
           /\ mem[w] \in Memory
<1>1. held[w] # None
    BY DEF Typed, ClaimsAtWork
<1>2. held[w] \in Claim /\ Stored(held[w].job)
    BY <1>1 DEF Typed, LeaseInv, LeaseTypeOK, HeldGivenOut
<1>3. QED
    BY <1>2 DEF Claim, MyRun, MyToken, Typed, WorkersTyped

LEMMA PollTyped ==
    ASSUME Typed, NEW w \in Worker, Poll(w)
    PROVE  KeepTypes
<1> USE LabelKinds
<1>1. CallersTyped'
    BY CallersRest DEF Poll, LoadOutbox, Dispatch, DeleteDispatched, ListQueued,
          RecoverRun, ClaimNext, SkipExhausted, NothingToClaim
<1>2. StoresTyped'
  <2>1. CASE DeleteDispatched(w)
      BY <2>1 DEF DeleteDispatched, Typed, StoresTyped
  <2>2. CASE \/ LoadOutbox(w) \/ Dispatch(w) \/ ListQueued(w) \/ RecoverRun(w)
             \/ ClaimNext(w) \/ SkipExhausted(w) \/ NothingToClaim(w)
      BY <2>2, StoresRest DEF LoadOutbox, Dispatch, ListQueued, RecoverRun,
            ClaimNext, SkipExhausted, NothingToClaim
  <2>3. QED
      BY <2>1, <2>2 DEF Poll
<1>3. WorkersTyped' /\ ClaimsAtWork' /\ WorkersPlaced'
  <2>1. mem[w] \in Memory /\ faults \in 0..MaxFaults
        /\ held \in [Worker -> Claim \union {None}]
      BY DEF Typed, WorkersTyped, LeaseInv, LeaseTypeOK
  <2>2. \A b \in SUBSET Run : [mem[w] EXCEPT !.batch = b] \in Memory
      BY <2>1 DEF Memory
  <2>3. CASE Dispatch(w) \/ RecoverRun(w) \/ SkipExhausted(w)
    <3>1. UNCHANGED <<workVars, faults, held>>
        BY <2>3 DEF Dispatch, RecoverRun, SkipExhausted, Enqueue, FailExhausted
    <3>2. QED
        BY <3>1, WorkersRest
  <2>4. ASSUME NEW b \in SUBSET Run, NEW label \in {"dispatch", "list", "recover"},
               pc[w] \in Polling, mem' = [mem EXCEPT ![w].batch = b],
               Goto(w, label), UNCHANGED <<leaseVars, faults>>
        PROVE  WorkersTyped' /\ ClaimsAtWork' /\ WorkersPlaced'
    <3>1. mem' = [mem EXCEPT ![w] = [mem[w] EXCEPT !.batch = b]]
        BY <2>4
    <3>2. held[w] = None
        BY <2>4 DEF Typed, ClaimsAtWork
    <3>3. label \in Polling
        BY <2>4 DEF Polling
    <3>4. Placed(label, [mem[w] EXCEPT !.batch = b])
        BY <2>4 DEF Placed
    <3>5. QED
        BY <2>1, <2>2, <2>4, <3>1, <3>2, <3>3, <3>4, WorkerMoves
           DEF Goto, leaseVars
  <2>5. CASE LoadOutbox(w)
    <3>1. outbox \in SUBSET Run
        BY DEF Typed, StoresTyped
    <3>2. pc[w] \in Polling
        BY <2>5 DEF LoadOutbox, Polling
    <3>3. QED
        BY <2>4, <2>5, <3>1, <3>2 DEF LoadOutbox
  <2>6. CASE DeleteDispatched(w)
    <3>1. pc[w] \in Polling
        BY <2>6 DEF DeleteDispatched, Polling
    <3>2. QED
        BY <2>4, <2>6, <3>1 DEF DeleteDispatched
  <2>7. CASE ListQueued(w)
    <3>1. pc[w] \in Polling
        BY <2>7 DEF ListQueued, Polling
    <3>2. {r \in Run : runs[r] = "QUEUED"} \in SUBSET Run
        OBVIOUS
    <3>3. QED
        BY <2>4, <2>7, <3>1, <3>2 DEF ListQueued
  <2>8. CASE ClaimNext(w)
    <3>1. PICK j \in Job : ClaimJob(w, j)
        BY <2>8 DEF ClaimNext
    <3>2. LeaseInv'
        BY <3>1, ClaimKeepsInv DEF Typed
    <3>3. held' = [held EXCEPT ![w] = [job |-> j, token |-> jobs'[j].token]]
        BY <3>1 DEF ClaimJob
    <3>4. held'[w] = [job |-> j, token |-> jobs'[j].token]
        BY <2>1, <3>3
    <3>5. jobs'[j] \in JobRecord
      <4>1. jobs'[j] = ClaimedJob(jobs[j], w) /\ Stored(j)
          BY <3>1 DEF ClaimJob, Claimable, Lapsed, Typed, LeaseInv, LeaseTypeOK
      <4>2. jobs[j] \in JobRecord
          BY <4>1 DEF Typed, LeaseInv, LeaseTypeOK, Stored
      <4>3. jobs[j].state = "RUNNING" => jobs[j].attempt < MaxAttempts
          BY <3>1 DEF ClaimJob, Claimable, Lapsed
      <4>4. QED
          BY <4>1, <4>2, <4>3, RecordTypes
    <3>6. held'[w] # None
        BY <3>4, <3>5 DEF JobRecord, Claim
    <3>7. mem' = [mem EXCEPT ![w] = [mem[w] EXCEPT !.batch = {}]]
        BY <2>8 DEF ClaimNext
    <3>8. held' \in [Worker -> Claim \union {None}]
          /\ \A v \in Worker : v # w => held'[v] = held[v]
        BY <2>1, <3>2, <3>3 DEF LeaseInv, LeaseTypeOK
    <3>9. /\ pc' = [pc EXCEPT ![w] = "claimed"] /\ faults' \in 0..MaxFaults
          /\ "claimed" \in Polling \union Working /\ "claimed" \in Working
          /\ Placed("claimed", [mem[w] EXCEPT !.batch = {}])
        BY <2>1, <2>8 DEF ClaimNext, Goto, Placed
    <3>10. [mem[w] EXCEPT !.batch = {}] \in Memory
        BY <2>2
    <3>11. QED
        BY <3>6, <3>7, <3>8, <3>9, <3>10, WorkerMoves
  <2>9. CASE NothingToClaim(w)
    <3>1. held[w] = None
        BY <2>9 DEF NothingToClaim, Typed, ClaimsAtWork, Polling
    <3>2. QED
        BY <2>1, <2>9, <3>1, WorkerIdles DEF NothingToClaim, leaseVars
  <2>10. QED
      BY <2>3, <2>5, <2>6, <2>7, <2>8, <2>9 DEF Poll
<1>4. QED
    BY <1>1, <1>2, <1>3 DEF KeepTypes

(* A worker that stays at work under its claim.                            *)
LEMMA WorkerWorksOn ==
    ASSUME Typed, NEW w \in Worker, pc[w] \in Working,
           NEW label \in Working, NEW m \in Memory,
           Goto(w, label), mem' = [mem EXCEPT ![w] = m], Placed(label, m),
           UNCHANGED <<faults, held>>
    PROVE  WorkersTyped' /\ ClaimsAtWork' /\ WorkersPlaced'
<1>1. held[w] # None /\ held \in [Worker -> Claim \union {None}]
      /\ faults \in 0..MaxFaults
    BY DEF Typed, ClaimsAtWork, LeaseInv, LeaseTypeOK, WorkersTyped
<1>2. QED
    BY <1>1, WorkerMoves DEF Goto

LEMMA WorkStores ==
    ASSUME Typed, NEW w \in Worker, Work(w)
    PROVE  StoresTyped'
<1> USE LabelKinds
<1>1. CASE SaveRunning(w)
    BY <1>1, AtWork DEF SaveRunning, Typed, StoresTyped, RunStatus
<1>2. CASE PersistItem(w)
  <2>1. MyRun(w) \in Run /\ MyToken(w) \in Nat
      BY <1>2, AtWork DEF PersistItem
  <2>4. mem[w].at \in Item
      BY <1>2 DEF PersistItem, Typed, WorkersPlaced, Placed
  <2>2. results' \in [Run -> [Item -> Nat]]
      BY <1>2, <2>1, <2>4 DEF PersistItem, Typed, StoresTyped
  <2>3. QED
      BY <1>2, <2>2 DEF PersistItem, Typed, StoresTyped
<1>3. CASE CommitFinal(w)
  <2>1. /\ MyRun(w) \in Run /\ MyToken(w) \in Nat /\ mem[w] \in Memory
        /\ mem[w].outcome \in {"COMPLETED", "CANCELLED"}
      BY <1>3, AtWork DEF CommitFinal, Typed, WorkersPlaced, Placed
  <2>2. Executed(w) \in [Item -> Nat]
      BY <2>1 DEF Executed, Memory
  <2>3. mem[w].outcome \in RunStatus
      BY <2>1 DEF RunStatus
  <2>4. QED
      BY <1>3, <2>1, <2>2, <2>3 DEF CommitFinal, Typed, StoresTyped
<1>4. ASSUME NEW check, NEW next, CheckLease(w, check, next)
      PROVE  StoresTyped'
    BY <1>4, StoresRest DEF CheckLease
<1>5. CASE \/ CheckCancelRequest(w) \/ DropCancelled(w) \/ Start(w) \/ LoadRun(w)
           \/ LoadPrior(w) \/ NextSide(w) \/ StopEarly(w) \/ AllExecuted(w)
           \/ SaveProgress(w) \/ Finish(w) \/ FailJob(w) \/ LoseLease(w)
    BY <1>5, StoresRest
       DEF CheckCancelRequest, DropCancelled, Start, LoadRun, LoadPrior, NextSide,
           StopEarly, AllExecuted, SaveProgress, Finish, FailJob, LoseLease
<1>6. QED
    BY <1>1, <1>2, <1>3, <1>4, <1>5 DEF Work

LEMMA WorkWorkers ==
    ASSUME Typed, NEW w \in Worker, Work(w)
    PROVE  WorkersTyped' /\ ClaimsAtWork' /\ WorkersPlaced'
<1> DEFINE Good == WorkersTyped' /\ ClaimsAtWork' /\ WorkersPlaced'
<1> USE LabelKinds
<1>0. /\ mem[w] \in Memory /\ faults \in 0..MaxFaults
      /\ mem = [mem EXCEPT ![w] = mem[w]]
      /\ Placed(pc[w], mem[w])
  <2>1. mem[w] \in Memory /\ faults \in 0..MaxFaults
      BY DEF Typed, WorkersTyped
  <2>2. mem = [mem EXCEPT ![w] = mem[w]]
      BY DEF Typed, WorkersTyped
  <2>3. Placed(pc[w], mem[w])
      BY DEF Typed, WorkersPlaced
  <2>4. QED
      BY <2>1, <2>2, <2>3
<1>1. ASSUME pc[w] \in Working, NEW label \in Working, Goto(w, label),
             UNCHANGED <<mem, faults, held>>, Placed(label, mem[w])
      PROVE  Good
  <2>1. mem' = [mem EXCEPT ![w] = mem[w]] /\ mem[w] \in Memory
      BY <1>0, <1>1
  <2>2. QED
      BY <1>1, <2>1, WorkerWorksOn
<1>2. ASSUME NEW state, CompleteJob(w, state), BecomesIdle(w), UNCHANGED faults
      PROVE  Good
    BY <1>0, <1>2, WorkerIdles DEF CompleteJob
<1>3. CASE CheckCancelRequest(w)
    BY <1>1, <1>3 DEF CheckCancelRequest, leaseVars, Placed
<1>4. CASE DropCancelled(w) \/ Finish(w) \/ FailJob(w)
    BY <1>2, <1>4 DEF DropCancelled, Finish, FailJob
<1>5. CASE Start(w)
    BY <1>1, <1>5 DEF Start, SaveCheckpoint, leaseVars, Placed
<1>6. CASE LoadRun(w)
  <2>1. CASE ~Ended(runs[MyRun(w)])
      BY <1>1, <1>6, <2>1 DEF LoadRun, leaseVars, Placed
  <2>2. CASE Ended(runs[MyRun(w)])
    <3> DEFINE o == IF runs[MyRun(w)] = "CANCELLED" THEN "CANCELLED" ELSE "COMPLETED"
               m == [mem[w] EXCEPT !.outcome = o]
    <3>1. mem' = [mem EXCEPT ![w] = m] /\ Goto(w, "finish") /\ UNCHANGED <<faults, held>>
          /\ pc[w] \in Working
        BY <1>6, <2>2 DEF LoadRun, leaseVars
    <3>2. m \in Memory /\ m.outcome = o
        BY <1>0 DEF Memory
    <3>4. Placed("finish", m)
        BY <3>2 DEF Placed
    <3> HIDE DEF m
    <3>5. QED
        BY <3>1, <3>2, <3>4, WorkerWorksOn
  <2>3. QED
      BY <2>1, <2>2
<1>7. CASE CheckLease(w, "checkSave", "save")
    BY <1>1, <1>7 DEF CheckLease, Heartbeat, Placed
<1>8. CASE CheckLease(w, "checkItem", "item") \/ CheckLease(w, "checkFinal", "final")
    BY <1>0, <1>1, <1>8 DEF CheckLease, Heartbeat, Placed
<1>9. CASE SaveRunning(w) \/ CommitFinal(w) \/ PersistItem(w)
    BY <1>0, <1>1, <1>9 DEF SaveRunning, CommitFinal, PersistItem, leaseVars, Placed
<1>10. CASE LoadPrior(w)
  <2> DEFINE m == [mem[w] EXCEPT !.seen = results[MyRun(w)]]
  <2>1. mem' = [mem EXCEPT ![w] = m] /\ Goto(w, "case") /\ UNCHANGED <<faults, held>>
        /\ pc[w] \in Working
      BY <1>10 DEF LoadPrior, leaseVars
  <2>2. results[MyRun(w)] \in [Item -> Nat]
      BY <2>1, AtWork DEF Typed, StoresTyped
  <2>3. m \in Memory
      BY <1>0, <2>2 DEF Memory
  <2>4. Placed("case", m)
      BY DEF Placed
  <2> HIDE DEF m
  <2>5. QED
      BY <2>1, <2>3, <2>4, WorkerWorksOn
<1>11. ASSUME pc[w] \in Working, mem[w].at \in Item, Goto(w, "case"),
              mem' = [mem EXCEPT ![w].at = @ + 1], UNCHANGED <<faults, held>>
       PROVE  Good
  <2> DEFINE m == [mem[w] EXCEPT !.at = mem[w].at + 1]
  <2>1. mem' = [mem EXCEPT ![w] = m]
      BY <1>11
  <2>2. mem[w].at + 1 \in 1..(2 * Cases + 1)
      BY <1>11 DEF Item
  <2>3. m \in Memory
      BY <1>0, <2>2 DEF Memory
  <2>4. Placed("case", m)
      BY DEF Placed
  <2> HIDE DEF m
  <2>5. QED
      BY <1>11, <2>1, <2>3, <2>4, WorkerWorksOn
<1>12. CASE NextSide(w)
  <2>1. CASE mem[w].seen[mem[w].at] # 0
    <3>1. Goto(w, "case")
        BY <1>12, <2>1 DEF NextSide, Goto, Typed, WorkersTyped
    <3>2. QED
        BY <1>11, <1>12, <2>1, <3>1 DEF NextSide, leaseVars
  <2>2. CASE mem[w].seen[mem[w].at] = 0
      BY <1>1, <1>12, <2>2 DEF NextSide, leaseVars, Placed
  <2>3. QED
      BY <2>1, <2>2
<1>13. CASE SaveProgress(w)
    BY <1>0, <1>11, <1>13 DEF SaveProgress, Heartbeat, Placed
<1>14. ASSUME NEW o \in {"COMPLETED", "CANCELLED"}, pc[w] \in Working,
              o = "COMPLETED" => mem[w].at = 2 * Cases + 1,
              mem' = [mem EXCEPT ![w].outcome = o], Goto(w, "checkFinal"),
              UNCHANGED <<faults, held>>
       PROVE  Good
  <2> DEFINE m == [mem[w] EXCEPT !.outcome = o]
  <2>1. mem' = [mem EXCEPT ![w] = m]
      BY <1>14
  <2>2. m \in Memory /\ m.outcome = o /\ m.at = mem[w].at
      BY <1>0 DEF Memory
  <2>3. Placed("checkFinal", m)
      BY <1>14, <2>2 DEF Placed
  <2> HIDE DEF m
  <2>4. QED
      BY <1>14, <2>1, <2>2, <2>3, WorkerWorksOn
<1>15. CASE StopEarly(w)
    BY <1>14, <1>15 DEF StopEarly, leaseVars
<1>16. CASE AllExecuted(w)
  <2>3. mem[w].at \in 1..(2 * Cases + 1) /\ mem[w].at \notin 1..(2 * Cases)
      BY <1>0, <1>16 DEF AllExecuted, Memory, Item
  <2>4. 2 * Cases \in Nat
      OBVIOUS
  <2>1. mem[w].at = 2 * Cases + 1
      BY <2>3, <2>4
  <2>2. QED
      BY <1>14, <1>16, <2>1 DEF AllExecuted, leaseVars
<1>17. CASE LoseLease(w)
    BY <1>0, <1>17, WorkerIdles DEF LoseLease, Abandon
<1>18. QED
    BY <1>3, <1>4, <1>5, <1>6, <1>7, <1>8, <1>9, <1>10, <1>12, <1>13, <1>15,
       <1>16, <1>17 DEF Work

LEMMA WorkTyped ==
    ASSUME Typed, NEW w \in Worker, Work(w)
    PROVE  KeepTypes
<1>1. ASSUME NEW check, NEW next, CheckLease(w, check, next)
      PROVE  CallersTyped'
    BY <1>1, CallersRest DEF CheckLease
<1>2. ASSUME
           \/ CheckCancelRequest(w) \/ DropCancelled(w) \/ Start(w) \/ LoadRun(w)
           \/ SaveRunning(w) \/ LoadPrior(w) \/ NextSide(w) \/ StopEarly(w)
           \/ AllExecuted(w) \/ PersistItem(w) \/ SaveProgress(w) \/ CommitFinal(w)
           \/ Finish(w) \/ FailJob(w) \/ LoseLease(w)
      PROVE  CallersTyped'
    BY <1>2, CallersRest
       DEF CheckCancelRequest, DropCancelled, Start, LoadRun, SaveRunning, LoadPrior,
           NextSide, StopEarly, AllExecuted, PersistItem, SaveProgress, CommitFinal,
           Finish, FailJob, LoseLease
<1>3. CallersTyped'
    BY <1>1, <1>2 DEF Work
<1>4. QED
    BY <1>3, WorkStores, WorkWorkers DEF KeepTypes

(* Faults of a worker, its heartbeat thread, and the passing of time.      *)
LEMMA FaultTyped ==
    ASSUME Typed, NEW w \in Worker,
           DispatchFails(w) \/ ExecutionFails(w) \/ KeepAlive(w) \/ Crash(w)
    PROVE  KeepTypes
<1> USE LabelKinds
<1>1. CallersTyped' /\ StoresTyped'
    BY CallersRest, StoresRest DEF DispatchFails, ExecutionFails, KeepAlive, Crash
<1>2. mem[w] \in Memory /\ mem = [mem EXCEPT ![w] = mem[w]]
      /\ held \in [Worker -> Claim \union {None}]
      /\ (faults < MaxFaults => faults + 1 \in 0..MaxFaults)
  <2>1. mem[w] \in Memory /\ mem = [mem EXCEPT ![w] = mem[w]]
      BY DEF Typed, WorkersTyped
  <2>2. faults < MaxFaults => faults + 1 \in 0..MaxFaults
      BY DEF Typed, WorkersTyped
  <2>3. QED
      BY <2>1, <2>2 DEF Typed, LeaseInv, LeaseTypeOK
<1>3. CASE DispatchFails(w)
  <2>1. PICK r \in mem[w].batch : mem' = [mem EXCEPT ![w].batch = @ \ {r}]
      BY <1>3 DEF DispatchFails
  <2> DEFINE m == [mem[w] EXCEPT !.batch = mem[w].batch \ {r}]
  <2>2. m \in Memory
      BY <1>2 DEF Memory
  <2>3. mem' = [mem EXCEPT ![w] = m]
      BY <2>1
  <2>8. pc' = [pc EXCEPT ![w] = "dispatch"]
      BY <1>3 DEF DispatchFails, Typed, WorkersTyped
  <2>4. "dispatch" \in Polling \union Working /\ "dispatch" \notin Working
      BY DEF Polling
  <2>5. held[w] = None
      BY <1>3, <2>4 DEF DispatchFails, Typed, ClaimsAtWork
  <2>6. Placed("dispatch", m)
      BY DEF Placed
  <2> HIDE DEF m
  <2>7. QED
      BY <1>1, <1>2, <1>3, <2>2, <2>3, <2>4, <2>5, <2>6, <2>8, WorkerMoves
         DEF KeepTypes, DispatchFails, leaseVars
<1>4. CASE ExecutionFails(w)
  <2>1. held[w] # None /\ Placed("fail", mem[w])
      BY <1>4 DEF ExecutionFails, Typed, ClaimsAtWork, Placed
  <2>2. "fail" \in Polling \union Working /\ "fail" \in Working
      OBVIOUS
  <2>3. faults' \in 0..MaxFaults /\ held' = held /\ mem' = [mem EXCEPT ![w] = mem[w]]
        /\ pc' = [pc EXCEPT ![w] = "fail"]
      BY <1>2, <1>4 DEF ExecutionFails, leaseVars, Goto
  <2>4. QED
      BY <1>1, <1>2, <2>1, <2>2, <2>3, WorkerMoves DEF KeepTypes
<1>5. CASE KeepAlive(w)
    BY <1>1, <1>5, WorkersRest DEF KeepAlive, Heartbeat, KeepTypes
<1>6. CASE Crash(w)
    BY <1>1, <1>2, <1>6, WorkerIdles DEF Crash, Abandon, KeepTypes, leaseVars
<1>7. QED
    BY <1>3, <1>4, <1>5, <1>6

LEMMA TypedNext == Typed /\ [Next]_vars => Typed'
<1> SUFFICES ASSUME Typed, [Next]_vars PROVE Typed'
    OBVIOUS
<1>1. LeaseInv'
    BY StepImplements, LeaseNextInv DEF Typed
<1>2. ASSUME NEW r \in Run, Caller(r) PROVE KeepTypes
    BY <1>2, CallerTyped
<1>3. ASSUME NEW w \in Worker, Poll(w) PROVE KeepTypes
    BY <1>3, PollTyped
<1>4. ASSUME NEW w \in Worker, Work(w) PROVE KeepTypes
    BY <1>4, WorkTyped
<1>5. ASSUME NEW w \in Worker,
             DispatchFails(w) \/ ExecutionFails(w) \/ KeepAlive(w) \/ Crash(w)
      PROVE  KeepTypes
    BY <1>5, FaultTyped
<1>6. ASSUME NEW j \in Job, Expire(j) PROVE KeepTypes
    BY <1>6, WorkersRest, StoresRest, CallersRest DEF Expire, LeaseExpires, KeepTypes
<1>7. ASSUME UNCHANGED vars PROVE KeepTypes
    BY <1>7, WorkersRest, StoresRest, CallersRest DEF vars, leaseVars, KeepTypes
<1>8. KeepTypes
    BY <1>2, <1>3, <1>4, <1>5, <1>6, <1>7 DEF Next
<1>9. QED
    BY <1>1, <1>8 DEF KeepTypes, Typed

LEMMA TypedInit == Init => Typed
<1> SUFFICES ASSUME Init PROVE Typed
    OBVIOUS
<1>1. LeaseInv
    BY LeaseInitInv DEF Init
<1>2. StoresTyped
    BY DEF Init, StoresTyped, NoResults
<1>3. CallersTyped
    BY DEF Init, CallersTyped, Cancellation
<1>4. NoMem \in Memory /\ "idle" \in Polling /\ "idle" \notin Working
    BY LabelKinds DEF NoMem, Memory, NoResults, Polling
<1>5. WorkersTyped
    BY <1>4 DEF Init, WorkersTyped
<1>6. ClaimsAtWork
    BY <1>4 DEF Init, LeaseInit, ClaimsAtWork
<1>7. WorkersPlaced
    BY DEF Init, WorkersPlaced, Placed
<1>8. QED
    BY <1>1, <1>2, <1>3, <1>5, <1>6, <1>7 DEF Typed

LEMMA TypedInvariance == Spec => []Typed
BY TypedInit, TypedNext, PTL DEF Spec

(* The evaluation runs, with their callers and workers, keep their types.  *)
THEOREM RunTypes == Spec => []TypeOK
BY TypedInvariance, TypedIsTypeOK, PTL

(* Runs, their callers and their workers are clients as JobLeases assumes  *)
(* them: whatever is proved of the job repository holds of the system.     *)
THEOREM RunsUseLeases == Spec => LeaseSpec
<1>1. Init => LeaseInit
    BY DEF Init
<1>2. QED
    BY <1>1, StepImplements, TypedInvariance, PTL DEF Spec, LeaseSpec

-----------------------------------------------------------------------------
(* Completed runs.                                                         *)

(* The steps that change a run or its results.                             *)
LEMMA StoresChange ==
    [Next]_vars =>
        \/ UNCHANGED <<runs, results>>
        \/ \E r \in Run : CreateRun(r) \/ CommitCancel(r)
        \/ \E w \in Worker : SaveRunning(w) \/ PersistItem(w) \/ CommitFinal(w)
<1> DEFINE Rest == UNCHANGED <<runs, results>>
<1> SUFFICES ASSUME [Next]_vars
             PROVE  \/ Rest
                    \/ \E r \in Run : CreateRun(r) \/ CommitCancel(r)
                    \/ \E w \in Worker :
                          SaveRunning(w) \/ PersistItem(w) \/ CommitFinal(w)
    OBVIOUS
<1>1. ASSUME NEW r \in Run, Caller(r)
      PROVE  Rest \/ CreateRun(r) \/ CommitCancel(r)
    BY <1>1 DEF Caller, DispatchCreated, RemoveCreated, CreatorStops, ReadForCancel,
          RequestJobCancel, CancelStops, runVars
<1>2. ASSUME NEW w \in Worker, Poll(w) PROVE Rest
    BY <1>2 DEF Poll, LoadOutbox, Dispatch, DeleteDispatched, ListQueued,
          RecoverRun, ClaimNext, SkipExhausted, NothingToClaim, runVars
<1>3. ASSUME NEW w \in Worker, Work(w)
      PROVE  Rest \/ SaveRunning(w) \/ PersistItem(w) \/ CommitFinal(w)
    BY <1>3 DEF Work, CheckCancelRequest, DropCancelled, Start, LoadRun, LoadPrior,
          CheckLease, NextSide, StopEarly, AllExecuted, SaveProgress, Finish,
          FailJob, LoseLease, runVars
<1>4. ASSUME NEW w \in Worker,
             DispatchFails(w) \/ ExecutionFails(w) \/ KeepAlive(w) \/ Crash(w)
      PROVE  Rest
    BY <1>4 DEF DispatchFails, ExecutionFails, KeepAlive, Crash, runVars
<1>5. ASSUME NEW j \in Job, Expire(j) PROVE Rest
    BY <1>5 DEF Expire, runVars
<1>6. CASE UNCHANGED vars
    BY <1>6 DEF vars, runVars
<1> HIDE DEF Rest
<1>7. QED
    BY <1>1, <1>2, <1>3, <1>4, <1>5, <1>6 DEF Next

(* A worker that commits COMPLETED went through every side of every case:  *)
(* each has a result that it resumed or one that it made.                  *)
LEMMA CommitIsComplete ==
    ASSUME Typed, NEW w \in Worker, CommitFinal(w), mem[w].outcome = "COMPLETED",
           NEW i \in Item
    PROVE  Executed(w)[i] # 0
<1>1. mem[w].at = 2 * Cases + 1
    BY DEF Typed, WorkersPlaced, Placed, CommitFinal
<1>2. i < mem[w].at /\ mem[w].at \in Nat /\ i \in Nat
    BY <1>1 DEF Item
<1>3. MyToken(w) # 0
    BY AtWork, LabelKinds DEF CommitFinal
<1>4. QED
    BY <1>2, <1>3 DEF Executed

(* A run that is COMPLETED has a result for every side of every case.      *)
THEOREM CompletedRunsHaveResults == Spec => []CompletedRunHasResults
<1> USE DEF CompletedRunHasResults
<1>1. Init => CompletedRunHasResults
    BY DEF Init, RunStatus
<1>2. Typed /\ CompletedRunHasResults /\ [Next]_vars => CompletedRunHasResults'
  <2>1. SUFFICES ASSUME Typed, CompletedRunHasResults, [Next]_vars
                 PROVE  CompletedRunHasResults'
      OBVIOUS
  <2>2. results \in [Run -> [Item -> Nat]] /\ runs \in [Run -> RunStatus \union {None}]
      BY <2>1 DEF Typed, StoresTyped
  <2>3. ASSUME NEW r \in Run, CreateRun(r) \/ CommitCancel(r)
        PROVE  CompletedRunHasResults'
      BY <2>1, <2>2, <2>3 DEF CreateRun, CommitCancel
  <2>4. ASSUME NEW w \in Worker, SaveRunning(w)
        PROVE  CompletedRunHasResults'
      BY <2>1, <2>2, <2>4 DEF SaveRunning
  <2>5. ASSUME NEW w \in Worker, PersistItem(w)
        PROVE  CompletedRunHasResults'
    <3>1. MyToken(w) # 0 /\ runs' = runs
        BY <2>1, <2>5, AtWork, LabelKinds DEF PersistItem
    <3>2. \A r \in Run, i \in Item :
             results'[r][i] = results[r][i] \/ results'[r][i] = MyToken(w)
        BY <2>2, <2>5 DEF PersistItem
    <3>3. QED
        BY <2>1, <3>1, <3>2
  <2>6. ASSUME NEW w \in Worker, CommitFinal(w)
        PROVE  CompletedRunHasResults'
    <3>1. SUFFICES ASSUME NEW r \in Run, runs'[r] = "COMPLETED", NEW i \in Item
                   PROVE  results'[r][i] # 0
        OBVIOUS
    <3>2. CASE r = MyRun(w)
      <4>1. mem[w].outcome = "COMPLETED" /\ results'[r] = Executed(w)
          BY <2>2, <2>6, <3>1, <3>2 DEF CommitFinal
      <4>2. QED
          BY <2>1, <2>6, <4>1, CommitIsComplete
    <3>3. CASE r # MyRun(w)
        BY <2>1, <2>2, <2>6, <3>1, <3>3 DEF CommitFinal
    <3>4. QED
        BY <3>2, <3>3
  <2>7. ASSUME UNCHANGED <<runs, results>>
        PROVE  CompletedRunHasResults'
      BY <2>1, <2>7
  <2>8. QED
      BY <2>1, <2>3, <2>4, <2>5, <2>6, <2>7, StoresChange
<1>3. QED
    BY <1>1, <1>2, TypedInvariance, PTL DEF Spec
-----------------------------------------------------------------------------
(***************************************************************************)
(* What the leases are for: provided that no lease runs out between its    *)
(* check and the write that the check is made for, no worker overwrites a  *)
(* result of its successor, and the run of a COMPLETED job has ended.      *)
(***************************************************************************)

(* The owner of a job.                                                     *)

(* Ownership is only gained by a claim.                                    *)
LEMMA OwnerWas ==
    ASSUME LeaseInv, [LeaseNext]_leaseVars, NEW w \in Worker,
           held'[w] = held[w], Owns(w)'
    PROVE  Owns(w)
<1> DEFINE j == held[w].job
<1>1. held[w] # None /\ jobs'[j].token = held[w].token /\ jobs'[j].owner = w
    BY DEF Owns
<1>2. j \in Job /\ Stored(j) /\ jobs[j] \in JobRecord
    BY <1>1 DEF LeaseInv, LeaseTypeOK, Claim, HeldGivenOut, Stored
<1> SUFFICES jobs[j].token = jobs'[j].token /\ jobs[j].owner = w
    BY <1>1 DEF Owns
<1> USE <1>1, <1>2 DEF LeaseInv, LeaseTypeOK
<1>3. ASSUME NEW i \in Job, Enqueue(i)
      PROVE  jobs[j].token = jobs'[j].token /\ jobs[j].owner = w
    BY <1>3 DEF Enqueue
<1>4. ASSUME NEW i \in Job, FailExhausted(i)
      PROVE  jobs[j].token = jobs'[j].token /\ jobs[j].owner = w
    BY <1>4 DEF FailExhausted, MaxAttemptsFailedJob, JobRecord
<1>5. ASSUME NEW i \in Job, RequestCancellation(i)
      PROVE  jobs[j].token = jobs'[j].token /\ jobs[j].owner = w
    BY <1>5 DEF RequestCancellation, CancelRequestedJob, JobRecord
<1>6. ASSUME NEW i \in Job, LeaseExpires(i)
      PROVE  jobs[j].token = jobs'[j].token /\ jobs[j].owner = w
    BY <1>6 DEF LeaseExpires, JobRecord
<1>7. ASSUME NEW v \in Worker, NEW i \in Job, ClaimJob(v, i)
      PROVE  jobs[j].token = jobs'[j].token /\ jobs[j].owner = w
  <2>1. v # w
      BY <1>7 DEF ClaimJob
  <2>2. i # j
      BY <1>7, <2>1 DEF ClaimJob, ClaimedJob, JobRecord
  <2>3. QED
      BY <1>7, <2>2 DEF ClaimJob
<1>8. ASSUME NEW v \in Worker, Heartbeat(v)
      PROVE  jobs[j].token = jobs'[j].token /\ jobs[j].owner = w
    BY <1>8, OwnedIsStored DEF Heartbeat, JobRecord
<1>9. ASSUME NEW v \in Worker, SaveCheckpoint(v) \/ Abandon(v)
      PROVE  jobs[j].token = jobs'[j].token /\ jobs[j].owner = w
    BY <1>9 DEF SaveCheckpoint, Abandon, leaseVars
<1>10. ASSUME NEW v \in Worker, NEW state \in Terminal, CompleteJob(v, state)
      PROVE  jobs[j].token = jobs'[j].token /\ jobs[j].owner = w
  <2>1. held[v].job # j
      BY <1>10, OwnedIsStored DEF CompleteJob, CompletedJob, JobRecord
  <2>2. QED
      BY <1>10, <2>1 DEF CompleteJob
<1>11. QED
    BY <1>3, <1>4, <1>5, <1>6, <1>7, <1>8, <1>9, <1>10 DEF LeaseNext, leaseVars

(* Two owners of jobs of one run are one worker.                           *)
LEMMA OneOwner ==
    ASSUME LeaseInv, NEW v \in Worker, NEW w \in Worker, Owns(v), Owns(w),
           MyRun(v) = MyRun(w)
    PROVE  v = w
<1>1. held[v].job \in Job /\ Stored(held[v].job) /\ held[w].job \in Job /\ Stored(held[w].job)
    BY OwnedIsStored
<1>2. held[v].job = held[w].job
    BY <1>1 DEF LeaseInv, OneJobPerRun, MyRun
<1>3. QED
    BY <1>2 DEF Owns

(* A call by whomever leaves a live lease with its owner.                  *)
LEMMA LiveLeaseStays ==
    ASSUME LeaseInv, [LeaseCall]_leaseVars, NEW w \in Worker, Owns(w),
           jobs[held[w].job].lease = "live", held'[w] = held[w]
    PROVE  (Owns(w) /\ jobs[held[w].job].lease = "live")'
<1> DEFINE j == held[w].job
           Live == /\ jobs'[j].token = jobs[j].token /\ jobs'[j].owner = jobs[j].owner
                   /\ jobs'[j].lease = "live"
<1>1. j \in Job /\ Stored(j) /\ jobs[j] \in JobRecord /\ jobs[j].state # "QUEUED"
      /\ jobs[j].lease = "live" /\ held[w] # None
    BY OwnedIsStored DEF Owns
<1> SUFFICES Live
    BY DEF Owns
<1> USE <1>1 DEF LeaseInv, LeaseTypeOK
<1>3. ASSUME NEW i \in Job, Enqueue(i) PROVE Live
    BY <1>3 DEF Enqueue
<1>4. ASSUME NEW i \in Job, FailExhausted(i) PROVE Live
    BY <1>4 DEF FailExhausted, Exhausted, Lapsed
<1>5. ASSUME NEW i \in Job, RequestCancellation(i) PROVE Live
    BY <1>5 DEF RequestCancellation, CancelRequestedJob, JobRecord
<1>7. ASSUME NEW v \in Worker, NEW i \in Job, ClaimJob(v, i) PROVE Live
    BY <1>7 DEF ClaimJob, Claimable, Lapsed
<1>8. ASSUME NEW v \in Worker, Heartbeat(v) PROVE Live
    BY <1>8, OwnedIsStored DEF Heartbeat, JobRecord
<1>9. ASSUME NEW v \in Worker, SaveCheckpoint(v) \/ Abandon(v) PROVE Live
    BY <1>9 DEF SaveCheckpoint, Abandon, leaseVars
<1>10. ASSUME NEW v \in Worker, NEW state \in Terminal, CompleteJob(v, state) PROVE Live
  <2>1. v # w
      BY <1>10 DEF CompleteJob
  <2>2. held[v].job # j
      BY <1>10, <2>1 DEF CompleteJob, Owns
  <2>3. QED
      BY <1>10, <2>2 DEF CompleteJob
<1>11. QED
    BY <1>3, <1>4, <1>5, <1>7, <1>8, <1>9, <1>10 DEF LeaseCall, leaseVars

-----------------------------------------------------------------------------
(* A worker is where it was, with the claim and the variables it had, or   *)
(* the step is one of its own.                                             *)
Still(w) == pc'[w] = pc[w] /\ mem'[w] = mem[w] /\ held'[w] = held[w]

LEMMA OthersStill ==
    ASSUME Typed, NEW v \in Worker, NEW w \in Worker, v # w,
           \/ Poll(v) \/ Work(v)
           \/ DispatchFails(v) \/ ExecutionFails(v) \/ Crash(v)
    PROVE  Still(w)
<1> USE DEF Typed, WorkersTyped, LeaseInv, LeaseTypeOK, Still, Goto, BecomesIdle, leaseVars
<1>1. CASE Poll(v)
    BY <1>1 DEF Poll, LoadOutbox, Dispatch, DeleteDispatched, ListQueued, RecoverRun,
          ClaimNext, SkipExhausted, NothingToClaim, ClaimJob, Enqueue, FailExhausted,
          workVars
<1>2. CASE Work(v)
  <2>1. ASSUME NEW check, NEW next, CheckLease(v, check, next) PROVE Still(w)
      BY <2>1 DEF CheckLease, Heartbeat
  <2>2. CASE DropCancelled(v) \/ Finish(v) \/ FailJob(v) \/ LoseLease(v)
      BY <2>2 DEF DropCancelled, Finish, FailJob, LoseLease, CompleteJob, Abandon
  <2>3. CASE \/ CheckCancelRequest(v) \/ Start(v) \/ LoadRun(v) \/ SaveRunning(v)
             \/ LoadPrior(v) \/ NextSide(v) \/ StopEarly(v)
      BY <2>3 DEF CheckCancelRequest, Start, SaveCheckpoint, LoadRun, SaveRunning,
            LoadPrior, NextSide, StopEarly
  <2>4. CASE AllExecuted(v) \/ PersistItem(v) \/ SaveProgress(v) \/ CommitFinal(v)
      BY <2>4 DEF AllExecuted, PersistItem, SaveProgress, Heartbeat, CommitFinal
  <2>5. QED
      BY <1>2, <2>1, <2>2, <2>3, <2>4 DEF Work
<1>3. CASE DispatchFails(v)
    BY <1>3 DEF DispatchFails
<1>4. CASE ExecutionFails(v)
    BY <1>4 DEF ExecutionFails
<1>5. CASE Crash(v)
    BY <1>5 DEF Crash, Abandon
<1>6. QED
    BY <1>1, <1>2, <1>3, <1>4, <1>5

LEMMA WorkerStep ==
    ASSUME Typed, [Next]_vars, NEW w \in Worker
    PROVE  \/ Still(w)
           \/ Poll(w) \/ Work(w) \/ DispatchFails(w) \/ ExecutionFails(w) \/ Crash(w)
<1>1. ASSUME NEW r \in Run, Caller(r) PROVE Still(w)
    BY <1>1 DEF Caller, CreateRun, DispatchCreated, RemoveCreated, CreatorStops,
          ReadForCancel, RequestJobCancel, CommitCancel, CancelStops, Enqueue,
          RequestCancellation, leaseVars, workVars, Still
<1>2. ASSUME NEW v \in Worker, KeepAlive(v) PROVE Still(w)
    BY <1>2 DEF KeepAlive, Heartbeat, workVars, Still
<1>3. ASSUME NEW j \in Job, Expire(j) PROVE Still(w)
    BY <1>3 DEF Expire, LeaseExpires, workVars, Still
<1>4. ASSUME UNCHANGED vars PROVE Still(w)
    BY <1>4 DEF vars, leaseVars, workVars, Still
<1>5. QED
    BY <1>1, <1>2, <1>3, <1>4, OthersStill DEF Next

-----------------------------------------------------------------------------
(* Nobody loses the lease under which it is about to write.                *)
Fenced(w) == pc[w] \in Writing => Owns(w) /\ jobs[held[w].job].lease = "live"
Fences == \A w \in Worker : Fenced(w)

(* A worker comes to a write from the check of the lease only.             *)
LEMMA WriteIsChecked ==
    ASSUME Typed, NEW w \in Worker, pc'[w] \in Writing,
           \/ Poll(w) \/ Work(w)
           \/ DispatchFails(w) \/ ExecutionFails(w) \/ Crash(w)
    PROVE  Heartbeat(w)
<1> USE DEF Typed, WorkersTyped, Goto, BecomesIdle, Writing
<1>1. CASE Poll(w)
    BY <1>1 DEF Poll, LoadOutbox, Dispatch, DeleteDispatched, ListQueued, RecoverRun,
          ClaimNext, SkipExhausted, NothingToClaim, workVars
<1>2. CASE Work(w)
  <2>1. ASSUME NEW check, NEW next, CheckLease(w, check, next) PROVE Heartbeat(w)
      BY <2>1 DEF CheckLease
  <2>2. CASE DropCancelled(w) \/ Finish(w) \/ FailJob(w) \/ LoseLease(w)
      BY <2>2 DEF DropCancelled, Finish, FailJob, LoseLease
  <2>3. CASE \/ CheckCancelRequest(w) \/ Start(w) \/ LoadRun(w) \/ SaveRunning(w)
             \/ LoadPrior(w)
      BY <2>3 DEF CheckCancelRequest, Start, LoadRun, SaveRunning, LoadPrior
  <2>4. CASE NextSide(w) \/ StopEarly(w) \/ AllExecuted(w)
      BY <2>4 DEF NextSide, StopEarly, AllExecuted
  <2>5. CASE PersistItem(w) \/ SaveProgress(w) \/ CommitFinal(w)
      BY <2>5 DEF PersistItem, SaveProgress, CommitFinal
  <2>6. QED
      BY <1>2, <2>1, <2>2, <2>3, <2>4, <2>5 DEF Work
<1>3. CASE DispatchFails(w)
    BY <1>3 DEF DispatchFails
<1>4. CASE ExecutionFails(w) \/ Crash(w)
    BY <1>4 DEF ExecutionFails, Crash
<1>5. QED
    BY <1>1, <1>2, <1>3, <1>4

LEMMA FencesInit == Init => Fences
BY DEF Init, Fences, Fenced, Writing

LEMMA FencesNext ==
    ASSUME LeaseOutlivesWrite, Typed, Fences, [Next]_vars
    PROVE  Fences'
<1> SUFFICES ASSUME NEW w \in Worker, pc'[w] \in Writing
             PROVE  (Owns(w) /\ jobs[held[w].job].lease = "live")'
    BY DEF Fences, Fenced
<1>1. LeaseInv
    BY DEF Typed
<1>2. CASE Still(w)
  <2>1. Owns(w) /\ jobs[held[w].job].lease = "live" /\ held'[w] = held[w]
      BY <1>2 DEF Still, Fences, Fenced
  <2>2. ASSUME NEW j \in Job, Expire(j)
        PROVE  (Owns(w) /\ jobs[held[w].job].lease = "live")'
    <3>1. j # held[w].job /\ held[w].job \in Job
        BY <1>1, <1>2, <2>1, <2>2, OwnedIsStored DEF Expire, Still
    <3>2. jobs'[held[w].job] = jobs[held[w].job] /\ held' = held
        BY <1>1, <2>2, <3>1 DEF Expire, LeaseExpires, LeaseInv, LeaseTypeOK
    <3>3. QED
        BY <2>1, <3>2 DEF Owns
  <2>3. QED
      BY <1>1, <2>1, <2>2, StepCalls, LiveLeaseStays
<1>3. CASE Heartbeat(w)
  <2>1. held[w].job \in Job /\ jobs[held[w].job] \in JobRecord
      BY <1>1, <1>3, OwnedIsStored DEF Heartbeat
  <2>2. QED
      BY <1>1, <1>3, <2>1 DEF Heartbeat, Owns, LeaseInv, LeaseTypeOK, JobRecord
<1>4. QED
    BY <1>2, <1>3, WorkerStep, WriteIsChecked

-----------------------------------------------------------------------------
(* A result carries the token of a claim that the store has given out.     *)
Covered(r, t) == \E j \in Job : RunOf[j] = r /\ Stored(j) /\ t <= jobs[j].token

ResultsCovered ==
    \A r \in Run, i \in Item : results[r][i] # 0 => Covered(r, results[r][i])

(* What the owner of a job read of earlier results is what is stored: only *)
(* the owner writes, and it writes only what it has not read.              *)
AfterPrior == {"case", "checkItem", "item", "progress", "checkFinal", "final"}

SeenCurrent ==
    \A w \in Worker : pc[w] \in AfterPrior /\ Owns(w) =>
        \A i \in Item :
            mem[w].seen[i] # 0 => results[MyRun(w)][i] = mem[w].seen[i]

(* The token of the owner of a job covers all results of its run.          *)
LEMMA OwnerCovers ==
    ASSUME Typed, ResultsCovered, NEW w \in Worker, Owns(w), NEW i \in Item
    PROVE  results[MyRun(w)][i] <= MyToken(w)
<1>1. /\ held[w].job \in Job /\ Stored(held[w].job) /\ held[w].token \in Nat \ {0}
      /\ MyToken(w) = jobs[held[w].job].token
    BY OwnedIsStored DEF Typed, Claim, Owns, MyToken
<1>2. MyRun(w) \in Run /\ results[MyRun(w)][i] \in Nat
    BY <1>1 DEF MyRun, Typed, StoresTyped
<1>3. CASE results[MyRun(w)][i] = 0
    BY <1>1, <1>3 DEF MyToken
<1>4. CASE results[MyRun(w)][i] # 0
  <2>1. PICK j \in Job : /\ RunOf[j] = MyRun(w) /\ Stored(j)
                         /\ results[MyRun(w)][i] <= jobs[j].token
      BY <1>2, <1>4 DEF ResultsCovered, Covered
  <2>2. j = held[w].job
      BY <1>1, <2>1 DEF Typed, LeaseInv, OneJobPerRun, MyRun
  <2>3. QED
      BY <1>1, <2>1, <2>2
<1>5. QED
    BY <1>3, <1>4

(* What is committed in the end carries tokens that are in order.          *)
LEMMA ExecutedAdvances ==
    ASSUME Typed, ResultsCovered, SeenCurrent, NEW w \in Worker,
           pc[w] = "final", Owns(w), NEW i \in Item, Executed(w)[i] # 0
    PROVE  /\ Executed(w)[i] >= results[MyRun(w)][i]
           /\ Executed(w)[i] = results[MyRun(w)][i] \/ Executed(w)[i] = MyToken(w)
<1>1. MyRun(w) \in Run /\ results[MyRun(w)][i] \in Nat
      /\ results[MyRun(w)][i] <= MyToken(w)
    BY AtWork, OwnerCovers, LabelKinds DEF Typed, StoresTyped
<1>2. MyToken(w) \in Nat
    BY AtWork, LabelKinds
<1>3. CASE mem[w].seen[i] # 0
  <2>1. results[MyRun(w)][i] = mem[w].seen[i]
      BY <1>3 DEF SeenCurrent, AfterPrior
  <2>2. QED
      BY <1>1, <1>3, <2>1 DEF Executed
<1>4. CASE mem[w].seen[i] = 0
    BY <1>1, <1>2, <1>4 DEF Executed
<1>5. QED
    BY <1>3, <1>4

(* The token of a job never falls.                                         *)
LEMMA TokensGrow ==
    ASSUME LeaseInv, [LeaseNext]_leaseVars, NEW j \in Job, Stored(j)
    PROVE  jobs'[j] # None /\ jobs'[j].token >= jobs[j].token
<1> DEFINE Grows == jobs'[j] # None /\ jobs'[j].token >= jobs[j].token
<1>1. jobs[j] \in JobRecord /\ jobs[j].token \in Nat
    BY DEF LeaseInv, LeaseTypeOK, Stored, JobRecord
<1> USE <1>1 DEF LeaseInv, LeaseTypeOK
<1>2. ASSUME NEW i \in Job, Enqueue(i) PROVE Grows
    BY <1>2 DEF Enqueue, Stored
<1>3. ASSUME NEW i \in Job, NEW job \in JobRecord, jobs' = [jobs EXCEPT ![i] = job],
             i = j => job.token >= jobs[j].token
      PROVE  Grows
    BY <1>3 DEF Stored
<1>4. ASSUME NEW i \in Job, FailExhausted(i) PROVE Grows
  <2>1. jobs[i] \in JobRecord
      BY <1>4 DEF FailExhausted, Exhausted, Lapsed, Stored
  <2>2. MaxAttemptsFailedJob(jobs[i]) \in JobRecord
        /\ MaxAttemptsFailedJob(jobs[i]).token = jobs[i].token
      BY <2>1 DEF MaxAttemptsFailedJob, JobRecord, JobState, Terminal
  <2>3. QED
      BY <1>3, <1>4, <2>2 DEF FailExhausted
<1>5. ASSUME NEW i \in Job, RequestCancellation(i) PROVE Grows
  <2>1. jobs[i] \in JobRecord
      BY <1>5 DEF RequestCancellation, Stored
  <2>2. CancelRequestedJob(jobs[i]) \in JobRecord
        /\ CancelRequestedJob(jobs[i]).token = jobs[i].token
      BY <2>1 DEF CancelRequestedJob, JobRecord
  <2>3. QED
      BY <1>3, <1>5, <2>2 DEF RequestCancellation
<1>6. ASSUME NEW i \in Job, LeaseExpires(i) PROVE Grows
  <2>1. jobs[i] \in JobRecord
      BY <1>6 DEF LeaseExpires, Stored
  <2>2. [jobs[i] EXCEPT !.lease = "expired"] \in JobRecord
        /\ [jobs[i] EXCEPT !.lease = "expired"].token = jobs[i].token
      BY <2>1 DEF JobRecord
  <2>3. jobs' = [jobs EXCEPT ![i] = [jobs[i] EXCEPT !.lease = "expired"]]
      BY <1>6 DEF LeaseExpires
  <2>4. QED
      BY <1>3, <2>2, <2>3
<1>7. ASSUME NEW v \in Worker, NEW i \in Job, ClaimJob(v, i) PROVE Grows
  <2>1. jobs[i] \in JobRecord /\ (jobs[i].state = "RUNNING" => jobs[i].attempt < MaxAttempts)
      BY <1>7 DEF ClaimJob, Claimable, Lapsed, Stored
  <2>2. ClaimedJob(jobs[i], v) \in JobRecord
      BY <2>1, RecordTypes
  <2>3. ClaimedJob(jobs[i], v).token = jobs[i].token + 1
      BY <2>1 DEF ClaimedJob, JobRecord
  <2>4. QED
      BY <1>3, <1>7, <2>2, <2>3 DEF ClaimJob
<1>8. ASSUME NEW v \in Worker, Heartbeat(v) PROVE Grows
  <2> DEFINE i == held[v].job
             job == [jobs[i] EXCEPT !.lease = "live"]
  <2>1. i \in Job /\ jobs[i] \in JobRecord
      BY <1>8, OwnedIsStored DEF Heartbeat
  <2>2. job \in JobRecord /\ job.token = jobs[i].token
      BY <2>1 DEF JobRecord
  <2>3. jobs' = [jobs EXCEPT ![i] = job]
      BY <1>8 DEF Heartbeat
  <2> HIDE DEF i, job
  <2>4. QED
      BY <1>3, <2>1, <2>2, <2>3
<1>9. ASSUME NEW v \in Worker, NEW state \in Terminal, CompleteJob(v, state)
      PROVE  Grows
  <2> DEFINE i == held[v].job
             job == CompletedJob(jobs[i], state)
  <2>1. i \in Job /\ jobs[i] \in JobRecord
      BY <1>9, OwnedIsStored DEF CompleteJob
  <2>2. job \in JobRecord /\ job.token = jobs[i].token
      BY <2>1 DEF CompletedJob, JobRecord, JobState
  <2>3. jobs' = [jobs EXCEPT ![i] = job]
      BY <1>9 DEF CompleteJob
  <2> HIDE DEF i, job
  <2>4. QED
      BY <1>3, <2>1, <2>2, <2>3
<1>10. ASSUME jobs' = jobs PROVE Grows
    BY <1>10 DEF Stored
<1>11. ASSUME NEW v \in Worker, SaveCheckpoint(v) \/ Abandon(v) PROVE Grows
    BY <1>10, <1>11 DEF SaveCheckpoint, Abandon, leaseVars
<1>12. QED
    BY <1>2, <1>4, <1>5, <1>6, <1>7, <1>8, <1>9, <1>10, <1>11 DEF LeaseNext, leaseVars

LEMMA CoveredStays ==
    ASSUME LeaseInv, [LeaseNext]_leaseVars, NEW r \in Run, NEW t \in Nat, Covered(r, t)
    PROVE  \E j \in Job : RunOf[j] = r /\ jobs'[j] # None /\ t <= jobs'[j].token
<1>1. PICK j \in Job : RunOf[j] = r /\ Stored(j) /\ t <= jobs[j].token
    BY DEF Covered
<1>2. jobs'[j] # None /\ jobs'[j].token >= jobs[j].token /\ LeaseTypeOK'
    BY <1>1, TokensGrow, LeaseNextInv DEF LeaseInv
<1>3. jobs[j].token \in Nat /\ jobs'[j].token \in Nat
    BY <1>1, <1>2 DEF LeaseInv, LeaseTypeOK, Stored, JobRecord
<1>4. QED
    BY <1>1, <1>2, <1>3

(* Who writes results owns the job, and its token covers what it writes.   *)
LEMMA WriterCovers ==
    ASSUME Typed, Fences, NEW w \in Worker, pc[w] \in Writing
    PROVE  Owns(w) /\ Covered(MyRun(w), MyToken(w))
<1>1. Owns(w)
    BY DEF Fences, Fenced
<1>2. held[w] \in Claim /\ held[w].job \in Job /\ Stored(held[w].job)
    BY <1>1, OwnedIsStored DEF Typed
<1>3. held[w].token <= jobs[held[w].job].token
    BY <1>1, <1>2 DEF Typed, LeaseInv, HeldGivenOut, Owns
<1>4. QED
    BY <1>1, <1>2, <1>3 DEF Covered, MyRun, MyToken

(* What a step writes into the results of a run.                           *)
LEMMA ResultChange ==
    ASSUME Typed, Fences, ResultsCovered, SeenCurrent, [Next]_vars,
           NEW r \in Run, NEW i \in Item
    PROVE  \/ results'[r][i] = results[r][i]
           \/ results'[r][i] = 0
           \/ \E w \in Worker :
                 /\ pc[w] \in Writing /\ Owns(w) /\ MyRun(w) = r
                 /\ results'[r][i] = MyToken(w)
<1> DEFINE Change == \/ results'[r][i] = results[r][i]
                     \/ results'[r][i] = 0
                     \/ \E w \in Worker :
                          /\ pc[w] \in Writing /\ Owns(w) /\ MyRun(w) = r
                          /\ results'[r][i] = MyToken(w)
<1>1. results \in [Run -> [Item -> Nat]]
    BY DEF Typed, StoresTyped
<1>2. ASSUME NEW w \in Worker, PersistItem(w) PROVE Change
  <2>1. pc[w] \in Writing
      BY <1>2 DEF PersistItem, Writing
  <2>2. results' = [results EXCEPT ![MyRun(w)][mem[w].at] = MyToken(w)]
      BY <1>2 DEF PersistItem
  <2>3. CASE r = MyRun(w) /\ i = mem[w].at
      BY <1>1, <2>1, <2>2, <2>3, WriterCovers
  <2>4. CASE ~(r = MyRun(w) /\ i = mem[w].at)
      BY <1>1, <2>2, <2>4
  <2>5. QED
      BY <2>3, <2>4
<1>3. ASSUME NEW w \in Worker, CommitFinal(w) PROVE Change
  <2>1. pc[w] \in Writing /\ pc[w] = "final" /\ Owns(w)
      BY <1>3, WriterCovers DEF CommitFinal, Writing
  <2>2. results' = [results EXCEPT ![MyRun(w)] = Executed(w)]
      BY <1>3 DEF CommitFinal
  <2>3. CASE r = MyRun(w)
    <3>1. results'[r][i] = Executed(w)[i]
        BY <1>1, <2>2, <2>3
    <3>2. QED
        BY <2>1, <2>3, <3>1, ExecutedAdvances
  <2>4. CASE r # MyRun(w)
      BY <1>1, <2>2, <2>4
  <2>5. QED
      BY <2>3, <2>4
<1>4. ASSUME NEW q \in Run, CreateRun(q) \/ CommitCancel(q) PROVE Change
    BY <1>4 DEF CreateRun, CommitCancel
<1>5. ASSUME NEW w \in Worker, SaveRunning(w) PROVE Change
    BY <1>5 DEF SaveRunning
<1>6. ASSUME UNCHANGED <<runs, results>> PROVE Change
    BY <1>6
<1>7. QED
    BY <1>2, <1>3, <1>4, <1>5, <1>6, StoresChange

LEMMA ResultsCoveredNext ==
    ASSUME Typed, Fences, ResultsCovered, SeenCurrent, [Next]_vars
    PROVE  ResultsCovered'
<1>1. LeaseInv /\ [LeaseNext]_leaseVars /\ results \in [Run -> [Item -> Nat]]
    BY StepImplements DEF Typed, StoresTyped
<1> SUFFICES ASSUME NEW r \in Run, NEW i \in Item, results'[r][i] # 0
             PROVE  \E j \in Job : /\ RunOf[j] = r /\ jobs'[j] # None
                                   /\ results'[r][i] <= jobs'[j].token
    BY DEF ResultsCovered, Covered, Stored
<1>2. CASE results'[r][i] = results[r][i]
  <2>1. results[r][i] \in Nat /\ Covered(r, results[r][i])
      BY <1>1, <1>2 DEF ResultsCovered
  <2>2. QED
      BY <1>1, <1>2, <2>1, CoveredStays
<1>3. ASSUME NEW w \in Worker, pc[w] \in Writing, Owns(w), MyRun(w) = r,
             results'[r][i] = MyToken(w)
      PROVE  \E j \in Job : /\ RunOf[j] = r /\ jobs'[j] # None
                            /\ results'[r][i] <= jobs'[j].token
  <2>1. Covered(r, MyToken(w))
      BY <1>3, WriterCovers
  <2>2. MyToken(w) \in Nat
      BY <1>3, AtWork, LabelKinds DEF Writing
  <2>3. QED
      BY <1>1, <1>3, <2>1, <2>2, CoveredStays
<1>4. QED
    BY <1>2, <1>3, ResultChange

(* The results of a run whose job has an owner are written by the owner.   *)
LEMMA OwnerWrites ==
    ASSUME Typed, Fences, [Next]_vars, NEW w \in Worker, Owns(w),
           results'[MyRun(w)] # results[MyRun(w)]
    PROVE  PersistItem(w) \/ CommitFinal(w)
<1>1. results \in [Run -> [Item -> Nat]] /\ LeaseInv
    BY DEF Typed, StoresTyped
<1>2. results' # results
    OBVIOUS
<1>3. PICK v \in Worker : PersistItem(v) \/ CommitFinal(v)
    BY <1>2, StoresChange DEF CreateRun, CommitCancel, SaveRunning
<1>4. pc[v] \in Writing /\ Owns(v)
    BY <1>3, WriterCovers DEF PersistItem, CommitFinal, Writing
<1>5. MyRun(v) = MyRun(w)
  <2>1. CASE PersistItem(v)
    <3>1. results' = [results EXCEPT ![MyRun(v)][mem[v].at] = MyToken(v)]
        BY <2>1 DEF PersistItem
    <3>2. QED
        BY <1>1, <3>1
  <2>2. CASE CommitFinal(v)
    <3>1. results' = [results EXCEPT ![MyRun(v)] = Executed(v)]
        BY <2>2 DEF CommitFinal
    <3>2. QED
        BY <1>1, <3>1
  <2>3. QED
      BY <1>3, <2>1, <2>2
<1>6. QED
    BY <1>1, <1>3, <1>4, <1>5, OneOwner

(* A worker that stays after its read of earlier results, with what it     *)
(* read, while the results of its run stay: nothing is to be shown.        *)
LEMMA SeenStays ==
    ASSUME Typed, SeenCurrent, [LeaseNext]_leaseVars, NEW w \in Worker,
           pc[w] \in AfterPrior, held'[w] = held[w], Owns(w)',
           mem'[w].seen = mem[w].seen, results'[MyRun(w)] = results[MyRun(w)],
           NEW i \in Item, mem'[w].seen[i] # 0
    PROVE  results'[MyRun(w)'][i] = mem'[w].seen[i]
<1>1. Owns(w)
    BY OwnerWas DEF Typed
<1>2. results[MyRun(w)][i] = mem[w].seen[i]
    BY <1>1 DEF SeenCurrent
<1>3. MyRun(w)' = MyRun(w)
    BY DEF MyRun
<1>4. QED
    BY <1>2, <1>3

(* The steps of a worker that leave it after its read of earlier results.  *)
LEMMA AfterPriorSteps ==
    ASSUME Typed, NEW w \in Worker, pc'[w] \in AfterPrior,
           \/ Poll(w) \/ Work(w)
           \/ DispatchFails(w) \/ ExecutionFails(w) \/ Crash(w)
    PROVE  \/ LoadPrior(w) \/ PersistItem(w)
           \/ /\ pc[w] \in AfterPrior /\ held'[w] = held[w]
              /\ mem'[w].seen = mem[w].seen /\ results' = results
<1> DEFINE Stays == /\ pc[w] \in AfterPrior /\ held'[w] = held[w]
                    /\ mem'[w].seen = mem[w].seen /\ results' = results
<1> USE DEF Typed, WorkersTyped, Goto, BecomesIdle, AfterPrior
<1>1. ASSUME Poll(w) PROVE FALSE
    BY <1>1 DEF Poll, LoadOutbox, Dispatch, DeleteDispatched, ListQueued, RecoverRun,
          ClaimNext, SkipExhausted, NothingToClaim, workVars
<1>2. ASSUME DispatchFails(w) \/ ExecutionFails(w) \/ Crash(w) PROVE FALSE
    BY <1>2 DEF DispatchFails, ExecutionFails, Crash
<1>3. ASSUME \/ DropCancelled(w) \/ Finish(w) \/ FailJob(w) \/ LoseLease(w)
             \/ CheckCancelRequest(w) \/ Start(w) \/ LoadRun(w) \/ SaveRunning(w)
             \/ CommitFinal(w) \/ CheckLease(w, "checkSave", "save")
      PROVE  FALSE
    BY <1>3 DEF DropCancelled, Finish, FailJob, LoseLease, CheckCancelRequest, Start,
          LoadRun, SaveRunning, CommitFinal, CheckLease
<1>4. ASSUME CheckLease(w, "checkItem", "item") \/ CheckLease(w, "checkFinal", "final")
      PROVE  Stays
    BY <1>4 DEF CheckLease, Heartbeat, runVars
<1>5. mem[w] \in Memory /\ mem \in [Worker -> Memory]
    OBVIOUS
<1>6. ASSUME NEW m \in Memory, m.seen = mem[w].seen, mem' = [mem EXCEPT ![w] = m]
      PROVE  mem'[w].seen = mem[w].seen
    BY <1>5, <1>6
<1>7. ASSUME NextSide(w) PROVE Stays
    BY <1>5, <1>7 DEF NextSide, leaseVars, runVars, Memory
<1>8. ASSUME StopEarly(w) \/ AllExecuted(w) PROVE Stays
    BY <1>5, <1>8 DEF StopEarly, AllExecuted, leaseVars, runVars, Memory
<1>9. ASSUME SaveProgress(w) PROVE Stays
    BY <1>5, <1>9 DEF SaveProgress, Heartbeat, runVars, Memory
<1>10. QED
    BY <1>1, <1>2, <1>3, <1>4, <1>7, <1>8, <1>9 DEF Work

LEMMA SeenCurrentNext ==
    ASSUME Typed, Fences, SeenCurrent, [Next]_vars
    PROVE  SeenCurrent'
<1>1. [LeaseNext]_leaseVars /\ results \in [Run -> [Item -> Nat]]
    BY StepImplements DEF Typed, StoresTyped
<1> SUFFICES ASSUME NEW w \in Worker, pc'[w] \in AfterPrior, Owns(w)',
                    NEW i \in Item, mem'[w].seen[i] # 0
             PROVE  results'[MyRun(w)'][i] = mem'[w].seen[i]
    BY DEF SeenCurrent
<1>2. CASE Still(w)
  <2>1. Owns(w)
      BY <1>1, <1>2, OwnerWas DEF Still, Typed
  <2>2. ~PersistItem(w) /\ ~CommitFinal(w)
      BY <1>2 DEF Still, PersistItem, CommitFinal, Goto, Typed, WorkersTyped
  <2>3. results'[MyRun(w)] = results[MyRun(w)]
      BY <2>1, <2>2, OwnerWrites
  <2>4. QED
      BY <1>1, <1>2, <2>3, SeenStays DEF Still
<1>3. CASE LoadPrior(w)
  <2>1. mem'[w].seen = results[MyRun(w)]
      BY <1>3 DEF LoadPrior, Typed, WorkersTyped, Memory
  <2>2. results' = results /\ MyRun(w)' = MyRun(w)
      BY <1>3 DEF LoadPrior, runVars, leaseVars, MyRun
  <2>3. QED
      BY <2>1, <2>2
<1>4. CASE PersistItem(w)
  <2>1. held' = held /\ mem' = mem /\ MyRun(w)' = MyRun(w) /\ pc[w] \in AfterPrior
      BY <1>4 DEF PersistItem, leaseVars, MyRun, AfterPrior
  <2>2. Owns(w)
      BY <1>1, <2>1, OwnerWas DEF Typed
  <2>3. i # mem[w].at
      BY <1>4, <2>1 DEF PersistItem, Typed, WorkersPlaced, Placed
  <2>4. results'[MyRun(w)][i] = results[MyRun(w)][i]
      BY <1>1, <1>4, <2>3 DEF PersistItem
  <2>5. QED
      BY <2>1, <2>2, <2>4 DEF SeenCurrent
<1>5. CASE /\ pc[w] \in AfterPrior /\ held'[w] = held[w]
           /\ mem'[w].seen = mem[w].seen /\ results' = results
    BY <1>1, <1>5, SeenStays
<1>6. QED
    BY <1>2, <1>3, <1>4, <1>5, WorkerStep, AfterPriorSteps

-----------------------------------------------------------------------------
(* The inductive invariant, for deployments whose leases last.             *)
FencedInv == Typed /\ Fences /\ ResultsCovered /\ SeenCurrent

LEMMA FencedInit == Init => FencedInv
<1> SUFFICES ASSUME Init PROVE FencedInv
    OBVIOUS
<1>1. ResultsCovered
    BY DEF Init, ResultsCovered, NoResults
<1>2. SeenCurrent
    BY DEF Init, SeenCurrent, AfterPrior
<1>3. QED
    BY <1>1, <1>2, TypedInit, FencesInit DEF FencedInv

LEMMA FencedNext ==
    ASSUME LeaseOutlivesWrite
    PROVE  FencedInv /\ [Next]_vars => FencedInv'
BY TypedNext, FencesNext, ResultsCoveredNext, SeenCurrentNext DEF FencedInv

LEMMA FencedInvariance ==
    ASSUME LeaseOutlivesWrite
    PROVE  Spec => []FencedInv
BY FencedInit, FencedNext, PTL DEF Spec

(* If no lease runs out between its check and the write, a worker that     *)
(* lost its job overwrites no result of its successor: the results of a    *)
(* run are replaced by those of later claims only.                         *)
THEOREM LateWorkersOverwriteNothing ==
    ASSUME LeaseOutlivesWrite
    PROVE  Spec => ResultsOnlyAdvance
<1> DEFINE Advance == \A r \in Run, i \in Item :
                         results'[r][i] # 0 => results'[r][i] >= results[r][i]
<1>1. ASSUME FencedInv, [Next]_vars PROVE Advance
  <2> SUFFICES ASSUME NEW r \in Run, NEW i \in Item, results'[r][i] # 0
               PROVE  results'[r][i] >= results[r][i]
      OBVIOUS
  <2>1. results[r][i] \in Nat
      BY <1>1 DEF FencedInv, Typed, StoresTyped
  <2>2. ASSUME NEW w \in Worker, pc[w] \in Writing, Owns(w), MyRun(w) = r,
               results'[r][i] = MyToken(w)
        PROVE  results'[r][i] >= results[r][i]
    <3>1. results[r][i] <= MyToken(w)
        BY <1>1, <2>2, OwnerCovers DEF FencedInv
    <3>2. MyToken(w) \in Nat
        BY <1>1, <2>2, AtWork, LabelKinds DEF Writing, FencedInv
    <3>3. QED
        BY <2>1, <2>2, <3>1, <3>2
  <2>3. CASE results'[r][i] = results[r][i]
      BY <2>1, <2>3
  <2>4. QED
      BY <1>1, <2>2, <2>3, ResultChange DEF FencedInv
<1>2. FencedInv /\ [Next]_vars => [Advance]_vars
    BY <1>1
<1>3. QED
    BY <1>2, FencedInvariance, PTL DEF Spec, ResultsOnlyAdvance

-----------------------------------------------------------------------------
(* Jobs and runs agree in the end.                                         *)

CompletedUnowned ==
    \A j \in Job : Stored(j) /\ jobs[j].state = "COMPLETED" => jobs[j].owner = None

EndedRun(r) == runs[r] \in {"COMPLETED", "CANCELLED"}

FinishEnded ==
    \A w \in Worker : pc[w] = "finish" /\ Owns(w) => EndedRun(MyRun(w))

(* A job becomes COMPLETED by its owner, which gives it back.              *)
LEMMA BecomesCompleted ==
    ASSUME LeaseInv, [LeaseNext]_leaseVars, NEW j \in Job,
           jobs'[j] # None, jobs'[j].state = "COMPLETED",
           ~(Stored(j) /\ jobs[j].state = "COMPLETED")
    PROVE  /\ jobs'[j].owner = None
           /\ \E w \in Worker : Owns(w) /\ held[w].job = j /\ held'[w] = None
<1> USE DEF LeaseInv, LeaseTypeOK
<1>1. ASSUME NEW i \in Job, Enqueue(i) PROVE FALSE
    BY <1>1 DEF Enqueue, NewJob, Stored
<1>2. ASSUME NEW i \in Job, FailExhausted(i) PROVE FALSE
    BY <1>2 DEF FailExhausted, Exhausted, Lapsed, MaxAttemptsFailedJob, JobRecord, Stored
<1>3. ASSUME NEW i \in Job, RequestCancellation(i) PROVE FALSE
    BY <1>3 DEF RequestCancellation, CancelRequestedJob, JobRecord, Stored
<1>4. ASSUME NEW i \in Job, LeaseExpires(i) PROVE FALSE
    BY <1>4 DEF LeaseExpires, JobRecord, Stored
<1>5. ASSUME NEW v \in Worker, NEW i \in Job, ClaimJob(v, i) PROVE FALSE
    BY <1>5 DEF ClaimJob, Claimable, Lapsed, ClaimedJob, JobRecord, Stored
<1>6. ASSUME NEW v \in Worker, Heartbeat(v) PROVE FALSE
    BY <1>6, OwnedIsStored DEF Heartbeat, JobRecord, Stored
<1>7. ASSUME jobs' = jobs PROVE FALSE
    BY <1>7 DEF Stored
<1>8. ASSUME NEW v \in Worker, NEW state \in Terminal, CompleteJob(v, state)
      PROVE  jobs'[j].owner = None /\ Owns(v) /\ held[v].job = j /\ held'[v] = None
    BY <1>8, OwnedIsStored DEF CompleteJob, CompletedJob, JobRecord, Stored
<1>9. QED
    BY <1>1, <1>2, <1>3, <1>4, <1>5, <1>6, <1>7, <1>8
       DEF LeaseNext, SaveCheckpoint, Abandon, leaseVars

(* A COMPLETED job stays without an owner.                                 *)
LEMMA CompletedUnownedNext ==
    ASSUME LeaseInv, CompletedUnowned, [LeaseNext]_leaseVars
    PROVE  CompletedUnowned'
<1> SUFFICES ASSUME NEW j \in Job, jobs'[j] # None, jobs'[j].state = "COMPLETED",
                    Stored(j), jobs[j].state = "COMPLETED"
             PROVE  jobs'[j].owner = None
    BY BecomesCompleted DEF CompletedUnowned, Stored
<1>1. jobs[j].owner = None /\ jobs[j] \in JobRecord
    BY DEF CompletedUnowned, LeaseInv, LeaseTypeOK, Stored
<1> DEFINE Same == jobs'[j] = jobs[j]
<1> USE <1>1 DEF LeaseInv, LeaseTypeOK
<1>2. ASSUME NEW i \in Job,
             Enqueue(i) \/ FailExhausted(i) \/ RequestCancellation(i) \/ LeaseExpires(i)
      PROVE  Same
    BY <1>2 DEF Enqueue, FailExhausted, Exhausted, Lapsed, RequestCancellation,
          CancelRequestedJob, Terminal, LeaseExpires
<1>3. ASSUME NEW v \in Worker, NEW i \in Job, ClaimJob(v, i) PROVE Same
    BY <1>3 DEF ClaimJob, Claimable, Lapsed
<1>4. ASSUME NEW v \in Worker, Heartbeat(v) \/ SaveCheckpoint(v) \/ Abandon(v) PROVE Same
    BY <1>4 DEF Heartbeat, SaveCheckpoint, Abandon, Owns, leaseVars
<1>5. ASSUME NEW v \in Worker, NEW state \in Terminal, CompleteJob(v, state) PROVE Same
    BY <1>5 DEF CompleteJob, Owns
<1>6. QED
    BY <1>2, <1>3, <1>4, <1>5 DEF LeaseNext, leaseVars

(* Only the owner of its job takes a run that has ended back to RUNNING.   *)
LEMMA EndedRunStays ==
    ASSUME Typed, Fences, [Next]_vars, NEW r \in Run, EndedRun(r)
    PROVE  \/ EndedRun(r)'
           \/ \E v \in Worker : SaveRunning(v) /\ Owns(v) /\ MyRun(v) = r
<1>1. runs \in [Run -> RunStatus \union {None}]
    BY DEF Typed, StoresTyped
<1>2. ASSUME NEW q \in Run, CreateRun(q) PROVE EndedRun(r)'
    BY <1>1, <1>2 DEF CreateRun, EndedRun, RunStatus
<1>3. ASSUME NEW q \in Run, CommitCancel(q) PROVE EndedRun(r)'
    BY <1>1, <1>3 DEF CommitCancel, EndedRun
<1>4. ASSUME NEW v \in Worker, SaveRunning(v)
      PROVE  EndedRun(r)' \/ (Owns(v) /\ MyRun(v) = r)
    BY <1>1, <1>4, WriterCovers DEF SaveRunning, Writing, EndedRun
<1>5. ASSUME NEW v \in Worker, CommitFinal(v) PROVE EndedRun(r)'
  <2>1. mem[v].outcome \in {"COMPLETED", "CANCELLED"}
      BY <1>5 DEF CommitFinal, Typed, WorkersPlaced, Placed
  <2>2. QED
      BY <1>1, <1>5, <2>1 DEF CommitFinal, EndedRun
<1>6. ASSUME NEW v \in Worker, PersistItem(v) PROVE EndedRun(r)'
    BY <1>6 DEF PersistItem, EndedRun
<1>7. ASSUME UNCHANGED <<runs, results>> PROVE EndedRun(r)'
    BY <1>7 DEF EndedRun
<1>8. QED
    BY <1>2, <1>3, <1>4, <1>5, <1>6, <1>7, StoresChange

(* The steps that bring a worker to the completion of its job.             *)
LEMMA ComesToFinish ==
    ASSUME Typed, NEW w \in Worker, pc'[w] = "finish",
           \/ Poll(w) \/ Work(w)
           \/ DispatchFails(w) \/ ExecutionFails(w) \/ Crash(w)
    PROVE  LoadRun(w) \/ CommitFinal(w)
<1> USE DEF Typed, WorkersTyped, Goto, BecomesIdle
<1>1. ASSUME Poll(w) PROVE FALSE
    BY <1>1 DEF Poll, LoadOutbox, Dispatch, DeleteDispatched, ListQueued, RecoverRun,
          ClaimNext, SkipExhausted, NothingToClaim, workVars
<1>2. ASSUME DispatchFails(w) \/ ExecutionFails(w) \/ Crash(w) PROVE FALSE
    BY <1>2 DEF DispatchFails, ExecutionFails, Crash
<1>3. ASSUME \/ DropCancelled(w) \/ Finish(w) \/ FailJob(w) \/ LoseLease(w)
             \/ CheckCancelRequest(w) \/ Start(w) \/ SaveRunning(w) \/ LoadPrior(w)
             \/ CheckLease(w, "checkSave", "save")
      PROVE  FALSE
    BY <1>3 DEF DropCancelled, Finish, FailJob, LoseLease, CheckCancelRequest, Start,
          SaveRunning, LoadPrior, CheckLease
<1>4. ASSUME \/ NextSide(w) \/ StopEarly(w) \/ AllExecuted(w) \/ PersistItem(w)
             \/ SaveProgress(w) \/ CheckLease(w, "checkItem", "item")
             \/ CheckLease(w, "checkFinal", "final")
      PROVE  FALSE
    BY <1>4 DEF NextSide, StopEarly, AllExecuted, PersistItem, SaveProgress, CheckLease
<1>5. QED
    BY <1>1, <1>2, <1>3, <1>4 DEF Work

LEMMA FinishEndedNext ==
    ASSUME Typed, Fences, FinishEnded, [Next]_vars
    PROVE  FinishEnded'
<1> SUFFICES ASSUME NEW w \in Worker, pc'[w] = "finish", Owns(w)'
             PROVE  runs'[MyRun(w)'] \in {"COMPLETED", "CANCELLED"}
    BY DEF FinishEnded, EndedRun
<1>1. [LeaseNext]_leaseVars /\ runs \in [Run -> RunStatus \union {None}] /\ LeaseInv
    BY StepImplements DEF Typed, StoresTyped
<1>2. CASE Still(w)
  <2>1. Owns(w) /\ pc[w] = "finish" /\ MyRun(w)' = MyRun(w)
      BY <1>1, <1>2, OwnerWas DEF Still, MyRun
  <2>2. EndedRun(MyRun(w)) /\ MyRun(w) \in Run
      BY <2>1, AtWork, LabelKinds DEF FinishEnded
  <2>3. ASSUME NEW v \in Worker, SaveRunning(v), Owns(v), MyRun(v) = MyRun(w) PROVE FALSE
    <3>1. v = w
        BY <1>1, <2>1, <2>3, OneOwner
    <3>2. QED
        BY <2>1, <2>3, <3>1 DEF SaveRunning
  <2>4. QED
      BY <2>1, <2>2, <2>3, EndedRunStays DEF EndedRun
<1>3. CASE LoadRun(w)
  <2>1. Ended(runs[MyRun(w)]) /\ runs' = runs /\ MyRun(w)' = MyRun(w)
      BY <1>3 DEF LoadRun, Goto, Typed, WorkersTyped, runVars, leaseVars, MyRun
  <2>2. QED
      BY <2>1 DEF Ended
<1>4. CASE CommitFinal(w)
  <2>1. mem[w].outcome \in {"COMPLETED", "CANCELLED"} /\ MyRun(w) \in Run
        /\ MyRun(w)' = MyRun(w)
      BY <1>4, AtWork, LabelKinds
         DEF CommitFinal, Typed, WorkersPlaced, Placed, leaseVars, MyRun
  <2>2. QED
      BY <1>1, <1>4, <2>1 DEF CommitFinal
<1>5. QED
    BY <1>2, <1>3, <1>4, WorkerStep, ComesToFinish

(* A job becomes COMPLETED by the last call of a worker that finished.     *)
LEMMA CompletedByFinish ==
    ASSUME Typed, [Next]_vars, NEW j \in Job,
           jobs'[j] # None, jobs'[j].state = "COMPLETED",
           ~(Stored(j) /\ jobs[j].state = "COMPLETED")
    PROVE  \E w \in Worker : Finish(w) /\ Owns(w) /\ held[w].job = j
<1>1. LeaseInv /\ [LeaseNext]_leaseVars
    BY StepImplements DEF Typed
<1>2. PICK w \in Worker : Owns(w) /\ held[w].job = j /\ held'[w] = None
    BY <1>1, BecomesCompleted
<1>3. held[w] # None /\ pc[w] \in Working
    BY <1>2 DEF Owns, Typed, ClaimsAtWork
<1>4. jobs[j] \in JobRecord /\ jobs' # jobs
    BY <1>1, <1>2, OwnedIsStored DEF Stored
<1>5. ~Still(w)
    BY <1>2, <1>3 DEF Still
<1>6. ASSUME Poll(w) \/ DispatchFails(w) PROVE FALSE
    BY <1>3, <1>6, LabelKinds
       DEF Poll, LoadOutbox, Dispatch, DeleteDispatched, ListQueued, RecoverRun,
           ClaimNext, SkipExhausted, NothingToClaim, DispatchFails, Polling
<1>7. ASSUME ExecutionFails(w) \/ Crash(w) PROVE FALSE
    BY <1>4, <1>7 DEF ExecutionFails, Crash, Abandon, leaseVars
<1>8. ASSUME DropCancelled(w) \/ FailJob(w) PROVE FALSE
  <2>1. PICK state \in {"CANCELLED", "FAILED"} : CompleteJob(w, state)
      BY <1>8 DEF DropCancelled, FailJob
  <2>2. jobs'[j] = CompletedJob(jobs[j], state)
      BY <1>1, <1>2, <2>1 DEF CompleteJob, LeaseInv, LeaseTypeOK
  <2>3. CompletedJob(jobs[j], state).state = state
      BY <1>4 DEF CompletedJob, JobRecord
  <2>4. QED
      BY <2>2, <2>3
<1>9. ASSUME NEW check, NEW next, CheckLease(w, check, next) PROVE FALSE
    BY <1>2, <1>3, <1>9 DEF CheckLease, Heartbeat
<1>10. ASSUME \/ CheckCancelRequest(w) \/ Start(w) \/ LoadRun(w) \/ SaveRunning(w)
              \/ LoadPrior(w) \/ NextSide(w) \/ StopEarly(w) \/ AllExecuted(w)
              \/ PersistItem(w) \/ SaveProgress(w) \/ CommitFinal(w) \/ LoseLease(w)
       PROVE  FALSE
    BY <1>2, <1>3, <1>4, <1>10
       DEF CheckCancelRequest, Start, SaveCheckpoint, LoadRun, SaveRunning, LoadPrior,
           NextSide, StopEarly, AllExecuted, PersistItem, SaveProgress, Heartbeat,
           CommitFinal, LoseLease, Abandon, leaseVars
<1>11. QED
    BY <1>2, <1>5, <1>6, <1>7, <1>8, <1>9, <1>10, WorkerStep DEF Work

LEMMA CompletedJobEndedRunNext ==
    ASSUME Typed, Fences, FinishEnded, CompletedUnowned, CompletedJobEndedRun, [Next]_vars
    PROVE  CompletedJobEndedRun'
<1> SUFFICES ASSUME NEW j \in Job, jobs'[j] # None, jobs'[j].state = "COMPLETED"
             PROVE  EndedRun(RunOf[j])'
    BY DEF CompletedJobEndedRun, EndedRun, Stored
<1>1. CASE Stored(j) /\ jobs[j].state = "COMPLETED"
  <2>1. EndedRun(RunOf[j]) /\ RunOf[j] \in Run /\ jobs[j].owner = None
      BY <1>1 DEF CompletedJobEndedRun, EndedRun, CompletedUnowned
  <2>2. ASSUME NEW v \in Worker, Owns(v), MyRun(v) = RunOf[j] PROVE FALSE
    <3>1. held[v].job = j
        BY <1>1, <2>2, OwnedIsStored DEF Typed, LeaseInv, OneJobPerRun, MyRun
    <3>2. QED
        BY <2>1, <2>2, <3>1 DEF Owns
  <2>3. QED
      BY <2>1, <2>2, EndedRunStays
<1>2. CASE ~(Stored(j) /\ jobs[j].state = "COMPLETED")
  <2>1. PICK w \in Worker : Finish(w) /\ Owns(w) /\ held[w].job = j
      BY <1>2, CompletedByFinish
  <2>2. EndedRun(RunOf[j]) /\ runs' = runs
      BY <2>1 DEF Finish, FinishEnded, MyRun, runVars
  <2>3. QED
      BY <2>2 DEF EndedRun
<1>3. QED
    BY <1>1, <1>2

(* If no lease runs out between its check and the write, the run of a      *)
(* COMPLETED job has ended: the job repository never says that work is     *)
(* done which the evaluation repository does not have.                     *)
THEOREM CompletedJobsEndRuns ==
    ASSUME LeaseOutlivesWrite
    PROVE  Spec => []CompletedJobEndedRun
<1> DEFINE EndInv == FinishEnded /\ CompletedUnowned /\ CompletedJobEndedRun
<1>1. Init => EndInv
    BY DEF Init, LeaseInit, FinishEnded, CompletedUnowned, CompletedJobEndedRun, Stored
<1>2. FencedInv /\ EndInv /\ [Next]_vars => EndInv'
  <2>1. SUFFICES ASSUME FencedInv, EndInv, [Next]_vars PROVE EndInv'
      OBVIOUS
  <2>2. Typed /\ Fences /\ LeaseInv /\ [LeaseNext]_leaseVars
      BY <2>1, StepImplements DEF FencedInv, Typed
  <2>3. FinishEnded' /\ CompletedUnowned'
      BY <2>1, <2>2, FinishEndedNext, CompletedUnownedNext
  <2>4. CompletedJobEndedRun'
      BY <2>1, <2>2, CompletedJobEndedRunNext
  <2>5. QED
      BY <2>3, <2>4
<1>3. QED
    BY <1>1, <1>2, FencedInvariance, PTL DEF Spec
=============================================================================
