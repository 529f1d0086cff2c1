--------------------------- MODULE JobLeasesProofs --------------------------
(***************************************************************************)
(* What the job repository guarantees to any clients that use the tokens   *)
(* of their own claims, for every set of workers, jobs and runs and every  *)
(* number of attempts: types, one job per run, and the two facts behind    *)
(* fencing, that a token names one claim and that claims are counted.      *)
(***************************************************************************)
EXTENDS JobLeases, TLAPS

(* The token counts the claims of a job: one before the first claim, one   *)
(* more than the attempts ever after. A job that waits has no owner.       *)
TokenCountsClaims ==
    \A j \in Job : Stored(j) =>
        IF jobs[j].state = "QUEUED"
        THEN jobs[j].token = 1 /\ jobs[j].attempt = 1 /\ jobs[j].owner = None
        ELSE jobs[j].token = jobs[j].attempt + 1

(* The two parts of TokensAreUnique.                                       *)
HeldGivenOut ==
    \A w \in Worker :
        held[w] # None =>
            Stored(held[w].job) /\ held[w].token <= jobs[held[w].job].token

HeldDiffer ==
    \A v, w \in Worker : held[v] # None /\ held[v] = held[w] => v = w

(* The inductive invariant.                                                *)
LeaseInv ==
    LeaseTypeOK /\ HeldGivenOut /\ HeldDiffer /\ TokenCountsClaims /\ OneJobPerRun

USE RunOfAssumption, MaxAttemptsAssumption, NoneAssumption, NoneIsNoRecord

-----------------------------------------------------------------------------
(* The records that the operations store are job records.                  *)
LEMMA RecordTypes ==
    ASSUME NEW job \in JobRecord, NEW w \in Worker
    PROVE  /\ NewJob \in JobRecord
           /\ (job.state = "RUNNING" => job.attempt < MaxAttempts)
              => ClaimedJob(job, w) \in JobRecord
           /\ MaxAttemptsFailedJob(job) \in JobRecord
           /\ \A s \in Terminal : CompletedJob(job, s) \in JobRecord
           /\ CancelRequestedJob(job) \in JobRecord
           /\ [job EXCEPT !.lease = "live"] \in JobRecord
           /\ [job EXCEPT !.lease = "expired"] \in JobRecord
<1>1. NewJob \in JobRecord
    BY DEF NewJob, JobRecord, JobState, Terminal
<1>2. ASSUME job.state = "RUNNING" => job.attempt < MaxAttempts
      PROVE  ClaimedJob(job, w) \in JobRecord
  <2>1. ASSUME NEW a \in 1..MaxAttempts
        PROVE  [job EXCEPT !.state = "RUNNING", !.owner = w, !.lease = "live",
                           !.attempt = a, !.token = job.token + 1] \in JobRecord
    <3>1. job.token + 1 \in Nat \ {0}
        BY DEF JobRecord
    <3>2. "RUNNING" \in JobState
        BY DEF JobState
    <3>3. ASSUME NEW t \in Nat \ {0}
          PROVE  [job EXCEPT !.state = "RUNNING", !.owner = w, !.lease = "live",
                             !.attempt = a, !.token = t] \in JobRecord
        BY <3>2 DEF JobRecord
    <3>4. QED
        BY <3>1, <3>3
  <2>2. job.attempt \in 1..MaxAttempts
      BY DEF JobRecord
  <2>3. (IF job.state = "RUNNING" THEN job.attempt + 1 ELSE job.attempt)
        \in 1..MaxAttempts
      BY <1>2, <2>2
  <2>4. QED
      BY <2>1, <2>3 DEF ClaimedJob
<1>3. MaxAttemptsFailedJob(job) \in JobRecord
    BY DEF MaxAttemptsFailedJob, JobRecord, JobState, Terminal
<1>4. ASSUME NEW s \in Terminal
      PROVE  CompletedJob(job, s) \in JobRecord
    BY <1>4 DEF CompletedJob, JobRecord, JobState
<1>5. CancelRequestedJob(job) \in JobRecord
    BY DEF CancelRequestedJob, JobRecord
<1>6. ASSUME NEW l \in {"live", "expired"}
      PROVE  [job EXCEPT !.lease = l] \in JobRecord
    BY DEF JobRecord
<1>7. QED
    BY <1>1, <1>2, <1>3, <1>4, <1>5, <1>6

(* The owner of a job under its current token is a worker, so that the job *)
(* is stored and has been claimed.                                         *)
LEMMA OwnedIsStored ==
    ASSUME LeaseInv, NEW w \in Worker, Owns(w)
    PROVE  /\ held[w] \in Claim
           /\ held[w].job \in Job
           /\ Stored(held[w].job)
           /\ jobs[held[w].job] \in JobRecord
           /\ jobs[held[w].job].state # "QUEUED"
<1>1. held[w] \in Claim /\ held[w].job \in Job
    BY DEF LeaseInv, LeaseTypeOK, Owns, Claim
<1>2. Stored(held[w].job)
    BY DEF LeaseInv, HeldGivenOut, Owns
<1>3. jobs[held[w].job] \in JobRecord
    BY <1>1, <1>2 DEF LeaseInv, LeaseTypeOK, Stored
<1>4. QED
    BY <1>1, <1>2, <1>3 DEF LeaseInv, TokenCountsClaims, Owns

(* A step that stores another version of one job and changes no claim      *)
(* keeps the invariant when it leaves the token and the attempt alone, and *)
(* does not bring the job back to QUEUED.                                  *)
LEMMA UpdateKeepsInv ==
    ASSUME LeaseInv, NEW j \in Job, Stored(j), NEW job \in JobRecord,
           job.token = jobs[j].token, job.attempt = jobs[j].attempt,
           \/ job.state = jobs[j].state /\ job.owner = jobs[j].owner
           \/ job.state # "QUEUED" /\ jobs[j].state # "QUEUED",
           jobs' = [jobs EXCEPT ![j] = job],
           \/ UNCHANGED held
           \/ \E w \in Worker : held' = [held EXCEPT ![w] = None]
    PROVE  LeaseInv'
<1> USE DEF LeaseInv
<1>1. LeaseTypeOK'
    BY DEF LeaseTypeOK
<1>2. \A i \in Job : Stored(i)' <=> Stored(i)
    BY DEF LeaseTypeOK, Stored
<1>3. \A i \in Job : i # j => jobs'[i] = jobs[i]
    BY DEF LeaseTypeOK
<1>4. jobs'[j] = job
    BY DEF LeaseTypeOK
<1>5. \A w \in Worker : held'[w] = held[w] \/ held'[w] = None
    BY DEF LeaseTypeOK
<1>6. \A i \in Job : jobs'[i].token = jobs[i].token
    BY <1>3, <1>4
<1>7. HeldGivenOut'
  <2>1. SUFFICES ASSUME NEW w \in Worker, held'[w] # None
                 PROVE  /\ jobs'[held'[w].job] # None
                        /\ held'[w].token <= jobs'[held'[w].job].token
      BY DEF HeldGivenOut, Stored
  <2>2. held'[w] = held[w] /\ held[w].job \in Job
      BY <1>5, <2>1 DEF LeaseTypeOK, Claim
  <2>3. QED
      BY <1>2, <1>6, <2>1, <2>2 DEF HeldGivenOut, Stored
<1>11. HeldDiffer'
    BY <1>5 DEF HeldDiffer
<1>8. TokenCountsClaims'
    BY <1>2, <1>3, <1>4 DEF TokenCountsClaims, Stored
<1>9. OneJobPerRun'
    BY <1>2 DEF OneJobPerRun
<1>10. QED
    BY <1>1, <1>7, <1>8, <1>9, <1>11

(* A claim of job j by worker w: the token is new, and the claim is counted *)
(* unless it is the first.                                                 *)
LEMMA ClaimKeepsInv ==
    ASSUME LeaseInv, NEW w \in Worker, NEW j \in Job, ClaimJob(w, j)
    PROVE  LeaseInv'
<1> USE DEF LeaseInv
<1>1. Stored(j) /\ jobs[j] \in JobRecord
    BY DEF LeaseTypeOK, ClaimJob, Claimable, Lapsed, Stored
<1>2. /\ jobs[j].state \in {"QUEUED", "RUNNING"}
      /\ jobs[j].state = "RUNNING" => jobs[j].attempt < MaxAttempts
    BY DEF ClaimJob, Claimable, Lapsed
<1>3. ClaimedJob(jobs[j], w) \in JobRecord
    BY <1>1, <1>2, RecordTypes
<1>4. jobs' = [jobs EXCEPT ![j] = ClaimedJob(jobs[j], w)]
    BY DEF ClaimJob
<1>5. jobs'[j] = ClaimedJob(jobs[j], w)
    BY <1>4 DEF LeaseTypeOK
<1>6. \A i \in Job : i # j => jobs'[i] = jobs[i]
    BY <1>4 DEF LeaseTypeOK
<1>7. /\ jobs'[j].token = jobs[j].token + 1
      /\ jobs'[j].state = "RUNNING"
      /\ jobs'[j].attempt = IF jobs[j].state = "RUNNING" THEN jobs[j].attempt + 1
                            ELSE jobs[j].attempt
    BY <1>1, <1>5 DEF ClaimedJob, JobRecord
<1>8. jobs[j].token \in Nat \ {0} /\ jobs[j].attempt \in Nat
    BY <1>1 DEF JobRecord
<1>9. held' = [held EXCEPT ![w] = [job |-> j, token |-> jobs'[j].token]]
    BY DEF ClaimJob
<1>10. held'[w] = [job |-> j, token |-> jobs'[j].token]
    BY <1>9 DEF LeaseTypeOK
<1>11. \A v \in Worker : v # w => held'[v] = held[v]
    BY <1>9 DEF LeaseTypeOK
<1>12. LeaseTypeOK'
  <2>1. [job |-> j, token |-> jobs'[j].token] \in Claim
      BY <1>7, <1>8 DEF Claim
  <2>2. QED
      BY <1>3, <1>4, <1>9, <2>1 DEF LeaseTypeOK
<1>13. \A i \in Job : Stored(i)' <=> Stored(i)
    BY <1>1, <1>3, <1>5, <1>6 DEF Stored
<1>14. \A v \in Worker :
          v # w /\ held'[v] # None /\ held'[v].job = j
          => held'[v].token < jobs'[j].token
  <2>1. SUFFICES ASSUME NEW v \in Worker, v # w, held'[v] # None, held'[v].job = j
                 PROVE  held'[v].token < jobs'[j].token
      OBVIOUS
  <2>2. held[v] \in Claim /\ held[v].token <= jobs[j].token
      BY <1>11, <2>1 DEF HeldGivenOut, LeaseTypeOK
  <2>3. held[v].token \in Nat
      BY <2>2 DEF Claim
  <2>4. QED
      BY <1>7, <1>8, <1>11, <2>1, <2>2, <2>3
<1>15. HeldGivenOut'
  <2>1. SUFFICES ASSUME NEW v \in Worker, held'[v] # None
                 PROVE  /\ jobs'[held'[v].job] # None
                        /\ held'[v].token <= jobs'[held'[v].job].token
      BY DEF HeldGivenOut, Stored
  <2>2. CASE v = w
      BY <1>1, <1>7, <1>8, <1>10, <1>13, <2>2 DEF Stored
  <2>3. CASE v # w
    <3>1. held'[v] = held[v] /\ held[v].job \in Job /\ held[v].token \in Nat
        BY <1>11, <2>1, <2>3 DEF LeaseTypeOK, Claim
    <3>2. CASE held[v].job = j
        BY <1>1, <1>7, <1>8, <1>13, <1>14, <2>1, <2>3, <3>1, <3>2 DEF Stored
    <3>3. CASE held[v].job # j
        BY <1>6, <2>1, <3>1, <3>3 DEF HeldGivenOut, Stored
    <3>4. QED
        BY <3>2, <3>3
  <2>4. QED
      BY <2>2, <2>3
<1>19. HeldDiffer'
  <2>1. ASSUME NEW u \in Worker, NEW v \in Worker,
               held'[u] # None, held'[u] = held'[v], u # w, v # w
        PROVE  u = v
      BY <1>11, <2>1 DEF HeldDiffer
  <2>2. ASSUME NEW x \in Worker, x # w, held'[x] # None
        PROVE  held'[x] # held'[w]
    <3>1. CASE held'[x].job = j
      <4>1. held'[x].token < jobs'[j].token
          BY <1>14, <2>2, <3>1
      <4>2. held'[x].token \in Nat
          BY <1>12, <2>2 DEF LeaseTypeOK, Claim
      <4>3. QED
          BY <1>7, <1>8, <1>10, <4>1, <4>2
    <3>2. CASE held'[x].job # j
        BY <1>10, <3>2
    <3>3. QED
        BY <3>1, <3>2
  <2>3. held'[w] # None
      BY <1>7, <1>8, <1>10 DEF Claim
  <2>4. QED
      BY <2>1, <2>2, <2>3 DEF HeldDiffer
<1>16. TokenCountsClaims'
    BY <1>2, <1>6, <1>7, <1>8, <1>13 DEF TokenCountsClaims, Stored
<1>17. OneJobPerRun'
    BY <1>13 DEF OneJobPerRun
<1>18. QED
    BY <1>12, <1>15, <1>16, <1>17, <1>19

(* A new job waits with token one, and is the only one of its run.         *)
LEMMA EnqueueKeepsInv ==
    ASSUME LeaseInv, NEW j \in Job, Enqueue(j)
    PROVE  LeaseInv'
<1> USE DEF LeaseInv
<1>1. /\ jobs' = [jobs EXCEPT ![j] = NewJob]
      /\ ~Stored(j)
      /\ held' = held
    BY DEF Enqueue
<1>2. NewJob \in JobRecord
    BY DEF NewJob, JobRecord, JobState, Terminal
<1>3. jobs'[j] = NewJob /\ \A i \in Job : i # j => jobs'[i] = jobs[i]
    BY <1>1 DEF LeaseTypeOK
<1>4. LeaseTypeOK'
    BY <1>1, <1>2 DEF LeaseTypeOK
<1>5. \A i \in Job : Stored(i)' <=> i = j \/ Stored(i)
    BY <1>2, <1>3 DEF Stored
<1>6. HeldGivenOut'
  <2>1. SUFFICES ASSUME NEW w \in Worker, held[w] # None
                 PROVE  /\ jobs'[held[w].job] # None
                        /\ held[w].token <= jobs'[held[w].job].token
      BY <1>1 DEF HeldGivenOut, Stored
  <2>2. held[w].job \in Job /\ held[w].job # j
      BY <1>1, <2>1 DEF LeaseTypeOK, Claim, HeldGivenOut
  <2>3. QED
      BY <1>3, <2>1, <2>2 DEF HeldGivenOut, Stored
<1>10. HeldDiffer'
    BY <1>1 DEF HeldDiffer
<1>7. TokenCountsClaims'
    BY <1>3, <1>5 DEF TokenCountsClaims, NewJob
<1>8. OneJobPerRun'
  <2>1. ASSUME NEW i \in Job, Stored(i) PROVE RunOf[i] # RunOf[j]
    <3>1. jobs[i] \in JobRecord
        BY <2>1 DEF LeaseTypeOK, Stored
    <3>2. BlocksKey(i)
        BY <2>1, <3>1 DEF BlocksKey, JobRecord, JobState
    <3>3. QED
        BY <2>1, <3>2 DEF Enqueue, HasJob
  <2>2. QED
      BY <1>5, <2>1 DEF OneJobPerRun
<1>9. QED
    BY <1>4, <1>6, <1>7, <1>8, <1>10

(* The operations that store another version of a job that is stored.      *)
LEMMA JobStepKeepsInv ==
    ASSUME LeaseInv, NEW j \in Job,
           FailExhausted(j) \/ RequestCancellation(j) \/ LeaseExpires(j)
    PROVE  LeaseInv'
<1>1. Stored(j) /\ jobs[j] \in JobRecord
    BY DEF LeaseInv, LeaseTypeOK, FailExhausted, Exhausted, Lapsed,
           RequestCancellation, LeaseExpires, Stored
<1>2. CASE FailExhausted(j)
  <2>1. jobs[j].state = "RUNNING"
      BY <1>2 DEF FailExhausted, Exhausted, Lapsed
  <2>2. /\ MaxAttemptsFailedJob(jobs[j]).state = "FAILED"
        /\ MaxAttemptsFailedJob(jobs[j]).token = jobs[j].token
        /\ MaxAttemptsFailedJob(jobs[j]).attempt = jobs[j].attempt
      BY <1>1 DEF MaxAttemptsFailedJob, JobRecord
  <2>3. MaxAttemptsFailedJob(jobs[j]) \in JobRecord
      BY <1>1 DEF MaxAttemptsFailedJob, JobRecord, JobState, Terminal
  <2>4. QED
      BY <1>1, <1>2, <2>1, <2>2, <2>3, UpdateKeepsInv DEF FailExhausted
<1>3. CASE RequestCancellation(j)
  <2>1. /\ CancelRequestedJob(jobs[j]).state = jobs[j].state
        /\ CancelRequestedJob(jobs[j]).owner = jobs[j].owner
        /\ CancelRequestedJob(jobs[j]).token = jobs[j].token
        /\ CancelRequestedJob(jobs[j]).attempt = jobs[j].attempt
      BY <1>1 DEF CancelRequestedJob, JobRecord
  <2>2. CancelRequestedJob(jobs[j]) \in JobRecord
      BY <1>1 DEF CancelRequestedJob, JobRecord
  <2>3. QED
      BY <1>1, <1>3, <2>1, <2>2, UpdateKeepsInv DEF RequestCancellation
<1>4. CASE LeaseExpires(j)
  <2> DEFINE job == [jobs[j] EXCEPT !.lease = "expired"]
  <2>1. /\ job.state = jobs[j].state /\ job.owner = jobs[j].owner
        /\ job.token = jobs[j].token /\ job.attempt = jobs[j].attempt
        /\ job \in JobRecord
      BY <1>1 DEF JobRecord
  <2>2. jobs' = [jobs EXCEPT ![j] = job] /\ UNCHANGED held
      BY <1>4 DEF LeaseExpires
  <2> HIDE DEF job
  <2>3. QED
      BY <1>1, <2>1, <2>2, UpdateKeepsInv
<1>5. QED
    BY <1>2, <1>3, <1>4

(* The operations of a worker on the job it holds.                         *)
LEMMA HeartbeatKeepsInv ==
    ASSUME LeaseInv, NEW w \in Worker, Heartbeat(w)
    PROVE  LeaseInv'
<1> DEFINE j == held[w].job
           job == [jobs[j] EXCEPT !.lease = "live"]
<1>1. j \in Job /\ Stored(j) /\ jobs[j] \in JobRecord
    BY OwnedIsStored DEF Heartbeat
<1>2. /\ job.state = jobs[j].state /\ job.owner = jobs[j].owner
      /\ job.token = jobs[j].token /\ job.attempt = jobs[j].attempt
      /\ job \in JobRecord
    BY <1>1 DEF JobRecord
<1>3. jobs' = [jobs EXCEPT ![j] = job] /\ UNCHANGED held
    BY DEF Heartbeat
<1> HIDE DEF j, job
<1>4. QED
    BY <1>1, <1>2, <1>3, UpdateKeepsInv

LEMMA CompleteKeepsInv ==
    ASSUME LeaseInv, NEW w \in Worker, NEW state \in Terminal, CompleteJob(w, state)
    PROVE  LeaseInv'
<1> DEFINE j == held[w].job
           job == CompletedJob(jobs[j], state)
<1>1. /\ j \in Job /\ Stored(j) /\ jobs[j] \in JobRecord
      /\ jobs[j].state # "QUEUED"
    BY OwnedIsStored DEF CompleteJob
<1>2. /\ job.state = state
      /\ job.token = jobs[j].token /\ job.attempt = jobs[j].attempt
      /\ job \in JobRecord
    BY <1>1 DEF CompletedJob, JobRecord, JobState
<1>3. state # "QUEUED"
    BY DEF Terminal
<1>4. jobs' = [jobs EXCEPT ![j] = job] /\ held' = [held EXCEPT ![w] = None]
    BY DEF CompleteJob
<1> HIDE DEF j, job
<1>5. QED
    BY <1>1, <1>2, <1>3, <1>4, UpdateKeepsInv

(* A claim that is given up, and nothing else.                             *)
LEMMA AbandonKeepsInv ==
    ASSUME LeaseInv, NEW w \in Worker, Abandon(w)
    PROVE  LeaseInv'
<1>1. jobs' = jobs /\ \A v \in Worker : held'[v] = held[v] \/ held'[v] = None
    BY DEF Abandon, LeaseInv, LeaseTypeOK
<1>2. LeaseTypeOK'
    BY DEF Abandon, LeaseInv, LeaseTypeOK
<1>3. HeldGivenOut'
    BY <1>1 DEF LeaseInv, HeldGivenOut, Stored
<1>4. HeldDiffer'
    BY <1>1 DEF LeaseInv, HeldDiffer
<1>5. TokenCountsClaims' /\ OneJobPerRun'
    BY <1>1 DEF LeaseInv, TokenCountsClaims, OneJobPerRun, Stored
<1>6. QED
    BY <1>2, <1>3, <1>4, <1>5 DEF LeaseInv

LEMMA StutterKeepsInv == LeaseInv /\ UNCHANGED leaseVars => LeaseInv'
BY DEF leaseVars, LeaseInv, LeaseTypeOK, HeldGivenOut, HeldDiffer,
       TokenCountsClaims, OneJobPerRun, Stored

-----------------------------------------------------------------------------
(* The invariant holds in every run of the job repository.                 *)
LEMMA LeaseInitInv == LeaseInit => LeaseInv
BY DEF LeaseInit, LeaseInv, LeaseTypeOK, HeldGivenOut, HeldDiffer,
       TokenCountsClaims, OneJobPerRun, Stored

LEMMA LeaseNextInv == LeaseInv /\ [LeaseNext]_leaseVars => LeaseInv'
<1> SUFFICES ASSUME LeaseInv, [LeaseNext]_leaseVars PROVE LeaseInv'
    OBVIOUS
<1>1. ASSUME NEW j \in Job, Enqueue(j) PROVE LeaseInv'
    BY <1>1, EnqueueKeepsInv
<1>2. ASSUME NEW j \in Job,
             FailExhausted(j) \/ RequestCancellation(j) \/ LeaseExpires(j)
      PROVE  LeaseInv'
    BY <1>2, JobStepKeepsInv
<1>3. ASSUME NEW w \in Worker, NEW j \in Job, ClaimJob(w, j) PROVE LeaseInv'
    BY <1>3, ClaimKeepsInv
<1>4. ASSUME NEW w \in Worker, Heartbeat(w) PROVE LeaseInv'
    BY <1>4, HeartbeatKeepsInv
<1>5. ASSUME NEW w \in Worker, SaveCheckpoint(w) PROVE LeaseInv'
    BY <1>5, StutterKeepsInv DEF SaveCheckpoint
<1>6. ASSUME NEW w \in Worker, Abandon(w) PROVE LeaseInv'
    BY <1>6, AbandonKeepsInv
<1>7. ASSUME NEW w \in Worker, NEW state \in Terminal, CompleteJob(w, state)
      PROVE  LeaseInv'
    BY <1>7, CompleteKeepsInv
<1>8. CASE UNCHANGED leaseVars
    BY <1>8, StutterKeepsInv
<1>9. QED
    BY <1>1, <1>2, <1>3, <1>4, <1>5, <1>6, <1>7, <1>8 DEF LeaseNext

LEMMA LeaseInvariance == LeaseSpec => []LeaseInv
BY LeaseInitInv, LeaseNextInv, PTL DEF LeaseSpec

(* Jobs and claims keep their types; attempts stay within max_attempts.    *)
THEOREM LeaseTypes == LeaseSpec => []LeaseTypeOK
<1>1. LeaseInv => LeaseTypeOK
    BY DEF LeaseInv
<1>2. QED
    BY <1>1, LeaseInvariance, PTL

(* Fencing rests on this: a token of a job names one claim.                *)
THEOREM TokensUnique == LeaseSpec => []TokensAreUnique
<1>1. LeaseInv => TokensAreUnique
    BY DEF LeaseInv, HeldGivenOut, HeldDiffer, TokensAreUnique
<1>2. QED
    BY <1>1, LeaseInvariance, PTL

(* A job is claimed at most max_attempts times.                            *)
THEOREM AttemptsAreBounded == LeaseSpec => []AttemptsBounded
<1>1. LeaseInv => AttemptsBounded
  <2>1. SUFFICES ASSUME LeaseInv, NEW j \in Job, Stored(j)
                 PROVE  jobs[j].token <= MaxAttempts + 1
      BY DEF AttemptsBounded
  <2>2. jobs[j] \in JobRecord
      BY <2>1 DEF LeaseInv, LeaseTypeOK, Stored
  <2>3. jobs[j].attempt \in Nat /\ jobs[j].attempt <= MaxAttempts
      BY <2>2 DEF JobRecord
  <2>4. jobs[j].token = 1 \/ jobs[j].token = jobs[j].attempt + 1
      BY <2>1 DEF LeaseInv, TokenCountsClaims
  <2>5. QED
      BY <2>3, <2>4
<1>2. QED
    BY <1>1, LeaseInvariance, PTL

(* However often and by whom a run is enqueued, it has one job.            *)
THEOREM RunHasOneJob == LeaseSpec => []OneJobPerRun
<1>1. LeaseInv => OneJobPerRun
    BY DEF LeaseInv
<1>2. QED
    BY <1>1, LeaseInvariance, PTL

-----------------------------------------------------------------------------
(* A job that its holder completed has no owner, so that no token opens it *)
(* any more, and no call touches a job that has ended otherwise.           *)
THEOREM CompletionFinal == LeaseSpec => CompletionIsFinal
<1>1. LeaseInv /\ [LeaseNext]_leaseVars =>
        [\A j \in Job :
            Stored(j) /\ jobs[j].state \in Terminal /\ jobs[j].owner = None
            => jobs'[j] = jobs[j]]_leaseVars
  <2>1. SUFFICES ASSUME LeaseInv, LeaseNext, NEW j \in Job, Stored(j),
                        jobs[j].state \in Terminal, jobs[j].owner = None
                 PROVE  jobs'[j] = jobs[j]
      OBVIOUS
  <2> USE <2>1 DEF LeaseInv, LeaseTypeOK
  <2>2. ASSUME NEW w \in Worker, Owns(w) PROVE held[w].job \in Job \ {j}
      BY <2>2, OwnedIsStored DEF Owns
  <2>3. ASSUME NEW i \in Job, Enqueue(i) \/ FailExhausted(i) \/ LeaseExpires(i)
        PROVE  jobs'[j] = jobs[j]
      BY <2>3 DEF Enqueue, FailExhausted, Exhausted, Lapsed, LeaseExpires, Terminal
  <2>4. ASSUME NEW i \in Job, RequestCancellation(i) PROVE jobs'[j] = jobs[j]
      BY <2>4 DEF RequestCancellation, CancelRequestedJob
  <2>5. ASSUME NEW w \in Worker, NEW i \in Job, ClaimJob(w, i)
        PROVE  jobs'[j] = jobs[j]
      BY <2>5 DEF ClaimJob, Claimable, Lapsed, Terminal
  <2>6. ASSUME NEW w \in Worker, Heartbeat(w) PROVE jobs'[j] = jobs[j]
      BY <2>2, <2>6 DEF Heartbeat
  <2>7. ASSUME NEW w \in Worker, SaveCheckpoint(w) \/ Abandon(w)
        PROVE  jobs'[j] = jobs[j]
      BY <2>7 DEF SaveCheckpoint, Abandon, leaseVars
  <2>8. ASSUME NEW w \in Worker, NEW state \in Terminal, CompleteJob(w, state)
        PROVE  jobs'[j] = jobs[j]
      BY <2>2, <2>8 DEF CompleteJob
  <2>9. QED
      BY <2>3, <2>4, <2>5, <2>6, <2>7, <2>8 DEF LeaseNext
<1>2. QED
    BY <1>1, LeaseInvariance, PTL DEF LeaseSpec, CompletionIsFinal
=============================================================================
