-------------------------- MODULE ExportJobsProofs --------------------------
(***************************************************************************)
(* What lease tokens buy an export job on the file store, for any number   *)
(* of instances, runs, attempts and faults: only the last claim can commit,*)
(* an ended job stays ended, and a result keeps its artifact.              *)
(***************************************************************************)
EXTENDS ExportJobs, TLAPS

\* A run at work has a token that the store gave out.
AtWork == {"executing", "uploaded", "audited", "failing", "settling"}

Typed ==
    /\ TypeOK
    /\ \A r \in Runs : run[r].phase \in AtWork => run[r].token \in Tokens

\* The file store acts on what it reads in the same step.
NothingPending == late = {} /\ \A i \in Instances : view[i] = NoView

\* The newest token is that of the lease and of the result.
NewestClaim ==
    /\ job.status = "RUNNING" => job.token = claims
    /\ job.status = "COMPLETED" => job.ref = claims

\* No two runs have one token, and what a record refers to is the work of a run
\* that is over: so no run takes away what it did not make.
TokensApart ==
    /\ \A r \in Runs : run[r].token =< claims
    /\ \A r, q \in Runs : r # q /\ run[r].token = run[q].token => run[r].token = 0

RefOver(ref) ==
    ref =< claims /\ \A r \in Runs : run[r].token = ref => ref = 0

RefsOver == RefOver(job.ref) /\ \A i \in Instances : RefOver(cache[i].ref)

UploadsKept == \A r \in Runs : Pending(r) => run[r].token \in content

FileInv == NothingPending /\ NewestClaim /\ TokensApart /\ RefsOver /\ UploadsKept

Inv == Typed /\ (store = "FILE" => FileInv)

USE Assumptions

-----------------------------------------------------------------------------
(* Values *)

LEMMA ReleasedTyped ==
    ASSUME NEW status \in Statuses, NEW attempt \in Nat, NEW ref \in Nat
    PROVE  /\ Released(status, attempt, ref) \in Records
           /\ Released(status, attempt, ref).status = status
           /\ Released(status, attempt, ref).token = 0
           /\ Released(status, attempt, ref).ref = ref
BY DEF Released, Records

LEMMA ClaimedTyped ==
    ASSUME NEW attempt \in Nat, NEW token \in Nat
    PROVE  /\ Claimed(attempt, token) \in Records
           /\ Claimed(attempt, token).status = "RUNNING"
           /\ Claimed(attempt, token).attempt = attempt
           /\ Claimed(attempt, token).token = token
           /\ Claimed(attempt, token).ref = 0
BY DEF Claimed, Records, Statuses

LEMMA CopyTyped ==
    ASSUME NEW record \in Records
    PROVE  /\ Copy(record) \in Copies
           /\ Copy(record).ref = record.ref
           /\ Copy(record).attempt = record.attempt
           /\ Copy(record).over <=> record.status \in {"COMPLETED", "FAILED"}
<1>1. Over(record) \in BOOLEAN
    BY DEF Over
<1>2. PICK b \in BOOLEAN : b = Over(record)
    BY <1>1, Zenon
<1>3. Copy(record) = [attempt |-> record.attempt, ref |-> record.ref, over |-> b]
    BY <1>2, Zenon DEF Copy
<1>4. record.attempt \in Nat /\ record.ref \in Nat
    BY DEF Records
<1>5. /\ Copy(record) \in Copies /\ Copy(record).over = b
      /\ Copy(record).ref = record.ref /\ Copy(record).attempt = record.attempt
    BY <1>3, <1>4 DEF Copies
<1>6. Copy(record).over <=> record.status \in {"COMPLETED", "FAILED"}
    BY <1>2, <1>5, Zenon DEF Over
<1> QED BY <1>5, <1>6

LEMMA NoneTyped ==
    /\ Nothing \in Records /\ Nothing.status = "none" /\ Nothing.ref = 0
    /\ NoCopy \in Copies /\ NoCopy.ref = 0 /\ NoCopy.attempt = 0
    /\ NoView \in Views
    /\ Idle \in Tasks /\ Idle.token = 0 /\ Idle.phase = "idle"
BY DEF Nothing, Released, Records, Statuses, NoCopy, Copies, NoView, Views, Idle,
       Tasks, Phases

LEMMA StatusesAre ==
    /\ {"none", "deleted", "QUEUED", "RUNNING", "COMPLETED", "FAILED", "EXPIRED"}
          \subseteq Statuses
    /\ Ended = {"COMPLETED", "FAILED", "EXPIRED"}
BY DEF Statuses, Ended

\* A task that moves on.
LEMMA TaskTyped ==
    ASSUME NEW task \in Tasks, NEW phase \in Phases
    PROVE  /\ [task EXCEPT !.phase = phase] \in Tasks
           /\ [task EXCEPT !.phase = phase].phase = phase
           /\ [task EXCEPT !.phase = phase].token = task.token
BY DEF Tasks

LEMMA FaultsBounded ==
    ASSUME Inv, Fine \/ Fault
    PROVE  faults' \in 0 .. MaxFaults[store]
BY DEF Fine, Fault, Inv, Typed, TypeOK

-----------------------------------------------------------------------------
(* The parts of the invariant, by what a step changes *)

\* The types and tokens of the runs, when one of them becomes task.
RunBecomes(r, task) ==
    /\ run' = [run EXCEPT ![r] = task]
    /\ task \in Tasks

\* It keeps its token, or gives it up.
KeepsToken(r, task) == task.token = run[r].token \/ task.token = 0

LEMMA RunsTyped ==
    ASSUME Inv, NEW r \in Runs, NEW task, RunBecomes(r, task),
           claims' \in Nat, claims =< claims',
           task.phase \in AtWork => task.token \in 1 .. claims'
    PROVE  /\ run' \in [Runs -> Tasks]
           /\ \A q \in Runs : run'[q].phase \in AtWork => run'[q].token \in 1 .. claims'
<1>1. run' \in [Runs -> Tasks]
    BY DEF RunBecomes, Inv, Typed, TypeOK
<1>2. ASSUME NEW q \in Runs, run'[q].phase \in AtWork
      PROVE  run'[q].token \in 1 .. claims'
    <2>1. CASE q = r
        BY <1>2, <2>1 DEF RunBecomes, Inv, Typed, TypeOK
    <2>2. CASE q # r
        <3>1. run[q].token \in 1 .. claims
            BY <1>2, <2>2 DEF RunBecomes, Inv, Typed, TypeOK, Tokens
        <3> QED BY <2>2, <3>1 DEF RunBecomes, Inv, Typed, TypeOK
    <2> QED BY <2>1, <2>2
<1> QED BY <1>1, <1>2

\* Where nothing is read or renewed, the types are those of what is written.
LEMMA StepTyped ==
    ASSUME Inv, NEW r \in Runs, NEW task, RunBecomes(r, task),
           claims' \in Nat, claims =< claims', content' \subseteq 1 .. claims',
           task.phase \in AtWork => task.token \in 1 .. claims',
           job' \in Records, cache' \in [Instances -> Copies],
           faults' \in 0 .. MaxFaults[store],
           UNCHANGED <<store, overdue, view, late>>
    PROVE  Typed'
<1>1. /\ run' \in [Runs -> Tasks]
      /\ \A q \in Runs : run'[q].phase \in AtWork => run'[q].token \in 1 .. claims'
    BY RunsTyped
<1> QED BY <1>1 DEF Inv, Typed, TypeOK, Tokens

LEMMA TokensStayApart ==
    ASSUME Inv, TokensApart, NEW r \in Runs, NEW task, RunBecomes(r, task),
           KeepsToken(r, task), UNCHANGED claims
    PROVE  TokensApart'
BY DEF Inv, Typed, TypeOK, TokensApart, RunBecomes, KeepsToken, Tasks

LEMMA RefsStayOver ==
    ASSUME Inv, NEW r \in Runs, NEW task, RunBecomes(r, task),
           KeepsToken(r, task), UNCHANGED claims, NEW ref, RefOver(ref)
    PROVE  RefOver(ref)'
BY DEF Inv, Typed, TypeOK, RunBecomes, KeepsToken, RefOver

\* A step may refer to one more artifact, n.
LEMMA RefsOverKept ==
    ASSUME Inv, RefsOver, NEW r \in Runs, NEW task, RunBecomes(r, task),
           KeepsToken(r, task), UNCHANGED claims,
           NEW n, RefOver(n)', job'.ref \in {n, job.ref},
           \A i \in Instances : cache'[i].ref \in {n, cache[i].ref}
    PROVE  RefsOver'
<1>1. \A ref : RefOver(ref) => RefOver(ref)'
    BY RefsStayOver
<1>2. /\ n =< claims' /\ \A q \in Runs : run'[q].token = n => n = 0
      /\ \A ref : RefOver(ref) => /\ ref =< claims'
                                /\ \A q \in Runs : run'[q].token = ref => ref = 0
    BY <1>1 DEF RefOver
<1>3. /\ job'.ref =< claims'
      /\ \A q \in Runs : run'[q].token = job'.ref => job'.ref = 0
    BY <1>2 DEF RefsOver
<1>4. \A i \in Instances :
         /\ cache'[i].ref =< claims'
         /\ \A q \in Runs : run'[q].token = cache'[i].ref => cache'[i].ref = 0
    BY <1>2 DEF RefsOver
<1> QED BY <1>3, <1>4 DEF RefsOver, RefOver

LEMMA NoRefIsOver == ASSUME Inv PROVE RefOver(0)
BY DEF Inv, Typed, TypeOK, RefOver

-----------------------------------------------------------------------------
(* Creation *)

LEMMA CreateKeeps == ASSUME Inv, NEW r \in Runs, Create(r) PROVE Inv'
<1> DEFINE task == [run[r] EXCEPT !.phase = "creating"]
<1>1. run[r] \in Tasks /\ InstanceOf[r] \in Instances /\ "creating" \in Phases
    BY DEF Inv, Typed, TypeOK, Phases
<1>2. RunBecomes(r, task) /\ KeepsToken(r, task) /\ task.phase = "creating"
    BY <1>1, TaskTyped DEF Create, Goto, RunBecomes, KeepsToken
<1>3. /\ job' \in Records /\ job'.status = "QUEUED" /\ job'.ref = 0
      /\ Copy(job') \in Copies /\ Copy(job').ref = 0
    BY ReleasedTyped, CopyTyped, StatusesAre DEF Create
<1>4. cache' = [cache EXCEPT ![InstanceOf[r]] = Copy(job')]
    BY DEF Create, Cached
<1>5. Typed'
    <2>1. cache' \in [Instances -> Copies] /\ task.phase \notin AtWork
        BY <1>1, <1>2, <1>3, <1>4 DEF Inv, Typed, TypeOK, AtWork
    <2>2. /\ claims' \in Nat /\ claims =< claims' /\ content' \subseteq 1 .. claims'
          /\ faults' \in 0 .. MaxFaults[store]
        BY DEF Create, Inv, Typed, TypeOK, Tokens
    <2> QED BY <1>2, <1>3, <2>1, <2>2, StepTyped DEF Create
<1>6. ASSUME store = "FILE", FileInv PROVE FileInv'
    <2>1. NothingPending' /\ NewestClaim'
        BY <1>3, <1>6 DEF Create, FileInv, NothingPending, NewestClaim
    <2>2. TokensApart'
        BY <1>2, <1>6, TokensStayApart DEF FileInv, Create
    <2>3. RefsOver'
        BY <1>1, <1>2, <1>3, <1>4, <1>6, RefsStayOver, NoRefIsOver
        DEF FileInv, RefsOver, Create, Inv, Typed, TypeOK
    <2>4. UploadsKept'
        BY <1>2, <1>6 DEF FileInv, UploadsKept, Pending, Create, RunBecomes, Inv,
                          Typed, TypeOK
    <2> QED BY <2>1, <2>2, <2>3, <2>4 DEF FileInv
<1> QED BY <1>5, <1>6 DEF Inv, Create

LEMMA AuditCreateKeeps == ASSUME Inv, NEW r \in Runs, AuditCreate(r) PROVE Inv'
<1>1. run[r] \in Tasks /\ InstanceOf[r] \in Instances /\ "scheduled" \in Phases
    BY DEF Inv, Typed, TypeOK, Phases
<1>2. PICK task :
         /\ RunBecomes(r, task) /\ KeepsToken(r, task)
         /\ task.phase \in {"scheduled", "idle"}
    <2>1. CASE Goto(r, "scheduled")
        BY <1>1, <2>1, TaskTyped DEF Goto, RunBecomes, KeepsToken
    <2>2. CASE Finish(r)
        BY <2>2, NoneTyped DEF Finish, RunBecomes, KeepsToken
    <2> QED BY <2>1, <2>2 DEF AuditCreate
<1>3. \/ UNCHANGED <<job, cache>>
      \/ /\ job' \in Records /\ job'.status = "deleted" /\ job'.ref = 0
         /\ cache' = [cache EXCEPT ![InstanceOf[r]] = NoCopy]
    BY ReleasedTyped, StatusesAre DEF AuditCreate, Cached
<1>4. faults' \in 0 .. MaxFaults[store]
    BY FaultsBounded DEF AuditCreate
<1>5. Typed'
    <2>1. /\ cache' \in [Instances -> Copies] /\ job' \in Records
          /\ task.phase \notin AtWork
        BY <1>1, <1>2, <1>3, NoneTyped DEF Inv, Typed, TypeOK, AtWork
    <2>2. claims' \in Nat /\ claims =< claims' /\ content' \subseteq 1 .. claims'
        BY DEF AuditCreate, Inv, Typed, TypeOK, Tokens
    <2> QED BY <1>2, <1>4, <2>1, <2>2, StepTyped DEF AuditCreate
<1>6. ASSUME store = "FILE", FileInv PROVE FileInv'
    <2>1. NothingPending' /\ NewestClaim'
        BY <1>3, <1>6 DEF AuditCreate, FileInv, NothingPending, NewestClaim
    <2>2. TokensApart'
        BY <1>2, <1>6, TokensStayApart DEF FileInv, AuditCreate
    <2>3. RefsOver'
        BY <1>1, <1>2, <1>3, <1>6, RefsStayOver, NoRefIsOver, NoneTyped
        DEF FileInv, RefsOver, AuditCreate, Inv, Typed, TypeOK
    <2>4. UploadsKept'
        BY <1>2, <1>6 DEF FileInv, UploadsKept, Pending, AuditCreate, RunBecomes,
                          Inv, Typed, TypeOK
    <2> QED BY <2>1, <2>2, <2>3, <2>4 DEF FileInv
<1> QED BY <1>5, <1>6 DEF Inv, AuditCreate

-----------------------------------------------------------------------------
(* A run *)

LEMMA ClaimKeeps == ASSUME Inv, NEW r \in Runs, Claim(r) PROVE Inv'
<1>1. CASE ~MayClaim
    <2>1. RunBecomes(r, Idle) /\ KeepsToken(r, Idle) /\ Idle.phase = "idle"
        BY <1>1, NoneTyped DEF Claim, Finish, RunBecomes, KeepsToken
    <2>2. Typed'
        BY <1>1, <2>1, RunsTyped DEF Claim, Inv, Typed, TypeOK, Tokens, AtWork
    <2>3. ASSUME store = "FILE", FileInv PROVE FileInv'
        <3>1. NothingPending' /\ NewestClaim' /\ TokensApart'
            BY <1>1, <2>1, <2>3, TokensStayApart
            DEF Claim, FileInv, NothingPending, NewestClaim
        <3>2. RefsOver'
            BY <1>1, <2>1, <2>3, RefsStayOver DEF FileInv, RefsOver, Claim
        <3>3. UploadsKept'
            BY <1>1, <2>1, <2>3 DEF FileInv, UploadsKept, Pending, Claim, RunBecomes,
                                    Inv, Typed, TypeOK
        <3> QED BY <3>1, <3>2, <3>3 DEF FileInv
    <2> QED BY <2>2, <2>3 DEF Inv, Claim
<1>2. CASE MayClaim
    <2>1. claims' = claims + 1 /\ claims \in Nat /\ job.attempt \in Nat
        BY <1>2 DEF Claim, Inv, Typed, TypeOK, Records
    <2>2. /\ job' \in Records /\ job'.status = "RUNNING" /\ job'.token = claims'
          /\ job'.ref = 0 /\ job'.attempt \in Nat
          /\ Copy(job') \in Copies /\ Copy(job').ref = 0
        <3>1. job' = Claimed(job.attempt + 1, claims')
            BY <1>2 DEF Claim
        <3> QED BY <2>1, <3>1, ClaimedTyped, CopyTyped
    <2>3. PICK task : /\ RunBecomes(r, task)
                      /\ task.phase = "executing" /\ task.token = claims'
        <3>1. PICK n \in Nat : n = claims'
            BY <2>1
        <3>2. PICK a \in Nat : a = job'.attempt
            BY <2>2
        <3>3. PICK task : task = [Idle EXCEPT !.phase = "executing", !.token = n,
                                              !.attempt = a]
            OBVIOUS
        <3>4. run' = [run EXCEPT ![r] = task]
            BY <1>2, <3>1, <3>2, <3>3, Zenon DEF Claim
        <3>5. task \in Tasks /\ task.phase = "executing" /\ task.token = n
            BY <3>3 DEF Tasks, Idle, Phases
        <3> QED BY <3>1, <3>4, <3>5 DEF RunBecomes
    <2>4. cache' = [cache EXCEPT ![InstanceOf[r]] = Copy(job')]
        BY <1>2 DEF Claim, Cached
    <2>5. Typed'
        <3>1. cache' \in [Instances -> Copies]
            BY <2>2, <2>4 DEF Inv, Typed, TypeOK
        <3>2. /\ content' \subseteq 1 .. claims' /\ claims' \in 1 .. claims'
              /\ faults' \in 0 .. MaxFaults[store]
            BY <2>1 DEF Claim, Inv, Typed, TypeOK, Tokens
        <3> QED BY <2>1, <2>2, <2>3, <3>1, <3>2, StepTyped DEF Claim
    <2>6. ASSUME store = "FILE", FileInv PROVE FileInv'
        <3>1. NothingPending' /\ NewestClaim'
            BY <2>2, <2>6 DEF Claim, FileInv, NothingPending, NewestClaim
        <3>2. run'[r] = task /\ \A q \in Runs : q # r => run'[q] = run[q]
            BY <2>3 DEF RunBecomes, Inv, Typed, TypeOK
        <3>3. \A q \in Runs : run[q].token \in Nat
            BY DEF Inv, Typed, TypeOK, Tasks
        <3>4. TokensApart'
            <4>1. \A q \in Runs : run[q].token =< claims
                BY <2>6 DEF FileInv, TokensApart
            <4>2. \A q \in Runs : run'[q].token =< claims'
                BY <2>1, <2>3, <3>2, <3>3, <4>1
            <4>3. ASSUME NEW p \in Runs, NEW q \in Runs, p # q,
                         run'[p].token = run'[q].token
                  PROVE  run'[p].token = 0
                <5>1. p # r /\ q # r
                    BY <2>1, <2>3, <3>2, <3>3, <4>1, <4>3
                <5> QED BY <2>6, <3>2, <4>3, <5>1 DEF FileInv, TokensApart
            <4> QED BY <4>2, <4>3 DEF TokensApart
        <3>5. ASSUME NEW ref \in Nat, RefOver(ref) PROVE RefOver(ref)'
            <4>1. ref =< claims'
                BY <2>1, <3>5 DEF RefOver
            <4>2. ASSUME NEW q \in Runs, run'[q].token = ref PROVE ref = 0
                <5>1. q # r
                    BY <2>1, <2>3, <3>2, <3>5, <4>2 DEF RefOver
                <5> QED BY <3>2, <3>5, <4>2, <5>1 DEF RefOver
            <4> QED BY <4>1, <4>2 DEF RefOver
        <3>6. RefsOver'
            BY <2>1, <2>2, <2>4, <2>6, <3>5, NoRefIsOver
            DEF FileInv, RefsOver, Inv, Typed, TypeOK, Copies
        <3>7. UploadsKept'
            BY <2>3, <2>6, <3>2 DEF FileInv, UploadsKept, Pending, Claim
        <3> QED BY <3>1, <3>4, <3>6, <3>7 DEF FileInv
    <2> QED BY <2>5, <2>6 DEF Inv, Claim
<1> QED BY <1>1, <1>2

\* Most of a run changes nothing but the run and what is stored.
LEMMA RunKeeps ==
    ASSUME Inv, NEW r \in Runs, NEW task, RunBecomes(r, task), KeepsToken(r, task),
           task.phase \in AtWork => task.token \in Tokens,
           content' \subseteq Tokens,
           faults' \in 0 .. MaxFaults[store],
           UNCHANGED <<store, job, claims, overdue, cache, view, late>>,
           store = "FILE" => UploadsKept'
    PROVE  Inv'
<1>1. Typed'
    BY RunsTyped DEF Inv, Typed, TypeOK, Tokens
<1>2. ASSUME store = "FILE", FileInv PROVE FileInv'
    <2>1. NothingPending' /\ NewestClaim' /\ TokensApart'
        BY <1>2, TokensStayApart DEF FileInv, NothingPending, NewestClaim
    <2>2. RefsOver'
        BY <1>2, RefsStayOver DEF FileInv, RefsOver
    <2> QED BY <1>2, <2>1, <2>2 DEF FileInv
<1> QED BY <1>1, <1>2 DEF Inv

LEMMA ExecuteKeeps == ASSUME Inv, NEW r \in Runs, Execute(r) PROVE Inv'
<1>1. /\ run[r] \in Tasks /\ run[r].token \in Tokens
      /\ {"uploaded", "failing"} \subseteq Phases
    BY DEF Execute, Inv, Typed, TypeOK, AtWork, Phases
<1>2. PICK task :
         /\ RunBecomes(r, task) /\ task.token = run[r].token
         /\ content' = IF task.phase = "uploaded" THEN content \cup {run[r].token}
                       ELSE content
         /\ task.phase \in {"uploaded", "failing"}
    <2>1. CASE Goto(r, "uploaded") /\ content' = content \cup {run[r].token}
        BY <1>1, <2>1, TaskTyped DEF Goto, RunBecomes
    <2>2. ASSUME NEW retry \in BOOLEAN, Fails(r, retry), UNCHANGED content
          PROVE  \E task :
                    /\ RunBecomes(r, task) /\ task.token = run[r].token
                    /\ content' = IF task.phase = "uploaded"
                                  THEN content \cup {run[r].token} ELSE content
                    /\ task.phase \in {"uploaded", "failing"}
        <3>1. PICK task : task = [run[r] EXCEPT !.phase = "failing", !.retry = retry]
            OBVIOUS
        <3>2. run' = [run EXCEPT ![r] = task]
            BY <2>2, <3>1 DEF Fails
        <3>3. task \in Tasks /\ task.phase = "failing" /\ task.token = run[r].token
            BY <1>1, <3>1 DEF Tasks
        <3> QED BY <2>2, <3>2, <3>3 DEF RunBecomes
    <2> QED BY <2>1, <2>2 DEF Execute
<1>3. faults' \in 0 .. MaxFaults[store]
    BY FaultsBounded DEF Execute
<1>4. content' \subseteq Tokens
    BY <1>1, <1>2 DEF Inv, Typed, TypeOK
<1>5. ASSUME store = "FILE" PROVE UploadsKept'
    BY <1>2, <1>5 DEF Inv, Typed, TypeOK, FileInv, UploadsKept, Pending, RunBecomes
<1> QED BY <1>1, <1>2, <1>3, <1>4, <1>5, RunKeeps DEF Execute, KeepsToken

LEMMA AuditCompletionKeeps == ASSUME Inv, NEW r \in Runs, AuditCompletion(r) PROVE Inv'
<1>1. /\ run[r] \in Tasks /\ run[r].token \in Tokens
      /\ {"audited", "failing"} \subseteq Phases
    BY DEF AuditCompletion, Inv, Typed, TypeOK, AtWork, Phases
<1>2. PICK task :
         /\ RunBecomes(r, task) /\ task.token = run[r].token
         /\ \/ task.phase = "audited" /\ UNCHANGED content
            \/ task.phase = "failing" /\ content' = content \ {run[r].token}
    <2>1. CASE Goto(r, "audited") /\ UNCHANGED content
        BY <1>1, <2>1, TaskTyped DEF Goto, RunBecomes
    <2>2. CASE Fails(r, FALSE) /\ content' = content \ {run[r].token}
        <3>1. PICK task : task = [run[r] EXCEPT !.phase = "failing", !.retry = FALSE]
            OBVIOUS
        <3>2. run' = [run EXCEPT ![r] = task]
            BY <2>2, <3>1 DEF Fails
        <3>3. task \in Tasks /\ task.phase = "failing" /\ task.token = run[r].token
            BY <1>1, <3>1 DEF Tasks
        <3> QED BY <2>2, <3>2, <3>3 DEF RunBecomes
    <2> QED BY <2>1, <2>2 DEF AuditCompletion
<1>3. faults' \in 0 .. MaxFaults[store]
    BY FaultsBounded DEF AuditCompletion
<1>4. content' \subseteq Tokens
    BY <1>2 DEF Inv, Typed, TypeOK
<1>5. ASSUME store = "FILE" PROVE UploadsKept'
    <2>1. run'[r] = task /\ \A q \in Runs : q # r => run'[q] = run[q]
        BY <1>2 DEF RunBecomes, Inv, Typed, TypeOK
    <2>2. ASSUME NEW q \in Runs, Pending(q)' PROVE run'[q].token \in content'
        <3>1. Pending(q) /\ run'[q].token = run[q].token /\ run[q].token \in content
            BY <1>2, <1>5, <2>1, <2>2
            DEF AuditCompletion, Pending, Inv, FileInv, UploadsKept
        <3>2. CASE q = r
            BY <1>2, <2>1, <2>2, <3>1, <3>2 DEF Pending
        <3>3. CASE q # r
            <4>1. run[q].token # run[r].token
                BY <1>1, <1>5, <3>3 DEF Inv, FileInv, TokensApart, Tokens
            <4> QED BY <1>2, <3>1, <4>1
        <3> QED BY <3>2, <3>3
    <2> QED BY <2>2 DEF UploadsKept
<1> QED BY <1>1, <1>2, <1>3, <1>4, <1>5, RunKeeps DEF AuditCompletion, KeepsToken

LEMMA CommitKeeps == ASSUME Inv, NEW r \in Runs, Commit(r) PROVE Inv'
<1>1. /\ run[r] \in Tasks /\ run[r].token \in Tokens /\ InstanceOf[r] \in Instances
      /\ "failing" \in Phases /\ run[r].attempt \in Nat /\ run[r].token \in Nat
    BY DEF Commit, Inv, Typed, TypeOK, AtWork, Phases, Tokens, Tasks
<1>2. /\ Owns(r) => /\ job' \in Records /\ job'.status = "COMPLETED"
                    /\ job'.ref = run[r].token
                    /\ Copy(job') \in Copies /\ Copy(job').ref = run[r].token
      /\ ~Owns(r) => job' = job
    <2>1. PICK new : new = Released("COMPLETED", run[r].attempt, run[r].token)
        OBVIOUS
    <2>2. /\ new \in Records /\ new.status = "COMPLETED" /\ new.ref = run[r].token
          /\ Copy(new) \in Copies /\ Copy(new).ref = run[r].token
        BY <1>1, <2>1, ReleasedTyped, CopyTyped, StatusesAre
    <2>3. job' = IF Owns(r) THEN new ELSE job
        BY <2>1 DEF Commit
    <2> QED BY <2>2, <2>3
<1>3. PICK task : /\ RunBecomes(r, task)
                  /\ \/ task.phase = "idle" /\ task.token = 0
                     \/ task.phase = "failing" /\ task.token = run[r].token
                  /\ store = "FILE" => task = Idle
    <2>1. CASE Finish(r)
        BY <2>1, NoneTyped DEF Finish, RunBecomes
    <2>2. CASE Fails(r, TRUE) /\ store = "FIRESTORE"
        <3>1. PICK task : task = [run[r] EXCEPT !.phase = "failing", !.retry = TRUE]
            OBVIOUS
        <3>2. run' = [run EXCEPT ![r] = task]
            BY <2>2, <3>1 DEF Fails
        <3>3. task \in Tasks /\ task.phase = "failing" /\ task.token = run[r].token
            BY <1>1, <3>1 DEF Tasks
        <3> QED BY <2>2, <3>2, <3>3 DEF RunBecomes
    <2> QED BY <2>1, <2>2 DEF Commit
<1>4. Typed'
    <2>1. cache' \in [Instances -> Copies] /\ job' \in Records
        BY <1>1, <1>2 DEF Commit, Cached, Inv, Typed, TypeOK
    <2>2. claims' \in Nat /\ claims =< claims' /\ content' \subseteq 1 .. claims'
        <3>1. content' \subseteq content /\ UNCHANGED claims
            BY DEF Commit
        <3> QED BY <3>1 DEF Inv, Typed, TypeOK, Tokens
    <2>4. faults' \in 0 .. MaxFaults[store]
        BY FaultsBounded DEF Commit
    <2>3. task.phase \in AtWork => task.token \in 1 .. claims'
        BY <1>1, <1>3 DEF Commit, AtWork, Tokens
    <2> QED BY <1>3, <2>1, <2>2, <2>3, <2>4, StepTyped DEF Commit
<1>5. ASSUME store = "FILE", FileInv PROVE FileInv'
    <2>1. /\ run'[r].token = 0 /\ run'[r].phase = "idle"
          /\ \A q \in Runs : q # r => run'[q] = run[q]
        BY <1>3, <1>5, NoneTyped DEF RunBecomes, Inv, Typed, TypeOK
    <2>2. \A q \in Runs : q # r => run[q].token # run[r].token
        BY <1>1, <1>5 DEF FileInv, TokensApart, Tokens
    <2>3. NothingPending' /\ NewestClaim'
        BY <1>2, <1>5 DEF Commit, Owns, FileInv, NothingPending, NewestClaim
    <2>4. TokensApart'
        BY <1>3, <1>5, TokensStayApart DEF FileInv, Commit, KeepsToken
    <2>5. PICK n : n = run[r].token
        OBVIOUS
    <2>6. RefsOver'
        <3>1. n =< claims' /\ \A q \in Runs : run'[q].token = n => n = 0
            BY <1>1, <2>1, <2>2, <2>5 DEF Commit, Tokens, Inv, Typed, TypeOK
        <3>2. RefOver(n)'
            BY <3>1 DEF RefOver
        <3>3. job'.ref \in {n, job.ref}
            BY <1>2, <2>5
        <3>4. \A i \in Instances : cache'[i].ref \in {n, cache[i].ref}
            <4>1. CASE UNCHANGED cache
                BY <4>1
            <4>2. CASE Owns(r) /\ cache' = [cache EXCEPT ![InstanceOf[r]] = Copy(job')]
                BY <1>1, <1>2, <2>5, <4>2 DEF Inv, Typed, TypeOK
            <4> QED BY <4>1, <4>2 DEF Commit, Cached
        <3>5. RefsOver /\ UNCHANGED claims
            BY <1>5 DEF FileInv, Commit
        <3> QED BY <1>3, <3>2, <3>3, <3>4, <3>5, RefsOverKept DEF KeepsToken
    <2>7. UploadsKept'
        BY <1>5, <2>1, <2>2 DEF Commit, FileInv, UploadsKept, Pending
    <2> QED BY <2>3, <2>4, <2>6, <2>7 DEF FileInv
<1> QED BY <1>4, <1>5 DEF Inv, Commit

\* A run that fails goes on, but may delete what its instance refers to.
LEMMA CurrentTyped ==
    ASSUME Inv, NEW r \in Runs
    PROVE  /\ Current(r) \in Copies
           /\ Current(r).ref = cache[InstanceOf[r]].ref \/ Current(r).ref = 0
<1>1. run[r].attempt \in Nat /\ cache[InstanceOf[r]] \in Copies
    BY DEF Inv, Typed, TypeOK, Tasks
<1>2. PICK n, copy : n = run[r].attempt /\ copy = [NoCopy EXCEPT !.attempt = n]
    BY <1>1
<1>3. copy \in Copies /\ copy.ref = 0
    BY <1>1, <1>2 DEF Copies, NoCopy
<1>4. Current(r) = IF cache[InstanceOf[r]] # NoCopy THEN cache[InstanceOf[r]] ELSE copy
    BY <1>2 DEF Current
<1> QED BY <1>1, <1>3, <1>4

LEMMA FailKeeps == ASSUME Inv, NEW r \in Runs, Fail(r) PROVE Inv'
<1>1. /\ run[r] \in Tasks /\ run[r].token \in Tokens /\ InstanceOf[r] \in Instances
      /\ "settling" \in Phases
    BY DEF Fail, Inv, Typed, TypeOK, AtWork, Phases
<1>2. PICK now : now = Current(r)
    OBVIOUS
<1>3. /\ now \in Copies /\ now.attempt \in Nat /\ now.ref \in Nat
      /\ now.ref = cache[InstanceOf[r]].ref \/ now.ref = 0
    BY <1>2, CurrentTyped DEF Copies
<1>4. (run[r].retry /\ now.attempt < MaxAttempts) \in BOOLEAN
    OBVIOUS
<1>5. PICK retry \in BOOLEAN : retry = (run[r].retry /\ now.attempt < MaxAttempts)
    BY <1>4, Zenon
<1>6. PICK task : task = [run[r] EXCEPT !.phase = "settling", !.attempt = now.attempt,
                                        !.retry = retry]
    OBVIOUS
<1>7. run' = [run EXCEPT ![r] = task]
    <2>1. run' = [run EXCEPT ![r].phase = "settling", ![r].attempt = now.attempt,
                             ![r].retry = @ /\ now.attempt < MaxAttempts]
        BY <1>2 DEF Fail
    <2>2. run[r].retry = [[run[r] EXCEPT !.phase = "settling"]
                             EXCEPT !.attempt = now.attempt].retry
        BY <1>1 DEF Tasks
    <2> QED BY <1>1, <1>5, <1>6, <2>1, <2>2 DEF Inv, Typed, TypeOK, Tasks
<1>8. /\ RunBecomes(r, task) /\ task.phase = "settling" /\ task.token = run[r].token
    BY <1>1, <1>3, <1>6, <1>7 DEF RunBecomes, Tasks
<1>9. PICK copy \in Copies :
         /\ copy.ref = 0 /\ cache' = [cache EXCEPT ![InstanceOf[r]] = copy]
    BY <1>2, <1>3 DEF Fail, Cached, Copies
<1>10. content' = content \ {now.ref}
    BY <1>2 DEF Fail
<1>11. Typed'
    <2>1. cache' \in [Instances -> Copies]
        BY <1>9 DEF Inv, Typed, TypeOK
    <2>2. /\ claims' \in Nat /\ claims =< claims' /\ content' \subseteq 1 .. claims'
          /\ faults' \in 0 .. MaxFaults[store] /\ job' \in Records
          /\ task.token \in 1 .. claims'
        BY <1>1, <1>8, <1>10 DEF Fail, Inv, Typed, TypeOK, Tokens
    <2> QED BY <1>8, <2>1, <2>2, StepTyped DEF Fail
<1>12. ASSUME store = "FILE", FileInv PROVE FileInv'
    <2>1. NothingPending' /\ NewestClaim'
        BY <1>12 DEF Fail, FileInv, NothingPending, NewestClaim
    <2>2. TokensApart'
        BY <1>8, <1>12, TokensStayApart DEF FileInv, Fail, KeepsToken
    <2>3. RefsOver'
        <3>1. RefsOver /\ UNCHANGED <<claims, job>>
            BY <1>12 DEF FileInv, Fail
        <3>2. \A i \in Instances : cache'[i].ref \in {0, cache[i].ref}
            BY <1>9 DEF Inv, Typed, TypeOK
        <3>3. RefOver(0)'
            BY <3>1 DEF RefOver, Inv, Typed, TypeOK
        <3> QED BY <1>8, <3>1, <3>2, <3>3, RefsOverKept DEF KeepsToken
    <2>4. UploadsKept'
        <3>1. \A q \in Runs : run[q].token = now.ref => now.ref = 0
            BY <1>1, <1>3, <1>12 DEF FileInv, RefsOver, RefOver
        <3>2. \A q \in Runs : Pending(q)' => Pending(q) /\ run'[q].token = run[q].token
            BY <1>8 DEF Pending, RunBecomes, Inv, Typed, TypeOK
        <3>3. \A q \in Runs : Pending(q) => run[q].token \in content /\ run[q].token # 0
            BY <1>12 DEF FileInv, UploadsKept, Inv, Typed, TypeOK, Tokens
        <3> QED BY <1>10, <3>1, <3>2, <3>3 DEF UploadsKept
    <2> QED BY <2>1, <2>2, <2>3, <2>4 DEF FileInv
<1> QED BY <1>11, <1>12 DEF Inv, Fail

LEMMA SettleKeeps == ASSUME Inv, NEW r \in Runs, Settle(r) PROVE Inv'
<1>1. /\ run[r] \in Tasks /\ InstanceOf[r] \in Instances
      /\ "scheduled" \in Phases /\ run[r].attempt \in Nat
    BY DEF Settle, Inv, Typed, TypeOK, Phases, Tasks
<1>2. PICK new : new = Settled(r)
    OBVIOUS
<1>3. /\ new \in Records /\ new.status \in {"QUEUED", "FAILED"} /\ new.ref = 0
      /\ Copy(new) \in Copies /\ Copy(new).ref = 0
    BY <1>1, <1>2, ReleasedTyped, CopyTyped, StatusesAre DEF Settled
<1>4. /\ job' = IF Owns(r) THEN new ELSE job
      /\ cache' = [cache EXCEPT ![InstanceOf[r]] = Copy(new)] \/ UNCHANGED cache
    BY <1>2 DEF Settle, Cached
<1>5. PICK task : /\ RunBecomes(r, task) /\ task.token = 0
                  /\ task.phase \in {"idle", "scheduled"}
    <2>1. CASE Finish(r)
        BY <2>1, NoneTyped DEF Finish, RunBecomes
    <2>2. CASE run' = [run EXCEPT ![r] = [Idle EXCEPT !.phase = "scheduled"]]
        <3>1. PICK task : task = [Idle EXCEPT !.phase = "scheduled"]
            OBVIOUS
        <3>2. task \in Tasks /\ task.token = 0 /\ task.phase = "scheduled"
            BY <1>1, <3>1, NoneTyped, TaskTyped
        <3> QED BY <2>2, <3>1, <3>2 DEF RunBecomes
    <2> QED BY <2>1, <2>2 DEF Settle
<1>6. Typed'
    <2>1. /\ cache' \in [Instances -> Copies] /\ job' \in Records
          /\ task.phase \notin AtWork
        BY <1>1, <1>3, <1>4, <1>5 DEF Inv, Typed, TypeOK, AtWork
    <2>2. claims' \in Nat /\ claims =< claims' /\ content' \subseteq 1 .. claims'
        BY DEF Settle, Inv, Typed, TypeOK, Tokens
    <2>3. faults' \in 0 .. MaxFaults[store]
        BY FaultsBounded DEF Settle
    <2> QED BY <1>5, <2>1, <2>2, <2>3, StepTyped DEF Settle
<1>7. ASSUME store = "FILE", FileInv PROVE FileInv'
    <2>1. NothingPending' /\ NewestClaim'
        BY <1>3, <1>4, <1>7 DEF Settle, FileInv, NothingPending, NewestClaim
    <2>2. TokensApart'
        BY <1>5, <1>7, TokensStayApart DEF FileInv, Settle, KeepsToken
    <2>3. RefsOver'
        <3>1. RefsOver /\ UNCHANGED claims
            BY <1>7 DEF FileInv, Settle
        <3>2. /\ job'.ref \in {0, job.ref}
              /\ \A i \in Instances : cache'[i].ref \in {0, cache[i].ref}
            BY <1>1, <1>3, <1>4 DEF Inv, Typed, TypeOK
        <3>3. RefOver(0)'
            BY <3>1 DEF RefOver, Inv, Typed, TypeOK
        <3> QED BY <1>5, <3>1, <3>2, <3>3, RefsOverKept DEF KeepsToken
    <2>4. UploadsKept'
        BY <1>5, <1>7 DEF Settle, FileInv, UploadsKept, Pending, RunBecomes, Inv,
                          Typed, TypeOK
    <2> QED BY <2>1, <2>2, <2>3, <2>4 DEF FileInv
<1> QED BY <1>6, <1>7 DEF Inv, Settle

-----------------------------------------------------------------------------
(* Steps that leave the runs alone *)

LEMMA StillTyped ==
    ASSUME Inv, job' \in Records, content' \subseteq content,
           cache' \in [Instances -> Copies], view' \in [Instances -> Views],
           late' \subseteq [attempt : Nat, token : Nat], overdue' \in BOOLEAN,
           faults' \in 0 .. MaxFaults[store], UNCHANGED <<store, run, claims>>
    PROVE  Typed'
BY DEF Inv, Typed, TypeOK, Tokens

\* They refer to nothing new.
LEMMA StillOver ==
    ASSUME Inv, RefsOver, UNCHANGED <<run, claims>>, job'.ref \in {0, job.ref},
           \A i \in Instances : cache'[i].ref \in {0, job.ref, cache[i].ref}
    PROVE  RefsOver'
<1>1. RefOver(0) /\ RefOver(job.ref) /\ \A i \in Instances : RefOver(cache[i].ref)
    BY NoRefIsOver DEF RefsOver
<1> QED BY <1>1 DEF RefsOver, RefOver

LEMMA RenewKeeps == ASSUME Inv, NEW r \in Runs, Renew(r) PROVE Inv'
<1>1. \/ /\ store = "FILE" /\ UNCHANGED late
         /\ job' = [job EXCEPT !.live = TRUE]
      \/ /\ store # "FILE" /\ UNCHANGED job
         /\ late' = late \cup {Renewal(r)}
    BY DEF Renew
<1>2. Renewal(r) \in [attempt : Nat, token : Nat]
    BY DEF Renewal, Inv, Typed, TypeOK, Tasks
<1>3. job \in Records /\ late \subseteq [attempt : Nat, token : Nat]
    BY DEF Inv, Typed, TypeOK
<1>4. /\ job' \in Records /\ job'.status = job.status
      /\ job'.token = job.token /\ job'.ref = job.ref
    BY <1>1, <1>3 DEF Records
<1>5. late' \subseteq [attempt : Nat, token : Nat]
    BY <1>1, <1>2, <1>3
<1>6. Typed'
    BY <1>4, <1>5, StillTyped DEF Renew, Inv, Typed, TypeOK
<1>7. ASSUME store = "FILE", FileInv PROVE FileInv'
    <2>1. NothingPending' /\ NewestClaim' /\ TokensApart' /\ UploadsKept'
        BY <1>1, <1>4, <1>7 DEF Renew, FileInv, NothingPending, NewestClaim,
                                TokensApart, UploadsKept, Pending
    <2>2. RefsOver'
        BY <1>4, <1>7, StillOver DEF Renew, FileInv
    <2> QED BY <2>1, <2>2 DEF FileInv
<1> QED BY <1>6, <1>7 DEF Inv, Renew

LEMMA RenewalLandsKeeps == ASSUME Inv, NEW w \in late, RenewalLands(w) PROVE Inv'
<1>1. store # "FILE"
    BY DEF Inv, FileInv, NothingPending
<1>2. w.attempt \in Nat /\ w.token \in Nat /\ late' \subseteq late
    BY DEF RenewalLands, Inv, Typed, TypeOK
<1>3. job' \in Records
    BY <1>2, ClaimedTyped DEF RenewalLands, Inv, Typed, TypeOK
<1>4. faults' \in 0 .. MaxFaults[store]
    <2>1. Fine \/ Fault
        BY DEF RenewalLands, Fine
    <2> QED BY <2>1, FaultsBounded
<1>5. Typed'
    BY <1>2, <1>3, <1>4, StillTyped DEF RenewalLands, Inv, Typed, TypeOK
<1> QED BY <1>1, <1>5 DEF Inv, RenewalLands

LEMMA LapseKeeps == ASSUME Inv, Lapse PROVE Inv'
<1>1. /\ job' \in Records /\ job'.status = job.status
      /\ job'.token = job.token /\ job'.ref = job.ref
    BY DEF Lapse, Inv, Typed, TypeOK, Records
<1>2. faults' \in 0 .. MaxFaults[store]
    BY FaultsBounded DEF Lapse
<1>3. Typed'
    BY <1>1, <1>2, StillTyped DEF Lapse, Inv, Typed, TypeOK
<1>4. ASSUME store = "FILE", FileInv PROVE FileInv'
    <2>1. NothingPending' /\ NewestClaim' /\ TokensApart' /\ UploadsKept'
        BY <1>1, <1>4 DEF Lapse, FileInv, NothingPending, NewestClaim,
                          TokensApart, UploadsKept, Pending
    <2>2. RefsOver'
        BY <1>1, <1>4, StillOver DEF Lapse, FileInv
    <2> QED BY <2>1, <2>2 DEF FileInv
<1> QED BY <1>3, <1>4 DEF Inv, Lapse

LEMMA CrashKeeps == ASSUME Inv, NEW i \in Instances, Crash(i) PROVE Inv'
<1>1. run' = [r \in Runs |-> IF InstanceOf[r] = i THEN Idle ELSE run[r]]
    BY DEF Crash
<1>2. /\ cache' = [cache EXCEPT ![i] = NoCopy] /\ view' = [view EXCEPT ![i] = NoView]
      /\ UNCHANGED <<store, job, claims, overdue, content, late>>
    BY DEF Crash
<1>3. faults' \in 0 .. MaxFaults[store]
    BY FaultsBounded DEF Crash
<1>4. /\ run' \in [Runs -> Tasks]
      /\ \A r \in Runs : \/ run'[r] = run[r]
                         \/ run'[r].token = 0 /\ run'[r].phase = "idle"
    <2>1. \A r \in Runs : run'[r] = Idle \/ run'[r] = run[r]
        BY <1>1
    <2>2. run' \in [Runs -> Tasks]
        BY <1>1, NoneTyped DEF Inv, Typed, TypeOK
    <2>3. Idle.token = 0 /\ Idle.phase = "idle"
        BY NoneTyped
    <2> QED BY <2>1, <2>2, <2>3
<1>5. Typed'
    BY <1>2, <1>3, <1>4, NoneTyped DEF Inv, Typed, TypeOK, Tokens, AtWork
<1>6. ASSUME store = "FILE", FileInv PROVE FileInv'
    <2>1. NothingPending' /\ NewestClaim'
        BY <1>2, <1>6 DEF FileInv, NothingPending, NewestClaim, Inv, Typed, TypeOK
    <2>2. TokensApart'
        BY <1>2, <1>4, <1>6 DEF FileInv, TokensApart, Inv, Typed, TypeOK
    <2>3. RefsOver'
        <3>1. \A j \in Instances : cache'[j].ref = 0 \/ cache'[j] = cache[j]
            BY <1>2, NoneTyped DEF Inv, Typed, TypeOK
        <3>2. RefOver(0) /\ RefOver(job.ref) /\ \A j \in Instances : RefOver(cache[j].ref)
            BY <1>6, NoRefIsOver DEF FileInv, RefsOver
        <3> QED BY <1>2, <1>4, <3>1, <3>2 DEF RefsOver, RefOver
    <2>4. UploadsKept'
        BY <1>2, <1>4, <1>6 DEF FileInv, UploadsKept, Pending
    <2> QED BY <2>1, <2>2, <2>3, <2>4 DEF FileInv
<1> QED BY <1>2, <1>5, <1>6 DEF Inv

-----------------------------------------------------------------------------
(* Recovery, status and expiry *)

LEMMA RecoverKeeps ==
    ASSUME Inv, NEW i \in Instances, NEW copy \in Copies, Recover(i, copy),
           view' \in [Instances -> Views], UNCHANGED <<store, claims, overdue, late, faults>>,
           store = "FILE" => copy.ref = job.ref /\ UNCHANGED view
    PROVE  Inv'
<1>1. PICK r \in Runs : run[r].phase = "idle" /\ Goto(r, "scheduled")
    BY DEF Recover
<1>2. PICK task : task = [run[r] EXCEPT !.phase = "scheduled"]
    OBVIOUS
<1>3. /\ RunBecomes(r, task) /\ KeepsToken(r, task) /\ task.phase = "scheduled"
    BY <1>1, <1>2, TaskTyped DEF Goto, RunBecomes, KeepsToken, Inv, Typed, TypeOK, Phases
<1>4. cache' = [cache EXCEPT ![i] = copy] /\ UNCHANGED <<job, content>>
    BY DEF Recover
<1>5. Typed'
    <2>1. /\ run' \in [Runs -> Tasks]
          /\ \A q \in Runs : run'[q].phase \in AtWork => run'[q].token \in 1 .. claims'
        BY <1>3, RunsTyped DEF AtWork, Inv, Typed, TypeOK
    <2> QED BY <1>4, <2>1 DEF Inv, Typed, TypeOK, Tokens
<1>6. ASSUME store = "FILE", FileInv PROVE FileInv'
    <2>1. NothingPending' /\ NewestClaim' /\ TokensApart'
        BY <1>3, <1>4, <1>6, TokensStayApart DEF FileInv, NothingPending, NewestClaim
    <2>2. RefsOver'
        <3>1. PICK n : n = job.ref
            OBVIOUS
        <3>2. RefsOver /\ RefOver(n)
            BY <1>6, <3>1 DEF FileInv, RefsOver
        <3>3. RefOver(n)'
            BY <1>3, <3>2, RefsStayOver
        <3>4. job'.ref = n /\ \A j \in Instances : cache'[j].ref \in {n, cache[j].ref}
            BY <1>4, <1>6, <3>1 DEF Inv, Typed, TypeOK
        <3> QED BY <1>3, <3>2, <3>3, <3>4, RefsOverKept
    <2>3. UploadsKept'
        BY <1>3, <1>4, <1>6 DEF FileInv, UploadsKept, Pending, RunBecomes, Inv, Typed,
                                TypeOK
    <2> QED BY <2>1, <2>2, <2>3 DEF FileInv
<1> QED BY <1>5, <1>6 DEF Inv

LEMMA ExpiredTyped ==
    ASSUME Inv, NEW copy \in Copies, Expire(copy)
    PROVE  /\ job' \in Records /\ job'.status = "EXPIRED" /\ job'.ref = 0
           /\ Copy(job') \in Copies /\ Copy(job').ref = 0
<1>1. PICK new : new = Released("EXPIRED", copy.attempt, 0)
    OBVIOUS
<1>2. /\ new \in Records /\ new.status = "EXPIRED" /\ new.ref = 0
      /\ Copy(new) \in Copies /\ Copy(new).ref = 0
    <2>1. copy.attempt \in Nat /\ "EXPIRED" \in Statuses
        BY StatusesAre DEF Copies
    <2>2. new \in Records /\ new.status = "EXPIRED" /\ new.ref = 0
        BY <1>1, <2>1, ReleasedTyped
    <2> QED BY <2>2, CopyTyped
<1> QED BY <1>1, <1>2 DEF Expire

\* get_job and the purge.
LEMMA ExpireKeeps ==
    ASSUME Inv, NEW i \in Instances, NEW copy \in Copies, Expire(copy),
           cache' = [cache EXCEPT ![i] = Copy(job')],
           view' \in [Instances -> Views],
           UNCHANGED <<store, claims, overdue, run, late, faults>>,
           store = "FILE" => copy.ref = job.ref /\ UNCHANGED view
    PROVE  Inv'
<1>1. /\ job' \in Records /\ job'.status = "EXPIRED" /\ job'.ref = 0
      /\ Copy(job') \in Copies /\ Copy(job').ref = 0
    BY ExpiredTyped
<1>2. content' = content \ {copy.ref}
    BY DEF Expire
<1>3. Typed'
    <2>1. cache' \in [Instances -> Copies]
        BY <1>1 DEF Inv, Typed, TypeOK
    <2>2. /\ late' \subseteq [attempt : Nat, token : Nat] /\ overdue' \in BOOLEAN
          /\ faults' \in 0 .. MaxFaults[store] /\ content' \subseteq content
        BY <1>2 DEF Inv, Typed, TypeOK
    <2> QED BY <1>1, <2>1, <2>2, StillTyped
<1>4. ASSUME store = "FILE", FileInv PROVE FileInv'
    <2>1. NothingPending' /\ NewestClaim' /\ TokensApart'
        BY <1>1, <1>4 DEF FileInv, NothingPending, NewestClaim, TokensApart
    <2>2. RefsOver'
        <3>1. \A j \in Instances : cache'[j].ref \in {0, cache[j].ref}
            BY <1>1 DEF Inv, Typed, TypeOK
        <3> QED BY <1>1, <1>4, <3>1, StillOver DEF FileInv
    <2>3. UploadsKept'
        <3>1. \A q \in Runs : run[q].token = job.ref => job.ref = 0
            BY <1>4 DEF FileInv, RefsOver, RefOver
        <3>2. \A q \in Runs : Pending(q) => run[q].token \in content /\ run[q].token # 0
            BY <1>4 DEF FileInv, UploadsKept, Inv, Typed, TypeOK, Tokens
        <3> QED BY <1>2, <1>4, <3>1, <3>2 DEF UploadsKept, Pending
    <2> QED BY <2>1, <2>2, <2>3 DEF FileInv
<1> QED BY <1>3, <1>4 DEF Inv

LEMMA UseKeeps ==
    ASSUME Inv, NEW i \in Instances, NEW for, NEW copy \in Copies, Use(i, for, copy),
           view' \in [Instances -> Views],
           UNCHANGED <<store, claims, overdue, late, faults>>,
           store = "FILE" => copy.ref = job.ref /\ UNCHANGED view
    PROVE  Inv'
<1>1. CASE for = "scanner"
    BY <1>1, RecoverKeeps DEF Use
<1>2. CASE for # "scanner" /\ MustExpire(copy)
    BY <1>2, ExpireKeeps DEF Use, Answer
<1>3. CASE for # "scanner" /\ ~MustExpire(copy)
    <2>1. cache' = [cache EXCEPT ![i] = copy] /\ UNCHANGED <<job, content, run>>
        BY <1>3 DEF Use, Answer
    <2>2. Typed'
        BY <2>1, StillTyped DEF Inv, Typed, TypeOK
    <2>3. ASSUME store = "FILE", FileInv PROVE FileInv'
        <3>1. \A j \in Instances : cache'[j].ref \in {job.ref, cache[j].ref}
            BY <2>1, <2>3 DEF Inv, Typed, TypeOK
        <3>2. RefsOver'
            BY <2>1, <2>3, <3>1, StillOver DEF FileInv
        <3> QED BY <2>1, <2>3, <3>2 DEF FileInv, NothingPending, NewestClaim,
                                        TokensApart, UploadsKept, Pending
    <2> QED BY <2>2, <2>3 DEF Inv
<1> QED BY <1>1, <1>2, <1>3

LEMMA ReadKeeps ==
    ASSUME Inv, NEW i \in Instances, NEW for \in {"scanner", "reader"}, Read(i, for)
    PROVE  Inv'
<1>1. Copy(job) \in Copies /\ Copy(job).ref = job.ref
    BY CopyTyped DEF Inv, Typed, TypeOK
<1>2. CASE store = "FILE"
    BY <1>1, <1>2, UseKeeps DEF Read, Inv, Typed, TypeOK
<1>3. CASE store # "FILE"
    <2>1. [for |-> for, copy |-> Copy(job)] \in Views
        BY <1>1 DEF Views
    <2>2. Typed'
        BY <1>3, <2>1, StillTyped DEF Read, Inv, Typed, TypeOK
    <2> QED BY <1>3, <2>2 DEF Read, Inv
<1> QED BY <1>2, <1>3

LEMMA ActKeeps == ASSUME Inv, NEW i \in Instances, Act(i) PROVE Inv'
<1>1. store # "FILE"
    BY DEF Act, Inv, FileInv, NothingPending
<1>2. view[i].copy \in Copies
    BY DEF Inv, Typed, TypeOK, Views
<1>3. view' \in [Instances -> Views]
    BY NoneTyped DEF Act, Inv, Typed, TypeOK
<1> QED BY <1>1, <1>2, <1>3, UseKeeps DEF Act

LEMMA PurgeKeeps == ASSUME Inv, NEW i \in Instances, Purge(i) PROVE Inv'
<1>1. Copy(job) \in Copies /\ Copy(job).ref = job.ref
    BY CopyTyped DEF Inv, Typed, TypeOK
<1> QED BY <1>1, ExpireKeeps DEF Purge, Inv, Typed, TypeOK

LEMMA SweepKeeps ==
    ASSUME Inv, NEW i \in Instances, NEW a \in content, Sweep(i, a) PROVE Inv'
<1>1. Typed'
    BY StillTyped DEF Sweep, Inv, Typed, TypeOK
<1>2. ASSUME store = "FILE", FileInv PROVE FileInv'
    <2>1. \A q \in Runs : Pending(q) => run[q].token # a
        BY DEF Sweep, PastMinimumAge
    <2>2. UploadsKept'
        BY <1>2, <2>1 DEF Sweep, FileInv, UploadsKept, Pending
    <2>3. RefsOver'
        BY <1>2, StillOver DEF Sweep, FileInv
    <2> QED BY <1>2, <2>2, <2>3 DEF Sweep, FileInv, NothingPending, NewestClaim,
                                    TokensApart
<1> QED BY <1>1, <1>2 DEF Sweep, Inv

LEMMA TimePassesKeeps == ASSUME Inv, TimePasses PROVE Inv'
<1>1. Typed'
    BY StillTyped DEF TimePasses, Inv, Typed, TypeOK
<1>2. ASSUME store = "FILE", FileInv PROVE FileInv'
    <2>1. RefsOver'
        BY <1>2, StillOver DEF TimePasses, FileInv
    <2> QED BY <1>2, <2>1 DEF TimePasses, FileInv, NothingPending, NewestClaim,
                              TokensApart, UploadsKept, Pending
<1> QED BY <1>1, <1>2 DEF TimePasses, Inv

-----------------------------------------------------------------------------
(* The theorems *)

LEMMA InitFine == Init => Inv
<1> SUFFICES ASSUME Init PROVE Inv
    OBVIOUS
<1>1. Typed
    <2>1. faults \in 0 .. MaxFaults[store]
        BY DEF Init
    <2>2. /\ job \in Records /\ cache \in [Instances -> Copies]
          /\ view \in [Instances -> Views] /\ run \in [Runs -> Tasks]
        BY NoneTyped DEF Init
    <2>3. \A r \in Runs : run[r].phase = "idle"
        BY NoneTyped DEF Init
    <2> QED BY <2>1, <2>2, <2>3 DEF Init, Typed, TypeOK, AtWork
<1>2. FileInv
    BY NoneTyped
    DEF Init, FileInv, NothingPending, NewestClaim, TokensApart, RefsOver, RefOver,
        UploadsKept, Pending
<1> QED BY <1>1, <1>2 DEF Inv

LEMMA NextKeeps == Inv /\ [Next]_vars => Inv'
<1> SUFFICES ASSUME Inv, [Next]_vars PROVE Inv'
    OBVIOUS
<1>1. CASE UNCHANGED vars
    BY <1>1 DEF vars, Inv, Typed, TypeOK, Tokens, FileInv, NothingPending, NewestClaim,
                TokensApart, RefsOver, RefOver, UploadsKept, Pending
<1>2. ASSUME NEW r \in Runs, Create(r) \/ Step(r) \/ Renew(r) PROVE Inv'
    BY <1>2, CreateKeeps, AuditCreateKeeps, ClaimKeeps, ExecuteKeeps,
       AuditCompletionKeeps, CommitKeeps, FailKeeps, SettleKeeps, RenewKeeps
    DEF Step
<1>3. ASSUME NEW w \in late, RenewalLands(w) PROVE Inv'
    BY <1>3, RenewalLandsKeeps
<1>4. ASSUME NEW i \in Instances,
             \/ \E for \in {"scanner", "reader"} : Read(i, for)
             \/ Act(i) \/ Purge(i) \/ Crash(i)
             \/ \E a \in content : Sweep(i, a)
      PROVE  Inv'
    BY <1>4, ReadKeeps, ActKeeps, PurgeKeeps, CrashKeeps, SweepKeeps
<1>5. CASE Lapse \/ TimePasses
    BY <1>5, LapseKeeps, TimePassesKeeps
<1> QED BY <1>1, <1>2, <1>3, <1>4, <1>5 DEF Next

LEMMA Invariance == Spec => []Inv
BY InitFine, NextKeeps, PTL DEF Spec

\* The record of the job, its copies and the runs are well typed, on both stores.
THEOREM ExportTyped == Spec => []TypeOK
<1>1. Inv => TypeOK
    BY DEF Inv, Typed
<1> QED BY <1>1, Invariance, PTL

\* On the file store no run commits over the run that claimed the job after it.
THEOREM OnlyTheLastClaimWins == Spec => []LastClaimWins
<1>1. Inv => LastClaimWins
    BY DEF Inv, FileInv, NewestClaim, LastClaimWins
<1> QED BY <1>1, Invariance, PTL

\* What a step on the file store does to an ended job, and to a result.
StaysEnded ==
    job.status \in Ended \cup {"deleted"} =>
        job'.status \in {job.status, "EXPIRED", "deleted"}

KeepsResult ==
    job'.status = "COMPLETED" =>
        \/ job'.ref \in content'
        \/ job.status = "COMPLETED" /\ job.ref \notin content

\* The status of a copy of the job that is expired or recovered.
LEMMA CopyIsOver ==
    ASSUME Inv
    PROVE  /\ Copy(job) \in Copies /\ Copy(job).ref = job.ref
           /\ MustExpire(Copy(job)) => job.status \in Ended
BY CopyTyped, StatusesAre DEF Inv, Typed, TypeOK, MustExpire

\* Steps that leave the job as it is, or put an end to it.
LEMMA HarmlessSteps ==
    ASSUME \/ UNCHANGED <<job, content>>
           \/ job'.status = "EXPIRED"
           \/ job'.status = "deleted"
    PROVE  StaysEnded /\ KeepsResult
BY DEF StaysEnded, KeepsResult

\* Deleting an artifact that is not the result.
LEMMA HarmlessDeletion ==
    ASSUME NEW a, UNCHANGED job, content' = content \ {a},
           job.status = "COMPLETED" => a # job.ref
    PROVE  StaysEnded /\ KeepsResult
BY DEF StaysEnded, KeepsResult

LEMMA RunsAreFenced ==
    ASSUME Inv, store = "FILE", NEW r \in Runs, Create(r) \/ Step(r) \/ Renew(r)
    PROVE  StaysEnded /\ (Fail(r) \/ KeepsResult)
<1>1. /\ NewestClaim /\ TokensApart /\ RefsOver /\ UploadsKept
      /\ job.status \in Ended \cup {"deleted"} => job.status \notin {"QUEUED", "RUNNING"}
    BY StatusesAre DEF Inv, FileInv
<1>2. CASE Create(r)
    <2>1. job.status = "none" /\ job'.status = "QUEUED"
        BY <1>2, ReleasedTyped, StatusesAre DEF Create
    <2> QED BY <2>1, StatusesAre DEF StaysEnded, KeepsResult
<1>3. CASE AuditCreate(r)
    <2>1. UNCHANGED <<job, content>> \/ job'.status = "deleted"
        BY <1>3, ReleasedTyped, StatusesAre DEF AuditCreate
    <2> QED BY <2>1, HarmlessSteps
<1>4. CASE Claim(r)
    <2>1. CASE MayClaim
        <3>1. job'.status = "RUNNING" /\ job.status \in {"QUEUED", "RUNNING"}
            BY <1>4, <2>1 DEF Claim, Claimed, MayClaim
        <3> QED BY <1>1, <3>1 DEF StaysEnded, KeepsResult
    <2>2. CASE ~MayClaim
        BY <1>4, <2>2, HarmlessSteps DEF Claim
    <2> QED BY <2>1, <2>2
<1>5. CASE Execute(r)
    BY <1>5 DEF Execute, StaysEnded, KeepsResult
<1>6. CASE AuditCompletion(r)
    <2>1. run[r].token # job.ref
        BY <1>1, <1>6 DEF AuditCompletion, Inv, Typed, TypeOK, AtWork, Tokens,
                          RefsOver, RefOver
    <2>2. UNCHANGED job
        BY <1>6 DEF AuditCompletion
    <2>3. UNCHANGED content \/ content' = content \ {run[r].token}
        BY <1>6 DEF AuditCompletion
    <2> QED BY <2>1, <2>2, <2>3, HarmlessSteps, HarmlessDeletion
<1>7. CASE Commit(r)
    <2>1. CASE Owns(r)
        <3>1. job' = Released("COMPLETED", run[r].attempt, run[r].token)
              /\ UNCHANGED content
            BY <1>7, <2>1 DEF Commit
        <3>2. run[r].token \in content
            BY <1>1, <1>7 DEF Commit, UploadsKept, Pending
        <3> QED BY <1>1, <2>1, <3>1, <3>2 DEF StaysEnded, KeepsResult, Owns, Released
    <2>2. CASE ~Owns(r)
        <3>1. run[r].token # job.ref
            BY <1>1, <1>7 DEF Commit, Inv, Typed, TypeOK, AtWork, Tokens, RefsOver,
                              RefOver
        <3>2. UNCHANGED job /\ content' = content \ {run[r].token}
            BY <1>7, <2>2 DEF Commit
        <3> QED BY <3>1, <3>2, HarmlessDeletion
    <2> QED BY <2>1, <2>2
<1>8. CASE Fail(r)
    BY <1>8 DEF Fail, StaysEnded
<1>9. CASE Settle(r)
    <2>1. CASE Owns(r)
        <3>1. job.status = "RUNNING" /\ job'.status \in {"QUEUED", "FAILED"}
            BY <1>9, <2>1 DEF Settle, Settled, Released, Owns
        <3> QED BY <1>1, <3>1 DEF StaysEnded, KeepsResult
    <2>2. CASE ~Owns(r)
        BY <1>9, <2>2, HarmlessSteps DEF Settle
    <2> QED BY <2>1, <2>2
<1>10. CASE Renew(r)
    <2>1. job.status = "RUNNING" /\ job'.status = "RUNNING"
        BY <1>10 DEF Renew, Owns, Inv, Typed, TypeOK, Records
    <2> QED BY <1>1, <2>1 DEF StaysEnded, KeepsResult
<1> QED BY <1>2, <1>3, <1>4, <1>5, <1>6, <1>7, <1>8, <1>9, <1>10 DEF Step

LEMMA OthersAreFenced ==
    ASSUME Inv, store = "FILE", NEW i \in Instances,
           \/ \E for \in {"scanner", "reader"} : Read(i, for)
           \/ Act(i) \/ Purge(i) \/ Crash(i)
           \/ \E a \in content : Sweep(i, a)
    PROVE  StaysEnded /\ KeepsResult
<1>1. CASE \E for \in {"scanner", "reader"} : Read(i, for)
    <2>1. UNCHANGED <<job, content>> \/ Expire(Copy(job))
        BY <1>1 DEF Read, Use, Recover, Answer
    <2> QED BY <2>1, CopyIsOver, ExpiredTyped, HarmlessSteps
<1>2. CASE Act(i)
    BY <1>2 DEF Act, Inv, FileInv, NothingPending
<1>3. CASE Purge(i)
    BY <1>3, CopyIsOver, ExpiredTyped, HarmlessSteps DEF Purge
<1>4. CASE Crash(i)
    BY <1>4, HarmlessSteps DEF Crash
<1>5. CASE \E a \in content : Sweep(i, a)
    BY <1>5, HarmlessDeletion DEF Sweep, Orphan
<1> QED BY <1>1, <1>2, <1>3, <1>4, <1>5

LEMMA StepsAreFenced ==
    ASSUME Inv, store = "FILE", [Next]_vars
    PROVE  StaysEnded /\ ((\E r \in Runs : Fail(r)) \/ KeepsResult)
<1>1. CASE UNCHANGED vars
    BY <1>1, HarmlessSteps DEF vars
<1>2. CASE \E w \in late : RenewalLands(w)
    BY <1>2 DEF Inv, FileInv, NothingPending
<1>3. CASE Lapse
    <2>1. job.status = "RUNNING" /\ job'.status = "RUNNING"
        BY <1>3 DEF Lapse, Inv, Typed, TypeOK, Records
    <2> QED BY <2>1, StatusesAre DEF StaysEnded, KeepsResult
<1>4. CASE TimePasses
    BY <1>4, HarmlessSteps DEF TimePasses
<1> QED BY <1>1, <1>2, <1>3, <1>4, RunsAreFenced, OthersAreFenced DEF Next

\* On the file store an ended job only ever expires or is withdrawn, whatever
\* renewals, recoveries and late runs do.
THEOREM EndedStaysEnded == Spec => EndedIsFinal
<1>1. Inv /\ [Next]_vars =>
         [store = "FILE" /\ job.status \in Ended \cup {"deleted"} =>
             job'.status \in {job.status, "EXPIRED", "deleted"}]_vars
    BY StepsAreFenced DEF StaysEnded
<1> QED BY <1>1, Invariance, PTL DEF Spec, EndedIsFinal

\* On the file store a result loses its artifact only to a run that fails after
\* it lost the job: no sweep, commit or expiry takes it.
THEOREM ResultsKeepArtifacts == Spec => ResultKeepsArtifact
<1>1. Inv /\ [Next]_vars =>
         [store = "FILE" /\ job'.status = "COMPLETED" /\ ~(\E r \in Runs : Fail(r)) =>
             \/ job'.ref \in content'
             \/ job.status = "COMPLETED" /\ job.ref \notin content]_vars
    BY StepsAreFenced DEF KeepsResult
<1> QED BY <1>1, Invariance, PTL DEF Spec, ResultKeepsArtifact
=============================================================================
