------------------------- MODULE HandoffCasesProofs -------------------------
(***************************************************************************)
(* The handoff of one requester, for any number of turns, cases, tickets   *)
(* and faults.  That there is one open case and that no turn overwrites    *)
(* another follows from what a store call does, whatever the turns plan.   *)
(* That only confirmed summaries go on, that a routed case has its ticket  *)
(* and that every status is told also needs what the plans are: which step *)
(* of a turn comes before which.                                           *)
(***************************************************************************)
EXTENDS HandoffCases, TLAPS

Case ==
    [status : Statuses \cup {"absent"}, version : Nat,
     notes : SUBSET Turns, confirmed : BOOLEAN]

CasesTyped ==
    /\ case \in [Cases -> Case]
    /\ active \in Cases \cup {None}
    /\ held \in [Turns -> [id : Cases \cup {None}, of : Case]]

\* A stored case has been written, and every write counts.
Numbered == \A c \in Cases : case[c].version = 0 => case[c] = NoCase

\* What a turn has seen of a case is not newer than the case, and it is the case
\* if nobody has written it since: what the comparison of versions relies on.
UpToDate(t) ==
    held[t].id # None =>
        /\ held[t].of.version =< TheCase(t).version
        /\ held[t].of.version = TheCase(t).version => held[t].of = TheCase(t)

Inv ==
    /\ CasesTyped
    /\ Numbered
    /\ \A t \in Turns : UpToDate(t)
    /\ OneOpenCase

USE Assumptions

-----------------------------------------------------------------------------
(* Values *)

LEMMA Constants ==
    /\ NoCase \in Case /\ Offer \in Case
    /\ Unseen.id = None /\ Unseen.of = NoCase
    /\ Unseen \in [id : Cases \cup {None}, of : Case]
    /\ NoCase.version = 0 /\ NoCase.status = "absent"
    /\ Offer.version = 1 /\ Offer.status = "OFFERED"
BY DEF NoCase, Offer, Case, Statuses, OpenStatus, Unseen

\* An open case may end, an ended one may become nothing.
LEMMA OnlyOpenMoves ==
    ASSUME NEW from, NEW to, MayBecome(from, to)
    PROVE  from \in OpenStatus /\ to \in Statuses \ {"absent"}
BY DEF MayBecome, Allowed, OpenStatus, Live, Review, Statuses, Terminal

LEMMA StatusKinds ==
    /\ OpenStatus \cap Terminal = {}
    /\ "absent" \notin Statuses
    /\ Statuses = OpenStatus \cup Terminal
    /\ Review \subseteq OpenStatus
    /\ {"OFFERED", "DEMO_ACTIVE"} \subseteq OpenStatus
    /\ "CLOSED" \in Terminal
BY DEF OpenStatus, Live, Review, Statuses, Terminal

LEMMA TheCaseTyped ==
    ASSUME CasesTyped, NEW t \in Turns
    PROVE  /\ TheCase(t) \in Case
           /\ held[t].id # None => held[t].id \in Cases /\ TheCase(t) = case[held[t].id]
           /\ held[t].id = None => TheCase(t).status = "absent"
BY Constants DEF CasesTyped, TheCase

-----------------------------------------------------------------------------
(* The kinds of step.  Each keeps the invariant, and overwrites nothing. *)

Kept == \A c \in Cases :
           /\ case[c].notes \subseteq case'[c].notes
           /\ Ended(c) => UNCHANGED case[c]

\* The turn looks at a case, or at none.
Looks(t) ==
    /\ UNCHANGED <<case, active>>
    /\ \/ UNCHANGED held
       \/ Forget(t)
       \/ active # None /\ held' = [held EXCEPT ![t] = [id |-> active, of |-> NoCase]]
       \/ held' = [held EXCEPT ![t].of = TheCase(t)]

LEMMA LooksKeep == ASSUME Inv, NEW t \in Turns, Looks(t) PROVE Inv' /\ Kept
<1>1. Kept /\ Numbered' /\ OneOpenCase'
    BY DEF Looks, Kept, Inv, Numbered, OneOpenCase, Open
<1>2. PICK h \in [id : Cases \cup {None}, of : Case] :
         /\ held' = [held EXCEPT ![t] = h]
         /\ h.id # None => h.of = NoCase \/ h.of = case[h.id] \/ h = held[t]
    <2>1. CASE UNCHANGED held
        <3>1. held[t] \in [id : Cases \cup {None}, of : Case]
            BY DEF Inv, CasesTyped
        <3>2. held' = [held EXCEPT ![t] = held[t]]
            BY <2>1 DEF Inv, CasesTyped
        <3> QED BY <3>1, <3>2
    <2>2. CASE Forget(t)
        BY <2>2, Constants DEF Forget
    <2>3. CASE active # None /\ held' = [held EXCEPT ![t] = [id |-> active, of |-> NoCase]]
        <3>1. PICK h : h = [id |-> active, of |-> NoCase]
            OBVIOUS
        <3>2. h \in [id : Cases \cup {None}, of : Case] /\ h.of = NoCase
            BY <3>1, Constants DEF Inv, CasesTyped
        <3>3. held' = [held EXCEPT ![t] = h]
            BY <2>3, <3>1, Zenon
        <3> QED BY <3>2, <3>3
    <2>4. CASE held' = [held EXCEPT ![t].of = TheCase(t)]
        <3>1. PICK h : h = [held[t] EXCEPT !.of = TheCase(t)]
            OBVIOUS
        <3>2. held' = [held EXCEPT ![t] = h]
            BY <2>4, <3>1
        <3>3. held[t] \in [id : Cases \cup {None}, of : Case]
            BY DEF Inv, CasesTyped
        <3>4. /\ h \in [id : Cases \cup {None}, of : Case]
              /\ h.id = held[t].id /\ h.of = TheCase(t)
            BY <3>1, <3>3, TheCaseTyped DEF Inv
        <3>5. h.id # None => h.of = case[h.id]
            BY <3>4 DEF TheCase
        <3> QED BY <3>2, <3>4, <3>5
    <2> QED BY <2>1, <2>2, <2>3, <2>4 DEF Looks
<1>3. CasesTyped'
    BY <1>2 DEF Looks, Inv, CasesTyped
<1>4. ASSUME NEW u \in Turns PROVE UpToDate(u)'
    <2>1. CASE u # t
        BY <1>2, <2>1 DEF Looks, Inv, CasesTyped, UpToDate, TheCase
    <2>2. CASE u = t
        <3>1. held'[t] = h
            BY <1>2 DEF Inv, CasesTyped
        <3>2. ASSUME h.id # None
              PROVE  /\ h.id \in Cases
                     /\ h.of.version =< case[h.id].version
                     /\ h.of.version = case[h.id].version => h.of = case[h.id]
            <4>1. h.id \in Cases /\ case[h.id] \in Case /\ case[h.id].version \in Nat
                BY <3>2 DEF Inv, CasesTyped, Case
            <4>2. CASE h.of = NoCase
                BY <4>1, <4>2, Constants DEF Inv, Numbered
            <4>3. CASE h.of = case[h.id]
                BY <4>1, <4>3
            <4>4. CASE h = held[t]
                BY <3>2, <4>4 DEF Inv, UpToDate, TheCase
            <4> QED BY <1>2, <3>2, <4>2, <4>3, <4>4
        <3>3. TheCase(t)' = IF h.id = None THEN NoCase ELSE case[h.id]
            BY <3>1 DEF TheCase, Looks
        <3> QED BY <2>2, <3>1, <3>2, <3>3 DEF UpToDate
    <2> QED BY <2>1, <2>2
<1> QED BY <1>1, <1>3, <1>4 DEF Inv

\* The turn writes case c, and holds what it wrote.
Writes(t, c, new) ==
    /\ new \in Case
    /\ new.version = case[c].version + 1
    /\ new.status # "absent"
    /\ case' = [case EXCEPT ![c] = new]
    /\ held'[t].id = c /\ held'[t].of = new
    /\ held' \in [Turns -> [id : Cases \cup {None}, of : Case]]
    /\ \A u \in Turns : u # t => held'[u] = held[u]
    /\ case[c].notes \subseteq new.notes
    /\ ~Ended(c)

LEMMA WritesKeep ==
    ASSUME Inv, NEW t \in Turns, NEW c \in Cases, NEW new, Writes(t, c, new),
           OneOpenCase', active' \in Cases \cup {None}
    PROVE  Inv' /\ Kept
<1>1. CasesTyped'
    BY DEF Writes, Inv, CasesTyped
<1>2. /\ case'[c] = new /\ \A d \in Cases : d # c => case'[d] = case[d]
      /\ case[c].version \in Nat
    BY DEF Writes, Inv, CasesTyped, Case
<1>3. Numbered'
    BY <1>2 DEF Writes, Inv, Numbered
<1>4. Kept
    BY <1>2 DEF Writes, Kept
<1>5. ASSUME NEW u \in Turns PROVE UpToDate(u)'
    <2>1. CASE u = t
        BY <1>2, <2>1 DEF Writes, UpToDate, TheCase, Case
    <2>2. CASE u # t
        <3>1. held'[u] = held[u]
            BY <2>2 DEF Writes
        <3>2. UpToDate(u)
            BY DEF Inv
        <3>3. CASE held[u].id = c
            <4>1. c # None /\ held[u].of.version \in Nat
                BY DEF Inv, CasesTyped, Case
            <4>2. held[u].of.version =< case[c].version
                BY <3>2, <3>3, <4>1 DEF UpToDate, TheCase
            <4>3. new.version = case[c].version + 1 /\ TheCase(u)' = new
                BY <1>2, <3>1, <3>3, <4>1 DEF Writes, TheCase
            <4> QED BY <1>2, <3>1, <4>1, <4>2, <4>3 DEF UpToDate
        <3>4. CASE held[u].id # c
            BY <1>2, <3>1, <3>2, <3>4, TheCaseTyped DEF UpToDate, TheCase, Inv
        <3> QED BY <3>3, <3>4
    <2> QED BY <2>1, <2>2
<1> QED BY <1>1, <1>3, <1>4, <1>5 DEF Inv

\* A write under the comparison of versions.
LEMMA StoreKeeps ==
    ASSUME Inv, NEW t \in Turns, NEW new \in Case, Store(t, new),
           TheCase(t).status \in OpenStatus, new.status # "absent",
           new.version = TheCase(t).version, TheCase(t).notes \subseteq new.notes
    PROVE  Inv' /\ Kept
<1> DEFINE c == held[t].id
           stored == [new EXCEPT !.version = @ + 1]
<1>1. c \in Cases /\ c # None /\ TheCase(t) = case[c] /\ case[c].status \in OpenStatus
    BY TheCaseTyped, StatusKinds DEF Inv
<1>2. /\ stored \in Case /\ stored.version = new.version + 1
      /\ stored.status = new.status /\ stored.notes = new.notes
    BY DEF Case
<1>3. /\ case' = [case EXCEPT ![c] = stored]
      /\ active' = IF new.status \in Terminal THEN None ELSE active
      /\ held' = [held EXCEPT ![t].of = stored]
    BY DEF Store
<1>4. Writes(t, c, stored)
    BY <1>1, <1>2, <1>3, StatusKinds DEF Writes, Ended, Inv, CasesTyped
<1>5. active = c /\ \A d \in Cases : d # c => ~Open(d)
    BY <1>1 DEF Inv, OneOpenCase, Open
<1>6. new.status \in OpenStatus <=> new.status \notin Terminal
    BY StatusKinds DEF Case
<1>7. OneOpenCase' /\ active' \in Cases \cup {None}
    BY <1>1, <1>2, <1>3, <1>5, <1>6 DEF OneOpenCase, Open, Inv, CasesTyped
<1> QED BY <1>1, <1>4, <1>7, WritesKeep

-----------------------------------------------------------------------------
(* The actions *)

LEMMA CreateCaseKeeps == ASSUME Inv, NEW t \in Turns, CreateCase(t) PROVE Inv' /\ Kept
<1>1. CASE active # None
    BY <1>1, LooksKeep DEF CreateCase, Looks
<1>2. CASE active = None
    <2>1. PICK c \in Cases :
             /\ case[c] = NoCase
             /\ case' = [case EXCEPT ![c] = Offer]
             /\ active' = c
             /\ held' = [held EXCEPT ![t] = [id |-> c, of |-> Offer]]
        BY <1>2 DEF CreateCase
    <2>2. Writes(t, c, Offer)
        BY <2>1, Constants, StatusKinds DEF Writes, Ended, Inv, CasesTyped, NoCase
    <2>3. \A d \in Cases : ~Open(d)
        BY <1>2 DEF Inv, OneOpenCase
    <2>4. OneOpenCase'
        BY <2>1, <2>3, Constants, StatusKinds DEF OneOpenCase, Open, Inv, CasesTyped
    <2> QED BY <2>1, <2>2, <2>4, WritesKeep
<1> QED BY <1>1, <1>2

LEMMA MoveKeeps ==
    ASSUME Inv, NEW t \in Turns, NEW s \in Statuses, Move(t, s) PROVE Inv' /\ Kept
<1> DEFINE accepted == /\ Current(t)
                       /\ TheCase(t).status = held[t].of.status
                       /\ MayBecome(TheCase(t).status, s)
<1>1. CASE ~accepted
    BY <1>1, LooksKeep DEF Move, Looks
<1>2. CASE accepted
    <2>1. Store(t, [TheCase(t) EXCEPT !.status = s])
        BY <1>2 DEF Move
    <2>2. TheCase(t).status \in OpenStatus
        BY <1>2, OnlyOpenMoves
    <2> QED BY <2>1, <2>2, TheCaseTyped, StatusKinds, StoreKeeps DEF Case, Inv
<1> QED BY <1>1, <1>2

LEMMA CloseKeeps == ASSUME Inv, NEW t \in Turns, Close(t) PROVE Inv' /\ Kept
<1>1. CASE UNCHANGED <<case, active>>
    <2>1. CASE held' = [held EXCEPT ![t].of = TheCase(t)] \/ UNCHANGED held
        BY <1>1, <2>1, LooksKeep DEF Looks
    <2>2. CASE ~(held' = [held EXCEPT ![t].of = TheCase(t)] \/ UNCHANGED held)
        <3>1. /\ TheCase(t).status = "DEMO_ACTIVE"
              /\ Store(t, [TheCase(t) EXCEPT !.status = "CLOSED"])
            BY <2>2 DEF Close
        <3> QED BY <3>1, TheCaseTyped, StatusKinds, StoreKeeps DEF Case, Inv
    <2> QED BY <2>1, <2>2
<1>2. CASE ~UNCHANGED <<case, active>>
    <2>1. /\ TheCase(t).status = "DEMO_ACTIVE"
          /\ Store(t, [TheCase(t) EXCEPT !.status = "CLOSED"])
        BY <1>2 DEF Close
    <2> QED BY <2>1, TheCaseTyped, StatusKinds, StoreKeeps DEF Case, Inv
<1> QED BY <1>1, <1>2

LEMMA SummariseKeeps ==
    ASSUME Inv, NEW t \in Turns, NEW s \in {"confirm", "supplement"}, Summarise(t, s)
    PROVE  Inv' /\ Kept
<1> DEFINE accepted == Current(t) /\ TheCase(t).status \in Review \cup {"OFFERED"}
           new == [TheCase(t) EXCEPT !.notes = NewSummary(t, s).notes,
                                     !.confirmed = NewSummary(t, s).confirmed]
<1>1. CASE ~accepted
    BY <1>1, LooksKeep DEF Summarise, Looks
<1>2. CASE accepted
    <2>1. Store(t, new)
        BY <1>2 DEF Summarise
    <2>2. TheCase(t).status \in OpenStatus /\ held[t].id # None
        BY <1>2, StatusKinds, TheCaseTyped DEF Inv
    <2>3. held[t].of = TheCase(t)
        BY <1>2, <2>2 DEF Inv, UpToDate, Current
    <2>4. /\ NewSummary(t, s).notes \subseteq Turns
          /\ NewSummary(t, s).confirmed \in BOOLEAN
          /\ TheCase(t).notes \subseteq NewSummary(t, s).notes
        BY <2>3, TheCaseTyped DEF NewSummary, Case, Inv
    <2>5. /\ new \in Case /\ new.status = TheCase(t).status
          /\ new.version = TheCase(t).version /\ TheCase(t).notes \subseteq new.notes
        <3>1. PICK n \in SUBSET Turns, b \in BOOLEAN :
                 n = NewSummary(t, s).notes /\ b = NewSummary(t, s).confirmed
            BY <2>4
        <3>2. new = [TheCase(t) EXCEPT !.notes = n, !.confirmed = b]
            BY <3>1, Zenon
        <3>3. TheCase(t) \in Case
            BY TheCaseTyped DEF Inv
        <3> QED BY <2>4, <3>1, <3>2, <3>3 DEF Case
    <2>6. new.status # "absent"
        BY <2>2, <2>5, StatusKinds
    <2> QED BY <2>1, <2>2, <2>5, <2>6, StoreKeeps
<1> QED BY <1>1, <1>2

LEMMA OthersLook ==
    ASSUME Inv, NEW t \in Turns,
           \/ Start(t) \/ ReadIndex(t) \/ ReadCase(t) \/ Route(t) \/ Drop(t)
           \/ Evaluate(t) \/ Found(t) \/ Tell(t) \/ Lookup(t) \/ CreateTicket(t)
           \/ NoTicket(t) \/ RecordTicket(t) \/ Crash(t)
    PROVE  Looks(t)
<1>1. CASE Start(t) \/ Route(t) \/ Drop(t) \/ Evaluate(t) \/ Found(t) \/ Lookup(t)
        \/ Crash(t)
    BY <1>1 DEF Start, Route, Drop, Evaluate, Found, Lookup, Crash, stores, Looks
<1>2. CASE ReadIndex(t) \/ ReadCase(t)
    BY <1>2 DEF ReadIndex, ReadCase, stores, Looks
<1>3. CASE Tell(t)
    BY <1>3 DEF Tell, Looks
<1>4. CASE CreateTicket(t) \/ NoTicket(t) \/ RecordTicket(t)
    BY <1>4 DEF CreateTicket, NoTicket, RecordTicket, Looks
<1> QED BY <1>1, <1>2, <1>3, <1>4

-----------------------------------------------------------------------------
(* One open case, and nothing overwritten *)

LEMMA InitFine == Init => Inv
<1> SUFFICES ASSUME Init PROVE Inv
    OBVIOUS
<1>1. PICK c \in Cases, s \in OpenStatus \cup {"absent"} :
         /\ case = [k \in Cases |->
               IF k # c \/ s = "absent" THEN NoCase
               ELSE [Offer EXCEPT !.status = s, !.confirmed = (s = "DEMO_ACTIVE")]]
         /\ active = IF s = "absent" THEN None ELSE c
    BY DEF Init
<1>2. PICK first : first = [Offer EXCEPT !.status = s, !.confirmed = (s = "DEMO_ACTIVE")]
    OBVIOUS
<1>3. PICK b \in BOOLEAN : b = (s = "DEMO_ACTIVE")
    OBVIOUS
<1>4. first = [Offer EXCEPT !.status = s, !.confirmed = b]
    BY <1>2, <1>3, Zenon
<1>5. first.status = s /\ first.version = 1 /\ (s # "absent" => first \in Case)
    BY <1>4, StatusKinds DEF Offer, Case
<1>6. case = [k \in Cases |-> IF k # c \/ s = "absent" THEN NoCase ELSE first]
    BY <1>1, <1>2, Zenon
<1>7. held = [t \in Turns |-> Unseen]
    BY DEF Init
<1>8. CasesTyped
    BY <1>1, <1>5, <1>6, <1>7, Constants DEF CasesTyped
<1>9. Numbered /\ OneOpenCase
    BY <1>1, <1>5, <1>6, Constants, StatusKinds DEF Numbered, OneOpenCase, Open
<1>10. \A t \in Turns : UpToDate(t)
    BY <1>7, Constants DEF UpToDate
<1> QED BY <1>8, <1>9, <1>10 DEF Inv

LEMMA NextKeeps == ASSUME Inv, [Next]_vars PROVE Inv' /\ Kept
<1>1. CASE UNCHANGED vars
    BY <1>1 DEF vars, stores, Inv, CasesTyped, Numbered, UpToDate, TheCase,
                OneOpenCase, Open, Kept
<1>2. ASSUME NEW t \in Turns, TurnStep(t) \/ Crash(t) PROVE Inv' /\ Kept
    <2>1. CASE CreateCase(t)
        BY <2>1, CreateCaseKeeps
    <2>2. CASE \E s \in Statuses : Move(t, s)
        BY <2>2, MoveKeeps
    <2>3. CASE Close(t)
        BY <2>3, CloseKeeps
    <2>4. CASE \E s \in {"confirm", "supplement"} : Summarise(t, s)
        BY <2>4, SummariseKeeps
    <2>5. CASE Looks(t)
        BY <2>5, LooksKeep
    <2> QED BY <1>2, <2>1, <2>2, <2>3, <2>4, <2>5, OthersLook DEF TurnStep
<1>3. ASSUME NEW c \in Cases, SessionEnds(c) PROVE Inv' /\ Kept
    BY <1>3 DEF SessionEnds, stores, Inv, CasesTyped, Numbered, UpToDate, TheCase,
                OneOpenCase, Open, Kept
<1> QED BY <1>1, <1>2, <1>3 DEF Next

LEMMA Invariance == Spec => []Inv
<1>1. Inv /\ [Next]_vars => Inv'
    BY NextKeeps
<1> QED BY <1>1, InitFine, PTL DEF Spec

\* Whatever turns race, break off or outlive the session, the requester has at
\* most one open case and the active index names it.
THEOREM AtMostOneOpenCase == Spec => []OneOpenCase
<1>1. Inv => OneOpenCase
    BY DEF Inv
<1> QED BY <1>1, Invariance, PTL

\* The comparison of versions suffices: no write of a turn drops from a summary
\* what another turn had put in, and an ended case never changes.
THEOREM TurnsOverwriteNothing == Spec => NothingOverwritten
<1>1. Inv /\ [Next]_vars => [Kept]_vars
    BY NextKeeps
<1>2. Spec => [][Kept]_vars
    BY <1>1, Invariance, PTL DEF Spec
<1> QED BY <1>2 DEF NothingOverwritten, Kept

-----------------------------------------------------------------------------
(* What the plans are *)

HIDE Assumptions

\* The steps of a turn that may still make a ticket.
Asking == {"start", "route", "lookup", "create"}

\* What must come after a step: a status is told by the turn that stored it, and a
\* ticket is looked up, made and recorded in that order, once.
Grammar(p) ==
    \A i \in 1 .. Len(p) :
        /\ p[i] \in Statuses \cup {"offer"} => i < Len(p) /\ p[i + 1] = "tell"
        /\ p[i] = "index" => i < Len(p) /\ p[i + 1] = "case"
        /\ p[i] = "supplement" => i < Len(p) /\ p[i + 1] = "SUMMARY_REVIEW"
        /\ p[i] = "lookup" => i + 2 =< Len(p) /\ p[i + 1] = "create" /\ p[i + 2] = "record"
        /\ p[i] = "offer" => /\ i + 3 =< Len(p) /\ p[i + 3] = "tell"
                             /\ p[i + 2] = "SUMMARY_REVIEW"
        /\ p[i] \in {"start", "route"} => i = Len(p)
        /\ p[i] \in {"create", "record"} => \A j \in i + 1 .. Len(p) : p[j] \notin Asking

\* What comes directly before a step that relies on it.
Entries(p) ==
    \A i \in 2 .. Len(p) :
        /\ p[i] \in {"DEMO_ACTIVE", "lookup"} => p[i - 1] = "confirm"
        /\ p[i] = "create" => p[i - 1] = "lookup"
        /\ p[i] = "record" => p[i - 1] = "create"
        /\ p[i] = "ROUTED_TO_TICKET" => p[i - 1] = "record"
        /\ p[i] = "tell" => p[i - 1] \in Statuses \cup {"offer"}
        /\ p[i] = "route" => \/ p[i - 1] = "case"
                             \/ p[i - 1] = "tell" /\ (i > 2 => p[i - 2] = "EXPIRED")

\* The steps that rely on the one before them.
Entered == {"DEMO_ACTIVE", "lookup", "create", "record", "ROUTED_TO_TICKET", "tell", "route"}

PlanFine(p) == p \in Seq(Steps) /\ Grammar(p) /\ Entries(p)

\* The plan may still make a ticket; it routes the case to a ticket.
Asks(p) == \E i \in 1 .. Len(p) : p[i] \in Asking
Routes(p) == \E i \in 1 .. Len(p) : p[i] = "ROUTED_TO_TICKET"

\* The step that a turn with plan p has taken, before it goes on with plan q.
Enters(p, q) ==
    /\ q[1] = "DEMO_ACTIVE" => p[1] = "confirm"
    /\ q[1] = "lookup" => p[1] \in {"confirm", "route"}
    /\ q[1] = "create" => p[1] = "lookup"
    /\ q[1] = "record" => p[1] = "create"
    /\ q[1] = "ROUTED_TO_TICKET" => p[1] \in {"record", "lookup"}
    /\ q[1] = "tell" => p[1] \in Statuses \cup {"offer", "supplement"}
    /\ q[1] = "route" => p[1] \in {"index", "case", "tell", "EXPIRED"}
    /\ q[1] = "tell" /\ Len(q) > 1 /\ q[2] = "route" => p[1] = "EXPIRED"

\* What a step may make of a plan.
TurnsTo(p, q) ==
    /\ PlanFine(q)
    /\ q # <<>> => Enters(p, q)
    /\ Routes(q) => Routes(p) \/ p[1] = "route"
    /\ Asks(q) => Asks(p) /\ p[1] \notin {"create", "record"}

\* q is p without its first k steps.
Suffix(q, p, k) ==
    /\ q \in Seq(Steps)
    /\ Len(q) = Len(p) - k
    /\ \A i \in 1 .. Len(q) : q[i] = p[i + k]

\* What is left of a plan is a plan.
LEMMA SuffixFine ==
    ASSUME NEW p, PlanFine(p), NEW q, NEW k \in Nat, Suffix(q, p, k)
    PROVE  /\ PlanFine(q)
           /\ Routes(q) => Routes(p)
           /\ Asks(q) => Asks(p)
<1>1. /\ Len(p) \in Nat /\ Len(q) \in Nat /\ Len(q) = Len(p) - k
      /\ \A i \in 1 .. Len(q) : q[i] = p[i + k] /\ i + k \in 1 .. Len(p)
    BY DEF PlanFine, Suffix
<1>2. Grammar(q)
    <2> SUFFICES ASSUME NEW i \in 1 .. Len(q)
        PROVE  /\ q[i] \in Statuses \cup {"offer"} => i < Len(q) /\ q[i + 1] = "tell"
               /\ q[i] = "index" => i < Len(q) /\ q[i + 1] = "case"
               /\ q[i] = "supplement" => i < Len(q) /\ q[i + 1] = "SUMMARY_REVIEW"
               /\ q[i] = "lookup" => i + 2 =< Len(q) /\ q[i + 1] = "create" /\ q[i + 2] = "record"
               /\ q[i] = "offer" => /\ i + 3 =< Len(q) /\ q[i + 3] = "tell"
                                    /\ q[i + 2] = "SUMMARY_REVIEW"
               /\ q[i] \in {"start", "route"} => i = Len(q)
               /\ q[i] \in {"create", "record"} => \A j \in i + 1 .. Len(q) : q[j] \notin Asking
        BY DEF Grammar
    <2>1. i + k \in 1 .. Len(p) /\ q[i] = p[i + k]
        BY <1>1
    <2>2. /\ i < Len(q) <=> i + k < Len(p)
          /\ i + 2 =< Len(q) <=> i + k + 2 =< Len(p)
          /\ i + 3 =< Len(q) <=> i + k + 3 =< Len(p)
          /\ i = Len(q) <=> i + k = Len(p)
        BY <1>1
    <2>3. /\ i < Len(q) => q[i + 1] = p[i + k + 1]
          /\ i + 2 =< Len(q) => q[i + 1] = p[i + k + 1] /\ q[i + 2] = p[i + k + 2]
          /\ i + 3 =< Len(q) => q[i + 3] = p[i + k + 3] /\ q[i + 2] = p[i + k + 2]
          /\ \A j \in i + 1 .. Len(q) : j + k \in i + k + 1 .. Len(p) /\ q[j] = p[j + k]
        <3>1. \A n \in Nat : i + n =< Len(q) => q[i + n] = p[i + k + n]
            <4> SUFFICES ASSUME NEW n \in Nat, i + n =< Len(q) PROVE q[i + n] = p[i + k + n]
                OBVIOUS
            <4>1. i + n \in 1 .. Len(q) /\ (i + n) + k = i + k + n
                BY <1>1
            <4> QED BY <1>1, <4>1
        <3>2. i + 1 =< Len(q) => q[i + 1] = p[i + k + 1]
            BY <3>1
        <3>3. i + 2 =< Len(q) => q[i + 2] = p[i + k + 2]
            BY <3>1
        <3>4. i + 3 =< Len(q) => q[i + 3] = p[i + k + 3]
            BY <3>1
        <3>5. /\ i < Len(q) => i + 1 =< Len(q)
              /\ i + 2 =< Len(q) => i + 1 =< Len(q)
              /\ i + 3 =< Len(q) => i + 2 =< Len(q)
            BY <1>1
        <3>6. \A j \in i + 1 .. Len(q) : j + k \in i + k + 1 .. Len(p) /\ q[j] = p[j + k]
            BY <1>1
        <3> QED BY <3>2, <3>3, <3>4, <3>5, <3>6
    <2> QED BY <2>1, <2>2, <2>3 DEF PlanFine, Grammar
<1>3. Entries(q)
    <2> SUFFICES ASSUME NEW i \in 2 .. Len(q)
        PROVE  /\ q[i] \in {"DEMO_ACTIVE", "lookup"} => q[i - 1] = "confirm"
               /\ q[i] = "create" => q[i - 1] = "lookup"
               /\ q[i] = "record" => q[i - 1] = "create"
               /\ q[i] = "ROUTED_TO_TICKET" => q[i - 1] = "record"
               /\ q[i] = "tell" => q[i - 1] \in Statuses \cup {"offer"}
               /\ q[i] = "route" => \/ q[i - 1] = "case"
                                    \/ q[i - 1] = "tell" /\ (i > 2 => q[i - 2] = "EXPIRED")
        BY DEF Entries
    <2>1. /\ i + k \in 2 .. Len(p) /\ q[i] = p[i + k]
          /\ q[i - 1] = p[i + k - 1]
          /\ i > 2 => q[i - 2] = p[i + k - 2] /\ i + k > 2
        <3>1. i \in 1 .. Len(q) /\ i - 1 \in 1 .. Len(q) /\ (i > 2 => i - 2 \in 1 .. Len(q))
            BY <1>1
        <3>2. (i - 1) + k = i + k - 1 /\ (i - 2) + k = i + k - 2
            BY <1>1
        <3>3. q[i] = p[i + k] /\ q[i - 1] = p[i + k - 1]
            BY <1>1, <3>1, <3>2
        <3>4. i > 2 => q[i - 2] = p[i + k - 2]
            BY <1>1, <3>1, <3>2
        <3>5. i + k \in 2 .. Len(p) /\ (i > 2 => i + k > 2)
            BY <1>1
        <3> QED BY <3>3, <3>4, <3>5
    <2> QED BY <2>1 DEF PlanFine, Entries
<1>4. (Routes(q) => Routes(p)) /\ (Asks(q) => Asks(p))
    BY <1>1 DEF Routes, Asks
<1> QED BY <1>2, <1>3, <1>4 DEF PlanFine, Suffix

LEMMA TailSuffix ==
    ASSUME NEW p \in Seq(Steps), p # <<>>
    PROVE  Suffix(Tail(p), p, 1) /\ Head(p) = p[1] /\ 1 \in 1 .. Len(p)
BY DEF Suffix

LEMMA LongTail == ASSUME NEW p \in Seq(Steps), 1 < Len(p) PROVE Tail(p) # <<>>
<1>1. PICK n \in Nat : n = Len(p)
    OBVIOUS
<1>2. p # <<>> /\ n - 1 # 0
    BY <1>1
<1>3. Len(Tail(p)) = n - 1
    BY <1>1, <1>2, TailSuffix DEF Suffix
<1>4. Len(<<>>) = 0
    OBVIOUS
<1> QED BY <1>2, <1>3, <1>4, Zenon

LEMMA SubSeqSuffix ==
    ASSUME NEW p \in Seq(Steps), NEW k \in 0 .. Len(p)
    PROVE  Suffix(SubSeq(p, k + 1, Len(p)), p, k)
BY DEF Suffix

\* A plan before what is left of another, unless that relied on what came before.
LEMMA JoinFine ==
    ASSUME NEW s, PlanFine(s), ~Asks(s), s # <<>>, s[1] # "record", NEW q, PlanFine(q),
           \/ q = <<>>
           \/ q[1] \notin Entered
           \/ q[1] = "route" /\ Len(s) = 2 /\ s[1] = "EXPIRED" /\ s[2] = "tell"
    PROVE  /\ PlanFine(s \o q)
           /\ (s \o q)[1] = s[1] /\ s \o q # <<>>
           /\ Routes(s \o q) <=> Routes(s) \/ Routes(q)
           /\ Asks(s \o q) => Asks(q)
<1> DEFINE w == s \o q
           m == Len(s)
<1>1. /\ w \in Seq(Steps) /\ m \in Nat \ {0} /\ Len(q) \in Nat /\ Len(w) = m + Len(q)
      /\ \A i \in 1 .. m : w[i] = s[i]
      /\ \A i \in 1 .. Len(q) : w[i + m] = q[i]
    BY DEF PlanFine
<1>2. \A i \in m + 1 .. Len(w) : i - m \in 1 .. Len(q) /\ w[i] = q[i - m]
    <2> SUFFICES ASSUME NEW i \in m + 1 .. Len(w) PROVE i - m \in 1 .. Len(q) /\ w[i] = q[i - m]
        OBVIOUS
    <2>1. i - m \in 1 .. Len(q) /\ (i - m) + m = i
        BY <1>1
    <2> QED BY <1>1, <2>1
<1> HIDE DEF w, m
<1>3. \A i \in 1 .. m : s[i] \notin Asking
    BY DEF Asks, m
<1>4. Grammar(w)
    <2> SUFFICES ASSUME NEW i \in 1 .. Len(w)
        PROVE  /\ w[i] \in Statuses \cup {"offer"} => i < Len(w) /\ w[i + 1] = "tell"
               /\ w[i] = "index" => i < Len(w) /\ w[i + 1] = "case"
               /\ w[i] = "supplement" => i < Len(w) /\ w[i + 1] = "SUMMARY_REVIEW"
               /\ w[i] = "lookup" => i + 2 =< Len(w) /\ w[i + 1] = "create" /\ w[i + 2] = "record"
               /\ w[i] = "offer" => /\ i + 3 =< Len(w) /\ w[i + 3] = "tell"
                                    /\ w[i + 2] = "SUMMARY_REVIEW"
               /\ w[i] \in {"start", "route"} => i = Len(w)
               /\ w[i] \in {"create", "record"} => \A j \in i + 1 .. Len(w) : w[j] \notin Asking
        BY DEF Grammar
    <2>1. CASE i =< m
        <3>1. i \in 1 .. m /\ w[i] = s[i]
            BY <1>1, <2>1
        <3>2. s[i] \notin {"start", "route", "lookup", "create", "record"}
            <4>1. s[i] \notin {"start", "route", "lookup", "create"}
                BY <1>3, <3>1 DEF Asking
            <4>2. s[i] = "record" /\ i # 1
                    => i \in 2 .. m /\ i - 1 \in 1 .. m /\ s[i - 1] = "create"
                BY <3>1 DEF PlanFine, Entries, m
            <4> QED BY <1>3, <4>1, <4>2 DEF Asking
        <3>3. /\ s[i] \in Statuses \cup {"offer"} => i < m /\ s[i + 1] = "tell"
              /\ s[i] = "index" => i < m /\ s[i + 1] = "case"
              /\ s[i] = "supplement" => i < m /\ s[i + 1] = "SUMMARY_REVIEW"
              /\ s[i] = "offer" => i + 3 =< m /\ s[i + 3] = "tell" /\ s[i + 2] = "SUMMARY_REVIEW"
            BY <3>1 DEF PlanFine, Grammar, m
        <3>4. /\ i < m => i < Len(w) /\ w[i + 1] = s[i + 1]
              /\ i + 3 =< m => i + 3 =< Len(w) /\ w[i + 3] = s[i + 3] /\ w[i + 2] = s[i + 2]
            BY <1>1, <3>1
        <3> QED BY <3>1, <3>2, <3>3, <3>4
    <2>2. CASE i > m
        <3>1. PICK k \in 1 .. Len(q) : k = i - m /\ w[i] = q[k]
            BY <1>1, <1>2, <2>2
        <3>2. i = k + m /\ Len(w) = Len(q) + m
            BY <1>1, <3>1
        <3>3. /\ k < Len(q) => i < Len(w) /\ w[i + 1] = q[k + 1]
              /\ k + 2 =< Len(q) => i + 2 =< Len(w) /\ w[i + 1] = q[k + 1] /\ w[i + 2] = q[k + 2]
              /\ k + 3 =< Len(q) => i + 3 =< Len(w) /\ w[i + 3] = q[k + 3] /\ w[i + 2] = q[k + 2]
              /\ k = Len(q) => i = Len(w)
              /\ \A j \in i + 1 .. Len(w) : j - m \in k + 1 .. Len(q) /\ w[j] = q[j - m]
            <4>1. \A n \in Nat : k + n =< Len(q) => w[i + n] = q[k + n] /\ i + n =< Len(w)
                <5> SUFFICES ASSUME NEW n \in Nat, k + n =< Len(q)
                             PROVE  w[i + n] = q[k + n] /\ i + n =< Len(w)
                    OBVIOUS
                <5>1. k + n \in 1 .. Len(q) /\ (k + n) + m = i + n
                    BY <1>1, <3>2
                <5> QED BY <1>1, <3>2, <5>1
            <4>2. \A j \in i + 1 .. Len(w) : j - m \in k + 1 .. Len(q) /\ w[j] = q[j - m]
                BY <1>1, <1>2, <3>2
            <4>3. /\ k + 1 =< Len(q) => w[i + 1] = q[k + 1] /\ i + 1 =< Len(w)
                  /\ k + 2 =< Len(q) => w[i + 2] = q[k + 2] /\ i + 2 =< Len(w)
                  /\ k + 3 =< Len(q) => w[i + 3] = q[k + 3] /\ i + 3 =< Len(w)
                <5>1. k + 1 =< Len(q) => w[i + 1] = q[k + 1] /\ i + 1 =< Len(w)
                    BY <4>1
                <5>2. k + 2 =< Len(q) => w[i + 2] = q[k + 2] /\ i + 2 =< Len(w)
                    BY <4>1
                <5>3. k + 3 =< Len(q) => w[i + 3] = q[k + 3] /\ i + 3 =< Len(w)
                    BY <4>1
                <5> QED BY <5>1, <5>2, <5>3
            <4>4. /\ k < Len(q) => k + 1 =< Len(q) /\ i < Len(w)
                  /\ k + 2 =< Len(q) => k + 1 =< Len(q)
                  /\ k + 3 =< Len(q) => k + 2 =< Len(q)
                  /\ k = Len(q) => i = Len(w)
                BY <1>1, <3>2
            <4> QED BY <4>2, <4>3, <4>4
        <3>4. /\ q[k] \in Statuses \cup {"offer"} => k < Len(q) /\ q[k + 1] = "tell"
              /\ q[k] = "index" => k < Len(q) /\ q[k + 1] = "case"
              /\ q[k] = "supplement" => k < Len(q) /\ q[k + 1] = "SUMMARY_REVIEW"
              /\ q[k] = "lookup" => k + 2 =< Len(q) /\ q[k + 1] = "create" /\ q[k + 2] = "record"
              /\ q[k] = "offer" => /\ k + 3 =< Len(q) /\ q[k + 3] = "tell"
                                  /\ q[k + 2] = "SUMMARY_REVIEW"
              /\ q[k] \in {"start", "route"} => k = Len(q)
              /\ q[k] \in {"create", "record"} => \A j \in k + 1 .. Len(q) : q[j] \notin Asking
            BY DEF PlanFine, Grammar
        <3> QED BY <3>1, <3>3, <3>4
    <2> QED BY <1>1, <2>1, <2>2
<1>5. Entries(w)
    <2> SUFFICES ASSUME NEW i \in 2 .. Len(w)
        PROVE  /\ w[i] \in {"DEMO_ACTIVE", "lookup"} => w[i - 1] = "confirm"
               /\ w[i] = "create" => w[i - 1] = "lookup"
               /\ w[i] = "record" => w[i - 1] = "create"
               /\ w[i] = "ROUTED_TO_TICKET" => w[i - 1] = "record"
               /\ w[i] = "tell" => w[i - 1] \in Statuses \cup {"offer"}
               /\ w[i] = "route" => \/ w[i - 1] = "case"
                                    \/ w[i - 1] = "tell" /\ (i > 2 => w[i - 2] = "EXPIRED")
        BY DEF Entries
    <2>1. CASE i =< m
        <3>1. /\ i \in 2 .. m /\ w[i] = s[i] /\ w[i - 1] = s[i - 1]
              /\ i > 2 => w[i - 2] = s[i - 2]
            BY <1>1, <2>1
        <3> QED BY <3>1 DEF PlanFine, Entries, m
    <2>2. CASE i = m + 1
        <3>1. 1 \in 1 .. Len(q) /\ w[i] = q[1] /\ q # <<>>
            BY <1>1, <1>2, <2>2
        <3>2. CASE q[1] \notin Entered
            BY <3>1, <3>2 DEF Entered
        <3>3. CASE q[1] = "route" /\ m = 2 /\ s[1] = "EXPIRED" /\ s[2] = "tell"
            BY <1>1, <2>2, <3>1, <3>3
        <3> QED BY <3>1, <3>2, <3>3 DEF m
    <2>3. CASE i > m + 1
        <3>1. PICK k \in 2 .. Len(q) : k = i - m
            BY <1>1, <2>3
        <3>2. /\ w[i] = q[k] /\ w[i - 1] = q[k - 1]
              /\ k > 2 => w[i - 2] = q[k - 2]
            <4>1. k = i - m /\ k - 1 = (i - 1) - m /\ k - 2 = (i - 2) - m
                BY <1>1, <3>1
            <4>2. /\ i \in m + 1 .. Len(w) /\ i - 1 \in m + 1 .. Len(w)
                  /\ k > 2 => i - 2 \in m + 1 .. Len(w)
                BY <1>1, <3>1, <2>3
            <4> QED BY <1>2, <4>1, <4>2
        <3>3. k = 2 => q[1] # "tell"
            BY <3>1 DEF Entered
        <3>4. k = 2 => w[i - 1] = q[1]
            BY <3>2
        <3>5. /\ q[k] \in {"DEMO_ACTIVE", "lookup"} => q[k - 1] = "confirm"
              /\ q[k] = "create" => q[k - 1] = "lookup"
              /\ q[k] = "record" => q[k - 1] = "create"
              /\ q[k] = "ROUTED_TO_TICKET" => q[k - 1] = "record"
              /\ q[k] = "tell" => q[k - 1] \in Statuses \cup {"offer"}
              /\ q[k] = "route" => \/ q[k - 1] = "case"
                                   \/ q[k - 1] = "tell" /\ (k > 2 => q[k - 2] = "EXPIRED")
            BY <3>1 DEF PlanFine, Entries
        <3>6. q[k] = "route" => \/ q[k - 1] = "case"
                                \/ q[k - 1] = "tell" /\ k > 2 /\ q[k - 2] = "EXPIRED"
            BY <3>1, <3>2, <3>3, <3>4, <3>5
        <3> QED BY <3>1, <3>2, <3>5, <3>6
    <2> QED BY <1>1, <2>1, <2>2, <2>3
<1>6. w[1] = s[1] /\ w # <<>>
    <2>1. 1 \in 1 .. m /\ Len(w) # 0
        BY <1>1
    <2> QED BY <1>1, <2>1
<1>7. \A x : (\E i \in 1 .. Len(w) : w[i] = x)
           <=> (\E i \in 1 .. m : s[i] = x) \/ (\E i \in 1 .. Len(q) : q[i] = x)
    <2> SUFFICES ASSUME NEW x
                 PROVE  (\E i \in 1 .. Len(w) : w[i] = x)
                        <=> (\E i \in 1 .. m : s[i] = x) \/ (\E i \in 1 .. Len(q) : q[i] = x)
        OBVIOUS
    <2>1. ASSUME NEW i \in 1 .. Len(w), w[i] = x
          PROVE  (\E j \in 1 .. m : s[j] = x) \/ (\E j \in 1 .. Len(q) : q[j] = x)
        BY <1>1, <1>2, <2>1
    <2>2. ASSUME NEW i \in 1 .. m, s[i] = x PROVE \E j \in 1 .. Len(w) : w[j] = x
        BY <1>1, <2>2
    <2>3. ASSUME NEW i \in 1 .. Len(q), q[i] = x PROVE \E j \in 1 .. Len(w) : w[j] = x
        <3>1. i + m \in 1 .. Len(w) /\ w[i + m] = x
            BY <1>1, <2>3
        <3> QED BY <3>1
    <2> QED BY <2>1, <2>2, <2>3
<1>8. Routes(w) <=> Routes(s) \/ Routes(q)
    BY <1>7 DEF Routes, m
<1>9. Asks(w) => Asks(q)
    BY <1>3, <1>7 DEF Asks
<1> QED BY <1>1, <1>4, <1>5, <1>6, <1>8, <1>9 DEF PlanFine, w

-----------------------------------------------------------------------------
(* The plans of the model: what a turn may put before what it has left to do, *)
(* and what a route may be. *)

LEMMA Words ==
    /\ Statuses \subseteq Steps
    /\ {"start", "index", "case", "route", "drop", "found", "evaluate", "offer",
        "confirm", "supplement", "lookup", "create", "record", "tell"} \subseteq Steps
    /\ {"start", "index", "case", "route", "drop", "found", "evaluate", "offer",
        "confirm", "supplement", "lookup", "create", "record", "tell"} \cap Statuses = {}
    /\ {"OFFERED", "SUMMARY_REVIEW", "AWAITING_SUPPLEMENT", "DEMO_ACTIVE", "CLOSED",
        "CANCELLED", "FAILED", "EXPIRED", "ROUTED_TO_TICKET"} = Statuses
BY DEF Steps, Statuses, OpenStatus, Live, Review, Terminal

LEMMA ShortPlans ==
    /\ PlanFine(<<>>) /\ ~Asks(<<>>) /\ ~Routes(<<>>)
    /\ PlanFine(<<"evaluate">>) /\ ~Asks(<<"evaluate">>) /\ ~Routes(<<"evaluate">>)
BY Words DEF PlanFine, Grammar, Entries, Asks, Routes, Asking

LEMMA StatusPlans ==
    ASSUME NEW s \in Statuses \ {"DEMO_ACTIVE", "ROUTED_TO_TICKET"}
    PROVE  PlanFine(<<s, "tell">>) /\ ~Asks(<<s, "tell">>) /\ ~Routes(<<s, "tell">>)
BY Words DEF PlanFine, Grammar, Entries, Asks, Routes, Asking

LEMMA ReadPlan ==
    ASSUME NEW x \in {"route", "drop", "found"}
    PROVE  /\ PlanFine(ReadActive \o <<x>>) /\ ~Routes(ReadActive \o <<x>>)
           /\ (ReadActive \o <<x>>)[1] = "index" /\ ReadActive \o <<x>> # <<>>
           /\ x # "route" => ~Asks(ReadActive \o <<x>>)
<1> DEFINE w == ReadActive \o <<x>>
<1>1. w \in Seq(Steps) /\ Len(w) = 3
    BY Words DEF ReadActive
<1>2. w[1] = "index" /\ w[2] = "case" /\ w[3] = x
    BY DEF ReadActive
<1> HIDE DEF w
<1>3. Grammar(w)
    BY <1>1, <1>2, Words DEF Grammar
<1>4. Entries(w)
    BY <1>1, <1>2, Words DEF Entries
<1>5. ~Routes(w)
    BY <1>1, <1>2 DEF Routes
<1>6. x # "route" => ~Asks(w)
    BY <1>1, <1>2 DEF Asks, Asking
<1>7. w # <<>>
    BY <1>1
<1> QED BY <1>1, <1>2, <1>3, <1>4, <1>5, <1>6, <1>7 DEF PlanFine, w

LEMMA Joined ==
    ASSUME NEW s \in Seq(Steps), NEW q \in Seq(Steps)
    PROVE  /\ s \o q \in Seq(Steps)
           /\ Len(s \o q) = Len(s) + Len(q)
           /\ Len(q) = 0 => s \o q = s
OBVIOUS

LEMMA SupersedePlan ==
    /\ PlanFine(Supersede) /\ ~Asks(Supersede) /\ ~Routes(Supersede)
    /\ Supersede[1] = "index" /\ Supersede # <<>>
<1> DEFINE w == Supersede
<1>1. w \in Seq(Steps) /\ Len(w) = 4
    <2>1. PICK a, b : a = ReadActive /\ b = <<"drop", "evaluate">>
        OBVIOUS
    <2>2. a \in Seq(Steps) /\ Len(a) = 2
        BY <2>1, Words DEF ReadActive
    <2>3. b \in Seq(Steps) /\ Len(b) = 2
        BY <2>1, Words
    <2>4. a \o b \in Seq(Steps) /\ Len(a \o b) = Len(a) + Len(b)
        BY <2>2, <2>3, Joined, Zenon
    <2> QED BY <2>1, <2>2, <2>3, <2>4 DEF Supersede
<1>2. w[1] = "index" /\ w[2] = "case" /\ w[3] = "drop" /\ w[4] = "evaluate"
    BY DEF ReadActive, Supersede
<1> HIDE DEF w
<1>3. Grammar(w)
    BY <1>1, <1>2, Words DEF Grammar
<1>4. Entries(w)
    BY <1>1, <1>2, Words DEF Entries
<1>5. ~Asks(w) /\ ~Routes(w) /\ w # <<>>
    BY <1>1, <1>2 DEF Asks, Asking, Routes
<1> QED BY <1>1, <1>2, <1>3, <1>4, <1>5 DEF PlanFine, w

LEMMA OfferPlans ==
    /\ PlanFine(MakeOffer) /\ ~Asks(MakeOffer) /\ ~Routes(MakeOffer)
    /\ PlanFine(Promote) /\ ~Asks(Promote) /\ ~Routes(Promote)
    /\ PlanFine(MakeOffer \o Promote) /\ ~Routes(MakeOffer \o Promote)
<1>2. PlanFine(MakeOffer) /\ ~Asks(MakeOffer) /\ ~Routes(MakeOffer)
    BY Words DEF PlanFine, Grammar, Entries, Asking, Asks, MakeOffer, Routes
<1>3. PlanFine(Promote) /\ ~Asks(Promote) /\ ~Routes(Promote)
    BY Words DEF PlanFine, Grammar, Entries, Asking, Asks, Promote, Routes
<1>4. MakeOffer # <<>> /\ MakeOffer[1] = "offer" /\ Promote # <<>> /\ Promote[1] = "confirm"
    BY DEF MakeOffer, Promote
<1> QED BY <1>2, <1>3, <1>4, JoinFine DEF Entered

LEMMA TicketPlan ==
    /\ PlanFine(MakeTicket \o <<"evaluate">>) /\ ~Routes(MakeTicket \o <<"evaluate">>)
    /\ (MakeTicket \o <<"evaluate">>)[1] = "lookup"
<1> DEFINE w == MakeTicket \o <<"evaluate">>
<1>1. w \in Seq(Steps) /\ Len(w) = 4
    BY Words DEF MakeTicket
<1>2. w[1] = "lookup" /\ w[2] = "create" /\ w[3] = "record" /\ w[4] = "evaluate"
    BY DEF MakeTicket
<1> HIDE DEF w
<1>3. Grammar(w)
    BY <1>1, <1>2, Words DEF Grammar, Asking
<1>4. Entries(w)
    BY <1>1, <1>2, Words DEF Entries
<1>5. ~Routes(w)
    BY <1>1, <1>2 DEF Routes
<1> QED BY <1>1, <1>2, <1>3, <1>4, <1>5 DEF PlanFine, w

LEMMA RoutingPlan ==
    PlanFine(RouteToTicket) /\ RouteToTicket[1] = "lookup"
<1> DEFINE w == RouteToTicket
<1>1. w \in Seq(Steps) /\ Len(w) = 5
    BY Words DEF MakeTicket, RouteToTicket
<1>2. /\ w[1] = "lookup" /\ w[2] = "create" /\ w[3] = "record"
      /\ w[4] = "ROUTED_TO_TICKET" /\ w[5] = "tell"
    BY DEF MakeTicket, RouteToTicket
<1> HIDE DEF w
<1>3. Grammar(w)
    BY <1>1, <1>2, Words DEF Grammar, Asking
<1>4. Entries(w)
    BY <1>1, <1>2, Words DEF Entries
<1> QED BY <1>1, <1>2, <1>3, <1>4 DEF PlanFine, w

LEMMA ConfirmedRoutingPlan ==
    PlanFine(<<"confirm">> \o RouteToTicket) /\ (<<"confirm">> \o RouteToTicket)[1] = "confirm"
<1> DEFINE w == <<"confirm">> \o RouteToTicket
<1>1. w \in Seq(Steps) /\ Len(w) = 6
    BY Words DEF MakeTicket, RouteToTicket
<1>2. /\ w[1] = "confirm" /\ w[2] = "lookup" /\ w[3] = "create" /\ w[4] = "record"
      /\ w[5] = "ROUTED_TO_TICKET" /\ w[6] = "tell"
    BY DEF MakeTicket, RouteToTicket
<1> HIDE DEF w
<1>3. Grammar(w)
    BY <1>1, <1>2, Words DEF Grammar, Asking
<1>4. Entries(w)
    BY <1>1, <1>2, Words DEF Entries
<1> QED BY <1>1, <1>2, <1>3, <1>4 DEF PlanFine, w

LEMMA SupplementPlan ==
    /\ PlanFine(<<"supplement", "SUMMARY_REVIEW", "tell">>)
    /\ ~Routes(<<"supplement", "SUMMARY_REVIEW", "tell">>)
BY Words DEF PlanFine, Grammar, Entries, Asking, Routes

-----------------------------------------------------------------------------
(* Where a plan leads *)

LEMMA StopsFine == ASSUME NEW p PROVE TurnsTo(p, <<>>)
BY ShortPlans DEF TurnsTo

LEMMA TailFine ==
    ASSUME NEW p, PlanFine(p), p # <<>>
    PROVE  TurnsTo(p, Tail(p)) /\ (Tail(p) # <<>> => Tail(p)[1] = p[2] /\ 2 \in 2 .. Len(p))
<1> DEFINE q == Tail(p)
<1>1. Suffix(q, p, 1) /\ Len(p) \in Nat \ {0}
    BY TailSuffix DEF PlanFine
<1>2. PlanFine(q) /\ (Routes(q) => Routes(p)) /\ (Asks(q) => Asks(p))
    BY <1>1, SuffixFine
<1>3. q # <<>> => q[1] = p[2] /\ 2 \in 2 .. Len(p)
    BY <1>1 DEF Suffix
<1>4. Asks(q) => p[1] \notin {"create", "record"}
    <2>1. p[1] \in {"create", "record"} => \A j \in 2 .. Len(p) : p[j] \notin Asking
        BY <1>1 DEF PlanFine, Grammar
    <2>2. \A j \in 1 .. Len(q) : j + 1 \in 2 .. Len(p) /\ q[j] = p[j + 1]
        BY <1>1 DEF Suffix
    <2> QED BY <2>1, <2>2 DEF Asks
<1>5. ASSUME q # <<>> PROVE Enters(p, q)
    <2>1. /\ p[2] \in {"DEMO_ACTIVE", "lookup"} => p[1] = "confirm"
          /\ p[2] = "create" => p[1] = "lookup"
          /\ p[2] = "record" => p[1] = "create"
          /\ p[2] = "ROUTED_TO_TICKET" => p[1] = "record"
          /\ p[2] = "tell" => p[1] \in Statuses \cup {"offer"}
          /\ p[2] = "route" => p[1] \in {"case", "tell"}
        BY <1>3, <1>5 DEF PlanFine, Entries
    <2>2. ASSUME q[1] = "tell", Len(q) > 1, q[2] = "route" PROVE p[1] = "EXPIRED"
        <3>1. 3 \in 2 .. Len(p) /\ p[3] = "route" /\ p[2] = "tell"
            BY <1>1, <1>3, <1>5, <2>2 DEF Suffix
        <3> QED BY <3>1 DEF PlanFine, Entries
    <2> QED BY <1>3, <1>5, <2>1, <2>2 DEF Enters
<1> QED BY <1>2, <1>3, <1>4, <1>5 DEF TurnsTo

\* The steps that skip one or two: nothing was found, an expiry was refused, a
\* case in review is not read anew, a ticket is known.
LEMMA SkipFine ==
    ASSUME NEW p, PlanFine(p), p # <<>>, p[1] \in {"index", "EXPIRED", "supplement"}
    PROVE  TurnsTo(p, Tail(Tail(p)))
<1> DEFINE r == Tail(p)
           q == Tail(r)
<1>1. r # <<>> /\ PlanFine(r) /\ r[1] \in {"case", "tell", "SUMMARY_REVIEW"}
      /\ (p[1] = "supplement" <=> r[1] = "SUMMARY_REVIEW")
    <2>1. 1 \in 1 .. Len(p) /\ 1 < Len(p) /\ p[2] \in {"case", "tell", "SUMMARY_REVIEW"}
          /\ (p[1] = "supplement" <=> p[2] = "SUMMARY_REVIEW")
        BY Words DEF PlanFine, Grammar
    <2>2. r # <<>>
        BY <2>1, LongTail DEF PlanFine
    <2> QED BY <2>1, <2>2, TailFine DEF TurnsTo
<1>2. TurnsTo(r, q)
    BY <1>1, TailFine
<1>3. TurnsTo(p, r)
    BY TailFine
<1>4. q # <<>> => Enters(r, q)
    BY <1>2 DEF TurnsTo
<1>5. q # <<>> => Enters(p, q)
    BY <1>1, <1>4, Words DEF Enters
<1> HIDE DEF q, r
<1> QED BY <1>1, <1>2, <1>3, <1>5 DEF TurnsTo, q, r

LEMMA KnownTicketFine ==
    ASSUME NEW p, PlanFine(p), p # <<>>, p[1] = "lookup"
    PROVE  TurnsTo(p, SubSeq(p, Len(MakeTicket) + 1, Len(p)))
<1> DEFINE q == SubSeq(p, 4, Len(p))
<1>1. Len(MakeTicket) + 1 = 4
    BY DEF MakeTicket
<1>2. p[3] = "record" /\ 3 \in 0 .. Len(p) /\ Len(p) \in Nat /\ p[2] = "create"
    BY DEF PlanFine, Grammar
<1>3. Suffix(q, p, 3)
    <2>1. 3 + 1 = 4 /\ p \in Seq(Steps)
        BY DEF PlanFine
    <2> QED BY <2>1, <1>2, SubSeqSuffix
<1>4. PlanFine(q) /\ (Routes(q) => Routes(p)) /\ (Asks(q) => Asks(p))
    BY <1>3, SuffixFine
<1>5. ASSUME q # <<>> PROVE Enters(p, q)
    <2>1. q[1] = p[4] /\ 4 \in 2 .. Len(p)
        BY <1>2, <1>3, <1>5 DEF Suffix
    <2>2. q[1] \notin {"DEMO_ACTIVE", "lookup", "create", "record", "tell", "route"}
        BY <1>2, <2>1, Words DEF PlanFine, Entries
    <2> QED BY <2>2 DEF Enters
<1> QED BY <1>1, <1>4, <1>5 DEF TurnsTo

LEMMA ReplaceFine ==
    ASSUME NEW p, PlanFine(p), p # <<>>,
           p[1] \notin {"confirm", "lookup", "create", "record", "offer",
                     "supplement", "start", "route"} \cup Statuses,
           NEW s, PlanFine(s), ~Asks(s), ~Routes(s), s # <<>>, s[1] \notin Entered,
           p[1] \in {"index", "case", "tell"} => Len(s) = 2 /\ s[1] = "EXPIRED" /\ s[2] = "tell"
    PROVE  TurnsTo(p, s \o Tail(p))
<1> DEFINE q == Tail(p)
<1>1. TurnsTo(p, q) /\ PlanFine(q)
    BY TailFine DEF TurnsTo
<1>2. \/ q = <<>>
      \/ q[1] \notin Entered
      \/ q[1] = "route" /\ Len(s) = 2 /\ s[1] = "EXPIRED" /\ s[2] = "tell"
    <2> SUFFICES ASSUME q # <<>>, q[1] \in Entered
                 PROVE  q[1] = "route" /\ Len(s) = 2 /\ s[1] = "EXPIRED" /\ s[2] = "tell"
        OBVIOUS
    <2>1. Enters(p, q)
        BY <1>1 DEF TurnsTo
    <2> HIDE DEF q
    <2>2. q[1] = "route"
        <3>1. /\ q[1] \notin {"DEMO_ACTIVE", "lookup", "create", "record", "tell"}
              /\ q[1] # "ROUTED_TO_TICKET"
            BY <2>1 DEF Enters
        <3> QED BY <3>1 DEF Entered
    <2>3. p[1] \in {"index", "case", "tell", "EXPIRED"}
        BY <2>1, <2>2 DEF Enters
    <2> QED BY <2>2, <2>3, Words
<1>3. /\ PlanFine(s \o q)
      /\ (s \o q)[1] = s[1] /\ s \o q # <<>>
      /\ Routes(s \o q) => Routes(q)
      /\ Asks(s \o q) => Asks(q)
    BY <1>1, <1>2, JoinFine DEF Entered
<1>4. Enters(p, s \o q)
    BY <1>3 DEF Enters, Entered
<1> QED BY <1>1, <1>3, <1>4 DEF TurnsTo

\* A route and a start are last: what replaces them is the whole plan.
LEMMA LastReplaced ==
    ASSUME NEW p, PlanFine(p), p # <<>>, p[1] \in {"start", "route"},
           NEW s \in Seq(Steps)
    PROVE  s \o Tail(p) = s
<1>1. p \in Seq(Steps) /\ Grammar(p)
    BY DEF PlanFine
<1>2. 1 \in 1 .. Len(p)
    BY <1>1
<1>3. Len(p) = 1
    BY <1>1, <1>2 DEF Grammar
<1>4. Suffix(Tail(p), p, 1)
    BY <1>1, TailSuffix
<1>5. Tail(p) \in Seq(Steps) /\ Len(Tail(p)) = 0
    BY <1>3, <1>4 DEF Suffix
<1> QED BY <1>5, Joined, Zenon

-----------------------------------------------------------------------------
(* Every step of a turn leads from a plan to a plan. *)

PlansFine == plan \in [Turns -> Seq(Steps)] /\ \A t \in Turns : PlanFine(plan[t])

\* A turn that is about to be routed, or will be once it has told that a case has
\* expired, does not take an ended case for its own.
Routable(t) ==
    /\ AtStep(t, "route") => held[t].of.status \notin Terminal
    /\ AtStep(t, "tell") /\ Len(plan[t]) > 1 /\ plan[t][2] = "route"
         => held[t].of.status = "EXPIRED"

\* The step has made of the plan what a step may.
Turned(t) ==
    \E q : plan' = [plan EXCEPT ![t] = q] /\ TurnsTo(plan[t], q)

LEMMA AtStepIs ==
    ASSUME PlansFine, NEW t \in Turns, NEW s, AtStep(t, s)
    PROVE  plan[t] # <<>> /\ plan[t][1] = s /\ PlanFine(plan[t])
BY DEF PlansFine, AtStep

LEMMA ContinueTurns ==
    ASSUME PlansFine, NEW t \in Turns, plan[t] # <<>>, Continue(t)
    PROVE  Turned(t)
BY TailFine DEF Continue, Turned, PlansFine

LEMMA StopTurns ==
    ASSUME PlansFine, NEW t \in Turns, Stop(t)
    PROVE  Turned(t)
BY StopsFine DEF Stop, Turned

LEMMA SkipTurns ==
    ASSUME PlansFine, NEW t \in Turns, NEW s \in {"index", "EXPIRED", "supplement"},
           AtStep(t, s), plan' = [plan EXCEPT ![t] = Tail(Tail(@))]
    PROVE  Turned(t)
BY AtStepIs, SkipFine DEF Turned

LEMMA ReplaceTurns ==
    ASSUME PlansFine, NEW t \in Turns, NEW h \in {"case", "drop", "evaluate"}, AtStep(t, h),
           NEW s, Replace(t, s), PlanFine(s), ~Asks(s), ~Routes(s), s # <<>>, s[1] \notin Entered,
           h = "case" => Len(s) = 2 /\ s[1] = "EXPIRED" /\ s[2] = "tell"
    PROVE  Turned(t)
<1>1. plan[t] # <<>> /\ plan[t][1] = h /\ PlanFine(plan[t])
    BY AtStepIs
<1>2. h \notin {"confirm", "lookup", "create", "record", "offer",
                "supplement", "start", "route"} \cup Statuses
    BY Words
<1>3. h \in {"index", "case", "tell"} => h = "case"
    OBVIOUS
<1>4. TurnsTo(plan[t], s \o Tail(plan[t]))
    BY <1>1, <1>2, <1>3, ReplaceFine
<1> QED BY <1>4 DEF Turned, Replace

LEMMA ReplaceByNothing ==
    ASSUME PlansFine, NEW t \in Turns, plan[t] # <<>>, Replace(t, <<>>)
    PROVE  Turned(t)
<1>1. Tail(plan[t]) \in Seq(Steps)
    BY TailSuffix DEF PlansFine, Suffix
<1>2. <<>> \o Tail(plan[t]) = Tail(plan[t])
    BY <1>1
<1> QED BY <1>2, ContinueTurns DEF Replace, Continue

\* The whole plan is replaced: at the start, by a route, and when an offer meets a
\* case.
LEMMA LastTurns ==
    ASSUME PlansFine, NEW t \in Turns, NEW h \in {"start", "route"}, AtStep(t, h),
           NEW s, Replace(t, s), PlanFine(s),
           s # <<>> => Enters(plan[t], s),
           Routes(s) => h = "route"
    PROVE  Turned(t)
<1>1. plan[t] # <<>> /\ plan[t][1] = h /\ PlanFine(plan[t])
    BY AtStepIs
<1>2. s \o Tail(plan[t]) = s
    BY <1>1, LastReplaced DEF PlanFine
<1>3. Asks(plan[t])
    <2>1. 1 \in 1 .. Len(plan[t])
        BY <1>1 DEF PlanFine
    <2> QED BY <1>1, <2>1 DEF Asks, Asking
<1>4. TurnsTo(plan[t], s)
    BY <1>1, <1>3 DEF TurnsTo
<1> QED BY <1>2, <1>4 DEF Turned, Replace

LEMMA StartTurns == ASSUME PlansFine, NEW t \in Turns, Start(t) PROVE Turned(t)
<1>1. AtStep(t, "start")
    BY DEF Start
<1>2. CASE Stop(t)
    BY <1>2, StopTurns
<1>3. CASE Replace(t, ReadActive \o <<"route">>)
    <2> DEFINE s == ReadActive \o <<"route">>
    <2>1. PlanFine(s) /\ ~Routes(s) /\ s[1] = "index"
        BY ReadPlan
    <2>2. Enters(plan[t], s)
        BY <2>1 DEF Enters
    <2> HIDE DEF s
    <2> QED BY <1>1, <1>3, <2>1, <2>2, LastTurns DEF s
<1> QED BY <1>2, <1>3 DEF Start

LEMMA ReadTurns ==
    ASSUME PlansFine, NEW t \in Turns, ReadIndex(t) \/ ReadCase(t) PROVE Turned(t)
<1>1. CASE ReadIndex(t)
    BY <1>1, SkipTurns, ContinueTurns DEF ReadIndex, AtStep
<1>2. CASE ReadCase(t)
    <2>1. AtStep(t, "case")
        BY <1>2 DEF ReadCase
    <2>2. CASE Continue(t)
        BY <2>1, <2>2, ContinueTurns DEF AtStep
    <2>3. CASE Replace(t, <<"EXPIRED", "tell">>)
        <3>1. PICK s : s = <<"EXPIRED", "tell">>
            OBVIOUS
        <3>2. PlanFine(s) /\ ~Asks(s) /\ ~Routes(s)
            BY <3>1, StatusPlans, Words
        <3>3. Len(s) = 2 /\ s[1] = "EXPIRED" /\ s[2] = "tell" /\ s # <<>>
            BY <3>1
        <3>4. s[1] \notin Entered
            BY <3>3 DEF Entered
        <3> QED BY <2>1, <2>3, <3>1, <3>2, <3>3, <3>4, ReplaceTurns
    <2> QED BY <1>2, <2>2, <2>3 DEF ReadCase
<1> QED BY <1>1, <1>2

LEMMA DropTurns == ASSUME PlansFine, NEW t \in Turns, Drop(t) PROVE Turned(t)
<1>1. AtStep(t, "drop")
    BY DEF Drop
<1>2. PICK s \in {<<"CLOSED", "tell">>, <<"CANCELLED", "tell">>, <<>>} : Replace(t, s)
    BY DEF Drop
<1>3. CASE s = <<>>
    BY <1>1, <1>2, <1>3, ReplaceByNothing DEF AtStep
<1>4. ASSUME NEW x \in {"CLOSED", "CANCELLED"}, s = <<x, "tell">> PROVE Turned(t)
    <2>1. PlanFine(s) /\ ~Asks(s) /\ ~Routes(s)
        BY <1>4, StatusPlans, Words
    <2>2. s[1] \notin Entered /\ s # <<>>
        BY <1>4 DEF Entered
    <2> QED BY <1>1, <1>2, <2>1, <2>2, ReplaceTurns
<1> QED BY <1>2, <1>3, <1>4

LEMMA EvaluateTurns == ASSUME PlansFine, NEW t \in Turns, Evaluate(t) PROVE Turned(t)
<1>1. AtStep(t, "evaluate")
    BY DEF Evaluate
<1>2. PICK s \in {<<>>, ReadActive \o <<"drop">>, MakeOffer} : Replace(t, s)
    BY DEF Evaluate
<1>3. CASE s = <<>>
    BY <1>1, <1>2, <1>3, ReplaceByNothing DEF AtStep
<1>4. CASE s = ReadActive \o <<"drop">>
    <2>1. PlanFine(s) /\ ~Asks(s) /\ ~Routes(s) /\ s[1] = "index" /\ s # <<>>
        BY <1>4, ReadPlan
    <2>2. s[1] \notin Entered
        BY <2>1 DEF Entered
    <2> QED BY <1>1, <1>2, <2>1, <2>2, ReplaceTurns
<1>5. CASE s = MakeOffer
    <2>1. PlanFine(s) /\ ~Asks(s) /\ ~Routes(s)
        BY <1>5, OfferPlans
    <2>2. s[1] \notin Entered /\ s # <<>>
        BY <1>5 DEF Entered, MakeOffer
    <2> QED BY <1>1, <1>2, <2>1, <2>2, ReplaceTurns
<1> QED BY <1>2, <1>3, <1>4, <1>5

\* What a turn is routed to, by what it has read.  A ticket that the case is then
\* routed to is made at once only for a case in a human session.
LEMMA RoutesFine ==
    ASSUME CasesTyped, NEW t \in Turns, held[t].of.status \notin Terminal,
           NEW s \in RoutePlans(t)
    PROVE  /\ PlanFine(s)
           /\ s # <<>> => s[1] \in {"evaluate", "offer", "lookup", "index", "CANCELLED",
                                   "CLOSED", "confirm", "AWAITING_SUPPLEMENT", "supplement"}
           /\ s # <<>> /\ s[1] = "lookup" /\ Routes(s) => held[t].of.status = "DEMO_ACTIVE"
<1> DEFINE st == held[t].of.status
<1>1. st \in {"absent", "OFFERED", "DEMO_ACTIVE"} \cup Review
    BY DEF CasesTyped, Case, Statuses, OpenStatus, Live
<1>2. CASE s = <<>> \/ s = <<"evaluate">>
    BY <1>2, ShortPlans
<1>3. CASE s = Supersede
    BY <1>3, SupersedePlan
<1>4. CASE s \in {<<"CANCELLED", "tell">>, <<"CLOSED", "tell">>, <<"AWAITING_SUPPLEMENT", "tell">>}
    <2>1. PICK x \in {"CANCELLED", "CLOSED", "AWAITING_SUPPLEMENT"} : s = <<x, "tell">>
        BY <1>4
    <2>2. PlanFine(s) /\ s[1] = x
        BY <2>1, StatusPlans, Words
    <2> QED BY <2>1, <2>2
<1>5. CASE s = Promote \/ s = MakeOffer \o Promote
    <2>1. PlanFine(s) /\ ~Routes(s)
        BY <1>5, OfferPlans
    <2>2. Promote[1] = "confirm" /\ (MakeOffer \o Promote)[1] = "offer"
        BY DEF Promote, MakeOffer
    <2> QED BY <1>5, <2>1, <2>2
<1>6. CASE s = <<"confirm">> \o RouteToTicket
    BY <1>6, ConfirmedRoutingPlan
<1>7. CASE s = <<"supplement", "SUMMARY_REVIEW", "tell">>
    BY <1>7, SupplementPlan
<1>8. CASE s = RouteToTicket /\ st = "DEMO_ACTIVE"
    BY <1>8, RoutingPlan
<1>9. CASE s = MakeTicket \o <<"evaluate">>
    BY <1>9, TicketPlan
<1>10. CASE st = "absent"
    <2>1. s \in NoCasePlans(t)
        BY <1>10 DEF RoutePlans, Live, Review
    <2>2. s \in {<<"evaluate">>, MakeOffer \o Promote, MakeTicket \o <<"evaluate">>}
        BY <2>1 DEF NoCasePlans
    <2> QED BY <2>2, <1>2, <1>5, <1>9
<1>11. CASE st = "OFFERED"
    <2>1. s = <<"evaluate">>
        BY <1>11 DEF RoutePlans, Live, Review
    <2> QED BY <2>1, <1>2
<1>12. CASE st = "DEMO_ACTIVE"
    <2>1. s = Supersede \/ s \in DemoPlans(t)
        BY <1>12 DEF RoutePlans, Live, Review
    <2>2. s \in {Supersede, <<>>, <<"CLOSED", "tell">>, RouteToTicket}
        BY <2>1 DEF DemoPlans
    <2> QED BY <2>2, <1>2, <1>3, <1>4, <1>8, <1>12
<1>13. CASE st \in Review
    <2>1. s = Supersede \/ s \in ReviewPlans(t, st)
        <3>1. CASE st = "SUMMARY_REVIEW"
            BY <3>1 DEF RoutePlans, Live, Review
        <3>2. CASE st = "AWAITING_SUPPLEMENT"
            BY <3>2 DEF RoutePlans, Live, Review
        <3> QED BY <1>13, <3>1, <3>2 DEF Review
    <2>2. s \in {Supersede, <<>>, <<"CANCELLED", "tell">>, Promote,
                <<"confirm">> \o RouteToTicket, <<"AWAITING_SUPPLEMENT", "tell">>,
                <<"supplement", "SUMMARY_REVIEW", "tell">>}
        BY <2>1 DEF ReviewPlans
    <2> QED BY <2>2, <1>2, <1>3, <1>4, <1>5, <1>6, <1>7
<1> QED BY <1>1, <1>10, <1>11, <1>12, <1>13

LEMMA RouteTurns ==
    ASSUME CasesTyped, PlansFine, NEW t \in Turns, Routable(t), Route(t) PROVE Turned(t)
<1>1. AtStep(t, "route")
    BY DEF Route
<1>2. PICK s \in RoutePlans(t) : Replace(t, s)
    BY DEF Route
<1>3. held[t].of.status \notin Terminal
    BY <1>1 DEF Routable
<1>4. /\ PlanFine(s)
      /\ s # <<>> => s[1] \in {"evaluate", "offer", "lookup", "index", "CANCELLED",
                              "CLOSED", "confirm", "AWAITING_SUPPLEMENT", "supplement"}
    BY <1>3, RoutesFine
<1>5. plan[t][1] = "route"
    BY <1>1, AtStepIs
<1>6. s # <<>> => Enters(plan[t], s)
    BY <1>4, <1>5 DEF Enters
<1> QED BY <1>1, <1>2, <1>4, <1>6, LastTurns

LEMMA CreateCaseTurns == ASSUME PlansFine, NEW t \in Turns, CreateCase(t) PROVE Turned(t)
<1> DEFINE p == plan[t]
           s == ReadActive \o <<"found">>
           q == SubSeq(p, 5, Len(p))
<1>1. p # <<>> /\ p[1] = "offer" /\ PlanFine(p) /\ p \in Seq(Steps)
    BY AtStepIs DEF CreateCase, PlanFine
<1>2. CASE active = None
    <2>1. Continue(t)
        BY <1>2 DEF CreateCase
    <2> QED BY <1>1, <2>1, ContinueTurns
<1>3. CASE active # None
    <2>1. Len(MakeOffer) + 1 = 5
        BY DEF MakeOffer
    <2>2. plan' = [plan EXCEPT ![t] = s \o q]
        BY <1>3, <2>1 DEF CreateCase
    <2>3. p[4] = "tell" /\ Len(p) \in Nat /\ 4 =< Len(p)
        BY <1>1 DEF PlanFine, Grammar
    <2>4. Suffix(q, p, 4)
        <3>1. 4 \in 0 .. Len(p) /\ 4 + 1 = 5
            BY <2>3
        <3> QED BY <1>1, <3>1, SubSeqSuffix
    <2>5. PlanFine(q) /\ (Routes(q) => Routes(p)) /\ (Asks(q) => Asks(p))
        BY <1>1, <2>4, SuffixFine
    <2>6. q # <<>> => q[1] \notin Entered
        <3> SUFFICES ASSUME q # <<>> PROVE q[1] \notin Entered
            OBVIOUS
        <3>1. q[1] = p[5] /\ 5 \in 2 .. Len(p)
            BY <2>3, <2>4 DEF Suffix
        <3>2. /\ p[5] \in {"DEMO_ACTIVE", "lookup"} => p[4] = "confirm"
              /\ p[5] = "create" => p[4] = "lookup"
              /\ p[5] = "record" => p[4] = "create"
              /\ p[5] = "ROUTED_TO_TICKET" => p[4] = "record"
              /\ p[5] = "tell" => p[4] \in Statuses \cup {"offer"}
              /\ p[5] = "route" => p[4] = "case" \/ p[3] = "EXPIRED"
            BY <1>1, <3>1 DEF PlanFine, Entries
        <3>3. p[3] = "SUMMARY_REVIEW"
            BY <1>1, <2>3 DEF PlanFine, Grammar
        <3> QED BY <2>3, <3>1, <3>2, <3>3, Words DEF Entered
    <2>7. PlanFine(s) /\ ~Asks(s) /\ ~Routes(s) /\ s[1] = "index" /\ s # <<>>
        BY ReadPlan
    <2> HIDE DEF s, q
    <2>8. /\ PlanFine(s \o q) /\ (s \o q)[1] = "index" /\ s \o q # <<>>
          /\ Routes(s \o q) => Routes(p)
          /\ Asks(s \o q) => Asks(p)
        BY <2>5, <2>6, <2>7, JoinFine
    <2>9. TurnsTo(p, s \o q)
        BY <1>1, <2>8 DEF TurnsTo, Enters
    <2> QED BY <2>2, <2>9 DEF Turned
<1> QED BY <1>2, <1>3

LEMMA MoveTurns ==
    ASSUME PlansFine, NEW t \in Turns, NEW s \in Statuses, Move(t, s) PROVE Turned(t)
<1>1. AtStep(t, s)
    BY DEF Move
<1>2. CASE Continue(t)
    BY <1>1, <1>2, ContinueTurns DEF AtStep
<1>3. CASE Stop(t)
    BY <1>3, StopTurns
<1>4. CASE s = "EXPIRED" /\ plan' = [plan EXCEPT ![t] = Tail(Tail(@))]
    BY <1>1, <1>4, SkipTurns
<1> QED BY <1>2, <1>3, <1>4 DEF Move

LEMMA SummariseTurns ==
    ASSUME PlansFine, NEW t \in Turns, NEW s \in {"confirm", "supplement"}, Summarise(t, s)
    PROVE  Turned(t)
<1>1. AtStep(t, s)
    BY DEF Summarise
<1>2. CASE Continue(t)
    BY <1>1, <1>2, ContinueTurns DEF AtStep
<1>3. CASE Stop(t)
    BY <1>3, StopTurns
<1>4. CASE s = "supplement" /\ plan' = [plan EXCEPT ![t] = Tail(Tail(@))]
    BY <1>1, <1>4, SkipTurns
<1> QED BY <1>2, <1>3, <1>4 DEF Summarise

LEMMA LookupTurns == ASSUME PlansFine, NEW t \in Turns, Lookup(t) PROVE Turned(t)
<1>1. plan[t] # <<>> /\ plan[t][1] = "lookup" /\ PlanFine(plan[t])
    BY AtStepIs DEF Lookup
<1>2. CASE Continue(t)
    BY <1>1, <1>2, ContinueTurns
<1>3. CASE plan' = [plan EXCEPT ![t] = SubSeq(@, Len(MakeTicket) + 1, Len(@))]
    BY <1>1, <1>3, KnownTicketFine DEF Turned
<1> QED BY <1>2, <1>3 DEF Lookup

LEMMA NoTicketTurns == ASSUME PlansFine, NEW t \in Turns, NoTicket(t) PROVE Turned(t)
<1>1. PICK q : q = <<"evaluate">>
    OBVIOUS
<1>2. PlanFine(q) /\ ~Asks(q) /\ ~Routes(q) /\ q[1] = "evaluate"
    BY <1>1, ShortPlans
<1>3. TurnsTo(plan[t], q)
    BY <1>2 DEF TurnsTo, Enters
<1>4. CASE plan' = [plan EXCEPT ![t] = <<"evaluate">>]
    BY <1>1, <1>3, <1>4 DEF Turned
<1>5. CASE Stop(t)
    BY <1>5, StopTurns
<1> QED BY <1>4, <1>5 DEF NoTicket

LEMMA EveryStepTurns ==
    ASSUME CasesTyped, PlansFine, NEW t \in Turns, Routable(t), TurnStep(t) \/ Crash(t)
    PROVE  Turned(t)
<1>1. CASE Found(t) \/ Close(t) \/ Tell(t) \/ CreateTicket(t) \/ RecordTicket(t) \/ Crash(t)
    <2>1. Stop(t) \/ (Continue(t) /\ plan[t] # <<>>)
        BY <1>1 DEF Found, Close, Tell, CreateTicket, RecordTicket, Crash, AtStep
    <2> QED BY <2>1, ContinueTurns, StopTurns
<1>2. CASE Start(t) \/ ReadIndex(t) \/ ReadCase(t) \/ Route(t) \/ Drop(t) \/ Evaluate(t)
    BY <1>2, StartTurns, ReadTurns, RouteTurns, DropTurns, EvaluateTurns
<1>3. CASE CreateCase(t) \/ Lookup(t) \/ NoTicket(t)
    BY <1>3, CreateCaseTurns, LookupTurns, NoTicketTurns
<1>4. CASE \E s \in Statuses : Move(t, s)
    BY <1>4, MoveTurns
<1>5. CASE \E s \in {"confirm", "supplement"} : Summarise(t, s)
    BY <1>5, SummariseTurns
<1> QED BY <1>1, <1>2, <1>3, <1>4, <1>5 DEF TurnStep

LEMMA TurnedKeeps ==
    ASSUME PlansFine, NEW t \in Turns, Turned(t)
    PROVE  /\ PlansFine'
           /\ TurnsTo(plan[t], plan'[t])
           /\ \A u \in Turns : u # t => plan'[u] = plan[u]
<1>1. PICK q : plan' = [plan EXCEPT ![t] = q] /\ TurnsTo(plan[t], q)
    BY DEF Turned
<1>2. q \in Seq(Steps) /\ PlanFine(q)
    BY <1>1 DEF TurnsTo, PlanFine
<1> QED BY <1>1, <1>2 DEF PlansFine

-----------------------------------------------------------------------------
(* What a turn stands on *)

Committed == {"DEMO_ACTIVE", "ROUTED_TO_TICKET"}

\* A turn that opens the session next, or makes the ticket its case goes to, has a
\* confirmed summary in its hands.
Confirmed(t) ==
    \/ AtStep(t, "DEMO_ACTIVE")
    \/ /\ Routes(plan[t])
       /\ \E s \in {"lookup", "create", "record", "ROUTED_TO_TICKET"} : AtStep(t, s)
    => held[t].of.confirmed

\* A turn tells of a case that it has; and it knows its case confirmed when the
\* case has gone on.
Tellable(t) == AtStep(t, "tell") => held[t].of.status \in Statuses

HeldConfirmed(t) == held[t].of.status \in Committed => held[t].of.confirmed

Standing(t) == Confirmed(t) /\ Tellable(t) /\ Routable(t) /\ HeldConfirmed(t)

CasesConfirmed == \A c \in Cases : case[c].status \in Committed => case[c].confirmed

\* The inductive invariant of the cases and the plans.
Turning ==
    /\ Inv
    /\ PlansFine
    /\ CasesConfirmed
    /\ \A t \in Turns : Standing(t)

LEMMA NextAt ==
    ASSUME PlansFine', NEW t \in Turns, NEW s
    PROVE  AtStep(t, s)' <=> plan'[t] # <<>> /\ plan'[t][1] = s
BY DEF AtStep, PlansFine

\* After a step that leaves the held case alone and comes before none of the
\* steps that rely on one.
LEMMA QuietStands ==
    ASSUME Turning, NEW t \in Turns, Turned(t), HeldConfirmed(t)',
           plan[t][1] \notin {"confirm", "route", "lookup", "create", "record", "index",
                             "case", "tell", "offer", "supplement"} \cup Statuses
    PROVE  Standing(t)'
<1>1. PlansFine' /\ TurnsTo(plan[t], plan'[t])
    BY TurnedKeeps DEF Turning
<1>2. plan'[t] # <<>> => Enters(plan[t], plan'[t])
    BY <1>1 DEF TurnsTo
<1>3. \A s \in Entered : ~AtStep(t, s)'
    BY <1>1, <1>2, NextAt, Words DEF Enters, Entered
<1> QED BY <1>3 DEF Standing, Confirmed, Tellable, Routable, Entered

LEMMA StoppedStands ==
    ASSUME Turning, NEW t \in Turns, Stop(t), UNCHANGED held
    PROVE  Standing(t)'
<1>1. plan'[t] = <<>>
    BY DEF Stop, Turning, PlansFine
<1>2. \A s : ~AtStep(t, s)'
    BY <1>1 DEF AtStep
<1> QED BY <1>2 DEF Turning, Standing, Confirmed, Tellable, Routable, HeldConfirmed

\* Steps after which the turn is not about to tell, to be routed or to open a
\* session.
LEMMA TicketStepsStand ==
    ASSUME Turning, NEW t \in Turns, UNCHANGED held, Turned(t),
           plan[t] # <<>>, plan[t][1] \in {"route", "lookup", "create", "record"},
           plan[t][1] = "route" /\ plan'[t] # <<>> /\ plan'[t][1] = "lookup" /\ Routes(plan'[t])
             => held[t].of.confirmed
    PROVE  Standing(t)'
<1>1. PlansFine' /\ TurnsTo(plan[t], plan'[t])
    BY TurnedKeeps DEF Turning
<1>2. plan'[t] # <<>> => Enters(plan[t], plan'[t])
    BY <1>1 DEF TurnsTo
<1>3. HeldConfirmed(t)'
    BY DEF Turning, Standing, HeldConfirmed
<1>4. \A s \in {"DEMO_ACTIVE", "tell", "route"} : ~AtStep(t, s)'
    BY <1>1, <1>2, NextAt, Words DEF Enters
<1>5. ASSUME NEW s \in {"lookup", "create", "record", "ROUTED_TO_TICKET"},
             AtStep(t, s)', Routes(plan'[t])
      PROVE  held[t].of.confirmed
    <2>1. plan'[t] # <<>> /\ plan'[t][1] = s
        BY <1>1, <1>5, NextAt
    <2>2. Enters(plan[t], plan'[t])
        BY <1>2, <2>1
    <2>3. CASE s = "lookup"
        BY <1>5, <2>1, <2>2, <2>3 DEF Enters
    <2>4. CASE s # "lookup"
        <3>1. plan[t][1] \in {"lookup", "create", "record"}
            BY <1>5, <2>1, <2>2, <2>4 DEF Enters
        <3>2. Routes(plan[t])
            BY <1>1, <1>5, <3>1 DEF TurnsTo
        <3>3. AtStep(t, plan[t][1])
            BY DEF AtStep, Turning, PlansFine
        <3> QED BY <3>1, <3>2, <3>3 DEF Turning, Standing, Confirmed
    <2> QED BY <2>3, <2>4
<1>6. Confirmed(t)'
    BY <1>4, <1>5 DEF Confirmed
<1> QED BY <1>3, <1>4, <1>6 DEF Standing, Tellable, Routable

LEMMA ReadingStands ==
    ASSUME Turning, NEW t \in Turns, ReadIndex(t) \/ ReadCase(t) PROVE Standing(t)'
<1>1. PlansFine' /\ TurnsTo(plan[t], plan'[t])
    BY ReadTurns, TurnedKeeps DEF Turning
<1>2. plan[t][1] \in {"index", "case"}
    BY AtStepIs DEF ReadIndex, ReadCase, Turning
<1>3. plan'[t] # <<>> => Enters(plan[t], plan'[t])
    BY <1>1 DEF TurnsTo
<1>4. \A s \in Entered \ {"route"} : ~AtStep(t, s)'
    BY <1>1, <1>2, <1>3, NextAt, Words DEF Enters, Entered
<1>5. /\ held[t] \in [id : Cases \cup {None}, of : Case]
      /\ held \in [Turns -> [id : Cases \cup {None}, of : Case]]
    BY DEF Turning, Inv, CasesTyped
<1>6. held'[t].of.status \notin Terminal /\ HeldConfirmed(t)'
    <2>1. NoCase.status \notin Terminal \cup Committed
        BY Constants, StatusKinds DEF Committed, Terminal
    <2>2. CASE held'[t].of = NoCase
        BY <2>1, <2>2 DEF HeldConfirmed
    <2>3. CASE held'[t].of = TheCase(t) /\ TheCase(t).status \notin Terminal
        <3>1. TheCase(t).status \in Committed => TheCase(t).confirmed
            BY <2>1, TheCaseTyped DEF TheCase, Turning, CasesConfirmed, Inv
        <3> QED BY <2>3, <3>1 DEF HeldConfirmed
    <2>4. CASE Forget(t)
        <3>1. held'[t] = Unseen
            BY <1>5, <2>4 DEF Forget
        <3> QED BY <2>2, <3>1, Constants
    <2>5. CASE held' = [held EXCEPT ![t] = [id |-> active, of |-> NoCase]]
        <3>1. held'[t] = [id |-> active, of |-> NoCase]
            BY <1>5, <2>5
        <3> QED BY <2>2, <3>1
    <2>6. CASE held' = [held EXCEPT ![t].of = TheCase(t)] /\ TheCase(t).status \notin Terminal
        <3>1. held'[t].of = TheCase(t)
            BY <1>5, <2>6
        <3> QED BY <2>3, <2>6, <3>1
    <2> QED BY <2>4, <2>5, <2>6 DEF ReadIndex, ReadCase
<1> QED BY <1>4, <1>6 DEF Standing, Confirmed, Tellable, Routable, Entered

LEMMA CreateStands ==
    ASSUME Turning, NEW t \in Turns, CreateCase(t) PROVE Standing(t)'
<1>1. PlansFine' /\ TurnsTo(plan[t], plan'[t])
    BY CreateCaseTurns, TurnedKeeps DEF Turning
<1>2. plan[t] # <<>> /\ plan[t][1] = "offer" /\ PlanFine(plan[t])
    BY AtStepIs DEF CreateCase, Turning
<1>3. plan'[t] # <<>> => Enters(plan[t], plan'[t])
    BY <1>1 DEF TurnsTo
<1>4. \A s \in Entered \ {"tell"} : ~AtStep(t, s)'
    BY <1>1, <1>2, <1>3, NextAt, Words DEF Enters, Entered
<1>5. ~(AtStep(t, "tell")' /\ Len(plan'[t]) > 1 /\ plan'[t][2] = "route")
    BY <1>1, <1>2, <1>3, NextAt DEF Enters
<1>6. CASE active = None
    <2>1. PICK c \in Cases : held' = [held EXCEPT ![t] = [id |-> c, of |-> Offer]]
        BY <1>6 DEF CreateCase
    <2>2. held'[t].of = Offer
        BY <2>1 DEF Turning, Inv, CasesTyped
    <2>3. Offer.status \in Statuses \ Committed
        BY Constants, StatusKinds DEF Committed
    <2> QED BY <1>4, <1>5, <2>2, <2>3
            DEF Standing, Confirmed, Tellable, Routable, HeldConfirmed, Entered
<1>7. CASE active # None
    <2>1. Len(MakeOffer) + 1 = 5
        BY DEF MakeOffer
    <2>2. plan' = [plan EXCEPT ![t] = ReadActive \o <<"found">> \o SubSeq(@, 5, Len(@))]
        BY <1>7, <2>1 DEF CreateCase
    <2>3. plan'[t][1] = "index"
        <3>1. plan'[t] = (ReadActive \o <<"found">>) \o SubSeq(plan[t], 5, Len(plan[t]))
            BY <2>2 DEF Turning, PlansFine
        <3>2. PICK s, q : s = ReadActive \o <<"found">> /\ q = SubSeq(plan[t], 5, Len(plan[t]))
            OBVIOUS
        <3>3. s \in Seq(Steps) /\ s # <<>> /\ s[1] = "index"
            BY <3>2, ReadPlan DEF PlanFine
        <3>4. 4 \in 0 .. Len(plan[t]) /\ plan[t] \in Seq(Steps)
            <4>1. 1 \in 1 .. Len(plan[t])
                BY <1>2 DEF PlanFine
            <4> QED BY <1>2, <4>1 DEF PlanFine, Grammar
        <3>5. q \in Seq(Steps)
            <4>1. 4 + 1 = 5
                OBVIOUS
            <4> QED BY <3>2, <3>4, <4>1, SubSeqSuffix DEF Suffix
        <3>6. (s \o q)[1] = s[1]
            BY <3>3, <3>5
        <3> QED BY <3>1, <3>2, <3>3, <3>6
    <2>4. ~AtStep(t, "tell")'
        BY <1>1, <2>3, NextAt
    <2>5. UNCHANGED held
        BY <1>7 DEF CreateCase
    <2> QED BY <1>4, <2>4, <2>5
            DEF Standing, Confirmed, Tellable, Routable, HeldConfirmed, Entered, Turning
<1> QED BY <1>6, <1>7

LEMMA TellStands ==
    ASSUME Turning, NEW t \in Turns, Tell(t) PROVE Standing(t)'
<1>1. plan[t] # <<>> /\ plan[t][1] = "tell" /\ PlanFine(plan[t]) /\ Continue(t) /\ AtStep(t, "tell")
    BY AtStepIs DEF Tell, Turning
<1>2. PlansFine' /\ TurnsTo(plan[t], plan'[t])
    BY <1>1, ContinueTurns, TurnedKeeps DEF Turning
<1>3. plan'[t] # <<>> => Enters(plan[t], plan'[t])
    BY <1>2 DEF TurnsTo
<1>4. \A s \in Entered \ {"route"} : ~AtStep(t, s)'
    BY <1>1, <1>2, <1>3, NextAt, Words DEF Enters, Entered
<1>5. /\ held[t] \in [id : Cases \cup {None}, of : Case]
      /\ held \in [Turns -> [id : Cases \cup {None}, of : Case]]
    BY DEF Turning, Inv, CasesTyped
<1>6. CASE held[t].of.status = "EXPIRED"
    <2>1. held'[t] = Unseen
        BY <1>5, <1>6 DEF Tell, Forget
    <2>2. held'[t].of.status \notin Terminal \cup Committed
        BY <2>1, Constants, StatusKinds DEF Committed, Terminal
    <2> QED BY <1>4, <2>2 DEF Standing, Confirmed, Tellable, Routable, HeldConfirmed, Entered
<1>7. CASE held[t].of.status # "EXPIRED"
    <2>1. UNCHANGED held
        BY <1>7 DEF Tell
    <2>2. ~AtStep(t, "route")'
        <3> SUFFICES ASSUME AtStep(t, "route")' PROVE FALSE
            OBVIOUS
        <3>1. plan'[t] # <<>> /\ plan'[t][1] = "route"
            BY <1>2, NextAt
        <3>2. plan'[t] = Tail(plan[t])
            BY <1>1 DEF Continue, Turning, PlansFine
        <3>3. plan[t][2] = "route" /\ 2 \in 2 .. Len(plan[t]) /\ Len(plan[t]) \in Nat
            BY <1>1, <3>1, <3>2, TailFine DEF PlanFine
        <3>4. Len(plan[t]) > 1
            BY <3>3
        <3> QED BY <1>1, <1>7, <3>3, <3>4 DEF Turning, Standing, Routable
    <2> QED BY <1>4, <2>1, <2>2
            DEF Standing, Confirmed, Tellable, Routable, HeldConfirmed, Entered, Turning
<1> QED BY <1>6, <1>7

\* The turn has moved its case to a status: it tells that next.
LEMMA MovedStands ==
    ASSUME Turning, NEW t \in Turns, NEW s \in Statuses, AtStep(t, s), Continue(t),
           held'[t].of.status = s, HeldConfirmed(t)'
    PROVE  Standing(t)' /\ AtStep(t, "tell")'
<1>1. plan[t] # <<>> /\ plan[t][1] = s /\ PlanFine(plan[t])
    BY AtStepIs DEF Turning
<1>2. PlansFine' /\ TurnsTo(plan[t], plan'[t])
    BY <1>1, ContinueTurns, TurnedKeeps DEF Turning
<1>3. plan'[t] = Tail(plan[t])
    BY DEF Continue, Turning, PlansFine
<1>4. plan[t][2] = "tell" /\ 1 < Len(plan[t]) /\ Len(plan[t]) \in Nat
    <2>1. 1 \in 1 .. Len(plan[t])
        BY <1>1 DEF PlanFine
    <2> QED BY <1>1, <2>1 DEF PlanFine, Grammar
<1>5. Suffix(plan'[t], plan[t], 1)
    BY <1>1, <1>3, TailSuffix DEF PlanFine
<1>6. plan'[t] # <<>>
    BY <1>4, <1>5 DEF Suffix
<1>7. plan'[t][1] = "tell"
    BY <1>1, <1>3, <1>4, <1>6, TailFine
<1>8. AtStep(t, "tell")' /\ \A x \in Entered \ {"tell"} : ~AtStep(t, x)'
    BY <1>2, <1>6, <1>7, NextAt
<1>9. Len(plan'[t]) > 1 /\ plan'[t][2] = "route" => s = "EXPIRED"
    BY <1>1, <1>2, <1>6, <1>7 DEF TurnsTo, Enters
<1> QED BY <1>8, <1>9 DEF Standing, Confirmed, Tellable, Routable, Entered

\* What a turn stored by moving its case is confirmed if that matters.
LEMMA StoreHolds ==
    ASSUME Turning, NEW t \in Turns, NEW new \in Case, Store(t, new),
           new.status \in Committed => new.confirmed
    PROVE  /\ held'[t].id = held[t].id
           /\ held'[t].of.status = new.status
           /\ held'[t].of.confirmed = new.confirmed
           /\ HeldConfirmed(t)'
           /\ CasesConfirmed'
<1> DEFINE stored == [new EXCEPT !.version = @ + 1]
<1>1. stored.status = new.status /\ stored.confirmed = new.confirmed
    BY DEF Case
<1>2. held'[t].of = stored /\ held'[t].id = held[t].id
    BY DEF Store, Turning, Inv, CasesTyped
<1>3. \A c \in Cases : case'[c] = stored \/ case'[c] = case[c]
    BY DEF Store, Turning, Inv, CasesTyped
<1> QED BY <1>1, <1>2, <1>3 DEF HeldConfirmed, CasesConfirmed, Turning

LEMMA MoveStands ==
    ASSUME Turning, NEW t \in Turns, NEW s \in Statuses, Move(t, s)
    PROVE  Standing(t)' /\ CasesConfirmed'
<1> DEFINE accepted == /\ Current(t)
                       /\ TheCase(t).status = held[t].of.status
                       /\ MayBecome(TheCase(t).status, s)
<1>1. AtStep(t, s)
    BY DEF Move
<1>2. CASE accepted
    <2>1. Store(t, [TheCase(t) EXCEPT !.status = s]) /\ Continue(t)
        BY <1>2 DEF Move
    <2>2. PICK new : new = [TheCase(t) EXCEPT !.status = s]
        OBVIOUS
    <2>3. new \in Case /\ new.status = s /\ new.confirmed = TheCase(t).confirmed
        BY <2>2, TheCaseTyped DEF Case, Turning, Inv
    <2>4. held[t].id # None
        BY <1>2, OnlyOpenMoves, StatusKinds, TheCaseTyped DEF Turning, Inv
    <2>5. held[t].of = TheCase(t)
        BY <1>2, <2>4 DEF Turning, Inv, UpToDate, Current
    <2>6. s \in Committed => new.confirmed
        <3>1. ASSUME s = "ROUTED_TO_TICKET" PROVE Routes(plan[t])
            <4>1. plan[t][1] = s /\ 1 \in 1 .. Len(plan[t])
                BY <1>1, AtStepIs DEF Turning, PlanFine
            <4> QED BY <3>1, <4>1 DEF Routes
        <3>2. s \in Committed => Confirmed(t) /\ held[t].of.confirmed
            BY <1>1, <3>1 DEF Committed, Turning, Standing, Confirmed
        <3> QED BY <2>3, <2>5, <3>2
    <2>7. Store(t, new)
        BY <2>1, <2>2
    <2>8. HeldConfirmed(t)' /\ CasesConfirmed' /\ held'[t].of.status = s
        BY <2>3, <2>6, <2>7, StoreHolds
    <2> QED BY <1>1, <2>1, <2>8, MovedStands
<1>3. CASE ~accepted /\ s # "EXPIRED"
    <2>1. Stop(t) /\ UNCHANGED <<held, case>>
        BY <1>3 DEF Move
    <2> QED BY <2>1, StoppedStands DEF Turning, CasesConfirmed
<1>4. CASE ~accepted /\ s = "EXPIRED"
    <2>1. plan' = [plan EXCEPT ![t] = Tail(Tail(@))] /\ Forget(t) /\ UNCHANGED case
        BY <1>4 DEF Move
    <2>2. held'[t].of.status \notin Terminal \cup Committed
        BY <2>1, Constants, StatusKinds DEF Forget, Turning, Inv, CasesTyped, Committed, Terminal
    <2>3. plan[t] # <<>> /\ plan[t][1] = "EXPIRED" /\ PlanFine(plan[t])
        BY <1>1, <1>4, AtStepIs DEF Turning
    <2>4. PlansFine' /\ TurnsTo(plan[t], plan'[t])
        BY <1>1, <1>4, <2>1, SkipTurns, TurnedKeeps DEF Turning
    <2>5. plan'[t] = Tail(Tail(plan[t]))
        BY <2>1 DEF Turning, PlansFine
    <2>6. plan'[t] # <<>> => Enters(plan[t], plan'[t]) /\ plan'[t][1] # "tell"
        <3>1. Tail(plan[t]) # <<>> /\ Tail(plan[t])[1] = "tell" /\ PlanFine(Tail(plan[t]))
            <4>1. 1 \in 1 .. Len(plan[t]) /\ plan[t] \in Seq(Steps)
                BY <2>3 DEF PlanFine
            <4>2. 1 < Len(plan[t]) /\ plan[t][2] = "tell"
                BY <2>3, <4>1, Words DEF PlanFine, Grammar
            <4>3. Tail(plan[t]) # <<>>
                BY <4>1, <4>2, LongTail
            <4> QED BY <2>3, <4>2, <4>3, TailFine DEF TurnsTo
        <3>2. TurnsTo(Tail(plan[t]), plan'[t])
            BY <2>5, <3>1, TailFine
        <3> QED BY <2>4, <3>1, <3>2, Words DEF TurnsTo, Enters
    <2>7. \A x \in Entered \ {"route"} : ~AtStep(t, x)'
        BY <2>3, <2>4, <2>6, NextAt DEF Enters, Entered
    <2> QED BY <2>1, <2>2, <2>7
            DEF Standing, Confirmed, Tellable, Routable, HeldConfirmed, Entered,
                Turning, CasesConfirmed
<1> QED BY <1>2, <1>3, <1>4

LEMMA CloseStands ==
    ASSUME Turning, NEW t \in Turns, Close(t) PROVE Standing(t)' /\ CasesConfirmed'
<1>1. AtStep(t, "CLOSED") /\ "CLOSED" \in Statuses /\ "CLOSED" \notin Committed
    BY Words DEF Close, Committed
<1>2. CASE Store(t, [TheCase(t) EXCEPT !.status = "CLOSED"]) /\ Continue(t)
    <2>1. PICK new : new = [TheCase(t) EXCEPT !.status = "CLOSED"]
        OBVIOUS
    <2>2. new \in Case /\ new.status = "CLOSED"
        BY <1>1, <2>1, TheCaseTyped DEF Case, Turning, Inv
    <2>3. Store(t, new)
        BY <1>2, <2>1
    <2>4. HeldConfirmed(t)' /\ CasesConfirmed' /\ held'[t].of.status = "CLOSED"
        BY <1>1, <2>2, <2>3, StoreHolds
    <2> QED BY <1>1, <1>2, <2>4, MovedStands
<1>3. CASE /\ TheCase(t).status = "CLOSED"
           /\ held' = [held EXCEPT ![t].of = TheCase(t)]
           /\ Continue(t)
           /\ UNCHANGED <<case, active>>
    <2>1. held'[t].of.status = "CLOSED"
        BY <1>3 DEF Turning, Inv, CasesTyped
    <2>2. HeldConfirmed(t)'
        BY <1>1, <2>1 DEF HeldConfirmed
    <2> QED BY <1>1, <1>3, <2>1, <2>2, MovedStands DEF Turning, CasesConfirmed
<1>4. CASE Stop(t) /\ UNCHANGED <<case, active, held>>
    BY <1>4, StoppedStands DEF Turning, CasesConfirmed
<1> QED BY <1>2, <1>3, <1>4 DEF Close

LEMMA SummariseStands ==
    ASSUME Turning, NEW t \in Turns, NEW s \in {"confirm", "supplement"}, Summarise(t, s)
    PROVE  Standing(t)' /\ CasesConfirmed'
<1> DEFINE accepted == Current(t) /\ TheCase(t).status \in Review \cup {"OFFERED"}
           new == [TheCase(t) EXCEPT !.notes = NewSummary(t, s).notes,
                                     !.confirmed = NewSummary(t, s).confirmed]
<1>1. AtStep(t, s) /\ plan[t] # <<>> /\ plan[t][1] = s
    BY AtStepIs DEF Summarise, Turning
<1>2. CASE ~accepted
    <2>1. Stop(t) /\ UNCHANGED <<held, case>>
        BY <1>2 DEF Summarise
    <2> QED BY <2>1, StoppedStands DEF Turning, CasesConfirmed
<1>3. CASE accepted
    <2>1. held[t].id # None /\ held[t].of = TheCase(t) /\ TheCase(t) \in Case
        <3>1. held[t].id # None
            BY <1>3, StatusKinds, TheCaseTyped DEF Turning, Inv, Review
        <3> QED BY <1>3, <3>1, TheCaseTyped DEF Turning, Inv, UpToDate, Current
    <2>2. PICK n \in SUBSET Turns, b \in BOOLEAN :
             /\ n = NewSummary(t, s).notes /\ b = NewSummary(t, s).confirmed
             /\ s = "confirm" => b = TRUE
        <3>1. /\ NewSummary(t, s).notes \in SUBSET Turns
              /\ NewSummary(t, s).confirmed \in BOOLEAN
              /\ s = "confirm" => NewSummary(t, s).confirmed = TRUE
            BY <2>1 DEF NewSummary, Case
        <3> QED BY <3>1
    <2>3. PICK mine : mine = [TheCase(t) EXCEPT !.notes = n, !.confirmed = b]
        OBVIOUS
    <2>4. Store(t, mine)
        <3>1. Store(t, new)
            BY <1>3 DEF Summarise
        <3>2. new = mine
            BY <2>2, <2>3, Zenon
        <3> QED BY <3>1, <3>2, Zenon
    <2>5. mine \in Case /\ mine.status = TheCase(t).status /\ mine.confirmed = b
        BY <2>1, <2>3 DEF Case
    <2>6. mine.status \in Statuses \ Committed
        BY <1>3, <2>5, Words DEF Review, Committed
    <2>7. /\ held'[t].of.status \in Statuses \ Committed
          /\ held'[t].of.confirmed = b
          /\ HeldConfirmed(t)' /\ CasesConfirmed'
        BY <2>4, <2>5, <2>6, StoreHolds
    <2>8. Turned(t)
        BY SummariseTurns DEF Turning
    <2>9. PlansFine' /\ TurnsTo(plan[t], plan'[t]) /\ (plan'[t] # <<>> => Enters(plan[t], plan'[t]))
        BY <2>8, TurnedKeeps DEF Turning, TurnsTo
    <2>10. /\ \A x \in {"create", "record", "ROUTED_TO_TICKET", "route"} : ~AtStep(t, x)'
           /\ AtStep(t, "DEMO_ACTIVE")' \/ AtStep(t, "lookup")' => s = "confirm"
           /\ ~(AtStep(t, "tell")' /\ Len(plan'[t]) > 1 /\ plan'[t][2] = "route")
        BY <1>1, <2>9, NextAt, Words DEF Enters
    <2>11. Confirmed(t)'
        BY <2>2, <2>7, <2>10 DEF Confirmed
    <2> QED BY <2>7, <2>10, <2>11 DEF Standing, Tellable, Routable
<1> QED BY <1>2, <1>3

LEMMA StepStands ==
    ASSUME Turning, NEW t \in Turns, TurnStep(t) \/ Crash(t)
    PROVE  Standing(t)' /\ CasesConfirmed'
<1>1. Turned(t)
    BY EveryStepTurns DEF Turning, Standing, Inv
<1>2. CASE (\E s \in Statuses : Move(t, s)) \/ Close(t)
           \/ \E s \in {"confirm", "supplement"} : Summarise(t, s)
    BY <1>2, MoveStands, CloseStands, SummariseStands
<1>3. CASE ReadIndex(t) \/ ReadCase(t) \/ Tell(t)
    <2>1. UNCHANGED case
        BY <1>3 DEF ReadIndex, ReadCase, Tell, stores
    <2> QED BY <1>3, <2>1, ReadingStands, TellStands DEF Turning, CasesConfirmed
<1>4. CASE CreateCase(t)
    <2>1. CasesConfirmed'
        <3>1. UNCHANGED case \/ \E c \in Cases : case' = [case EXCEPT ![c] = Offer]
            BY <1>4 DEF CreateCase
        <3>2. Offer.status \notin Committed
            BY Constants DEF Committed
        <3> QED BY <3>1, <3>2 DEF Turning, CasesConfirmed, Inv, CasesTyped
    <2> QED BY <1>4, <2>1, CreateStands
<1>5. CASE Start(t) \/ Drop(t) \/ Evaluate(t) \/ Found(t)
    <2>1. UNCHANGED <<case, held>>
        BY <1>5 DEF Start, Drop, Evaluate, Found, stores
    <2>2. plan[t][1] \in {"start", "drop", "evaluate", "found"}
        BY <1>5, AtStepIs DEF Start, Drop, Evaluate, Found, Turning
    <2>3. HeldConfirmed(t)'
        BY <2>1 DEF Turning, Standing, HeldConfirmed
    <2>4. Standing(t)'
        BY <1>1, <2>2, <2>3, QuietStands, Words
    <2> QED BY <2>1, <2>4 DEF Turning, CasesConfirmed
<1>6. CASE Route(t)
    <2>1. UNCHANGED <<case, held>> /\ AtStep(t, "route")
        BY <1>6 DEF Route, stores
    <2>2. plan[t] # <<>> /\ plan[t][1] = "route" /\ PlanFine(plan[t])
        BY <2>1, AtStepIs DEF Turning
    <2>3. PICK s \in RoutePlans(t) : Replace(t, s)
        BY <1>6 DEF Route
    <2>4. held[t].of.status \notin Terminal
        BY <2>1 DEF Turning, Standing, Routable
    <2>5. /\ PlanFine(s)
          /\ s # <<>> /\ s[1] = "lookup" /\ Routes(s) => held[t].of.status = "DEMO_ACTIVE"
        BY <2>4, RoutesFine DEF Turning, Inv
    <2>6. plan'[t] = s
        <3>1. s \o Tail(plan[t]) = s
            BY <2>2, <2>5, LastReplaced DEF PlanFine
        <3> QED BY <2>3, <3>1 DEF Replace, Turning, PlansFine
    <2>7. held[t].of.status = "DEMO_ACTIVE" => held[t].of.confirmed
        BY DEF Turning, Standing, HeldConfirmed, Committed
    <2>8. Standing(t)'
        BY <1>1, <2>1, <2>2, <2>5, <2>6, <2>7, TicketStepsStand
    <2> QED BY <2>1, <2>8 DEF Turning, CasesConfirmed
<1>7. CASE Lookup(t) \/ CreateTicket(t) \/ NoTicket(t) \/ RecordTicket(t)
    <2>1. UNCHANGED <<case, held>>
        BY <1>7 DEF Lookup, CreateTicket, NoTicket, RecordTicket, stores
    <2>2. plan[t] # <<>> /\ plan[t][1] \in {"lookup", "create", "record"}
        BY <1>7, AtStepIs DEF Lookup, CreateTicket, NoTicket, RecordTicket, Turning
    <2>3. Standing(t)'
        BY <1>1, <2>1, <2>2, TicketStepsStand
    <2> QED BY <2>1, <2>3 DEF Turning, CasesConfirmed
<1>8. CASE Crash(t)
    BY <1>8, StoppedStands DEF Crash, stores, Turning, CasesConfirmed
<1> QED BY <1>2, <1>3, <1>4, <1>5, <1>6, <1>7, <1>8 DEF TurnStep

LEMMA StoppedOthers ==
    ASSUME NEW u, plan'[u] = plan[u], held'[u] = held[u], Standing(u)
    PROVE  Standing(u)'
BY DEF Standing, Confirmed, Tellable, Routable, HeldConfirmed, AtStep

\* No step of a turn changes what another holds.
LEMMA HeldOfOthers ==
    ASSUME CasesTyped, NEW t \in Turns, TurnStep(t) \/ Crash(t), NEW u \in Turns, u # t
    PROVE  held'[u] = held[u]
<1>1. \/ UNCHANGED held
      \/ \E h : held' = [held EXCEPT ![t] = h]
    <2>1. CASE (\E s \in Statuses : Move(t, s)) \/ Close(t)
               \/ \E s \in {"confirm", "supplement"} : Summarise(t, s)
        BY <2>1 DEF Move, Close, Summarise, Store, Forget
    <2>2. CASE CreateCase(t)
        BY <2>2 DEF CreateCase
    <2>3. CASE Start(t) \/ ReadIndex(t) \/ ReadCase(t) \/ Route(t) \/ Drop(t)
           \/ Evaluate(t) \/ Found(t) \/ Tell(t) \/ Lookup(t) \/ CreateTicket(t)
           \/ NoTicket(t) \/ RecordTicket(t) \/ Crash(t)
        BY <2>3 DEF Start, ReadIndex, ReadCase, Route, Drop, Evaluate, Found, Tell, Lookup,
                    CreateTicket, NoTicket, RecordTicket, Crash, stores, Forget
    <2> QED BY <2>1, <2>2, <2>3 DEF TurnStep
<1> QED BY <1>1 DEF CasesTyped

LEMMA TurningKept == ASSUME Turning, [Next]_vars PROVE Turning'
<1>1. Inv'
    BY NextKeeps DEF Turning
<1>2. ASSUME NEW t \in Turns, TurnStep(t) \/ Crash(t) PROVE Turning'
    <2>1. Turned(t)
        BY <1>2, EveryStepTurns DEF Turning, Standing, Inv
    <2>2. PlansFine' /\ \A u \in Turns : u # t => plan'[u] = plan[u]
        BY <2>1, TurnedKeeps DEF Turning
    <2>3. Standing(t)' /\ CasesConfirmed'
        BY <1>2, StepStands
    <2>4. ASSUME NEW u \in Turns, u # t PROVE Standing(u)'
        BY <1>2, <2>2, <2>4, HeldOfOthers, StoppedOthers DEF Turning, Inv
    <2> QED BY <1>1, <2>2, <2>3, <2>4 DEF Turning
<1>3. CASE UNCHANGED <<case, held, plan>>
    <2>1. PlansFine' /\ CasesConfirmed' /\ \A u \in Turns : Standing(u)'
        BY <1>3, StoppedOthers DEF Turning, PlansFine, CasesConfirmed
    <2> QED BY <1>1, <2>1 DEF Turning
<1> QED BY <1>2, <1>3 DEF Next, SessionEnds, vars, stores

LEMMA TurningStarts == Init => Turning
<1> SUFFICES ASSUME Init PROVE Turning
    OBVIOUS
<1>1. Inv
    BY InitFine
<1>2. PICK p : p = <<"start">>
    OBVIOUS
<1>3. p \in Seq(Steps) /\ Len(p) = 1 /\ p[1] = "start"
    BY <1>2, Words
<1>4. PlanFine(p)
    BY <1>3, Words DEF PlanFine, Grammar, Entries, Asking
<1>5. plan = [t \in Turns |-> p]
    BY <1>2 DEF Init
<1>6. PlansFine
    BY <1>3, <1>4, <1>5 DEF PlansFine
<1>7. PICK c \in Cases, s \in OpenStatus \cup {"absent"} :
         case = [k \in Cases |->
               IF k # c \/ s = "absent" THEN NoCase
               ELSE [Offer EXCEPT !.status = s, !.confirmed = (s = "DEMO_ACTIVE")]]
    BY DEF Init
<1>8. s # "ROUTED_TO_TICKET" /\ NoCase.status \notin Committed
    BY StatusKinds, Constants DEF OpenStatus, Live, Review, Committed
<1>9. [Offer EXCEPT !.status = s, !.confirmed = (s = "DEMO_ACTIVE")].status = s
    BY DEF Offer
<1>10. s = "DEMO_ACTIVE" =>
         [Offer EXCEPT !.status = s, !.confirmed = (s = "DEMO_ACTIVE")].confirmed
    BY DEF Offer
<1>11. CasesConfirmed
    BY <1>7, <1>8, <1>9, <1>10 DEF CasesConfirmed, Committed
<1>12. \A t \in Turns : held[t].of = NoCase
    BY Constants DEF Init
<1>13. ASSUME NEW t \in Turns, NEW x, AtStep(t, x) PROVE x = "start"
    BY <1>3, <1>5, <1>6, <1>13, AtStepIs
<1>14. \A t \in Turns : Standing(t)
    BY <1>8, <1>12, <1>13 DEF Standing, Confirmed, Tellable, Routable, HeldConfirmed
<1> QED BY <1>1, <1>6, <1>11, <1>14 DEF Turning

LEMMA AlwaysTurning == Spec => []Turning
BY TurningStarts, TurningKept, PTL DEF Spec

\* A human session, and a ticket a case was routed to, stand on a summary that
\* the requester confirmed: nothing of what other turns do comes between the
\* confirmation and the step that relies on it.
THEOREM OnlyConfirmedGoOn == Spec => []CasesConfirmed
<1>1. Turning => CasesConfirmed
    BY DEF Turning
<1> QED BY <1>1, AlwaysTurning, PTL

-----------------------------------------------------------------------------
(* What a step does to the cases, and the events *)

\* The turn wrote the case to a status and tells it next; or it wrote the summary,
\* and was not about to tell.
MovesCase(t, c) == held'[t].id = c /\ held'[t].of.status = case'[c].status /\ AtStep(t, "tell")'
KeepsStatus(t, c) == case'[c].status = case[c].status /\ case[c] # NoCase

LEMMA OneStep ==
    ASSUME PlansFine, NEW t \in Turns, NEW x, NEW y, AtStep(t, x), AtStep(t, y)
    PROVE  x = y
BY AtStepIs

LEMMA StoreMoves ==
    ASSUME Turning, NEW t \in Turns, NEW s \in Statuses, AtStep(t, s), Continue(t),
           NEW new \in Case, Store(t, new), new.status = s, held[t].id # None,
           s \in Committed => new.confirmed
    PROVE  \A c \in Cases : case'[c] = case[c] \/ MovesCase(t, c)
<1>1. held[t].id \in Cases
    BY DEF Turning, Inv, CasesTyped
<1>2. held'[t].id = held[t].id /\ held'[t].of.status = s /\ HeldConfirmed(t)'
    BY StoreHolds
<1>3. AtStep(t, "tell")'
    BY <1>2, MovedStands
<1>4. case'[held[t].id].status = s /\ \A c \in Cases : c # held[t].id => case'[c] = case[c]
    BY <1>1 DEF Store, Turning, Inv, CasesTyped, Case
<1> QED BY <1>2, <1>3, <1>4 DEF MovesCase

LEMMA SummariseMoves ==
    ASSUME Turning, NEW t \in Turns, NEW s \in {"confirm", "supplement"}, Summarise(t, s),
           NEW c \in Cases
    PROVE  case'[c] = case[c] \/ (KeepsStatus(t, c) /\ ~AtStep(t, "tell"))
<1>1. ~AtStep(t, "tell")
    BY OneStep DEF Summarise, Turning
<1>2. CASE ~(Current(t) /\ TheCase(t).status \in Review \cup {"OFFERED"})
    BY <1>2 DEF Summarise
<1>3. CASE Current(t) /\ TheCase(t).status \in Review \cup {"OFFERED"}
    <2>1. PICK n, b : Store(t, [TheCase(t) EXCEPT !.notes = n, !.confirmed = b])
        BY <1>3 DEF Summarise
    <2>2. held[t].id \in Cases /\ TheCase(t) = case[held[t].id]
        BY <1>3, StatusKinds, TheCaseTyped DEF Turning, Inv
    <2>3. case[held[t].id] # NoCase
        BY <1>3, <2>2, Constants DEF Review
    <2>4. \A d \in Cases : d # held[t].id => case'[d] = case[d]
        BY <2>1 DEF Store, Turning, Inv, CasesTyped
    <2>5. case'[held[t].id].status = case[held[t].id].status
        BY <2>1, <2>2 DEF Store, Turning, Inv, CasesTyped, Case
    <2> QED BY <1>1, <2>3, <2>4, <2>5 DEF KeepsStatus
<1> QED BY <1>2, <1>3

LEMMA CasesMoved ==
    ASSUME Turning, NEW t \in Turns, TurnStep(t) \/ Crash(t), NEW c \in Cases
    PROVE  \/ case'[c] = case[c]
           \/ MovesCase(t, c)
           \/ KeepsStatus(t, c) /\ ~AtStep(t, "tell")
<1>1. ASSUME NEW s \in Statuses, Move(t, s) PROVE case'[c] = case[c] \/ MovesCase(t, c)
    <2>1. CASE UNCHANGED case
        BY <2>1
    <2>2. CASE ~UNCHANGED case
        <3>1. /\ Current(t) /\ TheCase(t).status = held[t].of.status
              /\ MayBecome(TheCase(t).status, s)
              /\ Store(t, [TheCase(t) EXCEPT !.status = s]) /\ Continue(t) /\ AtStep(t, s)
            BY <1>1, <2>2 DEF Move
        <3>2. PICK new : new = [TheCase(t) EXCEPT !.status = s]
            OBVIOUS
        <3>3. new \in Case /\ new.status = s /\ new.confirmed = TheCase(t).confirmed
            BY <3>2, TheCaseTyped DEF Case, Turning, Inv
        <3>4. held[t].id # None
            BY <3>1, OnlyOpenMoves, StatusKinds, TheCaseTyped DEF Turning, Inv
        <3>5. held[t].of = TheCase(t)
            BY <3>1, <3>4 DEF Turning, Inv, UpToDate, Current
        <3>6. s \in Committed => new.confirmed
            <4>1. ASSUME s = "ROUTED_TO_TICKET" PROVE Routes(plan[t])
                <5>1. plan[t][1] = s /\ 1 \in 1 .. Len(plan[t])
                    BY <3>1, AtStepIs DEF Turning, PlanFine
                <5> QED BY <4>1, <5>1 DEF Routes
            <4>2. s \in Committed => Confirmed(t) /\ held[t].of.confirmed
                BY <3>1, <4>1 DEF Committed, Turning, Standing, Confirmed
            <4> QED BY <3>3, <3>5, <4>2
        <3> QED BY <3>1, <3>2, <3>3, <3>4, <3>6, StoreMoves
    <2> QED BY <2>1, <2>2
<1>2. ASSUME Close(t) PROVE case'[c] = case[c] \/ MovesCase(t, c)
    <2>1. CASE UNCHANGED case
        BY <2>1
    <2>2. CASE ~UNCHANGED case
        <3>1. /\ TheCase(t).status = "DEMO_ACTIVE" /\ AtStep(t, "CLOSED")
              /\ Store(t, [TheCase(t) EXCEPT !.status = "CLOSED"]) /\ Continue(t)
            BY <1>2, <2>2 DEF Close
        <3>2. PICK new : new = [TheCase(t) EXCEPT !.status = "CLOSED"]
            OBVIOUS
        <3>3. new \in Case /\ new.status = "CLOSED" /\ "CLOSED" \in Statuses
            BY <3>2, TheCaseTyped, Words DEF Case, Turning, Inv
        <3>4. held[t].id # None /\ "CLOSED" \notin Committed
            BY <3>1, TheCaseTyped DEF Turning, Inv, Committed
        <3> QED BY <3>1, <3>2, <3>3, <3>4, StoreMoves
    <2> QED BY <2>1, <2>2
<1>3. ASSUME NEW s \in {"confirm", "supplement"}, Summarise(t, s)
      PROVE  case'[c] = case[c] \/ (KeepsStatus(t, c) /\ ~AtStep(t, "tell"))
    BY <1>3, SummariseMoves
<1>4. ASSUME CreateCase(t) PROVE case'[c] = case[c] \/ MovesCase(t, c)
    <2>1. CASE active # None
        BY <1>4, <2>1 DEF CreateCase
    <2>2. CASE active = None
        <3>1. PICK d \in Cases :
                 /\ case' = [case EXCEPT ![d] = Offer]
                 /\ held' = [held EXCEPT ![t] = [id |-> d, of |-> Offer]]
                 /\ Continue(t) /\ AtStep(t, "offer")
            BY <1>4, <2>2 DEF CreateCase
        <3>2. held'[t].id = d /\ held'[t].of = Offer /\ case'[d] = Offer
              /\ (c # d => case'[c] = case[c])
            BY <3>1 DEF Turning, Inv, CasesTyped
        <3>3. plan[t] # <<>> /\ plan[t][1] = "offer" /\ PlanFine(plan[t])
            BY <3>1, AtStepIs DEF Turning
        <3>4. plan[t][2] = "tell" /\ 1 < Len(plan[t])
            <4>1. 1 \in 1 .. Len(plan[t])
                BY <3>3 DEF PlanFine
            <4> QED BY <3>3, <4>1 DEF PlanFine, Grammar
        <3>5. plan'[t] = Tail(plan[t]) /\ Tail(plan[t]) # <<>> /\ Tail(plan[t])[1] = "tell"
            <4>1. Tail(plan[t]) # <<>>
                BY <3>3, <3>4, LongTail DEF PlanFine
            <4>2. plan'[t] = Tail(plan[t])
                BY <3>1 DEF Continue, Turning, PlansFine
            <4> QED BY <3>3, <3>4, <4>1, <4>2, TailFine
        <3>6. AtStep(t, "tell")'
            <4>1. PlansFine'
                BY <3>1, <3>3, ContinueTurns, TurnedKeeps DEF Turning
            <4> QED BY <3>5, <4>1, NextAt
        <3> QED BY <3>2, <3>6 DEF MovesCase
    <2> QED BY <2>1, <2>2
<1>5. CASE Start(t) \/ ReadIndex(t) \/ ReadCase(t) \/ Route(t) \/ Drop(t)
           \/ Evaluate(t) \/ Found(t) \/ Tell(t) \/ Lookup(t) \/ CreateTicket(t)
           \/ NoTicket(t) \/ RecordTicket(t) \/ Crash(t)
    BY <1>5, OthersLook DEF Looks, Turning
<1> QED BY <1>1, <1>2, <1>3, <1>4, <1>5 DEF TurnStep

\* Nothing but the event itself makes a status told, and nothing but it or a crash
\* takes a turn from an event that is due.
LEMMA TellingIs ==
    ASSUME Turning, NEW t \in Turns, TurnStep(t)
    PROVE  (AtStep(t, "tell") <=> Tell(t)) /\ (Tell(t) \/ UNCHANGED told)
<1>1. Tell(t) => AtStep(t, "tell")
    BY DEF Tell
<1>2. ASSUME ~Tell(t)
      PROVE  (\E x \in Steps \ {"tell"} : AtStep(t, x)) /\ UNCHANGED told
    <2>1. CASE \E s \in Statuses : Move(t, s)
        BY <2>1, Words DEF Move
    <2>2. CASE (\E s \in {"confirm", "supplement"} : Summarise(t, s)) \/ Close(t) \/ CreateCase(t)
        BY <2>2, Words DEF Summarise, Close, CreateCase
    <2>3. CASE Start(t) \/ ReadIndex(t) \/ ReadCase(t) \/ Route(t) \/ Drop(t)
               \/ Evaluate(t) \/ Found(t) \/ Lookup(t) \/ CreateTicket(t)
               \/ NoTicket(t) \/ RecordTicket(t)
        BY <2>3, Words DEF Start, ReadIndex, ReadCase, Route, Drop, Evaluate, Found, Lookup,
                    CreateTicket, NoTicket, RecordTicket, stores
    <2> QED BY <1>2, <2>1, <2>2, <2>3 DEF TurnStep
<1> QED BY <1>1, <1>2, OneStep DEF Turning

\* The types of what the cases do not depend on.
RestTyped ==
    /\ told \in [Cases -> SUBSET Statuses]
    /\ overdue \subseteq Cases
    /\ ledger \subseteq Requests
    /\ ticket \in [Requests -> [id : Cases \cup {None}, of : Case]]
    /\ intent \in [Turns -> {"create", "query", "other"}]
    /\ faults \in 0 .. MaxFaults

\* While no turn was cut off, the status of a case has its event or a turn is about
\* to record it.
ToldOrDue ==
    faults = 0 =>
        \A c \in Cases : case[c] # NoCase =>
            \/ case[c].status \in told[c]
            \/ \E t \in Turns : AtStep(t, "tell") /\ held[t].id = c
                               /\ held[t].of.status = case[c].status

Accounted == Turning /\ RestTyped /\ ToldOrDue

\* What a step of a turn does beside the cases: the tickets, the ledger, the faults.
LEMMA Beside ==
    ASSUME NEW t \in Turns, TurnStep(t)
    PROVE  /\ UNCHANGED <<overdue, intent>>
           /\ UNCHANGED ticket \/ (TicketMade(t) /\ AtStep(t, "create"))
           /\ UNCHANGED ledger \/ (ledger' = ledger \cup {RequestOf[t]} /\ AtStep(t, "record"))
           /\ UNCHANGED faults \/ (faults < MaxFaults /\ faults' = faults + 1)
<1>1. CASE (\E s \in Statuses : Move(t, s)) \/ Close(t) \/ CreateCase(t)
           \/ \E s \in {"confirm", "supplement"} : Summarise(t, s)
    BY <1>1 DEF Move, Close, CreateCase, Summarise
<1>2. CASE Start(t) \/ ReadIndex(t) \/ ReadCase(t) \/ Route(t) \/ Drop(t)
           \/ Evaluate(t) \/ Found(t) \/ Lookup(t) \/ Tell(t)
    BY <1>2 DEF Start, ReadIndex, ReadCase, Route, Drop, Evaluate, Found, Lookup, Tell, stores
<1>3. CASE CreateTicket(t) \/ NoTicket(t) \/ RecordTicket(t)
    BY <1>3 DEF CreateTicket, NoTicket, RecordTicket
<1> QED BY <1>1, <1>2, <1>3 DEF TurnStep

LEMMA RestTypedKept == ASSUME Turning, RestTyped, [Next]_vars PROVE RestTyped'
<1>1. ASSUME NEW t \in Turns, TurnStep(t) PROVE RestTyped'
    <2>1. told' \in [Cases -> SUBSET Statuses]
        <3>1. CASE UNCHANGED told
            BY <3>1 DEF RestTyped
        <3>2. CASE Tell(t)
            <4>1. held[t].of.status \in Statuses
                BY <3>2 DEF Tell, Turning, Standing, Tellable
            <4> QED BY <3>2, <4>1 DEF Tell, RestTyped
        <3> QED BY <1>1, <3>1, <3>2, TellingIs
    <2>2. ticket' \in [Requests -> [id : Cases \cup {None}, of : Case]]
        <3>1. held[t] \in [id : Cases \cup {None}, of : Case]
            BY DEF Turning, Inv, CasesTyped
        <3> QED BY <1>1, <3>1, Beside DEF TicketMade, RestTyped
    <2>3. ledger' \subseteq Requests
        <3>1. RequestOf[t] \in Requests /\ ledger \subseteq Requests
            BY Assumptions DEF RestTyped
        <3>2. ledger' = ledger \/ ledger' = ledger \cup {RequestOf[t]}
            BY <1>1, Beside
        <3> QED BY <3>1, <3>2
    <2>4. UNCHANGED <<overdue, intent>> /\ faults' \in 0 .. MaxFaults
        <3>1. faults \in 0 .. MaxFaults /\ MaxFaults \in Nat
            BY Assumptions DEF RestTyped
        <3>2. /\ UNCHANGED <<overdue, intent>>
              /\ faults' = faults \/ (faults < MaxFaults /\ faults' = faults + 1)
            BY <1>1, Beside
        <3> QED BY <3>1, <3>2
    <2> QED BY <2>1, <2>2, <2>3, <2>4 DEF RestTyped
<1>2. ASSUME NEW t \in Turns, Crash(t) PROVE RestTyped'
    <2>1. /\ UNCHANGED <<told, overdue, ledger, ticket, intent>>
          /\ faults < MaxFaults /\ faults' = faults + 1
        BY <1>2 DEF Crash, stores
    <2>2. faults \in 0 .. MaxFaults /\ MaxFaults \in Nat
        BY Assumptions DEF RestTyped
    <2>3. faults' \in 0 .. MaxFaults
        BY <2>1, <2>2
    <2> QED BY <2>1, <2>3 DEF RestTyped
<1>3. ASSUME NEW c \in Cases, SessionEnds(c) PROVE RestTyped'
    BY <1>3 DEF SessionEnds, stores, RestTyped
<1>4. CASE UNCHANGED vars
    BY <1>4 DEF vars, stores, RestTyped
<1> QED BY <1>1, <1>2, <1>3, <1>4 DEF Next

LEMMA ToldKept == ASSUME Accounted, Turning', [Next]_vars PROVE ToldOrDue'
<1> SUFFICES ASSUME faults' = 0, NEW c \in Cases, case'[c] # NoCase
             PROVE  \/ case'[c].status \in told'[c]
                    \/ \E t \in Turns : AtStep(t, "tell")' /\ held'[t].id = c
                                       /\ held'[t].of.status = case'[c].status
    BY DEF ToldOrDue
<1> DEFINE Due(u) == /\ AtStep(u, "tell") /\ held[u].id = c
                     /\ held[u].of.status = case[c].status
<1>1. ASSUME NEW t \in Turns, TurnStep(t)
      PROVE  \/ case'[c].status \in told'[c]
             \/ \E u \in Turns : AtStep(u, "tell")' /\ held'[u].id = c
                                /\ held'[u].of.status = case'[c].status
    <2>1. faults = 0
        <3>1. UNCHANGED faults \/ faults' = faults + 1
            BY <1>1, Beside
        <3> QED BY <3>1 DEF Accounted, RestTyped
    <2>2. \A u \in Turns : u # t => plan'[u] = plan[u] /\ held'[u] = held[u]
        BY <1>1, HeldOfOthers, EveryStepTurns, TurnedKeeps
           DEF Accounted, Turning, Standing, Inv
    <2>3. ASSUME NEW u \in Turns, u # t, Due(u), case'[c].status = case[c].status
          PROVE  AtStep(u, "tell")' /\ held'[u].id = c /\ held'[u].of.status = case'[c].status
        BY <2>2, <2>3 DEF AtStep
    <2>4. told[c] \subseteq told'[c]
        <3>1. CASE UNCHANGED told
            BY <3>1
        <3>2. CASE Tell(t)
            BY <3>2 DEF Tell, Accounted, RestTyped
        <3> QED BY <1>1, <3>1, <3>2, TellingIs DEF Accounted
    <2>5. CASE MovesCase(t, c)
        BY <2>5 DEF MovesCase
    <2>6. CASE case'[c].status = case[c].status /\ case[c] # NoCase
        <3>1. case[c].status \in told[c] \/ \E u \in Turns : Due(u)
            BY <2>1, <2>6 DEF Accounted, ToldOrDue
        <3>2. CASE case[c].status \in told[c]
            BY <2>4, <2>6, <3>2
        <3>3. ASSUME NEW u \in Turns, u # t, Due(u)
              PROVE  \E v \in Turns : AtStep(v, "tell")' /\ held'[v].id = c
                                     /\ held'[v].of.status = case'[c].status
            BY <2>3, <2>6, <3>3
        <3>4. CASE Due(t)
            <4>1. Tell(t)
                BY <1>1, <3>4, TellingIs DEF Accounted
            <4>2. held[t].of.status \in told'[c]
                BY <3>4, <4>1 DEF Tell, Accounted, RestTyped
            <4> QED BY <2>6, <3>4, <4>2
        <3> QED BY <3>1, <3>2, <3>3, <3>4
    <2>7. CASE case'[c] = case[c]
        BY <2>6, <2>7
    <2> QED BY <1>1, <2>5, <2>6, <2>7, CasesMoved DEF Accounted, KeepsStatus
<1>2. ASSUME NEW t \in Turns, Crash(t) PROVE FALSE
    BY <1>2 DEF Crash, Accounted, RestTyped
<1>3. CASE UNCHANGED <<case, told, plan, held, faults>>
    BY <1>3 DEF Accounted, ToldOrDue, AtStep
<1> QED BY <1>1, <1>2, <1>3 DEF Next, SessionEnds, vars, stores

LEMMA AccountedStarts == Init => Accounted
<1> SUFFICES ASSUME Init PROVE Accounted
    OBVIOUS
<1>1. Turning
    BY TurningStarts
<1>2. PICK c \in Cases, s \in OpenStatus \cup {"absent"} :
         /\ case = [k \in Cases |->
               IF k # c \/ s = "absent" THEN NoCase
               ELSE [Offer EXCEPT !.status = s, !.confirmed = (s = "DEMO_ACTIVE")]]
         /\ told = [k \in Cases |-> IF k = c /\ s # "absent" THEN {s} ELSE {}]
    BY DEF Init
<1>3. [Offer EXCEPT !.status = s, !.confirmed = (s = "DEMO_ACTIVE")].status = s
    BY DEF Offer
<1>4. \A k \in Cases : case[k] # NoCase => case[k].status \in told[k]
    <2> SUFFICES ASSUME NEW k \in Cases, case[k] # NoCase
                 PROVE  case[k].status \in told[k]
        OBVIOUS
    <2>1. k = c /\ s # "absent"
        BY <1>2
    <2>2. case[k].status = s /\ told[k] = {s}
        BY <1>2, <1>3, <2>1
    <2> QED BY <2>2
<1>5. told \in [Cases -> SUBSET Statuses]
    <2>1. OpenStatus \subseteq Statuses
        BY StatusKinds
    <2> QED BY <1>2, <2>1
<1>6. RestTyped
    BY <1>5, Constants, Assumptions DEF Init, RestTyped
<1> QED BY <1>1, <1>4, <1>6 DEF Accounted, ToldOrDue

LEMMA AlwaysAccounted == Spec => []Accounted
<1>1. Accounted /\ Turning' /\ [Next]_vars => Accounted'
    <2>1. Accounted /\ [Next]_vars => RestTyped'
        BY RestTypedKept DEF Accounted
    <2>2. Accounted /\ Turning' /\ [Next]_vars => ToldOrDue'
        BY ToldKept
    <2> QED BY <2>1, <2>2 DEF Accounted
<1> QED BY <1>1, AlwaysTurning, AccountedStarts, PTL DEF Spec

\* Once all turns are through, and none was cut off, the last status of every case
\* has its event: whatever the turns race, a turn that moves a case goes on to
\* tell what it made of it.
THEOREM EveryStatusTold == Spec => []StatusIsTold
<1>1. Accounted => StatusIsTold
    BY DEF Accounted, ToldOrDue, StatusIsTold, AtStep
<1> QED BY <1>1, AlwaysAccounted, PTL

\* Every variable keeps its type.
THEOREM TypeCorrect == Spec => []TypeOK
<1>1. Accounted => TypeOK
    <2> SUFFICES ASSUME Accounted PROVE TypeOK
        OBVIOUS
    <2>1. CasesTyped /\ RestTyped /\ PlansFine
        BY DEF Accounted, Turning, Inv
    <2>2. \A c \in Cases :
              /\ case[c].status \in Statuses \cup {"absent"}
              /\ case[c].version \in Nat
              /\ case[c].notes \subseteq Turns
              /\ case[c].confirmed \in BOOLEAN
        BY <2>1 DEF CasesTyped, Case
    <2>3. \A t \in Turns : plan[t] \in Seq(Steps) /\ held[t].id \in Cases \cup {None}
        BY <2>1 DEF CasesTyped, PlansFine
    <2>4. active \in Cases \cup {None}
        BY <2>1 DEF CasesTyped
    <2>5. \A r \in Requests : ticket[r].id \in Cases \cup {None}
        BY <2>1 DEF RestTyped
    <2> QED BY <2>1, <2>2, <2>3, <2>4, <2>5 DEF RestTyped, TypeOK
<1> QED BY <1>1, AlwaysAccounted, PTL

-----------------------------------------------------------------------------
(* The ticket a case was routed to *)

\* The adapter mints a request id per message: no two messages share one.
OwnRequests == \A t, u \in Turns : RequestOf[t] = RequestOf[u] => t = u

\* A turn that may still make a ticket finds nothing under its key.
Fresh(t) == Asks(plan[t]) => ticket[RequestOf[t]] = Unseen /\ RequestOf[t] \notin ledger

\* A turn that is past its ticket, and routes its case there, finds in it the case
\* as it has it in its hands.
Written(t) ==
    Routes(plan[t]) /\ (AtStep(t, "record") \/ AtStep(t, "ROUTED_TO_TICKET"))
        => ticket[RequestOf[t]] = held[t]

\* Some ticket was made of the case, with the summary that it has.
HasTicket(c) == \E r \in Requests : ticket[r].id = c /\ ticket[r].of.notes = case[c].notes

Backed ==
    /\ Accounted
    /\ \A t \in Turns : Fresh(t) /\ Written(t)
    /\ \A c \in Cases : case[c].status = "ROUTED_TO_TICKET" => HasTicket(c)

\* The steps around a ticket, by the word that a plan has for them.
LEMMA TicketSteps ==
    ASSUME Turning, NEW t \in Turns, TurnStep(t)
    PROVE  /\ AtStep(t, "lookup") => Lookup(t)
           /\ AtStep(t, "create") => CreateTicket(t) \/ NoTicket(t)
           /\ AtStep(t, "record") => RecordTicket(t)
<1>1. ASSUME ~(Lookup(t) \/ CreateTicket(t) \/ NoTicket(t) \/ RecordTicket(t))
      PROVE  \E x \in Steps \ {"lookup", "create", "record"} : AtStep(t, x)
    <2>1. CASE \E s \in Statuses : Move(t, s)
        BY <2>1, Words DEF Move
    <2>2. CASE (\E s \in {"confirm", "supplement"} : Summarise(t, s)) \/ Close(t) \/ CreateCase(t)
        BY <2>2, Words DEF Summarise, Close, CreateCase
    <2>3. CASE Start(t) \/ ReadIndex(t) \/ ReadCase(t) \/ Route(t) \/ Drop(t)
               \/ Evaluate(t) \/ Found(t) \/ Tell(t)
        BY <2>3, Words DEF Start, ReadIndex, ReadCase, Route, Drop, Evaluate, Found, Tell
    <2> QED BY <1>1, <2>1, <2>2, <2>3 DEF TurnStep
<1>2. /\ Lookup(t) => AtStep(t, "lookup")
      /\ CreateTicket(t) \/ NoTicket(t) => AtStep(t, "create")
      /\ RecordTicket(t) => AtStep(t, "record")
    BY DEF Lookup, CreateTicket, NoTicket, RecordTicket
<1> QED BY <1>1, <1>2, OneStep DEF Turning

\* A case is routed by the step of that name, in the state the turn has of it.
LEMMA RoutedBy ==
    ASSUME Turning, NEW t \in Turns, TurnStep(t) \/ Crash(t), NEW c \in Cases,
           case'[c].status = "ROUTED_TO_TICKET", case[c].status # "ROUTED_TO_TICKET"
    PROVE  /\ AtStep(t, "ROUTED_TO_TICKET") /\ held[t].id = c
           /\ held[t].of.notes = case'[c].notes
<1>1. ASSUME NEW s \in Statuses, Move(t, s)
      PROVE  /\ AtStep(t, "ROUTED_TO_TICKET") /\ held[t].id = c
             /\ held[t].of.notes = case'[c].notes
    <2>1. /\ Current(t) /\ TheCase(t).status = held[t].of.status
          /\ MayBecome(TheCase(t).status, s)
          /\ Store(t, [TheCase(t) EXCEPT !.status = s]) /\ AtStep(t, s)
        BY <1>1 DEF Move
    <2>2. PICK stored : stored = [[TheCase(t) EXCEPT !.status = s] EXCEPT !.version = @ + 1]
        OBVIOUS
    <2>3. stored.status = s /\ stored.notes = TheCase(t).notes
        BY <2>2, TheCaseTyped DEF Case, Turning, Inv
    <2>4. held[t].id \in Cases /\ held[t].id # None
        BY <2>1, OnlyOpenMoves, StatusKinds, TheCaseTyped DEF Turning, Inv
    <2>5. held[t].of = TheCase(t)
        BY <2>1, <2>4 DEF Turning, Inv, UpToDate, Current
    <2>6. case' = [case EXCEPT ![held[t].id] = stored]
        BY <2>1, <2>2 DEF Store
    <2>7. held[t].id = c /\ case'[c] = stored
        BY <2>4, <2>6 DEF Turning, Inv, CasesTyped
    <2> QED BY <2>1, <2>3, <2>5, <2>7
<1>2. ASSUME Close(t) PROVE FALSE
    <2>1. Store(t, [TheCase(t) EXCEPT !.status = "CLOSED"])
        BY <1>2 DEF Close
    <2>2. PICK stored : stored = [[TheCase(t) EXCEPT !.status = "CLOSED"] EXCEPT !.version = @ + 1]
        OBVIOUS
    <2>3. stored.status = "CLOSED"
        BY <2>2, TheCaseTyped DEF Case, Turning, Inv
    <2>4. case' = [case EXCEPT ![held[t].id] = stored]
        BY <2>1, <2>2 DEF Store
    <2> QED BY <2>3, <2>4 DEF Turning, Inv, CasesTyped
<1>3. ASSUME CreateCase(t) PROVE FALSE
    BY <1>3, Constants DEF CreateCase, Turning, Inv, CasesTyped
<1>4. ASSUME NEW s \in {"confirm", "supplement"}, Summarise(t, s) PROVE FALSE
    BY <1>4, SummariseMoves DEF KeepsStatus
<1>5. CASE Start(t) \/ ReadIndex(t) \/ ReadCase(t) \/ Route(t) \/ Drop(t)
           \/ Evaluate(t) \/ Found(t) \/ Tell(t) \/ Lookup(t) \/ CreateTicket(t)
           \/ NoTicket(t) \/ RecordTicket(t) \/ Crash(t)
    BY <1>5, OthersLook DEF Looks, Turning
<1> QED BY <1>1, <1>2, <1>3, <1>4, <1>5 DEF TurnStep

LEMMA FreshKept ==
    ASSUME Backed, NEW t \in Turns, TurnStep(t) PROVE Fresh(t)'
<1>1. TurnsTo(plan[t], plan'[t])
    BY EveryStepTurns, TurnedKeeps DEF Backed, Accounted, Turning, Standing, Inv
<1>2. plan[t][1] \notin {"create", "record"} => UNCHANGED <<ticket, ledger>>
    BY Beside, AtStepIs DEF Backed, Accounted, Turning
<1> QED BY <1>1, <1>2 DEF TurnsTo, Fresh, Backed

LEMMA WrittenKept ==
    ASSUME Backed, NEW t \in Turns, TurnStep(t) PROVE Written(t)'
<1>1. PlansFine' /\ TurnsTo(plan[t], plan'[t])
    BY EveryStepTurns, TurnedKeeps DEF Backed, Accounted, Turning, Standing, Inv
<1>2. plan[t] # <<>> /\ plan[t] \in Seq(Steps) => 1 \in 1 .. Len(plan[t])
    OBVIOUS
<1>3. SUFFICES ASSUME NEW s \in {"record", "ROUTED_TO_TICKET"}, AtStep(t, s)', Routes(plan'[t])
               PROVE  ticket'[RequestOf[t]] = held'[t]
    BY DEF Written
<1>4. plan'[t] # <<>> /\ plan'[t][1] = s /\ Enters(plan[t], plan'[t])
    BY <1>1, <1>3, NextAt DEF TurnsTo
<1>5. \E x \in Steps : AtStep(t, x)
    <2>1. plan[t] # <<>>
        BY DEF TurnStep, Start, ReadIndex, ReadCase, Route, Drop, Evaluate, CreateCase, Found,
               Move, Summarise, Close, Tell, Lookup, CreateTicket, NoTicket, RecordTicket, AtStep
    <2>2. plan[t] \in Seq(Steps) /\ Head(plan[t]) \in Steps
        BY <2>1 DEF Backed, Accounted, Turning, PlansFine
    <2> QED BY <2>1, <2>2 DEF AtStep
<1>6. PICK x \in Steps : AtStep(t, x) /\ plan[t][1] = x /\ PlanFine(plan[t]) /\ plan[t] # <<>>
    BY <1>5, AtStepIs DEF Backed, Accounted, Turning
<1>7. CASE s = "record"
    <2>1. x = "create"
        BY <1>4, <1>6, <1>7 DEF Enters
    <2>2. CreateTicket(t)
        <3>1. CASE NoTicket(t)
            <4>1. plan'[t] = <<>> \/ plan'[t] = <<"evaluate">>
                BY <3>1 DEF NoTicket, Stop, Backed, Accounted, Turning, PlansFine
            <4> QED BY <1>4, <1>7, <4>1
        <3> QED BY <1>6, <2>1, <3>1, TicketSteps DEF Backed, Accounted
    <2>3. Asks(plan[t])
        BY <1>2, <1>6, <2>1 DEF PlanFine, Asks, Asking
    <2>4. ticket[RequestOf[t]] = Unseen /\ RequestOf[t] \in Requests
        BY <2>3, Assumptions DEF Backed, Fresh
    <2> QED BY <2>2, <2>4 DEF CreateTicket, TicketMade, Backed, Accounted, RestTyped
<1>8. CASE s = "ROUTED_TO_TICKET"
    <2>1. x \in {"record", "lookup"}
        BY <1>4, <1>6, <1>8 DEF Enters
    <2>2. CASE x = "record"
        <3>1. RecordTicket(t)
            BY <1>6, <2>2, TicketSteps DEF Backed, Accounted
        <3>2. Routes(plan[t])
            BY <1>1, <1>3, <1>6, <2>2 DEF TurnsTo
        <3>3. ticket[RequestOf[t]] = held[t]
            BY <1>6, <2>2, <3>2 DEF Backed, Written
        <3> QED BY <3>1, <3>3 DEF RecordTicket
    <2>3. CASE x = "lookup"
        <3>1. Lookup(t)
            BY <1>6, <2>3, TicketSteps DEF Backed, Accounted
        <3>2. Asks(plan[t])
            BY <1>2, <1>6, <2>3 DEF PlanFine, Asks, Asking
        <3>3. plan'[t] = Tail(plan[t])
            BY <3>1, <3>2 DEF Lookup, Continue, Backed, Fresh, Accounted, Turning, PlansFine
        <3>4. plan[t][2] = "create"
            BY <1>2, <1>6, <2>3 DEF PlanFine, Grammar
        <3> QED BY <1>4, <1>6, <1>8, <3>3, <3>4, TailFine
    <2> QED BY <2>1, <2>2, <2>3
<1> QED BY <1>7, <1>8

\* A ticket is written once: what was found under a key stays.
LEMMA TicketsStay ==
    ASSUME Backed, NEW t \in Turns, TurnStep(t), NEW r \in Requests, ticket[r].id # None
    PROVE  ticket'[r] = ticket[r]
<1>1. ticket[r] # Unseen
    BY Constants
<1> QED BY <1>1, Beside DEF TicketMade, Backed, Accounted, RestTyped

\* The tickets and the ledger keep what other messages have there.
LEMMA OtherKeys ==
    ASSUME Backed, NEW t \in Turns, TurnStep(t), NEW r \in Requests, r # RequestOf[t]
    PROVE  ticket'[r] = ticket[r] /\ (r \in ledger' <=> r \in ledger)
BY Beside DEF TicketMade, Backed, Accounted, RestTyped

LEMMA BackedKept ==
    ASSUME OwnRequests, Backed, Accounted', [Next]_vars PROVE Backed'
<1>1. ASSUME NEW t \in Turns, TurnStep(t) PROVE Backed'
    <2>1. Fresh(t)' /\ Written(t)'
        BY <1>1, FreshKept, WrittenKept
    <2>2. ASSUME NEW u \in Turns, u # t PROVE Fresh(u)' /\ Written(u)'
        <3>1. plan'[u] = plan[u] /\ held'[u] = held[u]
            BY <1>1, <2>2, HeldOfOthers, EveryStepTurns, TurnedKeeps
               DEF Backed, Accounted, Turning, Standing, Inv
        <3>2. RequestOf[u] \in Requests /\ RequestOf[u] # RequestOf[t]
            BY <2>2, Assumptions DEF OwnRequests
        <3>3. /\ ticket'[RequestOf[u]] = ticket[RequestOf[u]]
              /\ RequestOf[u] \in ledger' <=> RequestOf[u] \in ledger
            BY <1>1, <3>2, OtherKeys
        <3>4. Fresh(u) /\ Written(u)
            BY DEF Backed
        <3> QED BY <3>1, <3>3, <3>4 DEF Fresh, Written, AtStep
    <2>3. ASSUME NEW c \in Cases, case'[c].status = "ROUTED_TO_TICKET" PROVE HasTicket(c)'
        <3>1. CASE case[c].status = "ROUTED_TO_TICKET"
            <4>1. PICK r \in Requests : ticket[r].id = c /\ ticket[r].of.notes = case[c].notes
                BY <3>1 DEF Backed, HasTicket
            <4>2. case'[c] = case[c]
                BY <3>1, NextKeeps DEF Backed, Accounted, Turning, Kept, Ended, Terminal
            <4>3. ticket'[r] = ticket[r]
                BY <1>1, <4>1, TicketsStay, Assumptions
            <4> QED BY <4>1, <4>2, <4>3 DEF HasTicket
        <3>2. CASE case[c].status # "ROUTED_TO_TICKET"
            <4>1. /\ AtStep(t, "ROUTED_TO_TICKET") /\ held[t].id = c
                  /\ held[t].of.notes = case'[c].notes
                BY <1>1, <2>3, <3>2, RoutedBy DEF Backed, Accounted
            <4>2. plan[t] # <<>> /\ plan[t][1] = "ROUTED_TO_TICKET" /\ PlanFine(plan[t])
                BY <4>1, AtStepIs DEF Backed, Accounted, Turning
            <4>3. 1 \in 1 .. Len(plan[t])
                BY <4>2 DEF PlanFine
            <4>4. Routes(plan[t])
                BY <4>2, <4>3 DEF Routes
            <4>5. ticket[RequestOf[t]] = held[t] /\ RequestOf[t] \in Requests
                BY <4>1, <4>4, Assumptions DEF Backed, Written
            <4>6. ticket'[RequestOf[t]] = ticket[RequestOf[t]]
                BY <1>1, <4>1, <4>5, TicketsStay, Assumptions
            <4> QED BY <4>1, <4>5, <4>6 DEF HasTicket
        <3> QED BY <3>1, <3>2
    <2> QED BY <2>1, <2>2, <2>3 DEF Backed
<1>2. ASSUME NEW t \in Turns, Crash(t) PROVE Backed'
    <2>1. /\ UNCHANGED <<case, ticket, ledger, held>> /\ plan'[t] = <<>>
          /\ \A u \in Turns : u # t => plan'[u] = plan[u]
        BY <1>2 DEF Crash, Stop, stores, Backed, Accounted, Turning, PlansFine
    <2>2. Fresh(t)' /\ Written(t)'
        BY <2>1 DEF Fresh, Written, Asks, Routes
    <2>3. \A u \in Turns : u # t => Fresh(u)' /\ Written(u)'
        BY <2>1 DEF Backed, Fresh, Written, AtStep
    <2> QED BY <2>1, <2>2, <2>3 DEF Backed, HasTicket
<1>3. CASE UNCHANGED <<case, ticket, ledger, held, plan>>
    BY <1>3 DEF Backed, Fresh, Written, HasTicket, AtStep
<1> QED BY <1>1, <1>2, <1>3 DEF Next, SessionEnds, vars, stores

LEMMA BackedStarts == Init => Backed
<1> SUFFICES ASSUME Init PROVE Backed
    OBVIOUS
<1>1. \A t \in Turns : Fresh(t)
    BY Assumptions DEF Init, Fresh
<1>2. \A t \in Turns : ~AtStep(t, "record") /\ ~AtStep(t, "ROUTED_TO_TICKET")
    BY DEF Init, AtStep
<1>3. \A c \in Cases : case[c].status # "ROUTED_TO_TICKET"
    <2>1. PICK c \in Cases, s \in OpenStatus \cup {"absent"} :
             case = [k \in Cases |->
                   IF k # c \/ s = "absent" THEN NoCase
                   ELSE [Offer EXCEPT !.status = s, !.confirmed = (s = "DEMO_ACTIVE")]]
        BY DEF Init
    <2>2. [Offer EXCEPT !.status = s, !.confirmed = (s = "DEMO_ACTIVE")].status = s
        BY DEF Offer
    <2>3. s # "ROUTED_TO_TICKET"
        BY DEF OpenStatus, Live, Review
    <2> QED BY <2>1, <2>2, <2>3, Constants
<1> QED BY <1>1, <1>2, <1>3, AccountedStarts DEF Backed, Written

\* A human session stands on a confirmed summary; and a case that was routed to a
\* ticket has one that holds its summary as it was confirmed, if the adapter gives
\* every message a request id of its own.
THEOREM TicketsHoldWhatWasConfirmed ==
    ASSUME OwnRequests PROVE Spec => []ConfirmedOnly
<1>1. Backed /\ Accounted' /\ [Next]_vars => Backed'
    BY BackedKept
<1>2. Backed => ConfirmedOnly
    BY DEF Backed, Accounted, Turning, CasesConfirmed, Committed, HasTicket, ConfirmedOnly
<1> QED BY <1>1, <1>2, AlwaysAccounted, BackedStarts, PTL DEF Spec

-----------------------------------------------------------------------------
(* The requirements of CaseLifecycle *)

\* What a record of the repository is in the requirements.
AsShown(new) == [status |-> new.status, notes |-> new.notes, confirmed |-> new.confirmed]

LEMMA LifecycleWords ==
    /\ Lifecycle!Review = Review /\ Lifecycle!Ended = Terminal
    /\ Lifecycle!Statuses = Statuses
    /\ Lifecycle!Absent = AsShown(NoCase) /\ Lifecycle!Offered = AsShown(Offer)
BY DEF Lifecycle!Review, Lifecycle!Ended, Lifecycle!Statuses, Lifecycle!Absent,
       Lifecycle!Offered, Review, Terminal, Statuses, OpenStatus, Live, AsShown, NoCase, Offer

\* The transitions of the repository only go forward.
LEMMA TransitionsGoForward ==
    ASSUME NEW from, NEW to, MayBecome(from, to)
    PROVE  to # from /\ Lifecycle!Phase(to) >= Lifecycle!Phase(from)
BY DEF MayBecome, Allowed, Lifecycle!Phase, Lifecycle!Review, Lifecycle!Ended

LEMMA ShownIs ==
    /\ \A c \in Cases : Shown[c] = AsShown(case[c])
    /\ \A c \in Cases : /\ Shown[c].status = case[c].status
                        /\ Shown[c].notes = case[c].notes
                        /\ Shown[c].confirmed = case[c].confirmed
BY DEF Shown, AsShown

LEMMA ShownAfter ==
    ASSUME CasesTyped, NEW c \in Cases, NEW new, case' = [case EXCEPT ![c] = new]
    PROVE  Shown' = [Shown EXCEPT ![c] = AsShown(new)]
<1>1. case'[c] = new /\ \A d \in Cases : d # c => case'[d] = case[d]
    BY DEF CasesTyped
<1> QED BY <1>1 DEF Shown, AsShown

LEMMA StatusChanged ==
    ASSUME NEW r, NEW q, NEW x, NEW s, x = AsShown(r),
           q.status = s, q.notes = r.notes, q.confirmed = r.confirmed
    PROVE  AsShown(q) = [x EXCEPT !.status = s]
<1>1. PICK a, m, d : a = r.status /\ m = r.notes /\ d = r.confirmed
    OBVIOUS
<1>2. x = [status |-> a, notes |-> m, confirmed |-> d]
    BY <1>1 DEF AsShown
<1>3. AsShown(q) = [status |-> s, notes |-> m, confirmed |-> d]
    BY <1>1 DEF AsShown
<1> QED BY <1>2, <1>3

LEMMA ConfirmationChanged ==
    ASSUME NEW r, NEW q, NEW x, NEW b, x = AsShown(r),
           q.status = r.status, q.notes = r.notes, q.confirmed = b
    PROVE  AsShown(q) = [x EXCEPT !.confirmed = b]
<1>1. PICK a, m, d : a = r.status /\ m = r.notes /\ d = r.confirmed
    OBVIOUS
<1>2. x = [status |-> a, notes |-> m, confirmed |-> d]
    BY <1>1 DEF AsShown
<1>3. AsShown(q) = [status |-> a, notes |-> m, confirmed |-> b]
    BY <1>1 DEF AsShown
<1> QED BY <1>2, <1>3

\* A write of a turn that holds the case as it is: it is the open case.
LEMMA StoreShows ==
    ASSUME Inv, NEW t \in Turns, NEW new \in Case, Store(t, new),
           TheCase(t).status \in OpenStatus
    PROVE  /\ held[t].id \in Cases /\ active = held[t].id /\ TheCase(t) = case[held[t].id]
           /\ Shown' = [Shown EXCEPT ![held[t].id] = AsShown(new)]
           /\ active' = IF new.status \in Terminal THEN None ELSE active
<1> DEFINE c == held[t].id
           stored == [new EXCEPT !.version = @ + 1]
<1>1. c \in Cases /\ TheCase(t) = case[c]
    BY TheCaseTyped, StatusKinds DEF Inv
<1>2. active = c
    BY <1>1 DEF Inv, OneOpenCase, Open
<1>3. AsShown(stored) = AsShown(new)
    BY DEF AsShown, Case
<1>4. Shown' = [Shown EXCEPT ![c] = AsShown(stored)]
    BY <1>1, ShownAfter DEF Store, Inv
<1> QED BY <1>1, <1>2, <1>3, <1>4 DEF Store

LEMMA AdvanceImplements ==
    ASSUME Inv, NEW t \in Turns, NEW s \in Statuses,
           Store(t, [TheCase(t) EXCEPT !.status = s]),
           MayBecome(TheCase(t).status, s),
           s \in Committed => TheCase(t).confirmed
    PROVE  Lifecycle!Next
<1>1. PICK new : new = [TheCase(t) EXCEPT !.status = s]
    OBVIOUS
<1>2. TheCase(t) \in Case /\ TheCase(t).status \in OpenStatus
    BY TheCaseTyped, OnlyOpenMoves DEF Inv
<1>3. /\ new \in Case /\ new.status = s
      /\ new.notes = TheCase(t).notes /\ new.confirmed = TheCase(t).confirmed
    BY <1>1, <1>2 DEF Case
<1>4. Store(t, new)
    BY <1>1
<1>5. PICK c \in Cases : c = held[t].id /\ active = c /\ TheCase(t) = case[c]
    BY <1>2, <1>3, <1>4, StoreShows
<1>6. /\ Shown' = [Shown EXCEPT ![c] = AsShown(new)]
      /\ active' = IF s \in Terminal THEN None ELSE c
    BY <1>2, <1>3, <1>4, <1>5, StoreShows
<1>7. AsShown(new) = [Shown[c] EXCEPT !.status = s]
    <2>1. Shown[c] = AsShown(TheCase(t))
        BY <1>5, ShownIs
    <2> QED BY <1>3, <2>1, StatusChanged
<1>8. Shown' = [Shown EXCEPT ![c].status = s]
    BY <1>6, <1>7, Zenon
<1>9. s # Shown[c].status /\ Lifecycle!Phase(s) >= Lifecycle!Phase(Shown[c].status)
    BY <1>5, ShownIs, TransitionsGoForward
<1>10. s \in {"DEMO_ACTIVE", "ROUTED_TO_TICKET"} => Shown[c].confirmed
    BY <1>5, ShownIs DEF Committed
<1>11. Lifecycle!Advance(c, s)
    BY <1>5, <1>6, <1>8, <1>9, <1>10, LifecycleWords DEF Lifecycle!Advance
<1> QED BY <1>11, LifecycleWords DEF Lifecycle!Next

LEMMA MoveImplements ==
    ASSUME Turning, NEW t \in Turns, NEW s \in Statuses, Move(t, s)
    PROVE  Lifecycle!Next \/ UNCHANGED <<case, active>>
<1> SUFFICES ASSUME ~UNCHANGED <<case, active>> PROVE Lifecycle!Next
    OBVIOUS
<1>1. /\ Current(t) /\ TheCase(t).status = held[t].of.status
      /\ MayBecome(TheCase(t).status, s)
      /\ Store(t, [TheCase(t) EXCEPT !.status = s]) /\ AtStep(t, s)
    BY DEF Move
<1>2. held[t].of = TheCase(t)
    <2>1. held[t].id # None
        BY <1>1, OnlyOpenMoves, StatusKinds, TheCaseTyped DEF Turning, Inv
    <2> QED BY <1>1, <2>1 DEF Turning, Inv, UpToDate, Current
<1>3. ASSUME s = "ROUTED_TO_TICKET" PROVE Routes(plan[t])
    <2>1. plan[t][1] = s /\ 1 \in 1 .. Len(plan[t])
        BY <1>1, AtStepIs DEF Turning, PlanFine
    <2> QED BY <1>3, <2>1 DEF Routes
<1>4. s \in Committed => held[t].of.confirmed
    BY <1>1, <1>3 DEF Committed, Turning, Standing, Confirmed
<1> QED BY <1>1, <1>2, <1>4, AdvanceImplements DEF Turning

LEMMA CloseImplements ==
    ASSUME Inv, NEW t \in Turns, Close(t)
    PROVE  Lifecycle!Next \/ UNCHANGED <<case, active>>
<1> SUFFICES ASSUME ~UNCHANGED <<case, active>> PROVE Lifecycle!Next
    OBVIOUS
<1>1. /\ TheCase(t).status = "DEMO_ACTIVE"
      /\ Store(t, [TheCase(t) EXCEPT !.status = "CLOSED"])
    BY DEF Close
<1>2. MayBecome("DEMO_ACTIVE", "CLOSED") /\ "CLOSED" \in Statuses \ Committed
    BY Words DEF MayBecome, Allowed, Committed
<1> QED BY <1>1, <1>2, AdvanceImplements

LEMMA SummariseImplements ==
    ASSUME Inv, NEW t \in Turns, NEW s \in {"confirm", "supplement"}, Summarise(t, s)
    PROVE  Lifecycle!Next \/ UNCHANGED <<case, active>>
<1> SUFFICES ASSUME ~UNCHANGED <<case, active>> PROVE Lifecycle!Next
    OBVIOUS
<1>1. /\ Current(t) /\ TheCase(t).status \in Review \cup {"OFFERED"}
      /\ Store(t, [TheCase(t) EXCEPT !.notes = NewSummary(t, s).notes,
                                     !.confirmed = NewSummary(t, s).confirmed])
    BY DEF Summarise
<1>2. TheCase(t) \in Case /\ TheCase(t).status \in OpenStatus \ Terminal
    BY <1>1, StatusKinds, TheCaseTyped DEF Inv
<1>3. held[t].of = TheCase(t)
    <2>1. held[t].id # None
        BY <1>2, StatusKinds, TheCaseTyped DEF Inv
    <2> QED BY <1>1, <2>1 DEF Inv, UpToDate, Current
<1>4. PICK n \in SUBSET Turns, b \in BOOLEAN :
         /\ n = NewSummary(t, s).notes /\ b = NewSummary(t, s).confirmed
         /\ \/ s = "confirm" /\ n = TheCase(t).notes /\ b = TRUE
            \/ s = "supplement" /\ n = TheCase(t).notes \cup {t} /\ b = FALSE
    <2>1. s = "confirm" => NewSummary(t, s).notes = TheCase(t).notes /\ NewSummary(t, s).confirmed = TRUE
        BY <1>2, <1>3 DEF NewSummary, Case
    <2>2. s = "supplement" => /\ NewSummary(t, s).notes = TheCase(t).notes \cup {t}
                             /\ NewSummary(t, s).confirmed = FALSE
        BY <1>2, <1>3 DEF NewSummary, Case
    <2>3. TheCase(t).notes \in SUBSET Turns
        BY <1>2 DEF Case
    <2> QED BY <2>1, <2>2, <2>3
<1>5. PICK new : new = [TheCase(t) EXCEPT !.notes = n, !.confirmed = b]
    OBVIOUS
<1>6. Store(t, new)
    <2>1. new = [TheCase(t) EXCEPT !.notes = NewSummary(t, s).notes,
                                   !.confirmed = NewSummary(t, s).confirmed]
        BY <1>4, <1>5, Zenon
    <2> QED BY <1>1, <2>1, Zenon
<1>7. new \in Case /\ new.status = TheCase(t).status /\ new.notes = n /\ new.confirmed = b
    BY <1>2, <1>5 DEF Case
<1>8. PICK c \in Cases : c = held[t].id /\ active = c /\ TheCase(t) = case[c]
    BY <1>2, <1>6, <1>7, StoreShows
<1>9. Shown' = [Shown EXCEPT ![c] = AsShown(new)] /\ active' = active
    BY <1>2, <1>6, <1>7, <1>8, StoreShows
<1>10. Lifecycle!Editable(c)
    BY <1>1, <1>8, ShownIs, LifecycleWords DEF Lifecycle!Editable
<1>11. CASE s = "confirm"
    <2>1. AsShown(new) = [Shown[c] EXCEPT !.confirmed = TRUE]
        <3>1. Shown[c] = AsShown(TheCase(t))
            BY <1>8, ShownIs
        <3>2. /\ new.status = TheCase(t).status /\ new.notes = TheCase(t).notes
              /\ new.confirmed = TRUE
            BY <1>4, <1>7, <1>11
        <3> QED BY <3>1, <3>2, ConfirmationChanged, SMTT(20)
    <2>2. Lifecycle!Confirm(c)
        BY <1>9, <1>10, <2>1 DEF Lifecycle!Confirm
    <2> QED BY <2>2 DEF Lifecycle!Next
<1>12. CASE s = "supplement"
    <2>1. AsShown(new) = [Shown[c] EXCEPT !.notes = @ \cup {t}, !.confirmed = FALSE]
        <3>1. Shown[c] = AsShown(TheCase(t)) /\ Shown[c].notes = TheCase(t).notes
            BY <1>8, ShownIs
        <3>2. new.status = TheCase(t).status /\ new.notes = Shown[c].notes \cup {t}
            BY <1>4, <1>7, <1>12, <3>1
        <3>3. PICK x, m, y : /\ x = Shown[c] /\ m = Shown[c].notes \cup {t}
                             /\ y = [x EXCEPT !.notes = m]
            OBVIOUS
        <3>4. PICK a, d : a = TheCase(t).status /\ d = TheCase(t).confirmed
            OBVIOUS
        <3>5. y = [status |-> a, notes |-> m, confirmed |-> d]
            BY <3>1, <3>3, <3>4 DEF AsShown
        <3>6. AsShown(new) = [status |-> a, notes |-> m, confirmed |-> b]
            BY <1>7, <3>2, <3>3, <3>4 DEF AsShown
        <3>7. [y EXCEPT !.confirmed = b] = [status |-> a, notes |-> m, confirmed |-> b]
            BY ONLY <3>5
        <3> QED BY <1>4, <1>12, <3>3, <3>6, <3>7, Zenon
    <2>2. Lifecycle!TakeUp(c, t)
        BY <1>9, <1>10, <2>1 DEF Lifecycle!TakeUp
    <2> QED BY <2>2 DEF Lifecycle!Next
<1> QED BY <1>11, <1>12

LEMMA CreateImplements ==
    ASSUME Inv, NEW t \in Turns, CreateCase(t)
    PROVE  Lifecycle!Next \/ UNCHANGED <<case, active>>
<1> SUFFICES ASSUME active = None PROVE Lifecycle!Next
    BY DEF CreateCase
<1>1. PICK c \in Cases :
         /\ case[c] = NoCase /\ case' = [case EXCEPT ![c] = Offer] /\ active' = c
    BY DEF CreateCase
<1>2. Shown' = [Shown EXCEPT ![c] = Lifecycle!Offered]
    BY <1>1, ShownAfter, LifecycleWords DEF Inv
<1>3. Shown[c] = Lifecycle!Absent
    BY <1>1, ShownIs, LifecycleWords
<1> QED BY <1>1, <1>2, <1>3 DEF Lifecycle!Open, Lifecycle!Next

LEMMA NextImplements == Turning /\ [Next]_vars => [Lifecycle!Next]_(Lifecycle!vars)
<1> SUFFICES ASSUME Turning, [Next]_vars
             PROVE  Lifecycle!Next \/ UNCHANGED <<case, active>>
    BY DEF Lifecycle!vars, Shown
<1>1. ASSUME NEW t \in Turns, TurnStep(t) \/ Crash(t)
      PROVE  Lifecycle!Next \/ UNCHANGED <<case, active>>
    <2>1. CASE \E s \in Statuses : Move(t, s)
        BY <2>1, MoveImplements
    <2>2. CASE Close(t) \/ CreateCase(t) \/ \E s \in {"confirm", "supplement"} : Summarise(t, s)
        BY <2>2, CloseImplements, CreateImplements, SummariseImplements DEF Turning
    <2>3. CASE Looks(t)
        BY <2>3 DEF Looks
    <2> QED BY <1>1, <2>1, <2>2, <2>3, OthersLook DEF TurnStep, Turning
<1>2. CASE UNCHANGED vars \/ \E c \in Cases : SessionEnds(c)
    BY <1>2 DEF vars, stores, SessionEnds
<1> QED BY <1>1, <1>2 DEF Next

LEMMA InitImplements == Init => Lifecycle!Init
<1> SUFFICES ASSUME Init PROVE Lifecycle!Init
    OBVIOUS
<1>1. PICK c \in Cases, s \in OpenStatus \cup {"absent"} :
         /\ case = [k \in Cases |->
               IF k # c \/ s = "absent" THEN NoCase
               ELSE [Offer EXCEPT !.status = s, !.confirmed = (s = "DEMO_ACTIVE")]]
         /\ active = IF s = "absent" THEN None ELSE c
    BY DEF Init
<1>2. CASE s = "absent"
    <2>1. case = [k \in Cases |-> NoCase] /\ active = None
        BY <1>1, <1>2
    <2>2. Shown = [k \in Cases |-> Lifecycle!Absent]
        BY <2>1, LifecycleWords DEF Shown, AsShown
    <2> QED BY <2>1, <2>2 DEF Lifecycle!Init
<1>3. CASE s # "absent"
    <2>1. PICK b \in BOOLEAN : b = (s = "DEMO_ACTIVE")
        OBVIOUS
    <2>2. PICK first : first = [Offer EXCEPT !.status = s, !.confirmed = b]
        OBVIOUS
    <2>3. case = [k \in Cases |-> IF k # c THEN NoCase ELSE first] /\ active = c
        <3>1. first = [Offer EXCEPT !.status = s, !.confirmed = (s = "DEMO_ACTIVE")]
            BY <2>1, <2>2, Zenon
        <3>2. case = [k \in Cases |-> IF k # c \/ s = "absent" THEN NoCase ELSE first]
            BY <1>1, <3>1, Zenon
        <3> QED BY <1>1, <1>3, <3>2
    <2>4. PICK shown : shown = [Lifecycle!Offered EXCEPT !.status = s, !.confirmed = b]
        OBVIOUS
    <2>5. AsShown(first) = shown
        BY <2>2, <2>4 DEF AsShown, Offer, Lifecycle!Offered
    <2>6. Shown = [k \in Cases |-> IF k = c THEN shown ELSE Lifecycle!Absent]
        BY <2>3, <2>5, LifecycleWords DEF Shown, AsShown
    <2>7. shown = [Lifecycle!Offered EXCEPT !.status = s, !.confirmed = (s = "DEMO_ACTIVE")]
        BY <2>1, <2>4, Zenon
    <2>8. Shown = [k \in Cases |->
                     IF k = c
                     THEN [Lifecycle!Offered EXCEPT !.status = s, !.confirmed = (s = "DEMO_ACTIVE")]
                     ELSE Lifecycle!Absent]
        BY <2>6, <2>7, Zenon
    <2>9. s \in Lifecycle!Statuses \ Lifecycle!Ended
        BY <1>3, LifecycleWords, StatusKinds
    <2> QED BY <2>3, <2>8, <2>9, Zenon DEF Lifecycle!Init
<1> QED BY <1>2, <1>3

\* The turns with their copies, versions, retries and crashes implement
\* CaseLifecycle: one open case that only goes forward, whose summary only grows,
\* and which goes to a session or to a ticket only as it was confirmed.
THEOREM HandoffsFollowLifecycle == Spec => LifecycleSpec
BY InitImplements, NextImplements, AlwaysTurning, PTL
   DEF Spec, LifecycleSpec, Lifecycle!LifecycleSpec
=============================================================================
