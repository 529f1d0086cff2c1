---------------------------- MODULE HandoffCases ----------------------------
(***************************************************************************)
(* The handoff cases of one requester in one conversation (agent_service:  *)
(* handoff_repository.py, workflow_handoff_*.py, ticket_dedupe.py), in     *)
(* their Firestore store.  A turn is one message: it reads the active      *)
(* case, waits for a model to name the action, and changes the case in one *)
(* or several transactions that compare the version it has read.  Nothing  *)
(* orders the turns of one requester.  What a turn has yet to do is its    *)
(* plan, a sequence of store calls; the routing nodes extend it.           *)
(***************************************************************************)
EXTENDS Naturals, Sequences

CONSTANTS
    Cases,        \* case ids
    Turns,        \* messages of the requester
    Requests,     \* request ids; a message sent again keeps its id
    RequestOf,    \* the request id of a turn
    None,
    MaxFaults     \* store calls that fail and instances that stop

ASSUME Assumptions ==
    /\ RequestOf \in [Turns -> Requests]
    /\ None \notin Cases
    /\ MaxFaults \in Nat

VARIABLES
    case,       \* case[c]: the stored case
    active,     \* the active index: the open case of the requester, or None
    told,       \* told[c]: the statuses that an audit event has recorded
    overdue,    \* cases whose session has ended by the clock
    ticket,     \* ticket[r]: what the ticket service holds under the key of r
    ledger,     \* requests whose ticket id was recorded
    plan,       \* plan[t]: the steps that turn t has yet to take
    intent,     \* intent[t]: what the text of turn t asks of tickets
    held,       \* held[t]: the case as turn t has last seen it
    faults

stores == <<case, active, told, ticket, ledger>>
vars == <<stores, overdue, plan, intent, held, faults>>

Review == {"SUMMARY_REVIEW", "AWAITING_SUPPLEMENT"}
Live == Review \cup {"DEMO_ACTIVE"}
Terminal == {"CLOSED", "CANCELLED", "FAILED", "EXPIRED", "ROUTED_TO_TICKET"}
OpenStatus == Live \cup {"OFFERED"}
Statuses == OpenStatus \cup Terminal

\* The transitions of the repository.
Allowed ==
    [OFFERED |-> {"SUMMARY_REVIEW", "CANCELLED", "FAILED", "EXPIRED"},
     SUMMARY_REVIEW |-> {"AWAITING_SUPPLEMENT", "DEMO_ACTIVE", "CANCELLED",
                         "FAILED", "EXPIRED", "ROUTED_TO_TICKET"},
     AWAITING_SUPPLEMENT |-> {"SUMMARY_REVIEW", "DEMO_ACTIVE", "CANCELLED",
                              "FAILED", "EXPIRED", "ROUTED_TO_TICKET"},
     DEMO_ACTIVE |-> {"CLOSED", "FAILED", "EXPIRED", "ROUTED_TO_TICKET"}]

MayBecome(from, to) == from \in DOMAIN Allowed /\ to \in Allowed[from]

\* A summary is the set of turns whose text it takes up, and whether the
\* requester has confirmed it.
NoCase == [status |-> "absent", version |-> 0, notes |-> {}, confirmed |-> FALSE]
Offer == [status |-> "OFFERED", version |-> 1, notes |-> {}, confirmed |-> FALSE]
Unseen == [id |-> None, of |-> NoCase]

Open(c) == case[c].status \in OpenStatus
Ended(c) == case[c].status \in Terminal

Steps == Statuses \cup
    {"start", "index", "case", "route", "drop", "found", "evaluate", "offer",
     "confirm", "supplement", "lookup", "create", "record", "tell"}

TypeOK ==
    /\ \A c \in Cases :
          /\ case[c].status \in Statuses \cup {"absent"}
          /\ case[c].version \in Nat
          /\ case[c].notes \subseteq Turns
          /\ case[c].confirmed \in BOOLEAN
    /\ active \in Cases \cup {None}
    /\ told \in [Cases -> SUBSET Statuses]
    /\ overdue \subseteq Cases
    /\ ledger \subseteq Requests
    /\ \A r \in Requests : ticket[r].id \in Cases \cup {None}
    /\ \A t \in Turns : plan[t] \in Seq(Steps) /\ held[t].id \in Cases \cup {None}
    /\ intent \in [Turns -> {"create", "query", "other"}]
    /\ faults \in 0 .. MaxFaults

\* What earlier turns may have left: no case, or one that is open.
Init ==
    /\ \E c \in Cases, s \in OpenStatus \cup {"absent"} :
          /\ case = [k \in Cases |->
                IF k # c \/ s = "absent" THEN NoCase
                ELSE [Offer EXCEPT !.status = s, !.confirmed = (s = "DEMO_ACTIVE")]]
          /\ active = IF s = "absent" THEN None ELSE c
          /\ told = [k \in Cases |-> IF k = c /\ s # "absent" THEN {s} ELSE {}]
    /\ overdue = {}
    /\ ticket = [r \in Requests |-> Unseen]
    /\ ledger = {}
    /\ plan = [t \in Turns |-> <<"start">>]
    /\ intent \in [Turns -> {"create", "query", "other"}]
    /\ held = [t \in Turns |-> Unseen]
    /\ faults = 0

-----------------------------------------------------------------------------
(* Plans *)

AtStep(t, s) == plan[t] # <<>> /\ Head(plan[t]) = s
\* What is stored of the case that turn t has; without one it is like no case.
TheCase(t) == IF held[t].id = None THEN NoCase ELSE case[held[t].id]

Continue(t) == plan' = [plan EXCEPT ![t] = Tail(@)]
Replace(t, steps) == plan' = [plan EXCEPT ![t] = steps \o Tail(@)]
Stop(t) == plan' = [plan EXCEPT ![t] = <<>>]
Forget(t) == held' = [held EXCEPT ![t] = Unseen]

ReadActive == <<"index", "case">>
MakeOffer == <<"offer", "tell", "SUMMARY_REVIEW", "tell">>
\* Variant: the human session is opened without an event.
Promote_Untold == <<"confirm", "DEMO_ACTIVE">>

Promote == <<"confirm", "DEMO_ACTIVE", "tell">>
MakeTicket == <<"lookup", "create", "record">>
RouteToTicket == MakeTicket \o <<"ROUTED_TO_TICKET", "tell">>

\* route_handoff and what it calls, by the status of the case that was read;
\* which of the plans it is, the message and the models decide.
ReviewPlans(t, s) ==
    {<<>>, <<"CANCELLED", "tell">>, Promote}
    \cup (IF intent[t] = "create" THEN {<<"confirm">> \o RouteToTicket} ELSE {})
    \cup (IF s = "SUMMARY_REVIEW" THEN {<<"AWAITING_SUPPLEMENT", "tell">>}
          ELSE {<<"supplement", "SUMMARY_REVIEW", "tell">>})

DemoPlans(t) ==
    {<<>>, <<"CLOSED", "tell">>}
    \cup (IF intent[t] = "create" THEN {RouteToTicket} ELSE {})

NoCasePlans(t) ==
    {<<"evaluate">>}
    \cup (IF intent[t] # "query" THEN {MakeOffer \o Promote} ELSE {})
    \cup (IF intent[t] = "create" THEN {MakeTicket \o <<"evaluate">>} ELSE {})

Supersede == ReadActive \o <<"drop", "evaluate">>

RoutePlans(t) ==
    LET s == held[t].of.status
    IN  CASE s = "absent" -> NoCasePlans(t)
          [] s = "OFFERED" -> {<<"evaluate">>}
          [] s \in Live /\ intent[t] = "query" -> {Supersede}
          [] s = "DEMO_ACTIVE" /\ intent[t] # "query" -> {Supersede} \cup DemoPlans(t)
          [] s \in Review /\ intent[t] # "query" -> {Supersede} \cup ReviewPlans(t, s)

-----------------------------------------------------------------------------
(* Steps of a turn *)

\* A request for a ticket that is in the ledger is answered from there.
Start(t) ==
    /\ AtStep(t, "start")
    /\ IF intent[t] = "create" /\ RequestOf[t] \in ledger
       THEN Stop(t)
       ELSE Replace(t, ReadActive \o <<"route">>)
    /\ UNCHANGED <<stores, overdue, intent, held, faults>>

\* get_active_case reads the index and then the case.
ReadIndex(t) ==
    /\ AtStep(t, "index")
    /\ IF active = None
       THEN plan' = [plan EXCEPT ![t] = Tail(Tail(@))] /\ Forget(t)
       ELSE /\ Continue(t)
            /\ held' = [held EXCEPT ![t] = [id |-> active, of |-> NoCase]]
    /\ UNCHANGED <<stores, overdue, intent, faults>>

\* A case whose session has ended is expired on the way, with an event.
ReadCase(t) ==
    /\ AtStep(t, "case")
    /\ IF TheCase(t).status \in Terminal
       THEN Continue(t) /\ Forget(t)
       ELSE /\ held' = [held EXCEPT ![t].of = TheCase(t)]
            /\ IF held[t].id \in overdue THEN Replace(t, <<"EXPIRED", "tell">>)
               ELSE Continue(t)
    /\ UNCHANGED <<stores, overdue, intent, faults>>

Route(t) ==
    /\ AtStep(t, "route")
    /\ \E steps \in RoutePlans(t) : Replace(t, steps)
    /\ UNCHANGED <<stores, overdue, intent, held, faults>>

\* _cancel_active_handoff: a demo session is closed, a review cancelled.
Drop(t) ==
    /\ AtStep(t, "drop")
    /\ LET s == held[t].of.status
       IN  Replace(t, CASE s = "DEMO_ACTIVE" -> <<"CLOSED", "tell">>
                        [] s \in Review -> <<"CANCELLED", "tell">>
                        [] OTHER -> <<>>)
    /\ UNCHANGED <<stores, overdue, intent, held, faults>>

\* _evaluate_handoff: the answer settles the case, or leads to an offer.
Evaluate(t) ==
    /\ AtStep(t, "evaluate")
    /\ \E steps \in {<<>>, ReadActive \o <<"drop">>, MakeOffer} : Replace(t, steps)
    /\ UNCHANGED <<stores, overdue, intent, held, faults>>

\* Variant: the active index is not looked at.
CreateCase_Unchecked(t) ==
    /\ AtStep(t, "offer")
    /\ \E c \in Cases :
          /\ case[c] = NoCase
          /\ case' = [case EXCEPT ![c] = Offer]
          /\ active' = c
          /\ held' = [held EXCEPT ![t] = [id |-> c, of |-> Offer]]
          /\ Continue(t)
    /\ UNCHANGED <<told, ticket, ledger, overdue, intent, faults>>

\* create_case: the index is looked at, but not the clock.  If there is an
\* active case the offer goes on with that one.
CreateCase(t) ==
    /\ AtStep(t, "offer")
    /\ IF active = None
       THEN \E c \in Cases :
              /\ case[c] = NoCase
              /\ case' = [case EXCEPT ![c] = Offer]
              /\ active' = c
              /\ held' = [held EXCEPT ![t] = [id |-> c, of |-> Offer]]
              /\ Continue(t)
       ELSE /\ plan' = [plan EXCEPT ![t] =
                  ReadActive \o <<"found">> \o SubSeq(@, Len(MakeOffer) + 1, Len(@))]
            /\ UNCHANGED <<case, active, held>>
    /\ UNCHANGED <<told, ticket, ledger, overdue, intent, faults>>

Found(t) ==
    /\ AtStep(t, "found")
    /\ IF held[t].id = None THEN Stop(t) ELSE Continue(t)
    /\ UNCHANGED <<stores, overdue, intent, held, faults>>

\* Variant: the version is not compared.
Current_StatusOnly(t) == TheCase(t).status = held[t].of.status

\* The comparison of a transaction: nobody has written the case since.
Current(t) == TheCase(t).version = held[t].of.version

Store(t, new) ==
    LET c == held[t].id
        stored == [new EXCEPT !.version = @ + 1]
    IN  /\ case' = [case EXCEPT ![c] = stored]
        /\ active' = IF new.status \in Terminal THEN None ELSE active
        /\ held' = [held EXCEPT ![t].of = stored]

\* transition; the turn goes on with the case it got back.  A refused
\* transition is an exception, which only the expiry on the way takes.
Move(t, s) ==
    LET accepted == /\ Current(t)
                    /\ TheCase(t).status = held[t].of.status
                    /\ MayBecome(TheCase(t).status, s)
    IN  /\ AtStep(t, s) /\ s # "CLOSED"
        /\ \/ /\ accepted
              /\ Store(t, [TheCase(t) EXCEPT !.status = s])
              /\ Continue(t)
           \/ /\ ~accepted
              /\ IF s = "EXPIRED"
                 THEN plan' = [plan EXCEPT ![t] = Tail(Tail(@))] /\ Forget(t)
                 ELSE Stop(t) /\ UNCHANGED held
              /\ UNCHANGED <<case, active>>
        /\ UNCHANGED <<told, ticket, ledger, overdue, intent, faults>>

\* close_case reads the case first: closing it twice is no error, unless the
\* first closing falls between the read and the transaction.
Close(t) ==
    /\ AtStep(t, "CLOSED")
    /\ \/ /\ Current(t) /\ TheCase(t).status = "DEMO_ACTIVE"
          /\ Store(t, [TheCase(t) EXCEPT !.status = "CLOSED"])
          /\ Continue(t)
       \/ /\ TheCase(t).status = "CLOSED"
          /\ held' = [held EXCEPT ![t].of = TheCase(t)]
          /\ Continue(t)
          /\ UNCHANGED <<case, active>>
       \/ /\ ~Current(t)
          /\ Stop(t)
          /\ UNCHANGED <<case, active, held>>
    /\ UNCHANGED <<told, ticket, ledger, overdue, intent, faults>>

\* update_summary with the copy of the turn: confirmed, or written anew by the
\* model from that copy and the message.
NewSummary(t, s) ==
    IF s = "confirm" THEN [held[t].of EXCEPT !.confirmed = TRUE]
    ELSE [held[t].of EXCEPT !.notes = @ \cup {t}, !.confirmed = FALSE]

Summarise(t, s) ==
    LET accepted == Current(t) /\ TheCase(t).status \in Review \cup {"OFFERED"}
    IN  /\ AtStep(t, s) /\ s \in {"confirm", "supplement"}
        /\ IF accepted
           THEN /\ Store(t, [TheCase(t) EXCEPT !.notes = NewSummary(t, s).notes,
                                               !.confirmed = NewSummary(t, s).confirmed])
                /\ IF s = "supplement" /\ TheCase(t).status # "AWAITING_SUPPLEMENT"
                   THEN plan' = [plan EXCEPT ![t] = Tail(Tail(@))]
                   ELSE Continue(t)
           ELSE Stop(t) /\ UNCHANGED <<case, active, held>>
        /\ UNCHANGED <<told, ticket, ledger, overdue, intent, faults>>

\* The event of the transition that the turn has just made.
Tell(t) ==
    /\ AtStep(t, "tell")
    /\ told' = [told EXCEPT ![held[t].id] = @ \cup {held[t].of.status}]
    /\ IF held[t].of.status = "EXPIRED" THEN Forget(t) ELSE UNCHANGED held
    /\ Continue(t)
    /\ UNCHANGED <<case, active, ticket, ledger, overdue, intent, faults>>

\* _deduped_ticket_result
Lookup(t) ==
    /\ AtStep(t, "lookup")
    /\ IF RequestOf[t] \in ledger
       THEN plan' = [plan EXCEPT ![t] = SubSeq(@, Len(MakeTicket) + 1, Len(@))]
       ELSE Continue(t)
    /\ UNCHANGED <<stores, overdue, intent, held, faults>>

\* The ticket service takes a key once.
TicketMade(t) ==
    ticket' = [ticket EXCEPT ![RequestOf[t]] = IF @ = Unseen THEN held[t] ELSE @]

CreateTicket(t) ==
    /\ AtStep(t, "create")
    /\ TicketMade(t)
    /\ Continue(t)
    /\ UNCHANGED <<case, active, told, ledger, overdue, intent, held, faults>>

\* No suitable item, a refusal, or an answer that was lost: the case stays open,
\* and a turn without a case goes on to an offer.
NoTicket(t) ==
    /\ AtStep(t, "create")
    /\ \/ UNCHANGED <<ticket, faults>>
       \/ TicketMade(t) /\ faults < MaxFaults /\ faults' = faults + 1
    /\ IF held[t].id = None
       THEN plan' = [plan EXCEPT ![t] = <<"evaluate">>]
       ELSE Stop(t)
    /\ UNCHANGED <<case, active, told, ledger, overdue, intent, held>>

RecordTicket(t) ==
    /\ AtStep(t, "record")
    /\ ledger' = ledger \cup {RequestOf[t]}
    /\ Continue(t)
    /\ UNCHANGED <<case, active, told, ticket, overdue, intent, held, faults>>

\* The instance stops, or a store call fails: nothing resumes the turn.
Crash(t) ==
    /\ plan[t] \notin {<<>>, <<"start">>}
    /\ faults < MaxFaults /\ faults' = faults + 1
    /\ Stop(t)
    /\ UNCHANGED <<stores, overdue, intent, held>>

SessionEnds(c) ==
    /\ Open(c) /\ c \notin overdue
    /\ overdue' = overdue \cup {c}
    /\ UNCHANGED <<stores, plan, intent, held, faults>>

TurnStep(t) ==
    \/ Start(t) \/ ReadIndex(t) \/ ReadCase(t) \/ Route(t) \/ Drop(t) \/ Evaluate(t)
    \/ CreateCase(t) \/ Found(t)
    \/ \E s \in Statuses : Move(t, s)
    \/ \E s \in {"confirm", "supplement"} : Summarise(t, s)
    \/ Close(t) \/ Tell(t)
    \/ Lookup(t) \/ CreateTicket(t) \/ NoTicket(t) \/ RecordTicket(t)

Next ==
    \/ \E t \in Turns : TurnStep(t) \/ Crash(t)
    \/ \E c \in Cases : SessionEnds(c)

Spec == Init /\ [][Next]_vars

-----------------------------------------------------------------------------
(* Properties *)

\* Whatever turns race or break off, a requester has at most one open case, and
\* the active index names it (create_case and _mutate write both).
OneOpenCase == \A c \in Cases : Open(c) <=> active = c

\* A human session, and a ticket a case was routed to, stand on the summary that
\* the requester confirmed, with all that was taken up before.
ConfirmedOnly ==
    \A c \in Cases :
        /\ case[c].status \in {"DEMO_ACTIVE", "ROUTED_TO_TICKET"} => case[c].confirmed
        /\ case[c].status = "ROUTED_TO_TICKET" =>
              \E r \in Requests : ticket[r].id = c /\ ticket[r].of.notes = case[c].notes

\* Two turns that work from the same copy do not overwrite each other: what a
\* summary has taken up stays in it, and an ended case never changes again.
NothingOverwritten ==
    [][\A c \in Cases :
          /\ case[c].notes \subseteq case'[c].notes
          /\ Ended(c) => UNCHANGED case[c]]_vars

\* The requirements, with a case as it is stored but for its version: whatever
\* turns race with copies that are out of date, each of their writes is one step on
\* the case as it then is.
Shown == [c \in Cases |-> [status |-> case[c].status, notes |-> case[c].notes,
                          confirmed |-> case[c].confirmed]]

Lifecycle == INSTANCE CaseLifecycle WITH
    Messages <- Turns, cases <- Shown, current <- active

LifecycleSpec == Lifecycle!LifecycleSpec

\* Once all turns are through, and none was cut off, the last word of a case
\* has its event.
StatusIsTold ==
    faults = 0 /\ (\A t \in Turns : plan[t] = <<>>) =>
        \A c \in Cases : case[c] # NoCase => case[c].status \in told[c]
=============================================================================
