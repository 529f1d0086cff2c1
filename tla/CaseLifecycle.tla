---------------------------- MODULE CaseLifecycle ----------------------------
(***************************************************************************)
(* What the handoff of one requester promises, without turns, copies or    *)
(* versions: every change of a case is one step on the case as it is.      *)
(* There is one open case at a time; it only goes forward, from the offer  *)
(* over the review to the human session and to its end; the summary only   *)
(* grows, and what is confirmed is the summary of that moment; and no case *)
(* goes to a human session or to a ticket unless it is confirmed then.     *)
(***************************************************************************)
EXTENDS Naturals

CONSTANTS
    Cases,      \* case ids
    Messages,   \* what a summary may take up
    None

VARIABLES
    cases,      \* cases[c]: the status and the summary of a case
    current     \* the open case, or None

vars == <<cases, current>>

Review == {"SUMMARY_REVIEW", "AWAITING_SUPPLEMENT"}
Ended == {"CLOSED", "CANCELLED", "FAILED", "EXPIRED", "ROUTED_TO_TICKET"}
Statuses == {"OFFERED", "DEMO_ACTIVE"} \cup Review \cup Ended

Phase(s) ==
    CASE s = "OFFERED" -> 1
      [] s \in Review -> 2
      [] s = "DEMO_ACTIVE" -> 3
      [] s \in Ended -> 4

Absent == [status |-> "absent", notes |-> {}, confirmed |-> FALSE]
Offered == [status |-> "OFFERED", notes |-> {}, confirmed |-> FALSE]

\* At first there is no case, or an open one, whose human session was confirmed.
Init ==
    \/ cases = [c \in Cases |-> Absent] /\ current = None
    \/ \E c \in Cases, s \in Statuses \ Ended :
          /\ cases = [k \in Cases |->
                IF k = c THEN [Offered EXCEPT !.status = s, !.confirmed = (s = "DEMO_ACTIVE")]
                ELSE Absent]
          /\ current = c

Open(c) ==
    /\ current = None
    /\ cases[c] = Absent
    /\ cases' = [cases EXCEPT ![c] = Offered]
    /\ current' = c

\* The requester may still change the summary, or confirm it.
Editable(c) == current = c /\ cases[c].status \in Review \cup {"OFFERED"}

Confirm(c) ==
    /\ Editable(c)
    /\ cases' = [cases EXCEPT ![c].confirmed = TRUE]
    /\ UNCHANGED current

TakeUp(c, m) ==
    /\ Editable(c)
    /\ cases' = [cases EXCEPT ![c].notes = @ \cup {m}, ![c].confirmed = FALSE]
    /\ UNCHANGED current

Advance(c, s) ==
    /\ current = c
    /\ s # cases[c].status /\ Phase(s) >= Phase(cases[c].status)
    /\ s \in {"DEMO_ACTIVE", "ROUTED_TO_TICKET"} => cases[c].confirmed
    /\ cases' = [cases EXCEPT ![c].status = s]
    /\ current' = IF s \in Ended THEN None ELSE c

Next ==
    \E c \in Cases :
        \/ Open(c) \/ Confirm(c)
        \/ \E m \in Messages : TakeUp(c, m)
        \/ \E s \in Statuses : Advance(c, s)

LifecycleSpec == Init /\ [][Next]_vars
==============================================================================
