--------------------------- MODULE DeliveryOutbox ---------------------------
(***************************************************************************)
(* The durable outbox of operational events (agent_service/operations/     *)
(* delivery): a journal with one record per event and one delivery per     *)
(* target, and processes that claim deliveries under a lease, write to the *)
(* target and settle.  A process is a drain worker (run_forever) or a      *)
(* caller that appends an event and delivers it inline; both run the same  *)
(* rounds.  A call of the journal is one transaction and one step.         *)
(***************************************************************************)
EXTENDS Naturals, FiniteSets

CONSTANTS
    Events,       \* event ids
    Facts,        \* what an event may say (its fingerprint)
    Sinks,        \* the analytics sinks
    Primary,      \* the primary store, a target like the sinks
    None,
    Workers,      \* drain workers (run_forever)
    Callers,      \* ingestion calls that append and deliver inline
    BatchLimit,   \* leases that one round may take
    InlineSinks,  \* whether a caller also delivers to the sinks
    Store,        \* "FILE" or "FIRESTORE"
    MaxFaults     \* failing writes, early lease ends and crashes

ASSUME Assumptions ==
    /\ Primary \notin Sinks
    /\ Workers \cap Callers = {}
    /\ None \notin Facts /\ None \notin Events
    /\ BatchLimit \in Nat \ {0}
    /\ InlineSinks \in BOOLEAN
    /\ Store \in {"FILE", "FIRESTORE"}
    /\ MaxFaults \in Nat

Targets == Sinks \cup {Primary}
Processes == Workers \cup Callers

VARIABLES
    fact,      \* fact[e]: the fingerprint of the record of e, None without a record
    status,    \* status[e][t]: the delivery of e to t
    attempts,  \* attempts[e][t]: claims so far; stands for the token of the last
    due,       \* deliveries whose next_attempt or lease_until has passed
    past,      \* events whose expires_at has passed
    holds,     \* holds[e][t]: the fact that target t holds of e, or None
    late,      \* writes given up after the timeout that may still take effect
    phase,     \* phase[p]: where the round of process p stands
    scope,     \* scope[p]: the event of an inline delivery, or None
    rounds,    \* rounds[p]: claim rounds left
    leases,    \* leases[p]: the leases that p holds in this round
    faults

journal == <<fact, status, attempts, due>>
memory == <<phase, scope, rounds, leases>>
vars == <<journal, past, holds, late, memory, faults>>

Statuses == {"absent", "pending", "leased", "done", "conflict", "expired"}
Answers == {"none", "written", "conflict", "error"}
Leases == [event : Events, target : Targets, token : Nat, answer : Answers]

TypeOK ==
    /\ fact \in [Events -> Facts \cup {None}]
    /\ status \in [Events -> [Targets -> Statuses]]
    /\ attempts \in [Events -> [Targets -> Nat]]
    /\ due \subseteq Events \X Targets
    /\ past \subseteq Events
    /\ holds \in [Events -> [Targets -> Facts \cup {None}]]
    /\ late \subseteq Events \X Targets
    /\ phase \in [Processes -> {"idle", "claiming", "delivering"}]
    /\ scope \in [Processes -> Events \cup {None}]
    /\ rounds \in [Processes -> 0 .. 2]
    /\ leases \in [Processes -> SUBSET Leases]
    /\ faults \in 0 .. MaxFaults

\* The primary may hold events from before the journal was introduced.
Init ==
    /\ fact = [e \in Events |-> None]
    /\ status = [e \in Events |-> [t \in Targets |-> "absent"]]
    /\ attempts = [e \in Events |-> [t \in Targets |-> 0]]
    /\ due = {}
    /\ past = {}
    /\ \E old \in [Events -> Facts \cup {None}] :
           holds = [e \in Events |->
                       [t \in Targets |-> IF t = Primary THEN old[e] ELSE None]]
    /\ late = {}
    /\ phase = [p \in Processes |-> "idle"]
    /\ scope = [p \in Processes |-> None]
    /\ rounds = [p \in Processes |-> 0]
    /\ leases = [p \in Processes |-> {}]
    /\ faults = 0

-----------------------------------------------------------------------------
(* The journal *)

Record(e) == {<<e, t>> : t \in Targets}
Expired(e) == "expired" \in {status[e][t] : t \in Targets}
MustExpire(e) == e \in past /\ ~Expired(e)

\* expire_record: the body goes and every delivery is over, the done ones too.
ExpireRecord(e) ==
    /\ status' = [status EXCEPT ![e] = [t \in Targets |-> "expired"]]
    /\ due' = due \ Record(e)
    /\ UNCHANGED <<fact, attempts>>

\* What is left of an expiry found by a call that answers nothing: Firestore
\* writes the record back only if the call changed it otherwise.
ExpireOnTheWay(e) ==
    IF Store = "FILE" THEN ExpireRecord(e) ELSE UNCHANGED journal

\* register: another fact under the same id is a conflict; a known record keeps
\* its deliveries.  An event that is past already is stored as expired.
Register(e, f) ==
    /\ fact[e] \in {None, f}
    /\ fact' = [fact EXCEPT ![e] = f]
    /\ UNCHANGED attempts
    /\ CASE e \in past ->
               /\ status' = [status EXCEPT ![e] = [t \in Targets |-> "expired"]]
               /\ due' = due \ Record(e)
         [] e \notin past /\ fact[e] = None ->
               /\ status' = [status EXCEPT ![e] = [t \in Targets |-> "pending"]]
               /\ due' = due \cup Record(e)
         [] OTHER -> UNCHANGED <<status, due>>

\* Variant: a sink may be claimed as soon as the primary is being written.
Available_Leased(e) ==
    IF status[e][Primary] \in {"done", "leased"} THEN Targets ELSE {Primary}

\* update_wake and claim_record agree on this: sinks wait for the primary.
Available(e) == IF status[e][Primary] = "done" THEN Targets ELSE {Primary}

Claimable(e) ==
    {t \in Available(e) : status[e][t] \in {"pending", "leased"} /\ <<e, t>> \in due}

ClaimTargets(e, ts) ==
    /\ status' = [status EXCEPT ![e] =
                     [t \in Targets |-> IF t \in ts THEN "leased" ELSE @[t]]]
    /\ attempts' = [attempts EXCEPT ![e] =
                     [t \in Targets |-> IF t \in ts THEN @[t] + 1 ELSE @[t]]]
    /\ due' = due \ {<<e, t>> : t \in ts}
    /\ UNCHANGED fact

\* settle_record: whose lease it is, and that it has not run out.
Owns(l) ==
    /\ status[l.event][l.target] = "leased"
    /\ attempts[l.event][l.target] = l.token
    /\ <<l.event, l.target>> \notin due

\* Variant: a failed write counts as delivered.
SettledAs_Optimistic(l) == IF l.answer = "conflict" THEN "conflict" ELSE "done"

\* Variant: a failed write is put aside.
SettledAs_Discard(l) == IF l.answer = "written" THEN "done" ELSE "conflict"

SettledAs(l) ==
    CASE l.answer = "written" -> "done"
      [] l.answer = "conflict" -> "conflict"
      [] OTHER -> "pending"

-----------------------------------------------------------------------------
(* Processes *)

\* CompositeOperationalStore.append up to its journal.put.
Append(p, e, f) ==
    /\ phase[p] = "idle"
    /\ Register(e, f)
    /\ phase' = [phase EXCEPT ![p] = "claiming"]
    /\ scope' = [scope EXCEPT ![p] = e]
    /\ rounds' = [rounds EXCEPT ![p] = 2]
    /\ UNCHANGED <<leases, past, holds, late, faults>>

\* run_once of a drain worker; a poll that finds nothing changes nothing.
Poll(p) ==
    /\ phase[p] = "idle"
    /\ \E e \in Events : Claimable(e) # {}
    /\ phase' = [phase EXCEPT ![p] = "claiming"]
    /\ rounds' = [rounds EXCEPT ![p] = 1]
    /\ UNCHANGED <<journal, scope, leases, past, holds, late, faults>>

Wanted(p) == IF scope[p] # None /\ ~InlineSinks THEN {Primary} ELSE Targets

\* claim_record in the transaction of its record, within the limit of the round.
ClaimRecord(p, e) ==
    /\ phase[p] = "claiming"
    /\ scope[p] \in {None, e}
    /\ fact[e] # None
    /\ IF MustExpire(e)
       THEN ExpireOnTheWay(e) /\ UNCHANGED leases
       ELSE \E ts \in SUBSET (Claimable(e) \cap Wanted(p)) :
               LET room == BatchLimit - Cardinality(leases[p])
               IN  /\ ts # {}
                   /\ \/ ts = Claimable(e) \cap Wanted(p)
                      \/ Cardinality(ts) = room
                   /\ Cardinality(ts) <= room
                   /\ ClaimTargets(e, ts)
                   /\ leases' = [leases EXCEPT ![p] = @ \cup
                         {[event |-> e, target |-> t, answer |-> "none",
                           token |-> attempts[e][t] + 1] : t \in ts}]
    /\ UNCHANGED <<phase, scope, rounds, past, holds, late, faults>>

\* The claim of the round is over: nothing left to claim, or the limit reached,
\* or what has become due meanwhile was not in the listing.
StartDelivery(p) ==
    /\ phase[p] = "claiming"
    /\ leases[p] # {}
    /\ phase' = [phase EXCEPT ![p] = "delivering"]
    /\ UNCHANGED <<journal, scope, rounds, leases, past, holds, late, faults>>

NothingClaimed(p) ==
    /\ phase[p] = "claiming"
    /\ leases[p] = {}
    /\ \A e \in Events : scope[p] \in {None, e} =>
           MustExpire(e) \/ Claimable(e) \cap Wanted(p) = {}
    /\ phase' = [phase EXCEPT ![p] = "idle"]
    /\ scope' = [scope EXCEPT ![p] = None]
    /\ rounds' = [rounds EXCEPT ![p] = 0]
    /\ UNCHANGED <<journal, leases, past, holds, late, faults>>

Answered(p, l, answer) ==
    leases' = [leases EXCEPT ![p] = (@ \ {l}) \cup {[l EXCEPT !.answer = answer]}]

\* Variant: an event that is already there is taken for the same event.
Write_NoCompare(p, l) ==
    /\ phase[p] = "delivering" /\ l \in leases[p] /\ l.answer = "none"
    /\ LET e == l.event
           t == l.target
       IN  /\ Answered(p, l, "written")
           /\ holds' = [holds EXCEPT ![e][t] =
                           IF t = Primary /\ @ # None THEN @ ELSE fact[e]]
    /\ UNCHANGED <<journal, phase, scope, rounds, past, late, faults>>

\* _write: the primary takes an event once and refuses another fact; a sink
\* takes whatever it is given.
Write(p, l) ==
    /\ phase[p] = "delivering" /\ l \in leases[p] /\ l.answer = "none"
    /\ LET e == l.event
           t == l.target
           conflicting == t = Primary /\ holds[e][t] \notin {None, fact[e]}
       IN  IF conflicting
           THEN Answered(p, l, "conflict") /\ UNCHANGED holds
           ELSE /\ Answered(p, l, "written")
                /\ holds' = [holds EXCEPT ![e][t] = fact[e]]
    /\ UNCHANGED <<journal, phase, scope, rounds, past, late, faults>>

\* The target fails, or does not answer in time; a write that timed out runs on.
WriteFails(p, l) ==
    /\ phase[p] = "delivering" /\ l \in leases[p] /\ l.answer = "none"
    /\ faults < MaxFaults /\ faults' = faults + 1
    /\ Answered(p, l, "error")
    /\ late' \in {late, late \cup {<<l.event, l.target>>}}
    /\ UNCHANGED <<journal, phase, scope, rounds, past, holds>>

LateWrite(e, t) ==
    /\ <<e, t>> \in late
    /\ late' = late \ {<<e, t>>}
    /\ holds' = IF t = Primary /\ holds[e][t] # None
                THEN holds ELSE [holds EXCEPT ![e][t] = fact[e]]
    /\ UNCHANGED <<journal, past, memory, faults>>

\* settle: an expired record is given up, and a lost lease changes nothing.
Settle(p, l) ==
    /\ phase[p] = "delivering" /\ l \in leases[p] /\ l.answer # "none"
    /\ leases' = [leases EXCEPT ![p] = @ \ {l}]
    /\ CASE MustExpire(l.event) -> ExpireOnTheWay(l.event)
         [] ~MustExpire(l.event) /\ Owns(l) ->
               /\ status' = [status EXCEPT ![l.event][l.target] = SettledAs(l)]
               /\ UNCHANGED <<fact, attempts, due>>
         [] OTHER -> UNCHANGED journal
    /\ UNCHANGED <<phase, scope, rounds, past, holds, late, faults>>

\* The gather of the round is through; deliver_event has at most two rounds.
EndRound(p) ==
    /\ phase[p] = "delivering" /\ leases[p] = {}
    /\ rounds' = [rounds EXCEPT ![p] = @ - 1]
    /\ IF rounds[p] > 1
       THEN phase' = [phase EXCEPT ![p] = "claiming"] /\ UNCHANGED scope
       ELSE /\ phase' = [phase EXCEPT ![p] = "idle"]
            /\ scope' = [scope EXCEPT ![p] = None]
    /\ UNCHANGED <<journal, leases, past, holds, late, faults>>

\* reconcile_primary registers what the primary holds already.
Reconcile(p, e) ==
    /\ phase[p] = "idle"
    /\ holds[e][Primary] # None
    /\ Register(e, holds[e][Primary])
    /\ UNCHANGED <<memory, past, holds, late, faults>>

\* FileJournal.purge
Purge(e) ==
    /\ Store = "FILE"
    /\ fact[e] # None /\ MustExpire(e)
    /\ ExpireRecord(e)
    /\ UNCHANGED <<memory, past, holds, late, faults>>

\* The process is stopped; its leases stay in the journal.
Crash(p) ==
    /\ phase[p] # "idle"
    /\ faults < MaxFaults /\ faults' = faults + 1
    /\ phase' = [phase EXCEPT ![p] = "idle"]
    /\ scope' = [scope EXCEPT ![p] = None]
    /\ rounds' = [rounds EXCEPT ![p] = 0]
    /\ leases' = [leases EXCEPT ![p] = {}]
    /\ UNCHANGED <<journal, past, holds, late>>

-----------------------------------------------------------------------------
(* The clock *)

Attended(e, t) ==
    \E p \in Processes : \E l \in leases[p] :
        l.event = e /\ l.target = t /\ l.token = attempts[e][t]

\* A backoff ends, or a lease that nobody works under.
TimePasses(e, t) ==
    /\ <<e, t>> \notin due
    /\ status[e][t] = "pending" \/ (status[e][t] = "leased" /\ ~Attended(e, t))
    /\ due' = due \cup {<<e, t>>}
    /\ UNCHANGED <<fact, status, attempts, past, holds, late, memory, faults>>

\* A lease runs out under a process that is slow to settle: the timeout bounds
\* the write, not what comes before and after it.
LeaseRunsOut(e, t) ==
    /\ <<e, t>> \notin due
    /\ status[e][t] = "leased" /\ Attended(e, t)
    /\ faults < MaxFaults /\ faults' = faults + 1
    /\ due' = due \cup {<<e, t>>}
    /\ UNCHANGED <<fact, status, attempts, past, holds, late, memory>>

RetentionEnds(e) ==
    /\ e \notin past
    /\ past' = past \cup {e}
    /\ UNCHANGED <<journal, holds, late, memory, faults>>

Step(p) ==
    \/ \E e \in Events : ClaimRecord(p, e)
    \/ StartDelivery(p)
    \/ NothingClaimed(p)
    \/ \E l \in leases[p] : Write(p, l) \/ WriteFails(p, l) \/ Settle(p, l)
    \/ EndRound(p)

Next ==
    \/ \E p \in Processes : Step(p) \/ Crash(p)
    \/ \E p \in Workers : Poll(p) \/ \E e \in Events : Reconcile(p, e)
    \/ \E p \in Callers, e \in Events, f \in Facts : Append(p, e, f)
    \/ \E e \in Events :
          \/ Purge(e)
          \/ RetentionEnds(e)
          \/ \E t \in Targets :
                LateWrite(e, t) \/ TimePasses(e, t) \/ LeaseRunsOut(e, t)

Spec == Init /\ [][Next]_vars

\* Workers poll for ever and their calls return or time out; clocks advance.
Fairness ==
    /\ \A p \in Processes : WF_vars(Step(p))
    /\ \A p \in Workers : WF_vars(Poll(p))
    /\ \A e \in Events, t \in Targets : WF_vars(TimePasses(e, t))

FairSpec == Spec /\ Fairness

-----------------------------------------------------------------------------
(* Properties *)

\* No target is ahead of the journal, and no sink is ahead of the primary: what
\* a sink holds, the primary holds as the same fact (claim_record lets sinks be
\* claimed only when the primary is done, over retries and late writes).
NoSinkAhead ==
    \A e \in Events, s \in Sinks :
        holds[e][s] # None => holds[e][Primary] = holds[e][s]

\* A delivery that the journal calls done has taken place, with the fact that
\* was accepted, whoever settled it and however often it was tried.
DoneIsDelivered ==
    \A e \in Events, t \in Targets :
        status[e][t] = "done" => holds[e][t] = fact[e] /\ fact[e] # None

\* The outbox does what EventDelivery says: the journal's fact is the accepted
\* one, a target is reached when it holds that fact, and a record without open
\* deliveries is over.
Over(e) ==
    \/ e \in past
    \/ status[e][Primary] = "conflict"

Delivery == INSTANCE EventDelivery WITH
    accepted <- fact,
    reached <- [e \in Events |->
                   {t \in Targets : fact[e] # None /\ holds[e][t] = fact[e]}],
    acknowledged <- [e \in Events |-> {t \in Targets : status[e][t] = "done"}],
    over <- {e \in Events : fact[e] # None /\ Over(e)}

DeliverySpec == Delivery!DeliverySpec

\* An accepted event is acknowledged by every target, unless its retention ends
\* or the primary holds another fact: no crash, failing target or lost lease
\* leaves a delivery that nobody takes up.
EventsSettle == Delivery!EveryEventSettles
=============================================================================
