------------------------ MODULE DeliveryOutboxProofs ------------------------
(***************************************************************************)
(* What the outbox guarantees for every set of events, targets and         *)
(* processes and every number of faults: types, that no sink is ahead of   *)
(* the primary, that what is called done was delivered, and that its steps *)
(* are steps of EventDelivery.  The argument rests on two facts: a target  *)
(* that holds the accepted fact keeps it, and a sink is only ever written  *)
(* under a lease that was given when the primary was done.                 *)
(***************************************************************************)
EXTENDS DeliveryOutbox, TLAPS

\* The fact and the deliveries of a record agree: the deliveries are there when
\* the record is, they expire together, and a sink's starts after the primary's.
JournalSound ==
    \A e \in Events :
        /\ \A t \in Targets : status[e][t] = "absent" <=> fact[e] = None
        /\ \A t \in Targets : status[e][t] = "expired" <=> Expired(e)
        /\ \A s \in Sinks :
              /\ status[e][s] \in {"leased", "done"} => status[e][Primary] = "done"
              /\ status[e][s] # "conflict"

\* What a lease stands for, beyond the journal: a sink's is given when the
\* primary holds the fact, and an answer tells what the write came to.
LeaseSound(l) ==
    /\ fact[l.event] # None
    /\ l.target # Primary => holds[l.event][Primary] = fact[l.event]
    /\ l.answer = "written" => holds[l.event][l.target] = fact[l.event]
    /\ l.answer = "conflict" => l.target = Primary

LeasesSound == \A p \in Processes : \A l \in leases[p] : LeaseSound(l)

LateSound ==
    \A e \in Events, t \in Targets :
        <<e, t>> \in late =>
            fact[e] # None /\ (t # Primary => holds[e][Primary] = fact[e])

\* A sink holds nothing but the accepted fact.
SinksHold ==
    \A e \in Events, s \in Sinks :
        holds[e][s] # None => fact[e] # None /\ holds[e][s] = fact[e]

RoundsLeft == \A p \in Processes : phase[p] # "idle" => rounds[p] \in 1 .. 2

Inv ==
    /\ TypeOK /\ RoundsLeft
    /\ JournalSound /\ DoneIsDelivered
    /\ SinksHold /\ NoSinkAhead
    /\ LeasesSound /\ LateSound

USE Assumptions

-----------------------------------------------------------------------------
(* Frames *)

\* What a target holds of the accepted fact, it keeps.
Kept ==
    \A e \in Events : fact[e] # None =>
        /\ fact'[e] = fact[e]
        /\ \A t \in Targets : holds[e][t] = fact[e] => holds'[e][t] = fact[e]

\* A lease that is not touched stays sound.
LEMMA LeaseStays ==
    ASSUME TypeOK, Kept, NEW l \in Leases, LeaseSound(l)
    PROVE  LeaseSound(l)'
BY DEF TypeOK, Kept, LeaseSound, Leases, Targets

\* A process that gives leases up, or changes none, leaves them sound.
LEMMA FewerLeases ==
    ASSUME TypeOK, Kept, LeasesSound,
           \A p \in Processes : leases'[p] \subseteq leases[p]
    PROVE  LeasesSound'
<1>. SUFFICES ASSUME NEW p \in Processes, NEW l \in leases'[p]
              PROVE  LeaseSound(l)'
    BY DEF LeasesSound
<1>1. l \in leases[p] /\ l \in Leases
    BY DEF TypeOK
<1>. QED
    BY <1>1, LeaseStays DEF LeasesSound

\* Steps that write to no target and register nothing.
LEMMA SameHoldings ==
    ASSUME Inv, UNCHANGED <<fact, holds>>
    PROVE  Kept /\ SinksHold' /\ NoSinkAhead'
BY DEF Inv, Kept, SinksHold, NoSinkAhead, TypeOK

LEMMA SameLate ==
    ASSUME TypeOK, Kept, LateSound, late' \subseteq late
    PROVE  LateSound'
BY DEF LateSound, Kept, TypeOK, Targets

LEMMA SameJournal ==
    ASSUME Inv, UNCHANGED <<fact, status>>
    PROVE  JournalSound'
BY DEF Inv, JournalSound, Expired

LEMMA SameDone ==
    ASSUME Inv, Kept, UNCHANGED <<fact, status>>
    PROVE  DoneIsDelivered'
BY DEF Inv, DoneIsDelivered, Kept

\* What a write into one target leaves.
LEMMA PutHolding ==
    ASSUME TypeOK, NEW e \in Events, NEW t \in Targets, fact[e] \in Facts,
           UNCHANGED holds \/ holds' = [holds EXCEPT ![e][t] = fact[e]]
    PROVE  /\ holds' \in [Events -> [Targets -> Facts \cup {None}]]
           /\ \A d \in Events, u \in Targets :
                 holds'[d][u] = holds[d][u] \/ (d = e /\ u = t /\ holds'[d][u] = fact[e])
<1>1. CASE UNCHANGED holds
    BY <1>1 DEF TypeOK
<1>2. CASE holds' = [holds EXCEPT ![e][t] = fact[e]]
  <2>1. [holds[e] EXCEPT ![t] = fact[e]] \in [Targets -> Facts \cup {None}]
      BY DEF TypeOK
  <2>2. holds' = [holds EXCEPT ![e] = [holds[e] EXCEPT ![t] = fact[e]]]
      BY <1>2
  <2>. QED
      BY <2>1, <2>2 DEF TypeOK
<1>. QED
    BY <1>1, <1>2

-----------------------------------------------------------------------------
(* The journal *)

LEMMA ExpireKeepsInv ==
    ASSUME Inv, NEW e \in Events, fact[e] # None, ExpireRecord(e), UNCHANGED holds
    PROVE  /\ JournalSound' /\ DoneIsDelivered'
           /\ status' \in [Events -> [Targets -> Statuses]]
           /\ due' \subseteq Events \X Targets
<1>. USE DEF Inv, TypeOK, ExpireRecord
<1>1. status' \in [Events -> [Targets -> Statuses]] /\ due' \subseteq Events \X Targets
    BY DEF Statuses
<1>2. \A t \in Targets : status'[e][t] = "expired"
    OBVIOUS
<1>3. \A d \in Events : d # e => status'[d] = status[d]
    OBVIOUS
<1>4. JournalSound'
    BY <1>2, <1>3 DEF JournalSound, Expired, Targets
<1>5. DoneIsDelivered'
    BY <1>2, <1>3 DEF DoneIsDelivered
<1>. QED
    BY <1>1, <1>4, <1>5

LEMMA RegisterKeepsInv ==
    ASSUME Inv, NEW e \in Events, NEW f \in Facts, Register(e, f), UNCHANGED holds
    PROVE  /\ JournalSound' /\ DoneIsDelivered' /\ SinksHold' /\ NoSinkAhead' /\ Kept
           /\ fact' \in [Events -> Facts \cup {None}]
           /\ status' \in [Events -> [Targets -> Statuses]]
           /\ due' \subseteq Events \X Targets
<1>. USE DEF Inv, TypeOK, Register
<1>1. fact' \in [Events -> Facts \cup {None}] /\ fact'[e] = f /\ f # None
    OBVIOUS
<1>2. \A d \in Events : d # e => fact'[d] = fact[d]
    OBVIOUS
<1>3. status' \in [Events -> [Targets -> Statuses]] /\ due' \subseteq Events \X Targets
  <2>. Record(e) \subseteq Events \X Targets
      BY DEF Record
  <2>1. CASE e \in past
    <3>1. /\ status' = [status EXCEPT ![e] = [t \in Targets |-> "expired"]]
          /\ due' = due \ Record(e)
        BY <2>1
    <3>. QED
        BY <3>1 DEF Statuses
  <2>2. CASE e \notin past /\ fact[e] = None
    <3>1. /\ status' = [status EXCEPT ![e] = [t \in Targets |-> "pending"]]
          /\ due' = due \cup Record(e)
        BY <2>2
    <3>. QED
        BY <3>1 DEF Statuses
  <2>3. CASE e \notin past /\ fact[e] # None
      BY <2>3
  <2>. QED
      BY <2>1, <2>2, <2>3
<1>4. \A d \in Events : d # e => status'[d] = status[d]
    OBVIOUS
<1>5. \/ \A t \in Targets : status'[e][t] = "expired"
      \/ \A t \in Targets : status'[e][t] = "pending"
      \/ status'[e] = status[e] /\ fact[e] = f
    OBVIOUS
<1>6. JournalSound'
    BY <1>1, <1>2, <1>4, <1>5 DEF JournalSound, Expired, Targets
<1>7. DoneIsDelivered'
    BY <1>1, <1>2, <1>4, <1>5 DEF DoneIsDelivered
<1>8. Kept
    BY <1>1, <1>2 DEF Kept
<1>9. SinksHold' /\ NoSinkAhead'
    BY <1>1, <1>2 DEF SinksHold, NoSinkAhead
<1>. QED
    BY <1>1, <1>3, <1>6, <1>7, <1>8, <1>9

-----------------------------------------------------------------------------
(* Processes *)

\* The steps of the journal that leave everything but the deliveries alone.
LEMMA OnTheWayKeepsInv ==
    ASSUME Inv, NEW e \in Events, fact[e] # None, ExpireOnTheWay(e),
           UNCHANGED <<memory, past, holds, late, faults>>
    PROVE  Inv'
<1>1. UNCHANGED <<fact, attempts>>
    BY DEF ExpireOnTheWay, ExpireRecord, journal
<1>2. /\ JournalSound' /\ DoneIsDelivered'
      /\ status' \in [Events -> [Targets -> Statuses]]
      /\ due' \subseteq Events \X Targets
  <2>1. CASE ExpireRecord(e)
      BY <2>1, ExpireKeepsInv
  <2>2. CASE UNCHANGED journal
      BY <2>2, SameHoldings, SameJournal, SameDone DEF Inv, TypeOK, journal
  <2>. QED
      BY <2>1, <2>2 DEF ExpireOnTheWay
<1>3. TypeOK' /\ RoundsLeft'
    BY <1>1, <1>2 DEF Inv, TypeOK, RoundsLeft, memory
<1>4. Kept /\ SinksHold' /\ NoSinkAhead'
    BY <1>1, SameHoldings
<1>5. LeasesSound' /\ LateSound'
    BY <1>4, FewerLeases, SameLate DEF Inv, memory
<1>. QED
    BY <1>2, <1>3, <1>4, <1>5 DEF Inv

LEMMA AppendKeepsInv ==
    ASSUME Inv, NEW p \in Processes, NEW e \in Events, NEW f \in Facts, Append(p, e, f)
    PROVE  Inv'
<1>1. /\ JournalSound' /\ DoneIsDelivered' /\ SinksHold' /\ NoSinkAhead' /\ Kept
      /\ fact' \in [Events -> Facts \cup {None}]
      /\ status' \in [Events -> [Targets -> Statuses]]
      /\ due' \subseteq Events \X Targets
    BY RegisterKeepsInv DEF Append
<1>2. TypeOK' /\ RoundsLeft'
    BY <1>1 DEF Inv, TypeOK, RoundsLeft, Append, Register
<1>3. LeasesSound' /\ LateSound'
    BY <1>1, FewerLeases, SameLate DEF Inv, Append
<1>. QED
    BY <1>1, <1>2, <1>3 DEF Inv

LEMMA ReconcileKeepsInv ==
    ASSUME Inv, NEW p \in Processes, NEW e \in Events, Reconcile(p, e)
    PROVE  Inv'
<1>1. holds[e][Primary] \in Facts
    BY DEF Inv, TypeOK, Reconcile, Targets
<1>2. /\ JournalSound' /\ DoneIsDelivered' /\ SinksHold' /\ NoSinkAhead' /\ Kept
      /\ fact' \in [Events -> Facts \cup {None}]
      /\ status' \in [Events -> [Targets -> Statuses]]
      /\ due' \subseteq Events \X Targets
    BY <1>1, RegisterKeepsInv DEF Reconcile
<1>3. TypeOK' /\ RoundsLeft'
    BY <1>2 DEF Inv, TypeOK, RoundsLeft, Reconcile, Register, memory
<1>4. LeasesSound' /\ LateSound'
    BY <1>2, FewerLeases, SameLate DEF Inv, Reconcile, memory
<1>. QED
    BY <1>2, <1>3, <1>4 DEF Inv

\* A claim: what is claimed was pending or leased, and of a sink only when the
\* primary is done, so that it holds the fact.
LEMMA ClaimKeepsInv ==
    ASSUME Inv, NEW p \in Processes, NEW e \in Events, ClaimRecord(p, e)
    PROVE  Inv'
<1>1. CASE MustExpire(e)
    BY <1>1, OnTheWayKeepsInv DEF ClaimRecord, memory
<1>2. CASE ~MustExpire(e)
  <2>1. PICK ts \in SUBSET (Claimable(e) \cap Wanted(p)) :
           /\ ClaimTargets(e, ts)
           /\ leases' = [leases EXCEPT ![p] = @ \cup
                    {[event |-> e, target |-> t, answer |-> "none",
                      token |-> attempts[e][t] + 1] : t \in ts}]
      BY <1>2 DEF ClaimRecord
  <2>2. /\ ts \subseteq Targets
        /\ \A t \in ts : status[e][t] \in {"pending", "leased"}
        /\ \A t \in ts : t # Primary => status[e][Primary] = "done"
      BY DEF Claimable, Available, Targets
  <2>3. /\ status' = [status EXCEPT ![e] =
                         [t \in Targets |-> IF t \in ts THEN "leased" ELSE @[t]]]
        /\ UNCHANGED <<fact, holds, late>>
      BY <2>1 DEF ClaimTargets, ClaimRecord
  <2>4. /\ status' \in [Events -> [Targets -> Statuses]]
        /\ \A d \in Events : d # e => status'[d] = status[d]
        /\ \A t \in Targets : status'[e][t] =
               IF t \in ts THEN "leased" ELSE status[e][t]
      BY <2>3 DEF Inv, TypeOK, Statuses
  <2>5. attempts' \in [Events -> [Targets -> Nat]] /\ due' \subseteq Events \X Targets
      BY <2>1 DEF ClaimTargets, Inv, TypeOK
  <2>6. leases' \in [Processes -> SUBSET Leases]
    <3>1. \A t \in ts : [event |-> e, target |-> t, answer |-> "none",
                          token |-> attempts[e][t] + 1] \in Leases
        BY <2>2 DEF Inv, TypeOK, Leases, Answers
    <3>. QED
        BY <2>1, <3>1 DEF Inv, TypeOK
  <2>7. TypeOK' /\ RoundsLeft'
      BY <2>3, <2>4, <2>5, <2>6 DEF Inv, TypeOK, RoundsLeft, ClaimRecord
  <2>8. JournalSound'
      BY <2>2, <2>3, <2>4 DEF Inv, JournalSound, Expired, Targets
  <2>9. DoneIsDelivered'
      BY <2>3, <2>4 DEF Inv, DoneIsDelivered
  <2>10. Kept /\ SinksHold' /\ NoSinkAhead'
      BY <2>3, SameHoldings
  <2>11. LateSound'
      BY <2>3, <2>10, SameLate DEF Inv
  <2>12. fact[e] # None
      BY DEF ClaimRecord
  <2>13. LeasesSound'
    <3>. SUFFICES ASSUME NEW q \in Processes, NEW l \in leases'[q]
                  PROVE  LeaseSound(l)'
        BY DEF LeasesSound
    <3>1. CASE l \in leases[q]
        BY <3>1, <2>10, LeaseStays DEF Inv, LeasesSound, TypeOK
    <3>2. CASE l \notin leases[q]
      <4>1. l.event = e /\ l.target \in ts /\ l.answer = "none"
          BY <3>2, <2>1 DEF Inv, TypeOK
      <4>2. l.target # Primary => holds[e][Primary] = fact[e]
          BY <4>1, <2>2 DEF Inv, DoneIsDelivered, Targets
      <4>. QED
          BY <4>1, <4>2, <2>3, <2>12 DEF LeaseSound
    <3>. QED
        BY <3>1, <3>2
  <2>. QED
      BY <2>7, <2>8, <2>9, <2>10, <2>11, <2>13 DEF Inv
<1>. QED
    BY <1>1, <1>2

\* A write: what it puts into a target is the accepted fact, and into a sink only
\* when the primary holds it.
LEMMA WriteKeepsInv ==
    ASSUME Inv, NEW p \in Processes, NEW l \in leases[p], Write(p, l)
    PROVE  Inv'
<1>. DEFINE e == l.event
            t == l.target
            conflicting == t = Primary /\ holds[e][t] \notin {None, fact[e]}
<1>1. l \in Leases /\ LeaseSound(l)
    BY DEF Inv, TypeOK, LeasesSound
<1>2. e \in Events /\ t \in Targets /\ fact[e] \in Facts
    BY <1>1 DEF Inv, TypeOK, Leases, LeaseSound
<1>3. UNCHANGED <<fact, status, late, phase, rounds, past, faults, attempts, due, scope>>
    BY DEF Write, journal
<1>4. \/ /\ conflicting
         /\ Answered(p, l, "conflict") /\ UNCHANGED holds
      \/ /\ ~conflicting
         /\ Answered(p, l, "written")
         /\ holds' = [holds EXCEPT ![e][t] = fact[e]]
    BY DEF Write
<1>5. /\ holds' \in [Events -> [Targets -> Facts \cup {None}]]
      /\ \A d \in Events, u \in Targets :
            holds'[d][u] = holds[d][u] \/ (d = e /\ u = t /\ holds'[d][u] = fact[e])
    BY <1>2, <1>4, PutHolding DEF Inv
<1>6. Kept
    BY <1>3, <1>5 DEF Kept
<1>7. SinksHold' /\ NoSinkAhead'
  <2>1. t # Primary => holds[e][Primary] = fact[e]
      BY <1>1 DEF LeaseSound
  <2>2. Primary \in Targets /\ Sinks \subseteq Targets
      BY DEF Targets
  <2>3. SinksHold'
      BY <1>2, <1>3, <1>5, <2>2 DEF Inv, SinksHold
  <2>4. SUFFICES ASSUME NEW d \in Events, NEW s \in Sinks, holds'[d][s] # None
                 PROVE  holds'[d][Primary] = holds'[d][s]
      BY <2>3 DEF NoSinkAhead
  <2>5. holds'[d][s] = fact[d] /\ fact[d] # None
      BY <2>3, <2>4, <1>3 DEF SinksHold
  <2>6. holds[d][Primary] = fact[d]
      BY <1>5, <2>1, <2>2, <2>4 DEF Inv, NoSinkAhead, SinksHold
  <2>. QED
      BY <2>2, <2>5, <2>6, <1>6 DEF Kept
<1>8. JournalSound' /\ DoneIsDelivered'
    BY <1>3, <1>6, SameJournal, SameDone
<1>9. LateSound'
    BY <1>3, <1>6, SameLate DEF Inv
<1>10. PICK answer \in {"conflict", "written"} :
          /\ leases' = [leases EXCEPT ![p] = (@ \ {l}) \cup {[l EXCEPT !.answer = answer]}]
          /\ answer = "conflict" => t = Primary
          /\ answer = "written" => holds'[e][t] = fact[e]
    BY <1>2, <1>4 DEF Answered, Inv, TypeOK
<1>11. [l EXCEPT !.answer = answer] \in Leases
    BY <1>1, <1>10 DEF Leases, Answers
<1>12. TypeOK' /\ RoundsLeft'
  <2>1. leases' \in [Processes -> SUBSET Leases]
      BY <1>10, <1>11 DEF Inv, TypeOK
  <2>. QED
      BY <2>1, <1>3, <1>5 DEF Inv, TypeOK, RoundsLeft
<1>13. LeasesSound'
  <2>. SUFFICES ASSUME NEW q \in Processes, NEW k \in leases'[q]
                PROVE  LeaseSound(k)'
      BY DEF LeasesSound
  <2>1. CASE k \in leases[q]
      BY <2>1, <1>6, LeaseStays DEF Inv, LeasesSound, TypeOK
  <2>2. CASE k \notin leases[q]
    <3>1. k.event = e /\ k.target = t /\ k.answer = answer
        BY <2>2, <1>1, <1>10 DEF Inv, TypeOK, Leases
    <3>. QED
        BY <3>1, <1>1, <1>2, <1>3, <1>6, <1>10 DEF LeaseSound, Kept, Targets
  <2>. QED
      BY <2>1, <2>2
<1>. QED
    BY <1>7, <1>8, <1>9, <1>12, <1>13 DEF Inv

LEMMA WriteFailsKeepsInv ==
    ASSUME Inv, NEW p \in Processes, NEW l \in leases[p], WriteFails(p, l)
    PROVE  Inv'
<1>1. l \in Leases /\ LeaseSound(l)
    BY DEF Inv, TypeOK, LeasesSound
<1>2. UNCHANGED <<fact, status, holds, phase, rounds, past, attempts, due, scope>>
    BY DEF WriteFails, journal
<1>3. leases' = [leases EXCEPT ![p] = (@ \ {l}) \cup {[l EXCEPT !.answer = "error"]}]
    BY DEF WriteFails, Answered
<1>4. [l EXCEPT !.answer = "error"] \in Leases
    BY <1>1 DEF Leases, Answers
<1>5. TypeOK' /\ RoundsLeft'
  <2>1. leases' \in [Processes -> SUBSET Leases]
      BY <1>3, <1>4 DEF Inv, TypeOK
  <2>2. late' \subseteq Events \X Targets
      BY <1>1 DEF Inv, TypeOK, WriteFails, Leases
  <2>3. faults' \in 0 .. MaxFaults
      BY DEF Inv, TypeOK, WriteFails
  <2>. QED
      BY <2>1, <2>2, <2>3, <1>2 DEF Inv, TypeOK, RoundsLeft
<1>6. Kept /\ SinksHold' /\ NoSinkAhead' /\ JournalSound' /\ DoneIsDelivered'
    BY <1>2, SameHoldings, SameJournal, SameDone
<1>7. LateSound'
  <2>1. \A e \in Events, t \in Targets :
           <<e, t>> \in late' => <<e, t>> \in late \/ (e = l.event /\ t = l.target)
      BY DEF WriteFails
  <2>. QED
      BY <2>1, <1>1, <1>2 DEF Inv, LateSound, LeaseSound
<1>8. LeasesSound'
  <2>. SUFFICES ASSUME NEW q \in Processes, NEW k \in leases'[q]
                PROVE  LeaseSound(k)'
      BY DEF LeasesSound
  <2>1. CASE k \in leases[q]
      BY <2>1, <1>6, LeaseStays DEF Inv, LeasesSound, TypeOK
  <2>2. CASE k \notin leases[q]
    <3>1. k.event = l.event /\ k.target = l.target /\ k.answer = "error"
        BY <2>2, <1>1, <1>3 DEF Inv, TypeOK, Leases
    <3>. QED
        BY <3>1, <1>1, <1>2 DEF LeaseSound
  <2>. QED
      BY <2>1, <2>2
<1>. QED
    BY <1>5, <1>6, <1>7, <1>8 DEF Inv

\* A write that took effect after its lease was given up.
LEMMA LateWriteKeepsInv ==
    ASSUME Inv, NEW e \in Events, NEW t \in Targets, LateWrite(e, t)
    PROVE  Inv'
<1>1. /\ fact[e] # None /\ fact[e] \in Facts
      /\ t # Primary => holds[e][Primary] = fact[e]
    BY DEF Inv, TypeOK, LateSound, LateWrite
<1>2. UNCHANGED <<journal, past, memory, faults>> /\ late' \subseteq late
    BY DEF LateWrite
<1>3. \/ UNCHANGED holds
      \/ /\ t = Primary => holds[e][t] = None
         /\ holds' = [holds EXCEPT ![e][t] = fact[e]]
    BY DEF LateWrite
<1>4. /\ holds' \in [Events -> [Targets -> Facts \cup {None}]]
      /\ \A d \in Events, u \in Targets :
            holds'[d][u] = holds[d][u] \/ (d = e /\ u = t /\ holds'[d][u] = fact[e])
    BY <1>1, <1>3, PutHolding DEF Inv
<1>5. Kept
    BY <1>2, <1>4 DEF Kept, journal
<1>6. SinksHold' /\ NoSinkAhead'
  <2>1. Primary \in Targets /\ Sinks \subseteq Targets
      BY DEF Targets
  <2>2. SinksHold'
      BY <1>1, <1>2, <1>4, <2>1 DEF Inv, SinksHold, journal
  <2>3. SUFFICES ASSUME NEW d \in Events, NEW s \in Sinks, holds'[d][s] # None
                 PROVE  holds'[d][Primary] = holds'[d][s]
      BY <2>2 DEF NoSinkAhead
  <2>4. holds'[d][s] = fact[d] /\ fact[d] # None
      BY <2>2, <2>3, <1>2 DEF SinksHold, journal
  <2>5. holds[d][Primary] = fact[d]
      BY <1>1, <1>4, <2>1, <2>3 DEF Inv, NoSinkAhead, SinksHold
  <2>. QED
      BY <2>1, <2>4, <2>5, <1>5 DEF Kept
<1>7. TypeOK' /\ RoundsLeft'
    BY <1>2, <1>4 DEF Inv, TypeOK, RoundsLeft, journal, memory
<1>8. JournalSound' /\ DoneIsDelivered' /\ LateSound' /\ LeasesSound'
    BY <1>2, <1>5, SameJournal, SameDone, SameLate, FewerLeases DEF Inv, journal, memory
<1>. QED
    BY <1>6, <1>7, <1>8 DEF Inv

\* What a settlement under the lease does to the journal.
LEMMA SettledStatus ==
    ASSUME Inv, NEW p \in Processes, NEW l \in leases[p],
           l.answer # "none", Owns(l),
           status' = [status EXCEPT ![l.event][l.target] = SettledAs(l)],
           UNCHANGED <<fact, holds>>
    PROVE  /\ status' \in [Events -> [Targets -> Statuses]]
           /\ JournalSound' /\ DoneIsDelivered'
<1>. DEFINE e == l.event
            t == l.target
<1>1. l \in Leases /\ LeaseSound(l) /\ e \in Events /\ t \in Targets
    BY DEF Inv, TypeOK, LeasesSound, Leases
<1>2. /\ SettledAs(l) \in {"done", "conflict", "pending"}
      /\ SettledAs(l) = "done" => l.answer = "written"
      /\ SettledAs(l) = "conflict" => t = Primary
    BY <1>1 DEF SettledAs, LeaseSound
<1>3. /\ status' \in [Events -> [Targets -> Statuses]]
      /\ \A d \in Events, u \in Targets :
            status'[d][u] = IF d = e /\ u = t THEN SettledAs(l) ELSE status[d][u]
    BY <1>1, <1>2 DEF Inv, TypeOK, Statuses
<1>4. status[e][t] = "leased"
    BY DEF Owns
<1>5. JournalSound'
  <2>. SUFFICES ASSUME NEW d \in Events
                PROVE  /\ \A u \in Targets : status'[d][u] = "absent" <=> fact[d] = None
                       /\ \A u \in Targets : status'[d][u] = "expired" <=> Expired(d)'
                       /\ \A s \in Sinks :
                             /\ status'[d][s] \in {"leased", "done"}
                                  => status'[d][Primary] = "done"
                             /\ status'[d][s] # "conflict"
      BY DEF JournalSound
  <2>1. \A u \in Targets : status'[d][u] = "absent" <=> fact[d] = None
      BY <1>2, <1>3, <1>4 DEF Inv, JournalSound
  <2>2. \A u \in Targets : status'[d][u] = "expired" <=> Expired(d)'
    <3>1. CASE d = e
      <4>1. \A u \in Targets : status[d][u] # "expired"
          BY <3>1, <1>1, <1>4 DEF Inv, JournalSound
      <4>. QED
          BY <3>1, <4>1, <1>2, <1>3 DEF Expired
    <3>2. CASE d # e
        BY <3>2, <1>3 DEF Inv, JournalSound, Expired
    <3>. QED
        BY <3>1, <3>2
  <2>3. ASSUME NEW s \in Sinks
        PROVE  /\ status'[d][s] \in {"leased", "done"} => status'[d][Primary] = "done"
               /\ status'[d][s] # "conflict"
      BY <1>1, <1>2, <1>3, <1>4 DEF Inv, JournalSound, Targets
  <2>. QED
      BY <2>1, <2>2, <2>3
<1>6. DoneIsDelivered'
    BY <1>1, <1>2, <1>3 DEF Inv, DoneIsDelivered, LeaseSound
<1>. QED
    BY <1>3, <1>5, <1>6

LEMMA SettleKeepsInv ==
    ASSUME Inv, NEW p \in Processes, NEW l \in leases[p], Settle(p, l)
    PROVE  Inv'
<1>1. l \in Leases /\ l.event \in Events /\ fact[l.event] # None
    BY DEF Inv, TypeOK, LeasesSound, LeaseSound, Leases
<1>2. /\ leases' = [leases EXCEPT ![p] = @ \ {l}]
      /\ UNCHANGED <<fact, attempts, phase, scope, rounds, past, holds, late, faults>>
    BY DEF Settle, ExpireOnTheWay, ExpireRecord, journal
<1>3. /\ status' \in [Events -> [Targets -> Statuses]]
      /\ due' \subseteq Events \X Targets
      /\ JournalSound' /\ DoneIsDelivered'
  <2>1. CASE ExpireRecord(l.event)
      BY <2>1, <1>1, <1>2, ExpireKeepsInv
  <2>2. CASE UNCHANGED journal
      BY <2>2, <1>2, SameHoldings, SameJournal, SameDone DEF Inv, TypeOK, journal
  <2>3. CASE /\ Owns(l)
             /\ status' = [status EXCEPT ![l.event][l.target] = SettledAs(l)]
             /\ UNCHANGED <<fact, attempts, due>>
      BY <2>3, <1>2, SettledStatus DEF Settle, Inv, TypeOK
  <2>. QED
      BY <2>1, <2>2, <2>3 DEF Settle, ExpireOnTheWay
<1>4. Kept /\ SinksHold' /\ NoSinkAhead'
    BY <1>2, SameHoldings
<1>5. TypeOK' /\ RoundsLeft'
    BY <1>2, <1>3 DEF Inv, TypeOK, RoundsLeft
<1>6. \A q \in Processes : leases'[q] \subseteq leases[q]
    BY <1>2 DEF Inv, TypeOK
<1>7. LeasesSound' /\ LateSound'
    BY <1>2, <1>4, <1>6, FewerLeases, SameLate DEF Inv
<1>. QED
    BY <1>3, <1>4, <1>5, <1>7 DEF Inv

\* Steps that change no record and no target: rounds, crashes, clocks.
LEMMA BookkeepingKeepsInv ==
    ASSUME Inv, TypeOK', RoundsLeft', UNCHANGED <<fact, status, holds, late>>,
           \A p \in Processes : leases'[p] \subseteq leases[p]
    PROVE  Inv'
BY SameHoldings, SameJournal, SameDone, SameLate, FewerLeases DEF Inv

LEMMA RoundsKeepInv ==
    ASSUME Inv, NEW p \in Processes,
           StartDelivery(p) \/ NothingClaimed(p) \/ EndRound(p) \/ Poll(p) \/ Crash(p)
    PROVE  Inv'
<1>1. UNCHANGED <<fact, status, attempts, due, past, holds, late>>
    BY DEF StartDelivery, NothingClaimed, EndRound, Poll, Crash, journal
<1>2. \A q \in Processes : leases'[q] \subseteq leases[q]
    BY DEF StartDelivery, NothingClaimed, EndRound, Poll, Crash, Inv, TypeOK
<1>. DEFINE Typed == /\ phase \in [Processes -> {"idle", "claiming", "delivering"}]
                    /\ scope \in [Processes -> Events \cup {None}]
                    /\ rounds \in [Processes -> 0 .. 2]
                    /\ leases \in [Processes -> SUBSET Leases]
                    /\ faults \in 0 .. MaxFaults
<1>3. Typed' /\ RoundsLeft'
  <2>. Typed /\ RoundsLeft
      BY DEF Inv, TypeOK
  <2>1. CASE EndRound(p)
    <3>1. rounds[p] \in 1 .. 2
        BY <2>1 DEF EndRound, RoundsLeft
    <3>2. CASE rounds[p] > 1
        BY <2>1, <3>1, <3>2 DEF EndRound, RoundsLeft
    <3>3. CASE ~(rounds[p] > 1)
        BY <2>1, <3>1, <3>3 DEF EndRound, RoundsLeft
    <3>. QED
        BY <3>2, <3>3
  <2>2. CASE StartDelivery(p)
      BY <2>2 DEF StartDelivery, RoundsLeft
  <2>3. CASE NothingClaimed(p)
      BY <2>3 DEF NothingClaimed, RoundsLeft
  <2>4. CASE Poll(p)
      BY <2>4 DEF Poll, RoundsLeft
  <2>5. CASE Crash(p)
      BY <2>5 DEF Crash, RoundsLeft
  <2>. QED
      BY <2>1, <2>2, <2>3, <2>4, <2>5
<1>4. TypeOK'
    BY <1>1, <1>3 DEF Inv, TypeOK
<1>. QED
    BY <1>1, <1>2, <1>3, <1>4, BookkeepingKeepsInv

LEMMA ClockKeepsInv ==
    ASSUME Inv, NEW e \in Events, NEW t \in Targets,
           RetentionEnds(e) \/ TimePasses(e, t) \/ LeaseRunsOut(e, t)
    PROVE  Inv'
<1>1. /\ UNCHANGED <<fact, status, attempts, holds, late, memory>>
      /\ past' \subseteq Events /\ due' \subseteq Events \X Targets
      /\ faults' \in 0 .. MaxFaults
    BY DEF RetentionEnds, TimePasses, LeaseRunsOut, journal, Inv, TypeOK
<1>2. TypeOK' /\ RoundsLeft'
    BY <1>1 DEF Inv, TypeOK, RoundsLeft, memory
<1>. QED
    BY <1>1, <1>2, BookkeepingKeepsInv DEF memory

LEMMA PurgeKeepsInv ==
    ASSUME Inv, NEW e \in Events, Purge(e)
    PROVE  Inv'
BY OnTheWayKeepsInv DEF Purge, ExpireOnTheWay

-----------------------------------------------------------------------------
(* The invariant *)

LEMMA InitInv == Init => Inv
<1>. SUFFICES ASSUME Init PROVE Inv
    OBVIOUS
<1>1. PICK old \in [Events -> Facts \cup {None}] :
         holds = [e \in Events |-> [t \in Targets |-> IF t = Primary THEN old[e] ELSE None]]
    BY DEF Init
<1>2. holds \in [Events -> [Targets -> Facts \cup {None}]]
    BY <1>1
<1>3. TypeOK
    BY <1>2 DEF Init, TypeOK, Statuses
<1>4. RoundsLeft /\ JournalSound /\ DoneIsDelivered /\ LeasesSound /\ LateSound
    BY DEF Init, RoundsLeft, JournalSound, Expired, DoneIsDelivered, LeasesSound, LateSound,
           Targets
<1>5. \A e \in Events, s \in Sinks : holds[e][s] = None
    BY <1>1 DEF Targets
<1>6. SinksHold /\ NoSinkAhead
    BY <1>5 DEF SinksHold, NoSinkAhead
<1>. QED
    BY <1>3, <1>4, <1>6 DEF Inv

LEMMA NextKeepsInv == Inv /\ [Next]_vars => Inv'
<1>. SUFFICES ASSUME Inv, [Next]_vars PROVE Inv'
    OBVIOUS
<1>1. ASSUME NEW p \in Processes, Step(p) \/ Crash(p)
      PROVE  Inv'
    BY <1>1, ClaimKeepsInv, WriteKeepsInv, WriteFailsKeepsInv, SettleKeepsInv, RoundsKeepInv
       DEF Step
<1>2. ASSUME NEW p \in Workers, Poll(p) \/ \E e \in Events : Reconcile(p, e)
      PROVE  Inv'
    BY <1>2, RoundsKeepInv, ReconcileKeepsInv DEF Processes
<1>3. ASSUME NEW p \in Callers, NEW e \in Events, NEW f \in Facts, Append(p, e, f)
      PROVE  Inv'
    BY <1>3, AppendKeepsInv DEF Processes
<1>4. ASSUME NEW e \in Events, Purge(e) \/ RetentionEnds(e)
      PROVE  Inv'
    BY <1>4, PurgeKeepsInv, ClockKeepsInv DEF Targets
<1>5. ASSUME NEW e \in Events, NEW t \in Targets,
             LateWrite(e, t) \/ TimePasses(e, t) \/ LeaseRunsOut(e, t)
      PROVE  Inv'
    BY <1>5, LateWriteKeepsInv, ClockKeepsInv
<1>6. CASE UNCHANGED vars
  <2>1. TypeOK' /\ RoundsLeft'
      BY <1>6 DEF Inv, TypeOK, RoundsLeft, vars, journal, memory
  <2>. QED
      BY <1>6, <2>1, BookkeepingKeepsInv DEF vars, journal, memory
<1>. QED
    BY <1>1, <1>2, <1>3, <1>4, <1>5, <1>6 DEF Next

LEMMA Invariance == Spec => []Inv
BY InitInv, NextKeepsInv, PTL DEF Spec

\* Every state is typed.
THEOREM OutboxTyped == Spec => []TypeOK
<1>1. Inv => TypeOK
    BY DEF Inv
<1>. QED
    BY <1>1, Invariance, PTL

\* No sink is ahead of the primary, for every set of events, sinks and processes,
\* whatever fails, is retried, arrives late or is claimed twice.
THEOREM SinksFollowPrimary == Spec => []NoSinkAhead
<1>1. Inv => NoSinkAhead
    BY DEF Inv
<1>. QED
    BY <1>1, Invariance, PTL

\* What the journal calls done was delivered, with the accepted fact.
THEOREM DoneWasDelivered == Spec => []DoneIsDelivered
<1>1. Inv => DoneIsDelivered
    BY DEF Inv
<1>. QED
    BY <1>1, Invariance, PTL

-----------------------------------------------------------------------------
(* The outbox implements EventDelivery. *)

\* The abstract state, named.
Reached == [e \in Events |-> {t \in Targets : fact[e] # None /\ holds[e][t] = fact[e]}]
Acknowledged == [e \in Events |-> {t \in Targets : status[e][t] = "done"}]
Finished == {e \in Events : fact[e] # None /\ Over(e)}
Abstract == <<fact, Reached, Acknowledged, Finished>>

\* A step is one of EventDelivery's if it does this to the abstract state.
LEMMA AcceptImplements ==
    ASSUME NEW e \in Events, NEW f \in Facts, NEW before \in SUBSET {Primary},
           fact[e] = None, fact' = [fact EXCEPT ![e] = f],
           Reached' = [Reached EXCEPT ![e] = before],
           Finished' = Finished \/ Finished' = Finished \cup {e},
           Acknowledged' = Acknowledged
    PROVE  Delivery!Next
BY DEF Reached, Acknowledged, Finished, Delivery!Next, Delivery!Accept

LEMMA ReachImplements ==
    ASSUME NEW e \in Events, NEW t \in Targets,
           fact[e] # None, t = Primary \/ Primary \in Reached[e],
           Reached' = [Reached EXCEPT ![e] = @ \cup {t}],
           UNCHANGED <<fact, Acknowledged, Finished>>
    PROVE  Delivery!Next
BY DEF Reached, Acknowledged, Finished, Delivery!Next, Delivery!Reach, Delivery!Targets, Targets

LEMMA AcknowledgeImplements ==
    ASSUME NEW e \in Events, NEW t \in Targets,
           e \notin Finished, t \in Reached[e],
           Acknowledged' = [Acknowledged EXCEPT ![e] = @ \cup {t}],
           UNCHANGED <<fact, Reached, Finished>>
    PROVE  Delivery!Next
BY DEF Reached, Acknowledged, Finished, Delivery!Next, Delivery!Acknowledge,
       Delivery!Targets, Targets

LEMMA GiveUpImplements ==
    ASSUME NEW e \in Events, fact[e] # None,
           \/ Acknowledged' = Acknowledged
           \/ Acknowledged' = [Acknowledged EXCEPT ![e] = {}],
           Finished' = Finished \cup {e},
           UNCHANGED <<fact, Reached>>
    PROVE  Delivery!Next
BY DEF Reached, Acknowledged, Finished, Delivery!Next, Delivery!GiveUp

LEMMA StutterImplements ==
    ASSUME UNCHANGED Abstract
    PROVE  UNCHANGED Delivery!vars
BY DEF Abstract, Reached, Acknowledged, Finished, Delivery!vars

\* What the abstract state depends on.
LEMMA SameAbstract ==
    ASSUME UNCHANGED <<fact, status, holds, past>>
    PROVE  UNCHANGED Abstract
BY DEF Abstract, Reached, Acknowledged, Finished, Over

LEMMA SameReached ==
    ASSUME UNCHANGED <<fact, holds>>
    PROVE  UNCHANGED Reached
BY DEF Reached

LEMMA ExpireImplements ==
    ASSUME Inv, NEW e \in Events, fact[e] # None, e \in past,
           status' = [status EXCEPT ![e] = [t \in Targets |-> "expired"]],
           UNCHANGED <<fact, holds, past>>
    PROVE  Delivery!Next
<1>1. /\ \A t \in Targets : status'[e][t] = "expired"
      /\ \A d \in Events : d # e => status'[d] = status[d]
    BY DEF Inv, TypeOK
<1>2. Acknowledged' = [Acknowledged EXCEPT ![e] = {}]
    BY <1>1 DEF Acknowledged
<1>3. Finished' = Finished \cup {e}
    BY <1>1 DEF Finished, Over
<1>. QED
    BY <1>2, <1>3, SameReached, GiveUpImplements

LEMMA OnTheWayImplements ==
    ASSUME Inv, NEW e \in Events, fact[e] # None, MustExpire(e), ExpireOnTheWay(e),
           UNCHANGED <<holds, past>>
    PROVE  Delivery!Next \/ UNCHANGED Abstract
<1>1. CASE ExpireRecord(e)
    BY <1>1, ExpireImplements DEF MustExpire, ExpireRecord
<1>2. CASE UNCHANGED journal
    BY <1>2, SameAbstract DEF journal
<1>. QED
    BY <1>1, <1>2 DEF ExpireOnTheWay

LEMMA RegisterImplements ==
    ASSUME Inv, NEW e \in Events, NEW f \in Facts, Register(e, f), UNCHANGED <<holds, past>>
    PROVE  Delivery!Next \/ UNCHANGED Abstract
<1>1. f # None /\ fact' = [fact EXCEPT ![e] = f]
    BY DEF Register
<1>2. CASE fact[e] # None /\ e \notin past
  <2>1. UNCHANGED status /\ fact' = fact
      BY <1>2 DEF Register, Inv, TypeOK
  <2>. QED
      BY <2>1, SameAbstract
<1>3. CASE fact[e] # None /\ e \in past
  <2>1. /\ fact' = fact
        /\ status' = [status EXCEPT ![e] = [t \in Targets |-> "expired"]]
      BY <1>3 DEF Register, Inv, TypeOK
  <2>. QED
      BY <1>3, <2>1, ExpireImplements
<1>4. CASE fact[e] = None
  <2>. DEFINE before == {t \in {Primary} : holds[e][t] = f}
  <2>1. PICK s \in {"pending", "expired"} :
           /\ status' = [status EXCEPT ![e] = [t \in Targets |-> s]]
           /\ s = "expired" <=> e \in past
      BY <1>4 DEF Register
  <2>2. /\ \A t \in Targets : status'[e][t] = s
        /\ \A d \in Events : d # e => status'[d] = status[d]
      BY <2>1 DEF Inv, TypeOK
  <2>3. \A t \in Targets : status[e][t] = "absent"
      BY <1>4 DEF Inv, JournalSound
  <2>4. fact'[e] = f /\ \A d \in Events : d # e => fact'[d] = fact[d]
      BY <1>1 DEF Inv, TypeOK
  <2>5. Acknowledged' = Acknowledged
      BY <2>2, <2>3 DEF Acknowledged
  <2>6. Finished' = Finished \/ Finished' = Finished \cup {e}
      BY <1>4, <2>1, <2>2, <2>4 DEF Finished, Over
  <2>7. Reached' = [Reached EXCEPT ![e] = before]
    <3>1. \A t \in Sinks : holds[e][t] = None
        BY <1>4 DEF Inv, SinksHold
    <3>2. {t \in Targets : fact'[e] # None /\ holds'[e][t] = fact'[e]} = before
        BY <1>1, <2>4, <3>1 DEF Targets
    <3>3. \A d \in Events : d # e =>
             {t \in Targets : fact'[d] # None /\ holds'[d][t] = fact'[d]}
                = {t \in Targets : fact[d] # None /\ holds[d][t] = fact[d]}
        BY <2>4
    <3>. QED
        BY <3>2, <3>3 DEF Reached
  <2>. QED
      BY <1>1, <1>4, <2>5, <2>6, <2>7, AcceptImplements
<1>. QED
    BY <1>2, <1>3, <1>4

LEMMA ClaimImplements ==
    ASSUME Inv, NEW p \in Processes, NEW e \in Events, ClaimRecord(p, e)
    PROVE  Delivery!Next \/ UNCHANGED Abstract
<1>1. CASE MustExpire(e)
    BY <1>1, OnTheWayImplements DEF ClaimRecord
<1>2. CASE ~MustExpire(e)
  <2>1. PICK ts \in SUBSET (Claimable(e) \cap Wanted(p)) : ClaimTargets(e, ts)
      BY <1>2 DEF ClaimRecord
  <2>2. ts \subseteq Targets /\ \A t \in ts : status[e][t] \in {"pending", "leased"}
      BY DEF Claimable, Available, Targets
  <2>3. \A d \in Events, t \in Targets :
           status'[d][t] = IF d = e /\ t \in ts THEN "leased" ELSE status[d][t]
      BY <2>1 DEF ClaimTargets, Inv, TypeOK
  <2>4. UNCHANGED <<fact, holds, past>>
      BY <2>1 DEF ClaimRecord, ClaimTargets
  <2>5. Acknowledged' = Acknowledged
      BY <2>2, <2>3 DEF Acknowledged
  <2>6. Finished' = Finished
      BY <2>2, <2>3, <2>4 DEF Finished, Over, Targets
  <2>. QED
      BY <2>4, <2>5, <2>6, SameReached DEF Abstract
<1>. QED
    BY <1>1, <1>2

\* Writing the accepted fact into a target reaches it.
LEMMA PutImplements ==
    ASSUME Inv, NEW e \in Events, NEW t \in Targets, fact[e] # None,
           t # Primary => holds[e][Primary] = fact[e],
           holds' = [holds EXCEPT ![e][t] = fact[e]],
           UNCHANGED <<fact, status, past>>
    PROVE  Delivery!Next
<1>1. fact[e] \in Facts
    BY DEF Inv, TypeOK
<1>2. \A d \in Events, u \in Targets :
         holds'[d][u] = IF d = e /\ u = t THEN fact[e] ELSE holds[d][u]
  <2>1. holds' = [holds EXCEPT ![e] = [holds[e] EXCEPT ![t] = fact[e]]]
      OBVIOUS
  <2>. QED
      BY <2>1, <1>1 DEF Inv, TypeOK
<1>3. Reached' = [Reached EXCEPT ![e] = @ \cup {t}]
  <2>1. {u \in Targets : fact'[e] # None /\ holds'[e][u] = fact'[e]}
           = {u \in Targets : fact[e] # None /\ holds[e][u] = fact[e]} \cup {t}
      BY <1>2
  <2>2. \A d \in Events : d # e =>
           {u \in Targets : fact'[d] # None /\ holds'[d][u] = fact'[d]}
              = {u \in Targets : fact[d] # None /\ holds[d][u] = fact[d]}
      BY <1>2
  <2>3. Reached'[e] = Reached[e] \cup {t}
      BY <2>1 DEF Reached
  <2>4. \A d \in Events : d # e => Reached'[d] = Reached[d]
      BY <2>2 DEF Reached
  <2>5. Reached = [d \in Events |-> Reached[d]] /\ Reached' = [d \in Events |-> Reached'[d]]
      BY DEF Reached
  <2>. QED
      BY <2>3, <2>4, <2>5
<1>4. t = Primary \/ Primary \in Reached[e]
    BY DEF Reached, Targets
<1>5. UNCHANGED <<fact, Acknowledged, Finished>>
    BY DEF Acknowledged, Finished, Over
<1>. QED
    BY <1>3, <1>4, <1>5, ReachImplements

LEMMA WriteImplements ==
    ASSUME Inv, NEW p \in Processes, NEW l \in leases[p], Write(p, l)
    PROVE  Delivery!Next \/ UNCHANGED Abstract
<1>1. /\ l.event \in Events /\ l.target \in Targets /\ fact[l.event] # None
      /\ l.target # Primary => holds[l.event][Primary] = fact[l.event]
    BY DEF Inv, TypeOK, LeasesSound, LeaseSound, Leases
<1>2. UNCHANGED <<fact, status, past>>
    BY DEF Write, journal
<1>3. UNCHANGED holds \/ holds' = [holds EXCEPT ![l.event][l.target] = fact[l.event]]
    BY DEF Write
<1>. QED
    BY <1>1, <1>2, <1>3, PutImplements, SameAbstract

LEMMA LateWriteImplements ==
    ASSUME Inv, NEW e \in Events, NEW t \in Targets, LateWrite(e, t)
    PROVE  Delivery!Next \/ UNCHANGED Abstract
<1>1. fact[e] # None /\ (t # Primary => holds[e][Primary] = fact[e])
    BY DEF Inv, LateSound, LateWrite
<1>2. UNCHANGED <<fact, status, past>>
    BY DEF LateWrite, journal
<1>3. UNCHANGED holds \/ holds' = [holds EXCEPT ![e][t] = fact[e]]
    BY DEF LateWrite
<1>. QED
    BY <1>1, <1>2, <1>3, PutImplements, SameAbstract

LEMMA SettleImplements ==
    ASSUME Inv, NEW p \in Processes, NEW l \in leases[p], Settle(p, l)
    PROVE  Delivery!Next \/ UNCHANGED Abstract
<1>. DEFINE e == l.event
            t == l.target
<1>1. l \in Leases /\ LeaseSound(l) /\ e \in Events /\ t \in Targets /\ fact[e] # None
    BY DEF Inv, TypeOK, LeasesSound, LeaseSound, Leases
<1>2. UNCHANGED <<fact, holds, past>>
    BY DEF Settle, ExpireOnTheWay, ExpireRecord, journal
<1>3. CASE MustExpire(e)
    BY <1>1, <1>2, <1>3, OnTheWayImplements DEF Settle
<1>4. CASE UNCHANGED journal
    BY <1>2, <1>4, SameAbstract DEF journal
<1>5. CASE /\ ~MustExpire(e) /\ Owns(l)
           /\ status' = [status EXCEPT ![e][t] = SettledAs(l)]
  <2>1. /\ l.answer # "none"
        /\ SettledAs(l) \in {"done", "conflict", "pending"}
        /\ SettledAs(l) = "done" => l.answer = "written"
        /\ SettledAs(l) = "conflict" => t = Primary
      BY <1>1 DEF Settle, SettledAs, LeaseSound
  <2>2. \A d \in Events, u \in Targets :
           status'[d][u] = IF d = e /\ u = t THEN SettledAs(l) ELSE status[d][u]
    <3>1. status' = [status EXCEPT ![e] = [status[e] EXCEPT ![t] = SettledAs(l)]]
        BY <1>5
    <3>. QED
        BY <3>1, <1>1 DEF Inv, TypeOK
  <2>3. status[e][t] = "leased" /\ e \notin past
    <3>1. status[e][t] = "leased"
        BY <1>5 DEF Owns
    <3>2. ~Expired(e)
        BY <3>1, <1>1 DEF Inv, JournalSound
    <3>. QED
        BY <3>1, <3>2, <1>5 DEF MustExpire
  <2>4. status[e][Primary] # "conflict"
    <3>1. CASE t = Primary
        BY <3>1, <2>3
    <3>2. CASE t # Primary
        BY <3>2, <2>3, <1>1 DEF Inv, JournalSound, Targets
    <3>. QED
        BY <3>1, <3>2
  <2>5. e \notin Finished
      BY <2>3, <2>4 DEF Finished, Over
  <2>6. CASE SettledAs(l) = "done"
    <3>1. Acknowledged' = [Acknowledged EXCEPT ![e] = @ \cup {t}]
      <4>1. {u \in Targets : status'[e][u] = "done"}
               = {u \in Targets : status[e][u] = "done"} \cup {t}
          BY <1>1, <2>2, <2>6
      <4>2. \A d \in Events : d # e =>
               {u \in Targets : status'[d][u] = "done"}
                  = {u \in Targets : status[d][u] = "done"}
          BY <2>2
      <4>3. Acknowledged'[e] = Acknowledged[e] \cup {t}
          BY <1>1, <4>1 DEF Acknowledged
      <4>4. \A d \in Events : d # e => Acknowledged'[d] = Acknowledged[d]
          BY <4>2 DEF Acknowledged
      <4>5. /\ Acknowledged = [d \in Events |-> Acknowledged[d]]
            /\ Acknowledged' = [d \in Events |-> Acknowledged'[d]]
          BY DEF Acknowledged
      <4>. QED
          BY <1>1, <4>3, <4>4, <4>5
    <3>2. t \in Reached[e]
        BY <1>1, <2>1, <2>6 DEF Reached, LeaseSound
    <3>3. Finished' = Finished
        BY <1>2, <2>2, <2>4, <2>6 DEF Finished, Over, Targets
    <3>. QED
        BY <1>1, <1>2, <2>5, <3>1, <3>2, <3>3, SameReached, AcknowledgeImplements
  <2>7. CASE SettledAs(l) # "done"
    <3>1. Acknowledged' = Acknowledged
        BY <2>2, <2>3, <2>7 DEF Acknowledged
    <3>2. CASE SettledAs(l) = "conflict"
      <4>1. Finished' = Finished \cup {e}
          BY <1>1, <1>2, <2>1, <2>2, <3>2 DEF Finished, Over, Targets
      <4>. QED
          BY <1>1, <1>2, <3>1, <4>1, SameReached, GiveUpImplements
    <3>3. CASE SettledAs(l) = "pending"
      <4>1. Finished' = Finished
          BY <1>2, <2>2, <2>3, <2>4, <3>3 DEF Finished, Over, Targets
      <4>. QED
          BY <1>2, <3>1, <4>1, SameReached DEF Abstract
    <3>. QED
        BY <2>1, <2>7, <3>2, <3>3
  <2>. QED
      BY <2>6, <2>7
<1>. QED
    BY <1>3, <1>4, <1>5 DEF Settle

LEMMA RetentionImplements ==
    ASSUME Inv, NEW e \in Events, RetentionEnds(e)
    PROVE  Delivery!Next \/ UNCHANGED Abstract
<1>1. UNCHANGED <<fact, status, holds>> /\ past' = past \cup {e}
    BY DEF RetentionEnds, journal
<1>2. UNCHANGED <<fact, Reached, Acknowledged>>
    BY <1>1, SameReached DEF Acknowledged
<1>3. CASE fact[e] = None
  <2>1. Finished' = Finished
      BY <1>1, <1>3 DEF Finished, Over
  <2>. QED
      BY <1>2, <2>1 DEF Abstract
<1>4. CASE fact[e] # None
  <2>1. Finished' = Finished \cup {e}
      BY <1>1, <1>4 DEF Finished, Over
  <2>. QED
      BY <1>2, <1>4, <2>1, GiveUpImplements
<1>. QED
    BY <1>3, <1>4

LEMMA NextImplements == Inv /\ [Next]_vars => [Delivery!Next]_(Delivery!vars)
<1>. SUFFICES ASSUME Inv, [Next]_vars
              PROVE  Delivery!Next \/ UNCHANGED Abstract
    BY StutterImplements
<1>1. ASSUME NEW p \in Processes, Step(p) \/ Crash(p)
      PROVE  Delivery!Next \/ UNCHANGED Abstract
  <2>1. CASE \E e \in Events : ClaimRecord(p, e)
      BY <2>1, ClaimImplements
  <2>2. CASE \E l \in leases[p] : Write(p, l) \/ Settle(p, l)
      BY <2>2, WriteImplements, SettleImplements
  <2>3. CASE \/ StartDelivery(p) \/ NothingClaimed(p) \/ EndRound(p) \/ Crash(p)
             \/ \E l \in leases[p] : WriteFails(p, l)
    <3>1. UNCHANGED <<fact, status, holds, past>>
        BY <2>3 DEF StartDelivery, NothingClaimed, EndRound, Crash, WriteFails, journal
    <3>. QED
        BY <3>1, SameAbstract
  <2>. QED
      BY <1>1, <2>1, <2>2, <2>3 DEF Step
<1>2. ASSUME NEW p \in Workers, Poll(p)
      PROVE  UNCHANGED Abstract
    BY <1>2, SameAbstract DEF Poll, journal
<1>3. ASSUME NEW p \in Workers, NEW e \in Events, Reconcile(p, e)
      PROVE  Delivery!Next \/ UNCHANGED Abstract
  <2>1. holds[e][Primary] \in Facts
      BY <1>3 DEF Inv, TypeOK, Reconcile, Targets
  <2>. QED
      BY <1>3, <2>1, RegisterImplements DEF Reconcile
<1>4. ASSUME NEW p \in Callers, NEW e \in Events, NEW f \in Facts, Append(p, e, f)
      PROVE  Delivery!Next \/ UNCHANGED Abstract
    BY <1>4, RegisterImplements DEF Append
<1>5. ASSUME NEW e \in Events, Purge(e)
      PROVE  Delivery!Next \/ UNCHANGED Abstract
    BY <1>5, ExpireImplements DEF Purge, ExpireRecord, MustExpire
<1>6. ASSUME NEW e \in Events, RetentionEnds(e)
      PROVE  Delivery!Next \/ UNCHANGED Abstract
    BY <1>6, RetentionImplements
<1>7. ASSUME NEW e \in Events, NEW t \in Targets,
             LateWrite(e, t) \/ TimePasses(e, t) \/ LeaseRunsOut(e, t)
      PROVE  Delivery!Next \/ UNCHANGED Abstract
    BY <1>7, LateWriteImplements, SameAbstract DEF TimePasses, LeaseRunsOut
<1>8. CASE UNCHANGED vars
    BY <1>8, SameAbstract DEF vars, journal
<1>. QED
    BY <1>1, <1>2, <1>3, <1>4, <1>5, <1>6, <1>7, <1>8 DEF Next

LEMMA InitImplements == Init => Delivery!Init
<1>. SUFFICES ASSUME Init PROVE Delivery!Init
    OBVIOUS
<1>1. Reached = [e \in Events |-> {}]
    BY DEF Init, Reached
<1>2. Acknowledged = [e \in Events |-> {}]
    BY DEF Init, Acknowledged
<1>3. Finished = {}
    BY DEF Init, Finished
<1>. QED
    BY <1>1, <1>2, <1>3 DEF Init, Delivery!Init, Reached, Acknowledged, Finished

\* The journal with its leases, retries and crashes implements EventDelivery:
\* one accepted fact per event, the primary before the sinks, and no
\* acknowledgement of what did not arrive.
THEOREM OutboxDelivers == Spec => DeliverySpec
BY InitImplements, NextImplements, Invariance, PTL
   DEF Spec, DeliverySpec, Delivery!DeliverySpec
=============================================================================
