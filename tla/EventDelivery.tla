---------------------------- MODULE EventDelivery ----------------------------
(***************************************************************************)
(* What the delivery of operational events promises, without journal,      *)
(* leases, retries or processes: an event is accepted as one fact, the     *)
(* primary store takes it before any sink does, a target is acknowledged   *)
(* only if it holds the event, and an accepted event ends up acknowledged  *)
(* everywhere unless its primary refuses it or its retention ends.         *)
(***************************************************************************)
CONSTANTS
    Events,     \* event ids
    Facts,      \* what an event may say
    Primary,    \* the primary store
    Sinks,      \* the analytics sinks
    None

Targets == Sinks \cup {Primary}

VARIABLES
    accepted,      \* accepted[e]: the fact that was accepted, or None
    reached,       \* reached[e]: the targets that hold that fact
    acknowledged,  \* acknowledged[e]: the targets known to hold it
    over           \* events nobody delivers any more

vars == <<accepted, reached, acknowledged, over>>

Init ==
    /\ accepted = [e \in Events |-> None]
    /\ reached = [e \in Events |-> {}]
    /\ acknowledged = [e \in Events |-> {}]
    /\ over = {}

\* The primary may hold the fact already: it was written before the journal was.
Accept(e, f, before) ==
    /\ accepted[e] = None
    /\ before \subseteq {Primary}
    /\ accepted' = [accepted EXCEPT ![e] = f]
    /\ reached' = [reached EXCEPT ![e] = before]
    /\ over' \in {over, over \cup {e}}
    /\ UNCHANGED acknowledged

Reach(e, t) ==
    /\ accepted[e] # None
    /\ t = Primary \/ Primary \in reached[e]
    /\ reached' = [reached EXCEPT ![e] = @ \cup {t}]
    /\ UNCHANGED <<accepted, acknowledged, over>>

Acknowledge(e, t) ==
    /\ e \notin over
    /\ t \in reached[e]
    /\ acknowledged' = [acknowledged EXCEPT ![e] = @ \cup {t}]
    /\ UNCHANGED <<accepted, reached, over>>

\* The primary holds another fact under this id, or retention has ended.
GiveUp(e) ==
    /\ accepted[e] # None
    /\ acknowledged' \in {acknowledged, [acknowledged EXCEPT ![e] = {}]}
    /\ over' = over \cup {e}
    /\ UNCHANGED <<accepted, reached>>

Next ==
    \E e \in Events :
        \/ \E f \in Facts, before \in SUBSET {Primary} : Accept(e, f, before)
        \/ \E t \in Targets : Reach(e, t) \/ Acknowledge(e, t)
        \/ GiveUp(e)

DeliverySpec == Init /\ [][Next]_vars

\* What an accepted event comes to.
EveryEventSettles ==
    \A e \in Events :
        accepted[e] # None ~> (e \in over \/ acknowledged[e] = Targets)
=============================================================================
