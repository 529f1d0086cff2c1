--------------------------- MODULE MCReleaseSaga ---------------------------
(***************************************************************************)
(* Small instances of ReleaseSaga. Two portal instances; document d1 has a *)
(* published version v1 and an approved revision v2, document d2 has only  *)
(* the approved version v3.                                                *)
(***************************************************************************)
EXTENDS ReleaseSaga

CONSTANTS d1, d2, v1, v2, v3

MCDocOf == [v \in Version |-> IF v = v3 THEN d2 ELSE d1]

(* Requests are served by the two instances in turn.                       *)
MCInstanceOf == [o \in Request |-> o % 2]

AllKinds == Kind
AllButReindex == Kind \ {"reindex"}
Activations == {"publish", "promote"}

(* The documents a reindex is limited to; none stands for all of them.     *)
WholeCorpus == {{}}
EitherScope == {{}, {d1}}

Booted == {{v1}}
EitherStart == {{v1}, {}}
=============================================================================
