---------------------------- MODULE MCHandoffCases ----------------------------
(* Small instances of HandoffCases for TLC. *)
EXTENDS HandoffCases, TLC

CONSTANTS c1, c2, t1, t2, r1, r2

\* The adapter mints an id per message.
OwnRequest == (t1 :> r1) @@ (t2 :> r2)

InterchangeableCases == Permutations({c1, c2})
===============================================================================
