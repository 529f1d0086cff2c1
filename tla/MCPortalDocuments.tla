------------------------- MODULE MCPortalDocuments -------------------------
(* Small instances of PortalDocuments for TLC. *)
EXTENDS PortalDocuments, TLC

\* Which handler serves a call makes no difference.
Symmetry == Permutations(Handlers)
=============================================================================
