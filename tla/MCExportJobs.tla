---------------------------- MODULE MCExportJobs ----------------------------
(* A small instance of ExportJobs: two instances with one task slot each.  *)
EXTENDS ExportJobs, TLC

CONSTANTS i1, i2, r1, r2

OneRunEach == (r1 :> i1) @@ (r2 :> i2)
FewerFaultsOnFirestore == [s \in Stores |-> IF s = "FILE" THEN 2 ELSE 1]
=============================================================================
