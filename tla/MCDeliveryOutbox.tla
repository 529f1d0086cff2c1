-------------------------- MODULE MCDeliveryOutbox --------------------------
(* Small instances of DeliveryOutbox for TLC. *)
EXTENDS DeliveryOutbox

CONSTANTS e1, e2, f1, f2, s1, s2, w1, w2, c1
=============================================================================
