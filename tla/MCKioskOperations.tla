------------------------- MODULE MCKioskOperations -------------------------
(* Model values for KioskOperations.  Requests are symmetric: they are only  *)
(* compared for equality.  One headset may report new evidence and another   *)
(* identity, the other only checks in with what it reported before.          *)
EXTENDS KioskOperations, TLC

CONSTANTS d1, d2, r1, r2, op1

OperationsSymmetry == Permutations(Requests)

MCMaxEvidence == [d \in Devices |-> IF d = d1 THEN 2 ELSE 1]
MCMaxIdentity == [d \in Devices |-> IF d = d1 THEN 2 ELSE 1]

=============================================================================
