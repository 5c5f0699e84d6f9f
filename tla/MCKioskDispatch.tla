-------------------------- MODULE MCKioskDispatch --------------------------
(* Model values for KioskDispatch.  A request is named by its device.  One   *)
(* headset checks in again, twice, and may have its identity raised.         *)
EXTENDS KioskDispatch

CONSTANTS d1, d2

MCMaxEvidence == [d \in Devices |-> IF d = d1 THEN 3 ELSE 1]
MCMaxIdentity == [d \in Devices |-> IF d = d1 THEN 2 ELSE 1]
=============================================================================
