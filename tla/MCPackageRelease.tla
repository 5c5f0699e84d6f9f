-------------------------- MODULE MCPackageRelease --------------------------
(* Model values for PackageRelease.                                         *)
EXTENDS PackageRelease, TLC
CONSTANTS d1, d2, r1, r2, o1, o2
Symmetric == Permutations(Devices) \cup Permutations(Requests) \cup Permutations(OperationIds)
=============================================================================
