-------------------------- MODULE MCWindowsHotspot --------------------------
(* Small values for WindowsHotspot.  Operations and generations are only    *)
(* compared for equality.                                                   *)
EXTENDS WindowsHotspot, TLC

CONSTANTS o1, o2, g1, g2

HotspotSymmetry == Permutations(Operations) \cup Permutations(Generations)
=============================================================================
