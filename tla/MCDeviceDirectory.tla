------------------------- MODULE MCDeviceDirectory -------------------------
(* Model values for DeviceDirectory.  DeviceIds and profiles are symmetric:    *)
(* no definition orders or compares them except by equality.                 *)
EXTENDS DeviceDirectory, TLC

CONSTANTS d1, p1, p2, e1, e2, e3

DirectorySymmetry ==
    Permutations(DeviceIds) \cup Permutations(Profiles) \cup Permutations(Epochs)

=============================================================================
