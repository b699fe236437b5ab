------------------------- MODULE DeviceLifecycleMC -------------------------
(* Small instances of DeviceLifecycle for TLC. *)
EXTENDS DeviceLifecycle, TLC

\* Handlers treat the members of each set alike.
Symmetry == Permutations(Users) \cup Permutations(Devices) \cup Permutations(Packages)
=============================================================================
