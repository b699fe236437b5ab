-------------------------- MODULE DeviceRequestsMC --------------------------
(* Small instances of DeviceRequests for TLC. *)
EXTENDS DeviceRequests, TLC

\* Threads, like identifiers, are interchangeable.
Symmetry ==
  Permutations(Threads) \cup Permutations(Users)
    \cup Permutations(Devices) \cup Permutations(Packages)
=============================================================================
