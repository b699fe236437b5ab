----------------------------- MODULE WgRuntimeMC -----------------------------
(* Small instances of WgRuntime for TLC. *)
EXTENDS WgRuntime, TLC

\* For runs without a liveness property only.
Symmetry == Permutations(Devices) \cup Permutations(Packages)
=============================================================================
