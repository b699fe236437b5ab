----------------------------- MODULE AccountsMC -----------------------------
(* Small instances of Accounts for TLC. *)
EXTENDS Accounts, TLC

\* Threads and identifiers are interchangeable.
Symmetry ==
  Permutations(Threads) \cup Permutations(Emails)
    \cup Permutations(Applications) \cup Permutations(Ips)
    \cup Permutations(LoginAttempts)
=============================================================================
