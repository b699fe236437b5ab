----------------------------- MODULE FirewallMC -----------------------------
(* Small instances of Firewall for TLC. *)
EXTENDS Firewall, TLC

CONSTANTS h1, h2

\* A group with an enabled, a disabled and an IPv6 route; one with two networks
\* that overlap; and a disabled one.
Mixed ==
  {[network |-> {h1}, version |-> 4, enabled |-> TRUE],
   [network |-> {h2}, version |-> 4, enabled |-> FALSE],
   [network |-> {h2}, version |-> 6, enabled |-> TRUE]}

Overlapping ==
  {[network |-> {h1, h2}, version |-> 4, enabled |-> TRUE],
   [network |-> {h2}, version |-> 4, enabled |-> TRUE]}

Row(routes) == [created |-> TRUE, enabled |-> TRUE, routes |-> routes]

MCGroupRows == {Row(Mixed), Row(Overlapping), [Row(Mixed) EXCEPT !.enabled = FALSE]}

Symmetry == Permutations(Users) \cup Permutations(Devices) 
=============================================================================
