---------------------------- MODULE AccessRules ----------------------------
(***************************************************************************)
(* What the routes of access groups come to: the networks of a client's    *)
(* AllowedIPs, and the rules of the server's nftables chain.  A network is *)
(* the set of hosts it covers, so the order and the duplicates that        *)
(* _compile_networks removes are not seen here.  A packet meets only the   *)
(* rules of its own source address; those are a sequence, because nftables *)
(* takes the first rule that matches, and appends the rules it is given.   *)
(***************************************************************************)
EXTENDS Naturals, Sequences

CONSTANTS
  Hosts,          \* the hosts behind the server that routes can lead to
  ServerHost      \* vpn_server_ip as a destination

ASSUME HostsAssumption == ServerHost \notin Hosts

\* A row of access_group_routes.
Route == [network : SUBSET Hosts, version : {4, 6}, enabled : BOOLEAN]

\* _compile_networks: enabled routes, IPv4 only.
CompileNetworks(routes) ==
  UNION {r.network : r \in {x \in routes : x.enabled /\ x.version = 4}}

\* DeviceModule._compile_allowed_ips: WireGuard needs at least one network.
CompileAllowedIps(routes) ==
  IF CompileNetworks(routes) = {} THEN {ServerHost} ELSE CompileNetworks(routes)

-----------------------------------------------------------------------------

Rule == [daddr : SUBSET Hosts, verdict : {"accept", "drop"}]

Accept(destinations) == [daddr |-> destinations, verdict |-> "accept"]

Drop == [daddr |-> Hosts, verdict |-> "drop"]

\* Mutant: no destinations, no rule at all.
PeerRulesUnlessEmpty(destinations) ==
  IF destinations = {} THEN <<>> ELSE <<Accept(destinations), Drop>>

\* What render_nftables_table writes for one peer.
PeerRules(destinations) ==
  IF destinations = {} THEN <<Drop>> ELSE <<Accept(destinations), Drop>>

Matches(rules, i, h) == h \in rules[i].daddr

Decided(rules, h) == \E i \in DOMAIN rules : Matches(rules, i, h)

\* The first match decides; "policy accept" if there is none.
Passes(rules, h) ==
  \A i \in DOMAIN rules :
    Matches(rules, i, h) /\ (\A k \in 1..(i - 1) : ~Matches(rules, k, h))
      => rules[i].verdict = "accept"
=============================================================================
