--------------------------- MODULE FirewallProofs ---------------------------
(***************************************************************************)
(* The properties of Firewall for every number of users, devices, groups   *)
(* and hosts, and every chain length.  The argument: an address belongs to *)
(* one device for good and a device's destinations never change, so every  *)
(* block of rules ever loaded for an address says the same.                *)
(***************************************************************************)
EXTENDS Firewall, SequenceTheorems, TLAPS

\* A sequence of rules decides every packet, for exactly these destinations.
Says(rules, destinations) ==
  \A h \in Hosts : Decided(rules, h) /\ (Passes(rules, h) <=> h \in destinations)

\* Every nonempty sequence of rules is that of the registered device with its
\* address.
SaysFor(rules, reg, destinations) ==
  \A ip \in 1..PoolSize : rules[ip] # <<>> =>
    \E d \in Devices : /\ reg[d].status # "absent" /\ reg[d].vpn_ip = ip
                       /\ Says(rules[ip], destinations[d])

SaysDatabase(rules) == SaysFor(rules, registry, [d \in Devices |-> Destinations(d)])

Distinct(reg) ==
  \A d, e \in Devices :
    reg[d].status # "absent" /\ reg[e].status # "absent" /\ reg[d].vpn_ip = reg[e].vpn_ip
      => d = e

\* Grants name groups that are there.
GroupsKnown(rows, granted, given) ==
  /\ \A u \in Users : granted[u] # None => \A g \in granted[u] : rows[g].created
  /\ \A d \in Devices : \A g \in given[d] : rows[g].created

\* The database is a later state of the one in the archive.
BackupIsPast ==
  backup # None =>
    /\ Distinct(backup.registry)
    /\ GroupsKnown(backup.group, backup.grants, backup.deviceGroups)
    /\ \A g \in Groups : backup.group[g].created => group[g] = backup.group[g]
    /\ \A d \in Devices : backup.registry[d].status # "absent" =>
         registry[d].status # "absent" /\ deviceGroups[d] = backup.deviceGroups[d]

\* The rules a reconcile is about to load.
RulesAreRead ==
  recon.pc = "read" =>
    /\ SaysDatabase(recon.rules)
    /\ recon.undisturbed => recon.rules = RenderNftablesTable

FirewallInv ==
  /\ FirewallTypeOK
  /\ Distinct(registry)
  /\ GroupsKnown(group, grants, deviceGroups)
  /\ BackupIsPast
  /\ ~stale => SaysDatabase(chain)
  /\ RulesAreRead
  /\ ReconcileFilters
  /\ ClientMatchesServer
-----------------------------------------------------------------------------

\* The rules of a peer decide every packet, and let through its destinations.
LEMMA PeerRulesSay ==
  ASSUME NEW D \in SUBSET Hosts
  PROVE  /\ PeerRules(D) \in Seq(Rule)
         /\ PeerRules(D) # <<>>
         /\ Says(PeerRules(D), D)
<1>1. CASE D = {}
  <2>1. PeerRules(D) = <<Drop>>
    BY <1>1 DEF PeerRules
  <2>2. PeerRules(D) \in Seq(Rule) /\ PeerRules(D) # <<>>
    BY <2>1 DEF Drop, Rule
  <2>3. DOMAIN PeerRules(D) = {1} /\ PeerRules(D)[1] = Drop
    BY <2>1
  <2>4. ASSUME NEW h \in Hosts
        PROVE  Decided(PeerRules(D), h) /\ ~Passes(PeerRules(D), h)
    <3>1. Matches(PeerRules(D), 1, h) /\ PeerRules(D)[1].verdict = "drop"
      BY <2>3 DEF Matches, Drop
    <3>2. \A k \in 1..(1 - 1) : FALSE
      OBVIOUS
    <3>3. QED
      BY <3>1, <3>2, <2>3 DEF Decided, Passes
  <2>5. QED
    BY <1>1, <2>2, <2>4 DEF Says
<1>2. CASE D # {}
  <2>1. PeerRules(D) = <<Accept(D), Drop>>
    BY <1>2 DEF PeerRules
  <2>2. PeerRules(D) \in Seq(Rule) /\ PeerRules(D) # <<>>
    BY <2>1 DEF Accept, Drop, Rule
  <2>3. /\ DOMAIN PeerRules(D) = {1, 2}
        /\ PeerRules(D)[1] = Accept(D) /\ PeerRules(D)[2] = Drop
    BY <2>1
  <2>4. ASSUME NEW h \in Hosts
        PROVE  Decided(PeerRules(D), h) /\ (Passes(PeerRules(D), h) <=> h \in D)
    <3>1. /\ Matches(PeerRules(D), 1, h) <=> h \in D
          /\ Matches(PeerRules(D), 2, h)
          /\ PeerRules(D)[1].verdict = "accept" /\ PeerRules(D)[2].verdict = "drop"
      BY <2>3 DEF Matches, Accept, Drop
    <3>2. Decided(PeerRules(D), h)
      BY <3>1, <2>3 DEF Decided
    <3>3. Passes(PeerRules(D), h) <=> h \in D
      BY <3>1, <2>3 DEF Passes
    <3>4. QED
      BY <3>2, <3>3
  <2>5. QED
    BY <2>2, <2>4 DEF Says
<1>3. QED
  BY <1>1, <1>2

\* Rules that are appended to ones that decide a packet change nothing for it.
LEMMA AppendedRules ==
  ASSUME NEW a \in Seq(Rule), NEW b \in Seq(Rule), NEW h
  PROVE  /\ Decided(b, h) => Decided(a \o b, h)
         /\ Decided(a, h) => Decided(a \o b, h) /\ (Passes(a \o b, h) <=> Passes(a, h))
<1>1. /\ a \o b \in Seq(Rule)
      /\ Len(a \o b) = Len(a) + Len(b)
      /\ \A i \in 1..Len(a) : (a \o b)[i] = a[i]
      /\ \A i \in 1..Len(b) : (a \o b)[Len(a) + i] = b[i]
  OBVIOUS
<1>2. /\ Len(a) \in Nat /\ Len(b) \in Nat
      /\ DOMAIN a = 1..Len(a) /\ DOMAIN b = 1..Len(b) /\ DOMAIN (a \o b) = 1..(Len(a) + Len(b))
  BY <1>1
<1>3. \A i \in 1..Len(a) : i \in DOMAIN (a \o b) /\ (Matches(a \o b, i, h) <=> Matches(a, i, h))
  BY <1>1, <1>2 DEF Matches
<1>4. ASSUME Decided(b, h)
      PROVE  Decided(a \o b, h)
  <2>1. PICK i \in 1..Len(b) : Matches(b, i, h)
    BY <1>4, <1>2 DEF Decided
  <2>2. Len(a) + i \in DOMAIN (a \o b) /\ Matches(a \o b, Len(a) + i, h)
    BY <2>1, <1>1, <1>2 DEF Matches
  <2>3. QED
    BY <2>2 DEF Decided
<1>5. ASSUME Decided(a, h)
      PROVE  Decided(a \o b, h)
  BY <1>5, <1>2, <1>3 DEF Decided
<1>6. ASSUME Decided(a, h), Passes(a \o b, h)
      PROVE  Passes(a, h)
  <2> SUFFICES ASSUME NEW i \in 1..Len(a), Matches(a, i, h),
                      \A k \in 1..(i - 1) : ~Matches(a, k, h)
               PROVE  a[i].verdict = "accept"
    BY <1>2 DEF Passes
  <2>1. \A k \in 1..(i - 1) : k \in 1..Len(a)
    BY <1>2
  <2>2. Matches(a \o b, i, h) /\ \A k \in 1..(i - 1) : ~Matches(a \o b, k, h)
    BY <2>1, <1>3
  <2>3. (a \o b)[i].verdict = "accept"
    BY <2>2, <1>3, <1>6 DEF Passes
  <2>4. QED
    BY <2>3, <1>1
<1>7. ASSUME Decided(a, h), Passes(a, h)
      PROVE  Passes(a \o b, h)
  <2> SUFFICES ASSUME NEW i \in 1..(Len(a) + Len(b)), Matches(a \o b, i, h),
                      \A k \in 1..(i - 1) : ~Matches(a \o b, k, h)
               PROVE  (a \o b)[i].verdict = "accept"
    BY <1>2 DEF Passes
  <2>1. PICK j \in 1..Len(a) : Matches(a, j, h)
    BY <1>7, <1>2 DEF Decided
  <2>2. i \in 1..Len(a)
    <3>1. Matches(a \o b, j, h)
      BY <2>1, <1>3
    <3>2. j \notin 1..(i - 1)
      BY <3>1
    <3>3. QED
      BY <3>2, <1>2
  <2>3. Matches(a, i, h) /\ \A k \in 1..(i - 1) : ~Matches(a, k, h)
    BY <2>2, <1>2, <1>3
  <2>4. a[i].verdict = "accept"
    BY <2>2, <2>3, <1>2, <1>7 DEF Passes
  <2>5. QED
    BY <2>2, <2>4, <1>1
<1>8. QED
  BY <1>4, <1>5, <1>6, <1>7
-----------------------------------------------------------------------------

\* What every step but a restore keeps of devices and groups that are there.
GoesOn ==
  /\ \A d \in Devices : registry[d].status # "absent" =>
       /\ registry'[d].status # "absent" /\ registry'[d].vpn_ip = registry[d].vpn_ip
       /\ deviceGroups'[d] = deviceGroups[d]
  /\ \A g \in Groups : group[g].created => group'[g] = group[g]

\* Destinations are hosts.
LEMMA DestinationsAreHosts ==
  ASSUME FirewallTypeOK, NEW d \in Devices
  PROVE  Destinations(d) \in SUBSET Hosts
<1>1. \A g \in deviceGroups[d] : group[g].routes \in SUBSET Route
  BY DEF FirewallTypeOK, CurrentTables, Tables, AccessGroup
<1>2. RoutesOf(deviceGroups[d]) \in SUBSET Route
  BY <1>1 DEF RoutesOf
<1>3. QED
  BY <1>2 DEF Destinations, CompileNetworks, Route

\* The destinations of a device stay what they are.
LEMMA DestinationsStay ==
  ASSUME FirewallTypeOK, GroupsKnown(group, grants, deviceGroups), GoesOn,
         NEW d \in Devices, registry[d].status # "absent"
  PROVE  Destinations(d)' = Destinations(d)
<1>1. deviceGroups'[d] = deviceGroups[d] /\ deviceGroups[d] \in SUBSET Groups
  BY DEF GoesOn, FirewallTypeOK, CurrentTables, Tables
<1>2. \A g \in deviceGroups[d] : group'[g] = group[g]
  BY <1>1 DEF GoesOn, GroupsKnown
<1>3. RoutesOf(deviceGroups[d])' = RoutesOf(deviceGroups[d])
  BY <1>1, <1>2 DEF RoutesOf
<1>4. QED
  BY <1>3 DEF Destinations

\* So rules that spoke for the database speak for it after the step.
LEMMA RulesStayRight ==
  ASSUME FirewallTypeOK, GroupsKnown(group, grants, deviceGroups), GoesOn,
         NEW rules, SaysDatabase(rules)
  PROVE  SaysFor(rules, registry', [d \in Devices |-> Destinations(d)'])
<1> SUFFICES ASSUME NEW ip \in 1..PoolSize, rules[ip] # <<>>
             PROVE  \E d \in Devices :
                      /\ registry'[d].status # "absent" /\ registry'[d].vpn_ip = ip
                      /\ Says(rules[ip], Destinations(d)')
  BY DEF SaysFor
<1>1. PICK d \in Devices : /\ registry[d].status # "absent" /\ registry[d].vpn_ip = ip
                           /\ Says(rules[ip], Destinations(d))
  BY DEF SaysDatabase, SaysFor
<1>2. Destinations(d)' = Destinations(d)
  BY <1>1, DestinationsStay
<1>3. registry'[d].status # "absent" /\ registry'[d].vpn_ip = ip
  BY <1>1 DEF GoesOn
<1>4. QED
  BY <1>1, <1>2, <1>3

\* A request to the API: what is left of the invariant to show is local to it.
LEMMA QuietSteps ==
  ASSUME FirewallInv, GoesOn, Quiet, FirewallTypeOK', Distinct(registry)',
         GroupsKnown(group, grants, deviceGroups)', ClientMatchesServer'
  PROVE  FirewallInv'
<1>1. /\ backup' = backup /\ chain' = chain /\ stale' = stale
      /\ recon'.pc = recon.pc /\ recon'.rules = recon.rules /\ recon'.undisturbed = FALSE
  BY DEF Quiet, Disturbed, FirewallInv, FirewallTypeOK, FirewallReconcile
<1>2. BackupIsPast'
  BY <1>1 DEF BackupIsPast, GoesOn, FirewallInv
<1>3. (~stale => SaysDatabase(chain))'
  BY <1>1, RulesStayRight DEF SaysDatabase, FirewallInv
<1>4. RulesAreRead'
  BY <1>1, RulesStayRight DEF RulesAreRead, SaysDatabase, FirewallInv
<1>5. ReconcileFilters'
  BY <1>1 DEF ReconcileFilters
<1>6. QED
  BY <1>2, <1>3, <1>4, <1>5 DEF FirewallInv
-----------------------------------------------------------------------------

\* No group, no grant and no rule at the start.
LEMMA FirewallInitially == FirewallInit => FirewallInv
<1> SUFFICES ASSUME FirewallInit PROVE FirewallInv
  OBVIOUS
<1> USE FirewallBounds DEF FirewallInit, RegistryInit
<1>1. FirewallTypeOK
  <2>1. NoRules \in Ruleset
    BY DEF NoRules, Ruleset
  <2>2. NoFirewallReconcile \in FirewallReconcile
    BY <2>1 DEF NoFirewallReconcile, FirewallReconcile
  <2>3. NoGroup \in AccessGroup /\ NoEntry \in Entry
    BY DEF NoGroup, AccessGroup, Entry
  <2>4. CurrentTables \in Tables
    BY <2>3 DEF CurrentTables, Tables
  <2>5. QED
    BY <2>1, <2>2, <2>4 DEF FirewallTypeOK
<1>2. Distinct(registry)
  BY DEF Distinct, NoEntry
<1>3. GroupsKnown(group, grants, deviceGroups)
  BY DEF GroupsKnown
<1>4. BackupIsPast
  BY DEF BackupIsPast
<1>5. SaysDatabase(chain)
  BY DEF SaysDatabase, SaysFor, NoRules
<1>6. RulesAreRead /\ ReconcileFilters
  BY DEF RulesAreRead, ReconcileFilters, NoFirewallReconcile
<1>7. ClientMatchesServer
  BY DEF ClientMatchesServer, Registered, NoEntry
<1>8. QED
  BY <1>1, <1>2, <1>3, <1>4, <1>5, <1>6, <1>7 DEF FirewallInv

\* The parts of the types that requests leave alone.
LEMMA QuietTypes ==
  ASSUME FirewallTypeOK, Quiet, CurrentTables' \in Tables,
         installer' \in [Devices -> SUBSET (Hosts \cup {ServerHost})]
  PROVE  FirewallTypeOK'
<1>1. recon' \in FirewallReconcile
  BY DEF Quiet, Disturbed, FirewallTypeOK, FirewallReconcile
<1>2. QED
  BY <1>1 DEF Quiet, FirewallTypeOK

\* CreateAccessGroup: the group was not there, so nobody has it.
LEMMA GroupStep ==
  ASSUME FirewallInv, NEW g \in Groups, NEW row \in GroupRows, CreateAccessGroup(g, row)
  PROVE  FirewallInv'
<1> USE DEF CreateAccessGroup, GroupIsNew
<1>1. row \in AccessGroup /\ row.created
  BY GroupRowsAssumption
<1>2. FirewallTypeOK'
  <2>1. CurrentTables' \in Tables
    BY <1>1 DEF CurrentTables, Tables, FirewallInv, FirewallTypeOK
  <2>2. QED
    BY <2>1, QuietTypes DEF FirewallInv, FirewallTypeOK
<1>3. group \in [Groups -> AccessGroup]
  BY DEF FirewallInv, FirewallTypeOK, CurrentTables, Tables
<1>4. GoesOn
  BY <1>3 DEF GoesOn
<1>5. Distinct(registry)'
  BY DEF FirewallInv
<1>6. GroupsKnown(group, grants, deviceGroups)'
  <2>1. \A e \in Groups : group[e].created => group'[e].created
    BY <1>3, <1>1
  <2>2. /\ \A u \in Users : grants[u] # None => grants[u] \in SUBSET Groups
        /\ \A d \in Devices : deviceGroups[d] \in SUBSET Groups
    BY DEF FirewallInv, FirewallTypeOK, CurrentTables, Tables
  <2>3. QED
    BY <2>1, <2>2 DEF GroupsKnown, FirewallInv
<1>7. ClientMatchesServer'
  <2>1. \A d \in Registered : Destinations(d)' = Destinations(d)
    BY <1>4, DestinationsStay DEF Registered, FirewallInv
  <2>2. Registered' = Registered
    BY DEF Registered
  <2>3. QED
    BY <2>1, <2>2 DEF ClientMatchesServer, FirewallInv
<1>8. QED
  BY <1>2, <1>4, <1>5, <1>6, <1>7, QuietSteps

\* An approval grants groups to one user.
LEMMA ApprovalStep ==
  ASSUME FirewallInv, NEW u \in Users, NEW groups \in SUBSET Groups, ApproveUser(u, groups)
  PROVE  FirewallInv'
<1> USE DEF ApproveUser
<1>1. grants \in [Users -> (SUBSET Groups) \cup {None}]
  BY DEF FirewallInv, FirewallTypeOK, CurrentTables, Tables
<1>2. FirewallTypeOK'
  <2>1. CurrentTables' \in Tables
    BY <1>1 DEF CurrentTables, Tables, FirewallInv, FirewallTypeOK
  <2>2. QED
    BY <2>1, QuietTypes DEF FirewallInv, FirewallTypeOK
<1>3. GoesOn
  BY DEF GoesOn
<1>4. Distinct(registry)'
  BY DEF FirewallInv
<1>5. GroupsKnown(group, grants, deviceGroups)'
  BY <1>1 DEF GroupsKnown, FirewallInv
<1>6. ClientMatchesServer'
  BY DEF ClientMatchesServer, Registered, Destinations, RoutesOf, FirewallInv
<1>7. QED
  BY <1>2, <1>3, <1>4, <1>5, <1>6, QuietSteps
\* The AllowedIPs of a build are the destinations the server compiles.
LEMMA BuildMatches ==
  ASSUME NEW routes \in SUBSET Route
  PROVE  LET networks == CompileAllowedIps(routes)
         IN  /\ networks \in SUBSET (Hosts \cup {ServerHost})
             /\ networks \ {ServerHost} = CompileNetworks(routes)
             /\ CompileNetworks(routes) = {} => networks = {ServerHost}
<1>1. CompileNetworks(routes) \in SUBSET Hosts
  BY DEF CompileNetworks, Route
<1>2. ServerHost \notin CompileNetworks(routes)
  BY <1>1, HostsAssumption
<1>3. QED
  BY <1>1, <1>2 DEF CompileAllowedIps

\* BuildFor writes one installer: that of the device's groups, or none.
LEMMA BuildIsFor ==
  ASSUME FirewallTypeOK, NEW d \in Devices, NEW groups \in SUBSET Groups, BuildFor(d, groups)
  PROVE  /\ installer' \in [Devices -> SUBSET (Hosts \cup {ServerHost})]
         /\ \A e \in Devices \ {d} : installer'[e] = installer[e]
         /\ installer'[d] # {} =>
              LET destinations == CompileNetworks(RoutesOf(groups))
              IN  /\ installer'[d] \ {ServerHost} = destinations
                  /\ destinations = {} => installer'[d] = {ServerHost}
<1>1. RoutesOf(groups) \in SUBSET Route
  BY DEF RoutesOf, FirewallTypeOK, CurrentTables, Tables, AccessGroup
<1>2. installer \in [Devices -> SUBSET (Hosts \cup {ServerHost})]
  BY DEF FirewallTypeOK
<1>3. PICK networks \in {{}, CompileAllowedIps(RoutesOf(groups))} :
        installer' = [installer EXCEPT ![d] = networks]
  BY DEF BuildFor
<1>4. networks \in SUBSET (Hosts \cup {ServerHost})
  BY <1>1, BuildMatches
<1>5. QED
  BY <1>1, <1>2, <1>3, <1>4, BuildMatches

\* CreateDeviceFor: the address is one no registered device has.
LEMMA CreationStep ==
  ASSUME FirewallInv, NEW u \in Users, NEW d \in Devices, NEW ip \in FreeAddresses,
         CreateDeviceFor(u, d, ip)
  PROVE  FirewallInv'
<1> USE DEF CreateDeviceFor, Register
<1>1. /\ registry \in [Devices -> Entry] /\ deviceGroups \in [Devices -> SUBSET Groups]
      /\ grants[u] \in SUBSET Groups /\ FirewallTypeOK
  BY DEF FirewallInv, FirewallTypeOK, CurrentTables, Tables
<1>2. /\ registry[d].status = "absent"
      /\ registry'[d] = [status |-> "waiting", vpn_ip |-> ip, user |-> u]
      /\ \A e \in Devices \ {d} : registry'[e] = registry[e]
      /\ deviceGroups'[d] = grants[u]
      /\ \A e \in Devices \ {d} : deviceGroups'[e] = deviceGroups[e]
  BY <1>1
<1>3. FirewallTypeOK'
  <2>1. registry'[d] \in Entry
    BY <1>2 DEF FreeAddresses, Entry, RegistryStatus
  <2>2. registry' \in [Devices -> Entry]
    BY <2>1, <1>1, <1>2
  <2>3. deviceGroups' \in [Devices -> SUBSET Groups]
    BY <1>1
  <2>4. CurrentTables' \in Tables
    BY <2>2, <2>3 DEF CurrentTables, Tables, FirewallInv, FirewallTypeOK
  <2>5. QED
    BY <2>4, <1>1, BuildIsFor, QuietTypes
<1>4. GoesOn
  BY <1>2 DEF GoesOn
<1>5. Distinct(registry)'
  BY <1>2 DEF Distinct, FreeAddresses, Registered, FirewallInv
<1>6. GroupsKnown(group, grants, deviceGroups)'
  BY <1>1, <1>2 DEF GroupsKnown, FirewallInv
<1>7. ClientMatchesServer'
  <2> SUFFICES ASSUME NEW e \in Devices, registry'[e].status # "absent", installer'[e] # {}
               PROVE  /\ installer'[e] \ {ServerHost} = Destinations(e)'
                      /\ Destinations(e)' = {} => installer'[e] = {ServerHost}
    BY DEF ClientMatchesServer, Registered
  <2>1. CASE e = d
    <3>1. Destinations(d)' = CompileNetworks(RoutesOf(grants[u]))
      BY <1>2 DEF Destinations, RoutesOf
    <3>2. QED
      BY <2>1, <3>1, <1>1, BuildIsFor
  <2>2. CASE e # d
    <3>1. installer'[e] = installer[e] /\ registry[e].status # "absent"
      BY <2>2, <1>1, <1>2, BuildIsFor
    <3>2. Destinations(e)' = Destinations(e)
      BY <3>1, <1>4, DestinationsStay DEF FirewallInv
    <3>3. QED
      BY <3>1, <3>2 DEF ClientMatchesServer, Registered, FirewallInv
  <2>3. QED
    BY <2>1, <2>2
<1>8. QED
  BY <1>3, <1>4, <1>5, <1>6, <1>7, QuietSteps

\* Steps that change a device's status only.
LEMMA StatusStep ==
  ASSUME FirewallInv, Quiet, NEW d \in Devices,
         NEW status \in RegistryStatus \ {"absent"}, registry[d].status # "absent",
         registry' = [registry EXCEPT ![d].status = status],
         UNCHANGED <<group, grants, deviceGroups>>
  PROVE  /\ CurrentTables' \in Tables
         /\ GoesOn
         /\ Distinct(registry)'
         /\ GroupsKnown(group, grants, deviceGroups)'
<1>1. registry \in [Devices -> Entry] /\ CurrentTables \in Tables
  BY DEF FirewallInv, FirewallTypeOK, CurrentTables, Tables
<1>2. /\ registry'[d].status = status /\ registry'[d].vpn_ip = registry[d].vpn_ip
      /\ registry'[d] \in Entry
      /\ \A e \in Devices \ {d} : registry'[e] = registry[e]
  BY <1>1 DEF Entry, NoEntry
<1>3. registry' \in [Devices -> Entry]
  BY <1>1, <1>2
<1>4. CurrentTables' \in Tables
  BY <1>1, <1>3 DEF CurrentTables, Tables
<1>5. GoesOn
  BY <1>2 DEF GoesOn
<1>6. Distinct(registry)'
  BY <1>2 DEF Distinct, FirewallInv
<1>7. GroupsKnown(group, grants, deviceGroups)'
  BY DEF GroupsKnown, FirewallInv
<1>8. QED
  BY <1>4, <1>5, <1>6, <1>7
\* A device that is reset is no target any more.
LEMMA ResetStep ==
  ASSUME FirewallInv, NEW d \in Devices, ResetDeviceEntry(d)
  PROVE  FirewallInv'
<1> USE DEF ResetDeviceEntry
<1>1. FirewallTypeOK /\ deviceGroups[d] \in SUBSET Groups
  BY DEF FirewallInv, FirewallTypeOK, CurrentTables, Tables
<1>2. /\ CurrentTables' \in Tables /\ GoesOn
      /\ Distinct(registry)' /\ GroupsKnown(group, grants, deviceGroups)'
  BY StatusStep DEF Withdraw, Registered, RegistryStatus
<1>3. FirewallTypeOK'
  BY <1>1, <1>2, BuildIsFor, QuietTypes
<1>4. ClientMatchesServer'
  <2> SUFFICES ASSUME NEW e \in Devices, registry'[e].status # "absent", installer'[e] # {}
               PROVE  /\ installer'[e] \ {ServerHost} = Destinations(e)'
                      /\ Destinations(e)' = {} => installer'[e] = {ServerHost}
    BY DEF ClientMatchesServer, Registered
  <2>1. CASE e = d
    <3>1. Destinations(d)' = CompileNetworks(RoutesOf(deviceGroups[d]))
      BY DEF Destinations, RoutesOf
    <3>2. QED
      BY <2>1, <3>1, <1>1, BuildIsFor
  <2>2. CASE e # d
    <3>1. installer'[e] = installer[e]
      BY <2>2, <1>1, BuildIsFor
    <3>2. registry[e].status # "absent"
      BY <2>2 DEF Withdraw, FirewallInv, FirewallTypeOK, CurrentTables, Tables
    <3>3. Destinations(e)' = Destinations(e)
      BY <3>2, <1>2, DestinationsStay DEF FirewallInv
    <3>4. QED
      BY <3>1, <3>2, <3>3 DEF ClientMatchesServer, Registered, FirewallInv
  <2>3. QED
    BY <2>1, <2>2
<1>5. QED
  BY <1>2, <1>3, <1>4, QuietSteps

\* A device becomes a target, or stops being one.
LEMMA ConfirmOrRevokeStep ==
  ASSUME FirewallInv, NEW d \in Devices, ChangeStatus(d)
  PROVE  FirewallInv'
<1> USE DEF ChangeStatus
<1>1. PICK status \in RegistryStatus \ {"absent"} :
        /\ registry[d].status # "absent"
        /\ registry' = [registry EXCEPT ![d].status = status]
  BY DEF Confirm, RevokeEntry, Registered, RegistryStatus
<1>2. /\ CurrentTables' \in Tables /\ GoesOn
      /\ Distinct(registry)' /\ GroupsKnown(group, grants, deviceGroups)'
  BY <1>1, StatusStep
<1>3. FirewallTypeOK'
  BY <1>2, QuietTypes DEF FirewallInv, FirewallTypeOK
<1>4. ClientMatchesServer'
  <2>1. \A e \in Devices : registry'[e].status # "absent" <=> registry[e].status # "absent"
    BY <1>1 DEF FirewallInv, FirewallTypeOK, CurrentTables, Tables, RegistryStatus
  <2>2. \A e \in Registered : Destinations(e)' = Destinations(e)
    BY <1>2, DestinationsStay DEF Registered, FirewallInv
  <2>3. Registered' = Registered
    BY <2>1 DEF Registered
  <2>4. QED
    BY <2>2, <2>3 DEF ClientMatchesServer, FirewallInv
<1>5. QED
  BY <1>2, <1>3, <1>4, QuietSteps

-----------------------------------------------------------------------------

\* Steps that leave the database and the installers alone keep what is said
\* about those.
LEMMA DatabaseUnchanged ==
  ASSUME FirewallInv, UNCHANGED <<database, installer>>
  PROVE  /\ CurrentTables' = CurrentTables
         /\ \A d \in Devices : Destinations(d)' = Destinations(d)
         /\ Distinct(registry)'
         /\ GroupsKnown(group, grants, deviceGroups)'
         /\ ClientMatchesServer'
         /\ \A rules : SaysDatabase(rules) =>
              SaysFor(rules, registry', [d \in Devices |-> Destinations(d)'])
<1> USE DEF database
<1>1. CurrentTables' = CurrentTables
  BY DEF CurrentTables
<1>2. \A d \in Devices : Destinations(d)' = Destinations(d)
  BY DEF Destinations, RoutesOf
<1>3. Distinct(registry)' /\ GroupsKnown(group, grants, deviceGroups)'
  BY DEF Distinct, GroupsKnown, FirewallInv
<1>4. ClientMatchesServer'
  BY <1>2 DEF ClientMatchesServer, Registered, FirewallInv
<1>5. \A rules : SaysDatabase(rules) =>
        SaysFor(rules, registry', [d \in Devices |-> Destinations(d)'])
  BY <1>2 DEF SaysDatabase, SaysFor
<1>6. QED
  BY <1>1, <1>2, <1>3, <1>4, <1>5

\* The table rendered speaks for the database, and for every target device.
LEMMA RenderedRules ==
  ASSUME FirewallInv
  PROVE  /\ RenderNftablesTable \in Ruleset
         /\ SaysDatabase(RenderNftablesTable)
         /\ \A d \in TargetDevices :
              /\ registry[d].vpn_ip \in 1..PoolSize
              /\ \A h \in Hosts : Decided(RenderNftablesTable[registry[d].vpn_ip], h)
<1>1. ASSUME NEW ip \in 1..PoolSize,
             \E d \in TargetDevices : registry[d].vpn_ip = ip
      PROVE  \E d \in TargetDevices :
               /\ registry[d].vpn_ip = ip
               /\ RulesFor(ip) \in Seq(Rule) /\ Says(RulesFor(ip), Destinations(d))
  <2> DEFINE d == CHOOSE e \in TargetDevices : registry[e].vpn_ip = ip
  <2>1. d \in TargetDevices /\ registry[d].vpn_ip = ip
    BY <1>1
  <2>2. RulesFor(ip) = PeerRules(Destinations(d))
    BY <1>1 DEF RulesFor
  <2>3. Destinations(d) \in SUBSET Hosts
    BY <2>1, DestinationsAreHosts DEF TargetDevices, FirewallInv
  <2>4. RulesFor(ip) \in Seq(Rule) /\ Says(RulesFor(ip), Destinations(d))
    BY <2>2, <2>3, PeerRulesSay
  <2>5. QED
    BY <2>1, <2>4
<1>2. ASSUME NEW ip \in 1..PoolSize, ~\E d \in TargetDevices : registry[d].vpn_ip = ip
      PROVE  RulesFor(ip) = <<>>
  BY <1>2 DEF RulesFor
<1>3. RenderNftablesTable \in Ruleset
  <2>1. \A ip \in 1..PoolSize : RulesFor(ip) \in Seq(Rule)
    <3>1. <<>> \in Seq(Rule)
      OBVIOUS
    <3>2. QED
      BY <3>1, <1>1, <1>2
  <2>2. QED
    BY <2>1 DEF RenderNftablesTable, Ruleset
<1>4. SaysDatabase(RenderNftablesTable)
  BY <1>1, <1>2 DEF SaysDatabase, SaysFor, RenderNftablesTable, TargetDevices
<1>5. ASSUME NEW d \in TargetDevices
      PROVE  /\ registry[d].vpn_ip \in 1..PoolSize
             /\ \A h \in Hosts : Decided(RenderNftablesTable[registry[d].vpn_ip], h)
  <2>1. registry[d].vpn_ip \in 1..PoolSize
    BY DEF TargetDevices, FirewallInv, FirewallTypeOK, CurrentTables, Tables, Entry, NoEntry
  <2>2. QED
    BY <2>1, <1>1 DEF RenderNftablesTable, Says
<1>6. QED
  BY <1>3, <1>4, <1>5
\* reconcile reads the database and renders the table from what it read.
LEMMA ReadStep ==
  ASSUME FirewallInv, ReadTarget
  PROVE  FirewallInv'
<1> USE DEF ReadTarget
<1>1. RenderNftablesTable \in Ruleset /\ SaysDatabase(RenderNftablesTable)
  BY RenderedRules
<1>2. FirewallTypeOK'
  BY <1>1, DatabaseUnchanged DEF FirewallInv, FirewallTypeOK, FirewallReconcile
<1>3. BackupIsPast'
  BY DEF BackupIsPast, FirewallInv, database
<1>4. (~stale => SaysDatabase(chain))'
  BY DatabaseUnchanged DEF FirewallInv, SaysDatabase
<1>5. RulesAreRead'
  <2>1. RenderNftablesTable' = RenderNftablesTable
    BY DatabaseUnchanged
       DEF RenderNftablesTable, RulesFor, TargetDevices, database, Destinations, RoutesOf
  <2>2. SaysFor(RenderNftablesTable, registry', [d \in Devices |-> Destinations(d)'])
    BY <1>1, DatabaseUnchanged
  <2>3. QED
    BY <2>1, <2>2 DEF RulesAreRead, SaysDatabase
<1>6. ReconcileFilters'
  BY DEF ReconcileFilters
<1>7. QED
  BY <1>2, <1>3, <1>4, <1>5, <1>6, DatabaseUnchanged DEF FirewallInv

\* nft appends: an address without rules gets those of its device, and one with
\* rules keeps what they say.
LEMMA LoadStep ==
  ASSUME FirewallInv, LoadRuleset
  PROVE  FirewallInv'
<1> USE DEF LoadRuleset
<1>1. chain \in Ruleset /\ recon \in FirewallReconcile /\ recon.rules \in Ruleset
  BY DEF FirewallInv, FirewallTypeOK, FirewallReconcile
<1>2. /\ recon' \in FirewallReconcile
      /\ recon'.pc = "loaded" /\ recon'.undisturbed = recon.undisturbed
  <2>1. NoRules \in Ruleset
    BY DEF NoRules, Ruleset
  <2>2. QED
    BY <2>1, <1>1 DEF FirewallReconcile
<1>3. \A ip \in 1..PoolSize : /\ chain[ip] \in Seq(Rule) /\ recon.rules[ip] \in Seq(Rule)
                              /\ chain'[ip] = chain[ip] \o recon.rules[ip]
  BY <1>1 DEF Ruleset
<1>4. chain' \in Ruleset
  <2>1. \A ip \in 1..PoolSize : chain[ip] \o recon.rules[ip] \in Seq(Rule)
    BY <1>3, ConcatProperties
  <2>2. QED
    BY <2>1 DEF Ruleset
<1>5. FirewallTypeOK'
  BY <1>2, <1>4, DatabaseUnchanged DEF FirewallInv, FirewallTypeOK
<1>6. BackupIsPast'
  BY DEF BackupIsPast, FirewallInv, database
<1>7. ASSUME ~stale
      PROVE  SaysDatabase(chain')
  <2>1. SaysDatabase(chain) /\ SaysDatabase(recon.rules)
    BY <1>7 DEF FirewallInv, RulesAreRead
  <2> SUFFICES ASSUME NEW ip \in 1..PoolSize, chain'[ip] # <<>>
               PROVE  \E d \in Devices :
                        /\ registry[d].status # "absent" /\ registry[d].vpn_ip = ip
                        /\ Says(chain'[ip], Destinations(d))
    BY DEF SaysDatabase, SaysFor
  <2>2. CASE chain[ip] # <<>>
    <3>1. PICK d \in Devices : /\ registry[d].status # "absent" /\ registry[d].vpn_ip = ip
                               /\ Says(chain[ip], Destinations(d))
      BY <2>1, <2>2 DEF SaysDatabase, SaysFor
    <3>2. Says(chain'[ip], Destinations(d))
      BY <3>1, <1>3, AppendedRules DEF Says
    <3>3. QED
      BY <3>1, <3>2
  <2>3. CASE chain[ip] = <<>>
    <3> DEFINE rules == recon.rules[ip]
    <3> HIDE DEF rules
    <3>1. rules \in Seq(Rule) /\ chain'[ip] = <<>> \o rules
      BY <2>3, <1>3 DEF rules
    <3>2. chain'[ip] = recon.rules[ip]
      BY <3>1, ConcatEmptySeq DEF rules
    <3>3. QED
      BY <3>2, <2>1 DEF SaysDatabase, SaysFor
  <2>4. QED
    BY <2>2, <2>3
<1>8. (~stale => SaysDatabase(chain))'
  <2>1. ASSUME ~stale
        PROVE  SaysFor(chain', registry', [d \in Devices |-> Destinations(d)'])
    BY <2>1, <1>7, DatabaseUnchanged
  <2>2. QED
    BY <2>1 DEF SaysDatabase
<1>9. RulesAreRead'
  BY <1>2 DEF RulesAreRead
<1>10. ReconcileFilters'
  <2> SUFFICES ASSUME recon.undisturbed, NEW d \in TargetDevices, NEW h \in Hosts
               PROVE  Decided(chain'[registry[d].vpn_ip], h)
    BY <1>2 DEF ReconcileFilters, TargetDevices, database
  <2>1. recon.rules = RenderNftablesTable
    BY DEF FirewallInv, RulesAreRead
  <2>2. registry[d].vpn_ip \in 1..PoolSize /\ Decided(recon.rules[registry[d].vpn_ip], h)
    BY <2>1, RenderedRules
  <2>3. QED
    BY <2>2, <1>3, AppendedRules
<1>11. QED
  BY <1>5, <1>6, <1>8, <1>9, <1>10, DatabaseUnchanged DEF FirewallInv

\* A reconcile that ends, and a host that restarts, leave no work behind.
LEMMA EndStep ==
  ASSUME FirewallInv, EndReconcile \/ RebootHost
  PROVE  FirewallInv'
<1> USE DEF EndReconcile, RebootHost
<1>1. NoRules \in Ruleset /\ NoFirewallReconcile \in FirewallReconcile
  BY DEF NoRules, Ruleset, NoFirewallReconcile, FirewallReconcile
<1>2. UNCHANGED <<database, installer>> /\ backup' = backup /\ recon' = NoFirewallReconcile
  OBVIOUS
<1>3. FirewallTypeOK'
  BY <1>1, <1>2, DatabaseUnchanged DEF FirewallInv, FirewallTypeOK
<1>4. BackupIsPast'
  BY <1>2 DEF BackupIsPast, FirewallInv, database
<1>5. (~stale => SaysDatabase(chain))'
  <2>1. CASE chain' = chain /\ stale' = stale
    BY <2>1, <1>2, DatabaseUnchanged DEF FirewallInv, SaysDatabase
  <2>2. CASE chain' = NoRules
    BY <2>2 DEF SaysDatabase, SaysFor, NoRules
  <2>3. QED
    BY <2>1, <2>2
<1>6. RulesAreRead' /\ ReconcileFilters'
  BY <1>2 DEF RulesAreRead, ReconcileFilters, NoFirewallReconcile
<1>7. QED
  BY <1>2, <1>3, <1>4, <1>5, <1>6, DatabaseUnchanged DEF FirewallInv
\* A backup copies the tables as they are.
LEMMA BackupStep ==
  ASSUME FirewallInv, Backup
  PROVE  FirewallInv'
<1> USE DEF Backup, host
<1>1. backup' = CurrentTables /\ CurrentTables \in Tables
  BY DEF FirewallInv, FirewallTypeOK
<1>2. FirewallTypeOK'
  BY <1>1, DatabaseUnchanged DEF FirewallInv, FirewallTypeOK
<1>3. BackupIsPast'
  BY <1>1 DEF BackupIsPast, CurrentTables, FirewallInv, database
<1>4. (~stale => SaysDatabase(chain))'
  BY DatabaseUnchanged DEF FirewallInv, SaysDatabase
<1>5. RulesAreRead'
  <2>1. RenderNftablesTable' = RenderNftablesTable
    BY DatabaseUnchanged
       DEF RenderNftablesTable, RulesFor, TargetDevices, database, Destinations, RoutesOf
  <2>2. QED
    BY <2>1, DatabaseUnchanged DEF RulesAreRead, SaysDatabase, FirewallInv
<1>6. ReconcileFilters'
  BY DEF ReconcileFilters, TargetDevices, FirewallInv, database
<1>7. QED
  BY <1>2, <1>3, <1>4, <1>5, <1>6, DatabaseUnchanged DEF FirewallInv

\* Restore: the installers users kept were built from rows the archive has.
LEMMA RestoreStep ==
  ASSUME FirewallInv, Restore
  PROVE  FirewallInv'
<1> USE DEF Restore
<1>1. backup \in Tables /\ backup' = backup /\ backup # None
  BY DEF FirewallInv, FirewallTypeOK
<1>2. /\ group' = backup.group /\ grants' = backup.grants
      /\ registry' = backup.registry /\ deviceGroups' = backup.deviceGroups
  OBVIOUS
<1>3. FirewallTypeOK'
  <2>1. CurrentTables' \in Tables
    BY <1>1, <1>2 DEF CurrentTables, Tables
  <2>2. NoFirewallReconcile \in FirewallReconcile
    BY DEF NoRules, Ruleset, NoFirewallReconcile, FirewallReconcile
  <2>3. installer' \in [Devices -> SUBSET (Hosts \cup {ServerHost})]
    BY DEF FirewallInv, FirewallTypeOK
  <2>4. QED
    BY <1>1, <2>1, <2>2, <2>3 DEF FirewallInv, FirewallTypeOK
<1>4. /\ Distinct(registry)' /\ GroupsKnown(group, grants, deviceGroups)'
      /\ BackupIsPast'
  BY <1>1, <1>2 DEF BackupIsPast, FirewallInv, Distinct, GroupsKnown
<1>5. (~stale => SaysDatabase(chain))' /\ RulesAreRead' /\ ReconcileFilters'
  BY DEF RulesAreRead, ReconcileFilters, NoFirewallReconcile
<1>6. ClientMatchesServer'
  <2> SUFFICES ASSUME NEW d \in Devices, registry'[d].status # "absent", installer'[d] # {}
               PROVE  /\ installer'[d] \ {ServerHost} = Destinations(d)'
                      /\ Destinations(d)' = {} => installer'[d] = {ServerHost}
    BY DEF ClientMatchesServer, Registered
  <2>1. installer'[d] = installer[d]
    BY <1>2
  <2>2. /\ registry[d].status # "absent" /\ deviceGroups'[d] = deviceGroups[d]
        /\ \A g \in deviceGroups[d] : group'[g] = group[g]
    <3>1. registry[d].status # "absent" /\ deviceGroups'[d] = deviceGroups[d]
      BY <1>1, <1>2 DEF BackupIsPast, FirewallInv
    <3>2. backup.deviceGroups[d] \in SUBSET Groups
      BY <1>1 DEF Tables
    <3>3. QED
      BY <3>1, <3>2, <1>1, <1>2 DEF BackupIsPast, GroupsKnown, FirewallInv
  <2>3. Destinations(d)' = Destinations(d)
    <3>1. RoutesOf(deviceGroups[d])' = RoutesOf(deviceGroups[d])
      BY <2>2 DEF RoutesOf
    <3>2. QED
      BY <3>1 DEF Destinations
  <2>4. QED
    BY <2>1, <2>2, <2>3 DEF ClientMatchesServer, Registered, FirewallInv
<1>7. QED
  BY <1>3, <1>4, <1>5, <1>6 DEF FirewallInv

-----------------------------------------------------------------------------

\* A stutter changes nothing.
LEMMA FirewallStutters ==
  ASSUME FirewallInv, UNCHANGED firewallVars
  PROVE  FirewallInv'
<1> USE DEF firewallVars, database, host
<1>1. FirewallTypeOK' /\ BackupIsPast' /\ ReconcileFilters'
  BY DatabaseUnchanged
     DEF FirewallInv, FirewallTypeOK, BackupIsPast, ReconcileFilters, TargetDevices
<1>2. RenderNftablesTable' = RenderNftablesTable
  BY DEF RenderNftablesTable, RulesFor, TargetDevices, Destinations, RoutesOf
<1>3. (~stale => SaysDatabase(chain))' /\ RulesAreRead'
  BY <1>2, DatabaseUnchanged DEF RulesAreRead, SaysDatabase, FirewallInv
<1>4. QED
  BY <1>1, <1>3, DatabaseUnchanged DEF FirewallInv

\* What the rules on the host, the reconcile in progress and the backup say is
\* what the database says or has said: the invariant of every step.
THEOREM FirewallInvariant == FirewallSpec => []FirewallInv
<1>1. FirewallInit => FirewallInv
  BY FirewallInitially
<1>2. FirewallInv /\ [FirewallNext]_firewallVars => FirewallInv'
  <2> SUFFICES ASSUME FirewallInv, [FirewallNext]_firewallVars PROVE FirewallInv'
    OBVIOUS
  <2>1. CASE \E g \in Groups, row \in GroupRows : CreateAccessGroup(g, row)
    BY <2>1, GroupStep
  <2>2. CASE \E u \in Users, groups \in SUBSET Groups : ApproveUser(u, groups)
    BY <2>2, ApprovalStep
  <2>3. CASE \E u \in Users, d \in Devices, ip \in FreeAddresses : CreateDeviceFor(u, d, ip)
    BY <2>3, CreationStep
  <2>4. CASE \E d \in Devices : ResetDeviceEntry(d)
    BY <2>4, ResetStep
  <2>5. CASE \E d \in Devices : ChangeStatus(d)
    BY <2>5, ConfirmOrRevokeStep
  <2>6. CASE ReadTarget
    BY <2>6, ReadStep
  <2>7. CASE LoadRuleset
    BY <2>7, LoadStep
  <2>8. CASE EndReconcile \/ RebootHost
    BY <2>8, EndStep
  <2>9. CASE Backup
    BY <2>9, BackupStep
  <2>10. CASE Restore
    BY <2>10, RestoreStep
  <2>11. CASE UNCHANGED firewallVars
    BY <2>11, FirewallStutters
  <2>12. QED
    BY <2>1, <2>2, <2>3, <2>4, <2>5, <2>6, <2>7, <2>8, <2>9, <2>10, <2>11 DEF FirewallNext
<1>3. QED
  BY <1>1, <1>2, PTL DEF FirewallSpec

\* The tables, the chain and the reconcile keep their types; in particular every
\* registered device has an address of the pool.
THEOREM FirewallTyped == FirewallSpec => []FirewallTypeOK
<1>1. FirewallInv => FirewallTypeOK
  BY DEF FirewallInv
<1>2. QED
  BY <1>1, FirewallInvariant, PTL

\* Until an older database is restored, whatever the chain has for the address
\* of a device lets through what the database says of that device, however
\* often and with whatever interruptions rulesets were appended.
THEOREM FilterStaysRight == FirewallSpec => []FilterIsDatabase
<1>1. FirewallInv => FilterIsDatabase
  <2> SUFFICES ASSUME FirewallInv, ~stale, NEW d \in Registered,
                      chain[registry[d].vpn_ip] # <<>>
               PROVE  MatchesDatabase(d)
    BY DEF FilterIsDatabase
  <2>1. d \in Devices /\ registry[d].status # "absent" /\ registry[d].vpn_ip \in 1..PoolSize
    BY DEF Registered, FirewallInv, FirewallTypeOK, CurrentTables, Tables, Entry, NoEntry
  <2>2. SaysDatabase(chain)
    BY DEF FirewallInv
  <2>3. PICK e \in Devices :
          /\ registry[e].status # "absent" /\ registry[e].vpn_ip = registry[d].vpn_ip
          /\ Says(chain[registry[d].vpn_ip], Destinations(e))
    BY <2>1, <2>2 DEF SaysDatabase, SaysFor
  <2>4. e = d
    BY <2>1, <2>3 DEF Distinct, FirewallInv
  <2>5. QED
    BY <2>3, <2>4 DEF Says, MatchesDatabase
<1>2. QED
  BY <1>1, FirewallInvariant, PTL

\* A reconcile that nothing disturbs leaves no target device to the chain's
\* policy, from any chain it starts with.
THEOREM ReconcileLeavesNoneOpen == FirewallSpec => []ReconcileFilters
<1>1. FirewallInv => ReconcileFilters
  BY DEF FirewallInv
<1>2. QED
  BY <1>1, FirewallInvariant, PTL

\* What a client routes into the tunnel is what the server's rules are compiled
\* from, across resets and restores.
THEOREM ClientAgreesWithServer == FirewallSpec => []ClientMatchesServer
<1>1. FirewallInv => ClientMatchesServer
  BY DEF FirewallInv
<1>2. QED
  BY <1>1, FirewallInvariant, PTL
=============================================================================
