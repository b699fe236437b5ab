------------------------------ MODULE Firewall ------------------------------
(***************************************************************************)
(* Who may reach what: access groups, the grants an approval gives a user, *)
(* their copy a device gets when it is created, the AllowedIPs built into  *)
(* its installer, and the nftables rules a reconcile makes of them.  The   *)
(* database says what the rules should be; the kernel's table is loaded    *)
(* with "nft -f -" by reconcile alone, keeps what it has until the host    *)
(* reboots, and survives a restore of an older database.                   *)
(***************************************************************************)
EXTENDS DeviceRegistry, AccessRules

CONSTANTS
  Groups,         \* identifiers of access_groups rows
  GroupRows,      \* bound: the groups, with their routes, an admin may create
  MaxRules,       \* bound: the rules of one source address in the chain
  HostEvents      \* which events of the host this instance lets happen

ASSUME FirewallBounds == PoolSize \in Nat /\ MaxRules \in Nat

ASSUME HostEventsAssumption ==
  HostEvents \subseteq {"error", "reboot", "restore"}

VARIABLES
  group,          \* tables access_groups and access_group_routes
  grants,         \* user_access_groups of an approved user; None: not approved
  deviceGroups,   \* table device_access_groups
  installer,      \* the AllowedIPs in the newest installer of a device; {}: none
  backup,         \* the database in the archive of backup.sh, or None
  chain,          \* chain forward: source address -> its rules, in order
  recon,          \* the run of ops/reconcile.sh
  stale           \* history: a restore since the table was last empty

database == <<group, grants, registry, deviceGroups>>

host == <<chain, recon, stale>>

firewallVars == <<database, installer, backup, host>>

AccessGroup ==
  [created : BOOLEAN, enabled : BOOLEAN, routes : SUBSET Route]

NoGroup == [created |-> FALSE, enabled |-> FALSE, routes |-> {}]

ASSUME GroupRowsAssumption == \A row \in GroupRows : row \in AccessGroup /\ row.created

Ruleset == [1..PoolSize -> Seq(Rule)]

NoRules == [ip \in 1..PoolSize |-> <<>>]

\* undisturbed is the model's: no other step since the target was read.
FirewallReconcile ==
  [pc : {"idle", "read", "loaded"}, rules : Ruleset, undisturbed : BOOLEAN]

NoFirewallReconcile == [pc |-> "idle", rules |-> NoRules, undisturbed |-> FALSE]

\* The rows a backup holds.
Tables ==
  [group : [Groups -> AccessGroup], grants : [Users -> (SUBSET Groups) \cup {None}],
   registry : [Devices -> Entry], deviceGroups : [Devices -> SUBSET Groups]]

CurrentTables ==
  [group |-> group, grants |-> grants, registry |-> registry,
   deviceGroups |-> deviceGroups]

FirewallTypeOK ==
  /\ CurrentTables \in Tables
  /\ installer \in [Devices -> SUBSET (Hosts \cup {ServerHost})]
  /\ backup \in Tables \cup {None}
  /\ chain \in Ruleset
  /\ recon \in FirewallReconcile
  /\ stale \in BOOLEAN

FirewallInit ==
  /\ RegistryInit
  /\ group = [g \in Groups |-> NoGroup]
  /\ grants = [u \in Users |-> None]
  /\ deviceGroups = [d \in Devices |-> {}]
  /\ installer = [d \in Devices |-> {}]
  /\ backup = None
  /\ chain = NoRules
  /\ recon = NoFirewallReconcile
  /\ stale = FALSE

-----------------------------------------------------------------------------

RoutesOf(groups) == UNION {group[g].routes : g \in groups}

\* _compile_device_destinations.
Destinations(d) == CompileNetworks(RoutesOf(deviceGroups[d]))

\* Every step but those of the reconcile itself.
Disturbed == recon' = [recon EXCEPT !.undisturbed = FALSE]

Quiet == Disturbed /\ UNCHANGED <<backup, chain, stale>>

\* Mutant: the group may exist already, and gets new routes.
GroupMayBeWritten(g) == TRUE

\* Nothing writes a group or a route once it is there.
GroupIsNew(g) == ~group[g].created

CreateAccessGroup(g, row) ==
  /\ GroupIsNew(g)
  /\ group' = [group EXCEPT ![g] = row]
  /\ Quiet
  /\ UNCHANGED <<grants, registry, deviceGroups, installer>>

\* The only writer of a user's grants; a user is approved once, and only with
\* groups that are enabled.  (That high privilege takes an admin changes
\* nothing of what follows.)
ApproveUser(u, groups) ==
  /\ grants[u] = None
  /\ \A g \in groups : group[g].created /\ group[g].enabled
  /\ grants' = [grants EXCEPT ![u] = groups]
  /\ Quiet
  /\ UNCHANGED <<group, registry, deviceGroups, installer>>

\* The build of an installer for a device with these groups may fail.
BuildFor(d, groups) ==
  \E networks \in {{}, CompileAllowedIps(RoutesOf(groups))} :
    installer' = [installer EXCEPT ![d] = networks]

\* create_device copies the user's grants of that moment.
CreateDeviceFor(u, d, ip) ==
  /\ grants[u] # None
  /\ Register(u, d, ip)
  /\ deviceGroups' = [deviceGroups EXCEPT ![d] = grants[u]]
  /\ BuildFor(d, grants[u])
  /\ Quiet
  /\ UNCHANGED <<group, grants>>

\* reset_device builds a new installer for the groups the device has.
ResetDeviceEntry(d) ==
  /\ Withdraw(d)
  /\ BuildFor(d, deviceGroups[d])
  /\ Quiet
  /\ UNCHANGED <<group, grants, deviceGroups>>

\* confirm_download, of an installer that was built, and revoke_device.
ChangeStatus(d) ==
  /\ \/ installer[d] # {} /\ Confirm(d)
     \/ RevokeEntry(d)
  /\ Quiet
  /\ UNCHANGED <<group, grants, deviceGroups, installer>>

-----------------------------------------------------------------------------

\* build_target_state.
TargetDevices == {d \in Devices : registry[d].status = "target"}

RulesFor(ip) ==
  IF \E d \in TargetDevices : registry[d].vpn_ip = ip
  THEN PeerRules(Destinations(CHOOSE d \in TargetDevices : registry[d].vpn_ip = ip))
  ELSE <<>>

RenderNftablesTable == [ip \in 1..PoolSize |-> RulesFor(ip)]

ReadTarget ==
  /\ recon.pc = "idle"
  /\ recon' = [pc |-> "read", rules |-> RenderNftablesTable, undisturbed |-> TRUE]
  /\ UNCHANGED <<database, installer, backup, chain, stale>>

\* The agent's last command.  The ruleset names the table and its chain, which
\* nft creates if they are not there, and adds the rules to it.
LoadRuleset ==
  /\ recon.pc = "read"
  /\ \A ip \in 1..PoolSize : Len(chain[ip]) + Len(recon.rules[ip]) <= MaxRules
  /\ chain' = [ip \in 1..PoolSize |-> chain[ip] \o recon.rules[ip]]
  /\ recon' = [recon EXCEPT !.pc = "loaded", !.rules = NoRules]
  /\ UNCHANGED <<database, installer, backup, stale>>

\* The run is over, or one of its commands failed: the wg commands come
\* first, and nft applies its input as a whole or not at all.
EndReconcile ==
  /\ \/ recon.pc = "loaded"
     \/ recon.pc = "read" /\ "error" \in HostEvents
  /\ recon' = NoFirewallReconcile
  /\ UNCHANGED <<database, installer, backup, chain, stale>>

\* The kernel's tables are gone; nothing loads them when the host is back.
RebootHost ==
  /\ "reboot" \in HostEvents
  /\ chain' = NoRules
  /\ recon' = NoFirewallReconcile
  /\ stale' = FALSE
  /\ UNCHANGED <<database, installer, backup>>

\* Bound: one archive.
Backup ==
  /\ "restore" \in HostEvents
  /\ backup = None
  /\ backup' = CurrentTables
  /\ UNCHANGED <<database, installer, host>>

\* restore.sh up to its call of reconcile.sh: the services are stopped, wg-quick
\* is restarted, the nftables table is not touched.  The installers users have
\* stay with them; those of devices the database does not know are forgotten.
Restore ==
  /\ "restore" \in HostEvents
  /\ backup # None
  /\ group' = backup.group /\ grants' = backup.grants
  /\ registry' = backup.registry /\ deviceGroups' = backup.deviceGroups
  /\ installer' = [d \in Devices |->
                     IF backup.registry[d].status = "absent" THEN {} ELSE installer[d]]
  /\ recon' = NoFirewallReconcile
  /\ stale' = TRUE
  /\ UNCHANGED <<backup, chain>>

-----------------------------------------------------------------------------

FirewallNext ==
  \/ \E g \in Groups, row \in GroupRows : CreateAccessGroup(g, row)
  \/ \E u \in Users, groups \in SUBSET Groups : ApproveUser(u, groups)
  \/ \E u \in Users, d \in Devices, ip \in FreeAddresses : CreateDeviceFor(u, d, ip)
  \/ \E d \in Devices : ResetDeviceEntry(d) \/ ChangeStatus(d)
  \/ ReadTarget \/ LoadRuleset \/ EndReconcile
  \/ RebootHost \/ Backup \/ Restore

FirewallSpec == FirewallInit /\ [][FirewallNext]_firewallVars

-----------------------------------------------------------------------------
(***************************************************************************)
(* Properties.                                                             *)
(***************************************************************************)

\* The rules let a device's packets through to exactly its destinations.
MatchesDatabase(d) ==
  \A h \in Hosts : Passes(chain[registry[d].vpn_ip], h) <=> h \in Destinations(d)

\* Appended rules are never read if earlier ones decide, so the table is right
\* only because an address never changes hands and a device's destinations
\* never change: whatever was loaded first for an address, before failed
\* commands, resets, revocations and later loads, still says what the database
\* says of its device - until an older database is restored.
FilterIsDatabase ==
  ~stale => \A d \in Registered :
    chain[registry[d].vpn_ip] # <<>> => MatchesDatabase(d)

\* A reconcile that nothing disturbs leaves no target device without rules,
\* also one whose groups lead nowhere: "policy accept" would let it through.
ReconcileFilters ==
  recon.pc = "loaded" /\ recon.undisturbed =>
    \A d \in TargetDevices : \A h \in Hosts : Decided(chain[registry[d].vpn_ip], h)

\* The client routes into the tunnel exactly what the server lets through: the
\* AllowedIPs compiled when the installer was built, from the groups given to
\* the build, are the destinations a later reconcile compiles from the tables.
ClientMatchesServer ==
  \A d \in Registered : installer[d] # {} =>
    /\ installer[d] \ {ServerHost} = Destinations(d)
    /\ Destinations(d) = {} => installer[d] = {ServerHost}

\* docs/security-model.md:131 of a restore: "nftables rules return to
\* database-authoritative state" by a reconcile, because (line 106) what nft is
\* given replaces the table.  It is appended to the table.
ReconcileRestores ==
  recon.pc = "loaded" /\ recon.undisturbed => \A d \in TargetDevices : MatchesDatabase(d)
=============================================================================
