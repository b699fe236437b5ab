----------------------------- MODULE WgRuntime -----------------------------
(***************************************************************************)
(* The worker, the wg-agent and the WireGuard interface below the portal.  *)
(* DeviceLifecycle says what the worker leaves in the database; here each  *)
(* job also calls the agent, which runs one wg command.  The worker holds  *)
(* the database's write lock from the claim of a job to its commit, so no  *)
(* request changes a row in between; what can come in between is the end   *)
(* of the worker, and the commands of other agent requests: a reconcile,   *)
(* or a request whose caller stopped waiting for the answer.               *)
(***************************************************************************)
EXTENDS DeviceLifecycle

CONSTANTS
  AgentFaults,    \* which faults of worker, agent and host may happen
  LiveReconcile   \* whether reconcile.sh is run while the services are up

ASSUME AgentFaultsAssumption ==
  /\ AgentFaults \subseteq {"error", "crash", "timeout", "reboot"}
  /\ LiveReconcile \in BOOLEAN

VARIABLES
  peers,      \* the public keys configured on the interface
  route,      \* WireGuard's cryptokey routing: address -> public key or None
  late,       \* agent requests still to run after the worker gave up on them
  recon       \* the run of ops/reconcile.sh, or none

runtimeVars == <<peers, route, late, recon>>

allVars == <<vars, runtimeVars>>

Command == [op : {"apply", "remove"}, public_key : Packages, ip : 1..PoolSize]

\* target: the keys of the target state it read; todo: the keys it has still
\* to remove, then to apply.  undisturbed is the model's: no other step since
\* it read the target state.
Reconcile ==
  [pc : {"idle", "read", "removing", "applying"}, target : SUBSET Packages,
   todo : SUBSET Packages, undisturbed : BOOLEAN]

NoReconcile ==
  [pc |-> "idle", target |-> {}, todo |-> {}, undisturbed |-> FALSE]

\* Types: a peer is always one of the keys some build generated.
RuntimeTypeOK ==
  /\ TypeOK
  /\ peers \subseteq Packages
  /\ route \in [1..PoolSize -> Packages \cup {None}]
  /\ late \subseteq Command
  /\ recon \in Reconcile

RuntimeInit ==
  /\ Init
  /\ peers = {}
  /\ route = [ip \in 1..PoolSize |-> None]
  /\ late = {}
  /\ recon = NoReconcile

-----------------------------------------------------------------------------
(***************************************************************************)
(* The wg commands of the agent.                                           *)
(***************************************************************************)

\* The address of the device whose key was built into package k.
IpOf(k) == device[package[k].device].vpn_ip

\* wg set <interface> peer k allowed-ips ip/32: the peer's list becomes this
\* one address, and another peer that had the address loses it.
WgSetPeer(k, ip) ==
  /\ peers' = peers \cup {k}
  /\ route' = [a \in 1..PoolSize |->
                 IF a = ip THEN k ELSE IF route[a] = k THEN None ELSE route[a]]

\* wg set <interface> peer k remove: no error if there is no such peer.
WgRemovePeer(k) ==
  /\ peers' = peers \ {k}
  /\ route' = [a \in 1..PoolSize |-> IF route[a] = k THEN None ELSE route[a]]

Run(command) ==
  IF command.op = "apply" THEN WgSetPeer(command.public_key, command.ip)
  ELSE WgRemovePeer(command.public_key)

\* Mutant: a removal applies the peer.
CommandAlwaysApplies(job) ==
  [op |-> "apply", public_key |-> device[job.device].public_key,
   ip |-> device[job.device].vpn_ip]

\* The request the worker sends for a job: the device's current key and
\* address, whatever the payload says.
CommandOf(job) ==
  [op |-> IF job.type = "apply_peer" THEN "apply" ELSE "remove",
   public_key |-> device[job.device].public_key,
   ip |-> device[job.device].vpn_ip]

\* Mutant: any non-empty key will do.
IsAnyKey(key) == key # None

\* wg rejects a key that is not the base64 of 32 bytes.
IsWgKey(key) == key \in Packages

-----------------------------------------------------------------------------
(***************************************************************************)
(* run_pending_job_once.                                                   *)
(***************************************************************************)

Disturb == recon' = [recon EXCEPT !.undisturbed = FALSE]

\* The job's device is not ready, or has no key: no call to the agent.
WorkerRefuses(i) ==
  /\ ~JobMaySucceed(jobs[i])
  /\ JobFails(i)
  /\ Disturb
  /\ UNCHANGED <<peers, route, late>>

WorkerCompletes(i) ==
  /\ JobSucceeds(i)
  /\ IsWgKey(device[jobs[i].device].public_key)
  /\ Run(CommandOf(jobs[i]))
  /\ Disturb
  /\ UNCHANGED late

\* Mutant: the agent's error is not noticed.
WorkerIgnoresError(i) ==
  /\ "error" \in AgentFaults
  /\ JobSucceeds(i)
  /\ Disturb
  /\ UNCHANGED <<peers, route, late>>

\* wg refuses the key, or the command fails for a reason of the host.
WorkerGetsError(i) ==
  /\ JobMaySucceed(jobs[i])
  /\ "error" \in AgentFaults \/ ~IsWgKey(device[jobs[i].device].public_key)
  /\ JobFails(i)
  /\ Disturb
  /\ UNCHANGED <<peers, route, late>>

\* The socket timeout ends the wait; the agent's thread runs on.
WorkerTimesOut(i) ==
  /\ "timeout" \in AgentFaults
  /\ JobMaySucceed(jobs[i]) /\ IsWgKey(device[jobs[i].device].public_key)
  /\ JobFails(i)
  /\ late' = late \cup {CommandOf(jobs[i])}
  /\ Disturb
  /\ UNCHANGED <<peers, route>>

\* The worker dies after the command and before the commit: the job is
\* pending again.
WorkerCrashes(i) ==
  /\ "crash" \in AgentFaults
  /\ OldestPending(i)
  /\ JobMaySucceed(jobs[i]) /\ IsWgKey(device[jobs[i].device].public_key)
  /\ Run(CommandOf(jobs[i]))
  /\ Disturb
  /\ UNCHANGED <<vars, late>>

LateCommand ==
  \E command \in late :
    /\ Run(command)
    /\ late' = late \ {command}
    /\ Disturb
    /\ UNCHANGED vars

\* The host restarts, or wg-quick does: an interface without portal peers.
Reboot ==
  /\ "reboot" \in AgentFaults
  /\ peers' = {}
  /\ route' = [ip \in 1..PoolSize |-> None]
  /\ late' = {}
  /\ recon' = NoReconcile
  /\ UNCHANGED vars

-----------------------------------------------------------------------------
(***************************************************************************)
(* WgRuntimeModule.reconcile, run by ops/reconcile.sh, and the agent's     *)
(* handler: remove what is not in the target, then apply each target peer. *)
(***************************************************************************)

\* build_target_state.
TargetDevices ==
  {d \in Devices : /\ device[d].status \in RUNTIME_TARGET_DEVICE_STATUSES
                   /\ device[d].public_key # None}

TargetKeys == {device[d].public_key : d \in TargetDevices}

ReconcileReads ==
  /\ LiveReconcile
  /\ recon.pc = "idle"
  /\ recon' = [pc |-> "read", target |-> TargetKeys, todo |-> {},
               undisturbed |-> TRUE]
  /\ UNCHANGED <<vars, peers, route, late>>

\* Mutant: reconcile removes nothing.
ReconcileKeepsPeers ==
  /\ recon.pc = "read"
  /\ recon' = [recon EXCEPT !.pc = "removing"]
  /\ UNCHANGED <<vars, peers, route, late>>

ReconcileDumps ==
  /\ recon.pc = "read"
  /\ recon' = [recon EXCEPT !.pc = "removing", !.todo = peers \ recon.target]
  /\ UNCHANGED <<vars, peers, route, late>>

ReconcileRemoves(k) ==
  /\ recon.pc = "removing"
  /\ k \in recon.todo
  /\ WgRemovePeer(k)
  /\ recon' = [recon EXCEPT !.todo = @ \ {k}]
  /\ UNCHANGED <<vars, late>>

ReconcileTurns ==
  /\ recon.pc = "removing" /\ recon.todo = {}
  /\ recon' = [recon EXCEPT !.pc = "applying", !.todo = recon.target]
  /\ UNCHANGED <<vars, peers, route, late>>

ReconcileApplies(k) ==
  /\ recon.pc = "applying"
  /\ k \in recon.todo
  /\ WgSetPeer(k, IpOf(k))
  /\ recon' = [recon EXCEPT !.todo = @ \ {k}]
  /\ UNCHANGED <<vars, late>>

ReconcileEnds ==
  /\ recon.pc = "applying" /\ recon.todo = {}
  /\ recon' = NoReconcile
  /\ UNCHANGED <<vars, peers, route, late>>

\* A command fails and the handler stops where it is.
ReconcileFails ==
  /\ "error" \in AgentFaults
  /\ recon.pc # "idle"
  /\ recon' = NoReconcile
  /\ UNCHANGED <<vars, peers, route, late>>

-----------------------------------------------------------------------------

Portal == PortalNext /\ Disturb /\ UNCHANGED <<peers, route, late>>

Worker ==
  \E i \in DOMAIN jobs :
    \/ WorkerRefuses(i)
    \/ WorkerCompletes(i)
    \/ WorkerGetsError(i)
    \/ WorkerTimesOut(i)

ReconcileNext ==
  \/ ReconcileReads \/ ReconcileDumps \/ ReconcileTurns
  \/ ReconcileEnds \/ ReconcileFails
  \/ \E k \in Packages : ReconcileRemoves(k) \/ ReconcileApplies(k)

RuntimeNext ==
  \/ Portal
  \/ Worker
  \/ \E i \in DOMAIN jobs : WorkerCrashes(i)
  \/ LateCommand
  \/ Reboot
  \/ ReconcileNext

RuntimeSpec == RuntimeInit /\ [][RuntimeNext]_allVars

\* The worker's loop never stops and systemd restarts it: a pending job is
\* sooner or later run to its commit.  Nothing is assumed of users, admins,
\* the agent's stragglers or reconcile.
FairRuntimeSpec == RuntimeSpec /\ WF_allVars(Worker)

-----------------------------------------------------------------------------
(***************************************************************************)
(* Properties.                                                             *)
(***************************************************************************)

\* No key reaches the interface, by whatever command and however late, before
\* its user confirmed the download of its installer.
KernelKeysConfirmed == \A k \in peers : package[k].confirmed

\* Traffic of an address is only ever routed to a key that was built for the
\* device that has the address.
RoutesBelong ==
  \A ip \in 1..PoolSize : route[ip] # None =>
    route[ip] \in peers /\ ip = IpOf(route[ip])

\* A device the portal shows as active is connected: its current key is on the
\* interface and owns its address, also after errors and worker crashes.
ActivePeersRouted ==
  \A d \in Devices : device[d].status = "active" =>
    /\ device[d].public_key \in peers
    /\ route[device[d].vpn_ip] = device[d].public_key

\* Once a removal of a revoked device succeeded, the key the device had at its
\* revocation is off the interface and stays off.
RemovalCutsOff ==
  \A d \in Devices :
    /\ device[d].revoked
    /\ \E i \in JobsOf("remove_peer", d) : jobs[i].status = "succeeded"
    => device[d].public_key \notin peers

\* A reconcile that nothing disturbs ends with exactly the target peers on the
\* interface, each with its address, from whatever drift it started.
ReconcileSyncs ==
  recon.pc = "applying" /\ recon.todo = {} /\ recon.undisturbed =>
    /\ peers = TargetKeys
    /\ \A d \in TargetDevices : route[device[d].vpn_ip] = device[d].public_key

\* Every job is run, also when the worker dies in the middle of one.
JobsDrain ==
  \A i \in 1..MaxJobs :
    (i \in DOMAIN jobs /\ jobs[i].status = "pending")
      ~> (i \in DOMAIN jobs /\ jobs[i].status # "pending")

\* A confirmed download brings the device up, unless an admin withdraws the
\* device first or its own job is left failed in the table: a failed job of an
\* earlier confirmation does not count.
ComesUpOrShowsWhy(d) ==
  \/ device[d].status = "active" /\ device[d].public_key \in peers
  \/ device[d].status \notin RUNTIME_TARGET_DEVICE_STATUSES
  \/ \E i \in JobsOf("apply_peer", d) :
       /\ jobs[i].status = "failed"
       /\ \A k \in JobsOf("apply_peer", d) : k <= i

ConfirmedComesUp ==
  \A d \in Devices :
    device[d].status = "download_confirmed" ~> ComesUpOrShowsWhy(d)

\* What docs/v1-development-plan.md says of a reset and of a revocation: the
\* old peer is removed.  Once the removal of a revoked device succeeded, no key
\* that was ever built for it is on the interface.
RevokeDropsAllPeers ==
  \A d \in Devices :
    /\ device[d].revoked
    /\ \E i \in JobsOf("remove_peer", d) : jobs[i].status = "succeeded"
    => peers \cap PackagesOf(d) = {}
=============================================================================
