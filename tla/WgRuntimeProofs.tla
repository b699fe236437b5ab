-------------------------- MODULE WgRuntimeProofs --------------------------
(***************************************************************************)
(* What holds of the interface whatever fails above and below it.  Every   *)
(* command, however late, names a key that was confirmed when the command  *)
(* was made; a confirmed key keeps its device, and a device its address.   *)
(* So a command made from an old reading of the tables is still right      *)
(* about whose key has which address when it runs.                         *)
(***************************************************************************)
EXTENDS WgRuntime, DeviceRegistryProofs, DeviceJobsProofs

\* A command that configures a peer names a confirmed key and its own address.
OwnCommand(command) ==
  command.op = "apply" =>
    /\ package[command.public_key].confirmed
    /\ command.ip = IpOf(command.public_key)

\* So do the keys a run of reconcile has still to apply.
ReconcileOwn ==
  /\ \A k \in recon.target : package[k].confirmed
  /\ recon.pc = "applying" => recon.todo \subseteq recon.target

InterfaceInv ==
  /\ peers \subseteq Packages
  /\ route \in [1..PoolSize -> Packages \cup {None}]
  /\ KernelKeysConfirmed
  /\ RoutesBelong

RuntimeInv ==
  /\ IndInv
  /\ AddressesDistinct
  /\ RuntimeTypeOK
  /\ InterfaceInv
  /\ \A command \in late : OwnCommand(command)
  /\ ReconcileOwn

-----------------------------------------------------------------------------
(***************************************************************************)
(* A confirmed key stays confirmed, its device's, and at its address.      *)
(***************************************************************************)

\* What every step leaves alone in the row of a package.
LEMMA PackageStays ==
  ASSUME IndInv, [Next]_vars, NEW k \in Packages, PackageExists(k)
  PROVE  /\ package[k].confirmed => package'[k].confirmed
         /\ package'[k].device = package[k].device
<1>. DEFINE Stays == /\ package[k].confirmed => package'[k].confirmed
                     /\ package'[k].device = package[k].device
<1>1. /\ package \in [Packages -> InstallPackage]
      /\ package[k] \in InstallPackage
      /\ ~FreshPackage(k)
  BY DEF IndInv, TypeOK, FreshPackage
<1>2. CASE package'[k] = package[k]
  BY <1>2
<1>3. ASSUME NEW p \in Packages, NEW row, p # k, package' = [package EXCEPT ![p] = row]
      PROVE  package'[k] = package[k]
  BY <1>1, <1>3
<1>4. ASSUME NEW d \in Devices, NEW p \in Packages, NEW outcome \in BuildOutcome,
             NEW u \in Users, CreateDevice(u, d, p, outcome)
      PROVE  package'[k] = package[k]
  <2>1. p # k
    BY <1>1, <1>4 DEF CreateDevice, CreateGuard
  <2>2. QED
    BY <1>3, <1>4, <2>1 DEF CreateDevice
<1>5. ASSUME NEW p \in Packages,
             \/ ExpireOnDownload(p) \/ ServeDownload(p)
             \/ ConfirmDownload(p) \/ WindowCloses(p)
      PROVE  Stays
  <2>1. package[p] \in InstallPackage
    BY DEF IndInv, TypeOK
  <2>2. \E row \in {ExpiredPackage(package[p]), ServedPackage(package[p]),
                    ConfirmedPackage(package[p]),
                    [package[p] EXCEPT !.window = "closed"]} :
          package' = [package EXCEPT ![p] = row]
    BY <1>5 DEF ExpireOnDownload, ServeDownload, ConfirmDownload, WindowCloses
  <2>3. \A row \in {ExpiredPackage(package[p]), ServedPackage(package[p]),
                    ConfirmedPackage(package[p]),
                    [package[p] EXCEPT !.window = "closed"]} :
          /\ package[p].confirmed => row.confirmed
          /\ row.device = package[p].device
    BY <2>1 DEF InstallPackage, ExpiredPackage, ServedPackage, ConfirmedPackage
  <2>4. CASE p = k
    BY <1>1, <2>2, <2>3, <2>4
  <2>5. CASE p # k
    BY <1>1, <2>2, <2>5
  <2>6. QED
    BY <2>4, <2>5
<1>6. ASSUME NEW d \in Devices, NEW p \in Packages, NEW outcome \in BuildOutcome,
             Reset(d, p, outcome)
      PROVE  Stays
  <2>1. p # k
    BY <1>1, <1>6 DEF Reset, ResetGuard
  <2>2. package'[k] \in {package[k], WithdrawnPackage(package[k])}
    BY <1>6, <2>1 DEF Reset, WithdrawPackages
  <2>3. QED
    BY <1>1, <2>2, WithdrawnRow
<1>7. ASSUME NEW d \in Devices, Revoke(d)
      PROVE  Stays
  <2>1. package'[k] \in {package[k], RevokedPackage(package[k])}
    BY <1>7 DEF Revoke
  <2>2. QED
    BY <1>1, <2>1, RevokedRow
<1>8. CASE \/ \E d \in Devices : ReportLost(d)
           \/ \E u \in Users, n \in 0..MaxLimit : UpdateUser(u, n)
           \/ LostTransaction
           \/ \E i \in DOMAIN jobs : JobSucceeds(i) \/ JobFails(i)
           \/ UNCHANGED vars
  BY <1>8 DEF ReportLost, UpdateUser, LostTransaction, JobSucceeds, JobFails, vars
<1>9. QED
  BY <1>4, <1>5, <1>6, <1>7, <1>8 DEF Next, PortalNext, WorkerNext

\* A confirmed package stays confirmed, and keeps its device.
LEMMA ConfirmedStays ==
  ASSUME IndInv, [Next]_vars, NEW k \in Packages, package[k].confirmed
  PROVE  package'[k].confirmed /\ package'[k].device = package[k].device
<1>1. PackageExists(k)
  BY PackageOwner DEF IndInv, NoPackage
<1>2. QED
  BY <1>1, PackageStays

\* The device of a confirmed key exists, and an address of the pool is its own.
LEMMA ConfirmedHasAddress ==
  ASSUME IndInv, AddressesDistinct, NEW k \in Packages, package[k].confirmed
  PROVE  /\ package[k].device \in Devices
         /\ DeviceExists(package[k].device)
         /\ IpOf(k) \in 1..PoolSize
<1>1. package[k] # NoPackage
  BY DEF NoPackage
<1>2. package[k].device \in Devices /\ DeviceExists(package[k].device)
  BY <1>1, PackageOwner DEF IndInv
<1>3. QED
  BY <1>2 DEF AddressesDistinct, IpOf

\* So a confirmed key keeps its address.
LEMMA AddressStays ==
  ASSUME IndInv, AddressesDistinct, [Next]_vars, NEW k \in Packages, package[k].confirmed
  PROVE  IpOf(k)' = IpOf(k)
<1>1. package'[k].device = package[k].device
  BY ConfirmedStays
<1>2. package[k].device \in Devices /\ DeviceExists(package[k].device)
  BY ConfirmedHasAddress
<1>3. CASE DevicesKeepPlace
  BY <1>1, <1>2, <1>3 DEF DevicesKeepPlace, KeepsPlace, IpOf
<1>4. ASSUME NEW u \in Users, NEW d \in Devices, NEW p \in Packages,
             NEW outcome \in BuildOutcome, CreateDevice(u, d, p, outcome)
      PROVE  IpOf(k)' = IpOf(k)
  <2>1. /\ ~DeviceExists(d)
        /\ \E row : device' = [device EXCEPT ![d] = row]
    BY <1>4 DEF CreateDevice, CreateGuard, FreshDevice
  <2>2. device'[package[k].device] = device[package[k].device]
    BY <1>2, <2>1 DEF IndInv, TypeOK
  <2>3. QED
    BY <1>1, <2>2 DEF IpOf
<1>5. QED
  BY <1>3, <1>4, OnlyCreateAdds

-----------------------------------------------------------------------------
(***************************************************************************)
(* The wg commands.                                                        *)
(***************************************************************************)

\* Configuring a confirmed key with its own address.
LEMMA SetPeerKeepsInterface ==
  ASSUME RuntimeInv, [Next]_vars, NEW k \in Packages, package[k].confirmed,
         WgSetPeer(k, IpOf(k))
  PROVE  InterfaceInv'
<1>1. /\ peers' = peers \cup {k}
      /\ route' = [a \in 1..PoolSize |->
                     IF a = IpOf(k) THEN k ELSE IF route[a] = k THEN None ELSE route[a]]
  BY DEF WgSetPeer
<1>2. peers \subseteq Packages /\ route \in [1..PoolSize -> Packages \cup {None}]
  BY DEF RuntimeInv, InterfaceInv
<1>3. \A q \in peers' : q \in Packages /\ package[q].confirmed
  BY <1>1, <1>2 DEF RuntimeInv, InterfaceInv, KernelKeysConfirmed
<1>4. \A q \in peers' : package'[q].confirmed /\ IpOf(q)' = IpOf(q)
  BY <1>3, ConfirmedStays, AddressStays DEF RuntimeInv
<1>5. ASSUME NEW a \in 1..PoolSize, route'[a] # None
      PROVE  route'[a] \in peers' /\ a = IpOf(route'[a])
  <2>1. CASE a = IpOf(k)
    BY <1>1, <2>1
  <2>2. CASE a # IpOf(k)
    <3>1. route'[a] = route[a] /\ route[a] # None
      BY <1>1, <1>5, <2>2
    <3>2. route[a] \in peers /\ a = IpOf(route[a])
      BY <3>1 DEF RuntimeInv, InterfaceInv, RoutesBelong
    <3>3. QED
      BY <1>1, <3>1, <3>2
  <2>3. QED
    BY <2>1, <2>2
<1>6. RoutesBelong'
  BY <1>4, <1>5 DEF RoutesBelong
<1>7. KernelKeysConfirmed'
  BY <1>4 DEF KernelKeysConfirmed
<1>8. route' \in [1..PoolSize -> Packages \cup {None}] /\ peers' \subseteq Packages
  BY <1>1, <1>2
<1>9. QED
  BY <1>6, <1>7, <1>8 DEF InterfaceInv

\* Removing a key, whoever it belongs to, or leaving the interface alone.
LEMMA FewerPeersKeepInterface ==
  ASSUME RuntimeInv, [Next]_vars,
         \/ UNCHANGED <<peers, route>>
         \/ \E k \in Packages : WgRemovePeer(k)
         \/ peers' = {} /\ route' = [ip \in 1..PoolSize |-> None]
  PROVE  InterfaceInv'
<1>1. peers \subseteq Packages /\ route \in [1..PoolSize -> Packages \cup {None}]
  BY DEF RuntimeInv, InterfaceInv
<1>. DEFINE Fewer ==
              /\ peers' \subseteq peers
              /\ route' \in [1..PoolSize -> Packages \cup {None}]
              /\ \A a \in 1..PoolSize : route'[a] # None =>
                   route'[a] = route[a] /\ route[a] \in peers'
<1>2. Fewer
  <2>1. \A a \in 1..PoolSize : route[a] # None => route[a] \in peers
    BY DEF RuntimeInv, InterfaceInv, RoutesBelong
  <2>2. CASE UNCHANGED <<peers, route>>
    BY <1>1, <2>1, <2>2
  <2>3. ASSUME NEW k \in Packages, WgRemovePeer(k)
        PROVE  Fewer
    BY <1>1, <2>1, <2>3 DEF WgRemovePeer
  <2>4. CASE peers' = {} /\ route' = [ip \in 1..PoolSize |-> None]
    BY <2>4
  <2>5. QED
    BY <2>2, <2>3, <2>4
<1>3. \A q \in peers' : q \in Packages /\ package[q].confirmed
  BY <1>1, <1>2 DEF RuntimeInv, InterfaceInv, KernelKeysConfirmed
<1>4. \A q \in peers' : package'[q].confirmed /\ IpOf(q)' = IpOf(q)
  BY <1>3, ConfirmedStays, AddressStays DEF RuntimeInv
<1>5. ASSUME NEW a \in 1..PoolSize, route'[a] # None
      PROVE  route'[a] \in peers' /\ a = IpOf(route'[a])
  BY <1>2, <1>5 DEF RuntimeInv, InterfaceInv, RoutesBelong
<1>6. RoutesBelong'
  BY <1>4, <1>5 DEF RoutesBelong
<1>7. KernelKeysConfirmed'
  BY <1>4 DEF KernelKeysConfirmed
<1>8. QED
  BY <1>1, <1>2, <1>6, <1>7 DEF InterfaceInv

-----------------------------------------------------------------------------
(***************************************************************************)
(* The steps.                                                              *)
(***************************************************************************)

\* What the worker asks of the agent is its device's own.
LEMMA JobCommand ==
  ASSUME RuntimeInv, NEW i \in DOMAIN jobs,
         JobMaySucceed(jobs[i]), IsWgKey(device[jobs[i].device].public_key)
  PROVE  /\ CommandOf(jobs[i]) \in Command
         /\ OwnCommand(CommandOf(jobs[i]))
<1>. DEFINE d == jobs[i].device
            k == device[d].public_key
<1>1. jobs[i] \in Job
  BY DEF RuntimeInv, IndInv, TypeOK
<1>2. d \in Devices /\ k \in Packages /\ DeviceExists(d)
  <2>1. d \in Devices /\ k \in Packages
    BY <1>1 DEF Job, IsWgKey
  <2>2. NoDevice.public_key \notin Packages
    BY IdentifierAssumption DEF NoDevice
  <2>3. QED
    BY <2>1, <2>2 DEF RuntimeInv, IndInv, TypeOK, DeviceExists
<1>3. device[d].vpn_ip \in 1..PoolSize
  BY <1>2 DEF RuntimeInv, AddressesDistinct
<1>4. jobs[i].type = "apply_peer" => package[k].confirmed /\ package[k].device = d
  BY <1>2 DEF RuntimeInv, IndInv, PeersHaveConfirmedKeys, PackagesOf, JobMaySucceed
<1>5. CommandOf(jobs[i]) =
        [op |-> IF jobs[i].type = "apply_peer" THEN "apply" ELSE "remove",
         public_key |-> k, ip |-> device[d].vpn_ip]
  BY DEF CommandOf
<1>. HIDE DEF d, k
<1>6. CommandOf(jobs[i]) \in Command
  BY <1>2, <1>3, <1>5 DEF Command
<1>7. OwnCommand(CommandOf(jobs[i]))
  BY <1>4, <1>5 DEF OwnCommand, IpOf
<1>8. QED
  BY <1>6, <1>7

\* A command about its own key and address leaves the interface right.
LEMMA RunKeepsInterface ==
  ASSUME RuntimeInv, [Next]_vars, NEW command \in Command, OwnCommand(command),
         Run(command)
  PROVE  InterfaceInv'
<1>1. command.public_key \in Packages
  BY DEF Command
<1>2. CASE command.op = "apply"
  <2>1. /\ package[command.public_key].confirmed
        /\ WgSetPeer(command.public_key, IpOf(command.public_key))
    BY <1>2 DEF OwnCommand, Run
  <2>2. QED
    BY <1>1, <2>1, SetPeerKeepsInterface
<1>3. CASE command.op # "apply"
  BY <1>1, <1>3, FewerPeersKeepInterface DEF Run
<1>4. QED
  BY <1>2, <1>3

\* Every step of the system is a step of the tables, or leaves them alone.
LEMMA StepOfTables == [RuntimeNext]_allVars => [Next]_vars
BY DEF RuntimeNext, Portal, Worker, WorkerRefuses, WorkerCompletes, WorkerGetsError,
       WorkerTimesOut, WorkerCrashes, LateCommand, Reboot, ReconcileNext,
       ReconcileReads, ReconcileDumps, ReconcileTurns, ReconcileEnds, ReconcileFails,
       ReconcileRemoves, ReconcileApplies, Next, WorkerNext, allVars, vars

\* The interface after a step: the command of a worker, of a straggler or of
\* reconcile ran, or nothing was configured.
LEMMA InterfaceStep ==
  ASSUME RuntimeInv, [RuntimeNext]_allVars
  PROVE  InterfaceInv'
<1>1. [Next]_vars
  BY StepOfTables
<1>2. CASE \E i \in DOMAIN jobs : WorkerCompletes(i) \/ WorkerCrashes(i)
  <2>1. PICK i \in DOMAIN jobs :
          /\ JobMaySucceed(jobs[i])
          /\ IsWgKey(device[jobs[i].device].public_key)
          /\ Run(CommandOf(jobs[i]))
    BY <1>2 DEF WorkerCompletes, WorkerCrashes, JobSucceeds
  <2>2. QED
    BY <1>1, <2>1, JobCommand, RunKeepsInterface
<1>3. CASE LateCommand
  <2>1. PICK command \in late : Run(command)
    BY <1>3 DEF LateCommand
  <2>2. command \in Command /\ OwnCommand(command)
    BY DEF RuntimeInv, RuntimeTypeOK
  <2>3. QED
    BY <1>1, <2>1, <2>2, RunKeepsInterface
<1>4. ASSUME NEW k \in Packages, ReconcileApplies(k)
      PROVE  InterfaceInv'
  <2>1. WgSetPeer(k, IpOf(k)) /\ package[k].confirmed
    BY <1>4 DEF ReconcileApplies, RuntimeInv, ReconcileOwn
  <2>2. QED
    BY <1>1, <2>1, SetPeerKeepsInterface
<1>5. CASE Reboot \/ \E k \in Packages : ReconcileRemoves(k)
  BY <1>1, <1>5, FewerPeersKeepInterface DEF Reboot, ReconcileRemoves
<1>6. CASE UNCHANGED <<peers, route>>
  BY <1>1, <1>6, FewerPeersKeepInterface
<1>7. QED
  BY <1>2, <1>3, <1>4, <1>5, <1>6
     DEF RuntimeNext, Portal, Worker, WorkerRefuses, WorkerGetsError, WorkerTimesOut,
         ReconcileNext, ReconcileReads, ReconcileDumps, ReconcileTurns, ReconcileEnds,
         ReconcileFails, allVars, runtimeVars

\* The requests still on their way.
LEMMA LateStep ==
  ASSUME RuntimeInv, [RuntimeNext]_allVars
  PROVE  late' \subseteq Command /\ \A command \in late' : OwnCommand(command)'
<1>1. [Next]_vars
  BY StepOfTables
<1>2. ASSUME NEW command \in Command, OwnCommand(command)
      PROVE  OwnCommand(command)'
  <2>. SUFFICES ASSUME command.op = "apply"
                PROVE  /\ package'[command.public_key].confirmed
                       /\ command.ip = IpOf(command.public_key)'
    BY DEF OwnCommand
  <2>1. /\ command.public_key \in Packages
        /\ package[command.public_key].confirmed
        /\ command.ip = IpOf(command.public_key)
    BY <1>2 DEF OwnCommand, Command
  <2>2. QED
    BY <1>1, <2>1, ConfirmedStays, AddressStays DEF RuntimeInv
<1>3. /\ late \subseteq Command
      /\ \A command \in late : OwnCommand(command)
  BY DEF RuntimeInv, RuntimeTypeOK
<1>4. CASE \E i \in DOMAIN jobs : WorkerTimesOut(i)
  <2>1. PICK i \in DOMAIN jobs :
          /\ JobMaySucceed(jobs[i])
          /\ IsWgKey(device[jobs[i].device].public_key)
          /\ late' = late \cup {CommandOf(jobs[i])}
    BY <1>4 DEF WorkerTimesOut
  <2>2. CommandOf(jobs[i]) \in Command /\ OwnCommand(CommandOf(jobs[i]))
    BY <2>1, JobCommand
  <2>3. QED
    BY <1>2, <1>3, <2>1, <2>2
<1>5. CASE late' \subseteq late
  BY <1>2, <1>3, <1>5
<1>6. QED
  BY <1>4, <1>5
     DEF RuntimeNext, Portal, Worker, WorkerRefuses, WorkerCompletes, WorkerGetsError,
         WorkerCrashes, LateCommand, Reboot, ReconcileNext, ReconcileReads,
         ReconcileDumps, ReconcileTurns, ReconcileEnds, ReconcileFails,
         ReconcileRemoves, ReconcileApplies, allVars, runtimeVars

\* The keys build_target_state reads are confirmed.
LEMMA TargetKeysConfirmed ==
  ASSUME IndInv
  PROVE  \A k \in TargetKeys : k \in Packages /\ package[k].confirmed
BY DEF IndInv, PeersHaveConfirmedKeys, PackagesOf, TargetKeys, TargetDevices

\* reconcile works on keys that were confirmed when it read them.
LEMMA ReconcileStep ==
  ASSUME RuntimeInv, [RuntimeNext]_allVars
  PROVE  recon' \in Reconcile /\ ReconcileOwn'
<1>1. [Next]_vars
  BY StepOfTables
<1>2. /\ recon \in Reconcile
      /\ \A k \in recon.target : k \in Packages /\ package[k].confirmed
      /\ recon.pc = "applying" => recon.todo \subseteq recon.target
  BY DEF RuntimeInv, RuntimeTypeOK, ReconcileOwn, Reconcile
<1>3. SUFFICES /\ recon' \in Reconcile
               /\ \A k \in recon'.target : k \in Packages /\ package[k].confirmed
               /\ recon'.pc = "applying" => recon'.todo \subseteq recon'.target
  BY <1>1, ConfirmedStays DEF RuntimeInv, ReconcileOwn
<1>4. CASE ReconcileReads
  BY <1>4, TargetKeysConfirmed DEF ReconcileReads, RuntimeInv, Reconcile
<1>5. CASE ReconcileDumps
  BY <1>2, <1>5 DEF ReconcileDumps, Reconcile, RuntimeInv, InterfaceInv
<1>6. CASE ReconcileTurns
  BY <1>2, <1>6 DEF ReconcileTurns, Reconcile
<1>7. CASE \E k \in Packages : ReconcileRemoves(k) \/ ReconcileApplies(k)
  BY <1>2, <1>7 DEF ReconcileRemoves, ReconcileApplies, Reconcile
<1>8. CASE ReconcileEnds \/ ReconcileFails \/ Reboot
  <2>1. recon' = NoReconcile
    BY <1>8 DEF ReconcileEnds, ReconcileFails, Reboot
  <2>2. /\ NoReconcile \in Reconcile
        /\ NoReconcile.target = {} /\ NoReconcile.pc = "idle"
    BY DEF NoReconcile, Reconcile
  <2>3. QED
    BY <2>1, <2>2
<1>9. CASE Disturb \/ UNCHANGED recon
  BY <1>2, <1>9 DEF Disturb, Reconcile
<1>10. QED
  BY <1>4, <1>5, <1>6, <1>7, <1>8, <1>9
     DEF RuntimeNext, Portal, Worker, WorkerRefuses, WorkerCompletes, WorkerGetsError,
         WorkerTimesOut, WorkerCrashes, LateCommand, ReconcileNext, allVars, runtimeVars

\* So the interface, the commands and reconcile stay right.
LEMMA RuntimeInductive == RuntimeSpec => []RuntimeInv
<1>1. RuntimeInit => RuntimeInv
  <2>. SUFFICES ASSUME RuntimeInit PROVE RuntimeInv
    OBVIOUS
  <2>1. IndInv
    BY InitEstablishes DEF RuntimeInit
  <2>2. AddressesDistinct
    BY DEF RuntimeInit, Init, AddressesDistinct, DeviceExists, NoDevice
  <2>3. QED
    BY <2>1, <2>2
       DEF RuntimeInit, RuntimeInv, RuntimeTypeOK, InterfaceInv, KernelKeysConfirmed,
           RoutesBelong, ReconcileOwn, NoReconcile, Reconcile, IndInv
<1>2. RuntimeInv /\ [RuntimeNext]_allVars => RuntimeInv'
  <2>. SUFFICES ASSUME RuntimeInv, [RuntimeNext]_allVars PROVE RuntimeInv'
    OBVIOUS
  <2>1. IndInv' /\ AddressesDistinct'
    BY StepOfTables, StepPreserves, AddressesPreserved DEF RuntimeInv
  <2>2. InterfaceInv'
    BY InterfaceStep
  <2>3. late' \subseteq Command /\ \A command \in late' : OwnCommand(command)'
    BY LateStep
  <2>4. recon' \in Reconcile /\ ReconcileOwn'
    BY ReconcileStep
  <2>5. RuntimeTypeOK'
    BY <2>1, <2>2, <2>3, <2>4 DEF RuntimeTypeOK, InterfaceInv, IndInv
  <2>6. QED
    BY <2>1, <2>2, <2>3, <2>4, <2>5 DEF RuntimeInv
<1>3. QED
  BY <1>1, <1>2, PTL DEF RuntimeSpec

-----------------------------------------------------------------------------

\* The interface, the stragglers and reconcile keep their types: no fault makes
\* anything but a generated key a peer.
THEOREM RuntimeTyped == RuntimeSpec => []RuntimeTypeOK
<1>1. RuntimeInv => RuntimeTypeOK
  BY DEF RuntimeInv
<1>2. QED
  BY <1>1, RuntimeInductive, PTL

\* Under every fault, a key on the interface is one whose user confirmed the
\* download of its installer.
THEOREM OnlyConfirmedKeys == RuntimeSpec => []KernelKeysConfirmed
<1>1. RuntimeInv => KernelKeysConfirmed
  BY DEF RuntimeInv, InterfaceInv
<1>2. QED
  BY <1>1, RuntimeInductive, PTL

\* Under every fault, an address is routed to a key of the device that has it.
THEOREM RoutesStayOwn == RuntimeSpec => []RoutesBelong
<1>1. RuntimeInv => RoutesBelong
  BY DEF RuntimeInv, InterfaceInv
<1>2. QED
  BY <1>1, RuntimeInductive, PTL

-----------------------------------------------------------------------------
(***************************************************************************)
(* Reconcile.                                                              *)
(***************************************************************************)

\* How far an undisturbed run has come: the rest of what has to go, then the
\* part of the target that is already in place.
SyncInv ==
  recon.undisturbed =>
    /\ recon.target = TargetKeys
    /\ recon.pc = "removing" => peers \ recon.todo \subseteq recon.target
    /\ recon.pc = "applying" =>
         /\ peers \subseteq recon.target
         /\ \A k \in recon.target \ recon.todo : k \in peers /\ route[IpOf(k)] = k

\* Every target device has one key and every key one address: no peer of the
\* target takes the address of another.
LEMMA TargetAddresses ==
  ASSUME IndInv, AddressesDistinct
  PROVE  /\ \A k, q \in TargetKeys : k # q => IpOf(k) # IpOf(q)
         /\ \A k \in TargetKeys : k \in Packages /\ IpOf(k) \in 1..PoolSize
         /\ \A d \in TargetDevices : IpOf(device[d].public_key) = device[d].vpn_ip
<1>1. ASSUME NEW d \in TargetDevices
      PROVE  /\ d \in Devices /\ DeviceExists(d)
             /\ device[d].public_key \in Packages
             /\ package[device[d].public_key].device = d
  BY DEF TargetDevices, IndInv, PeersHaveConfirmedKeys, PackagesOf, DeviceExists,
         RUNTIME_TARGET_DEVICE_STATUSES
<1>2. ASSUME NEW d \in TargetDevices
      PROVE  /\ IpOf(device[d].public_key) = device[d].vpn_ip
             /\ device[d].vpn_ip \in 1..PoolSize
  BY <1>1 DEF IpOf, AddressesDistinct
<1>3. ASSUME NEW d \in TargetDevices, NEW e \in TargetDevices,
             device[d].vpn_ip = device[e].vpn_ip
      PROVE  d = e
  BY <1>1, <1>3 DEF AddressesDistinct
<1>4. QED
  BY <1>1, <1>2, <1>3 DEF TargetKeys

\* A reconcile nobody disturbs has configured what it has done, and removed
\* what it was to remove.
LEMMA SyncStep ==
  ASSUME RuntimeInv, SyncInv, [RuntimeNext]_allVars
  PROVE  SyncInv'
<1>1. /\ recon \in Reconcile
      /\ recon.pc = "applying" => recon.todo \subseteq recon.target
  BY DEF RuntimeInv, RuntimeTypeOK, ReconcileOwn
<1>2. CASE ~recon'.undisturbed
  BY <1>2 DEF SyncInv
<1>3. CASE ReconcileReads
  BY <1>3 DEF ReconcileReads, SyncInv, TargetKeys, TargetDevices, vars
<1>4. CASE ReconcileDumps
  BY <1>1, <1>4 DEF ReconcileDumps, Reconcile, SyncInv, TargetKeys, TargetDevices, vars
<1>5. ASSUME NEW k \in Packages, ReconcileRemoves(k)
      PROVE  SyncInv'
  BY <1>1, <1>5
     DEF ReconcileRemoves, WgRemovePeer, Reconcile, SyncInv, TargetKeys, TargetDevices, vars
<1>6. CASE ReconcileTurns
  BY <1>1, <1>6 DEF ReconcileTurns, Reconcile, SyncInv, TargetKeys, TargetDevices, vars
<1>7. ASSUME NEW k \in Packages, ReconcileApplies(k), recon'.undisturbed
      PROVE  SyncInv'
  <2>1. /\ recon.pc = "applying" /\ k \in recon.todo
        /\ recon' = [recon EXCEPT !.todo = recon.todo \ {k}]
        /\ peers' = peers \cup {k}
        /\ route' = [a \in 1..PoolSize |->
                       IF a = IpOf(k) THEN k
                       ELSE IF route[a] = k THEN None ELSE route[a]]
        /\ device' = device /\ package' = package
    BY <1>7 DEF ReconcileApplies, WgSetPeer, vars
  <2>2. /\ recon'.pc = "applying" /\ recon'.todo = recon.todo \ {k}
        /\ recon'.target = recon.target /\ recon.undisturbed
    BY <1>1, <1>7, <2>1 DEF Reconcile
  <2>3. /\ recon.target = TargetKeys
        /\ peers \subseteq recon.target
        /\ \A q \in recon.target \ recon.todo : q \in peers /\ route[IpOf(q)] = q
    BY <2>1, <2>2 DEF SyncInv
  <2>4. /\ \A p, q \in TargetKeys : p # q => IpOf(p) # IpOf(q)
        /\ \A q \in TargetKeys : IpOf(q) \in 1..PoolSize
    BY TargetAddresses DEF RuntimeInv
  <2>5. k \in TargetKeys /\ peers' \subseteq recon.target
    BY <1>1, <2>1, <2>3
  <2>6. ASSUME NEW q \in recon.target \ recon'.todo
        PROVE  q \in peers' /\ route'[IpOf(q)] = q
    BY <2>1, <2>2, <2>3, <2>4, <2>5
  <2>7. TargetKeys' = TargetKeys /\ \A q : IpOf(q)' = IpOf(q)
    BY <2>1 DEF TargetKeys, TargetDevices, IpOf
  <2>8. QED
    BY <2>2, <2>3, <2>5, <2>6, <2>7 DEF SyncInv
<1>8. CASE ReconcileEnds \/ ReconcileFails \/ Reboot
  <2>1. recon' = NoReconcile
    BY <1>8 DEF ReconcileEnds, ReconcileFails, Reboot
  <2>2. QED
    BY <1>2, <2>1 DEF NoReconcile
<1>9. CASE Disturb
  BY <1>1, <1>2, <1>9 DEF Disturb, Reconcile
<1>10. CASE UNCHANGED allVars
  BY <1>10
     DEF allVars, vars, runtimeVars, SyncInv, TargetKeys, TargetDevices, IpOf
<1>11. QED
  BY <1>2, <1>3, <1>4, <1>5, <1>6, <1>7, <1>8, <1>9, <1>10
     DEF RuntimeNext, Portal, Worker, WorkerRefuses, WorkerCompletes, WorkerGetsError,
         WorkerTimesOut, WorkerCrashes, LateCommand, ReconcileNext

\* A reconcile that nothing disturbs leaves exactly the target on the interface,
\* every peer at its address, whatever was configured there before.
THEOREM ReconcileRestores == RuntimeSpec => []ReconcileSyncs
<1>1. RuntimeInit => SyncInv
  BY DEF RuntimeInit, SyncInv, NoReconcile
<1>2. RuntimeInv /\ SyncInv /\ [RuntimeNext]_allVars => SyncInv'
  BY SyncStep
<1>3. RuntimeInv /\ SyncInv => ReconcileSyncs
  <2>. SUFFICES ASSUME RuntimeInv, SyncInv,
                       recon.pc = "applying", recon.todo = {}, recon.undisturbed
                PROVE  /\ peers = TargetKeys
                       /\ \A d \in TargetDevices :
                            route[device[d].vpn_ip] = device[d].public_key
    BY DEF ReconcileSyncs
  <2>1. /\ peers = TargetKeys
        /\ \A k \in TargetKeys : route[IpOf(k)] = k
    BY DEF SyncInv
  <2>2. ASSUME NEW d \in TargetDevices
        PROVE  route[device[d].vpn_ip] = device[d].public_key
    <3>1. IpOf(device[d].public_key) = device[d].vpn_ip
      BY TargetAddresses DEF RuntimeInv
    <3>2. device[d].public_key \in TargetKeys
      BY DEF TargetKeys
    <3>3. QED
      BY <2>1, <3>1, <3>2
  <2>3. QED
    BY <2>1, <2>2
<1>4. QED
  BY <1>1, <1>2, <1>3, RuntimeInductive, PTL DEF RuntimeSpec

-----------------------------------------------------------------------------
(***************************************************************************)
(* What the portal shows and what the interface does, while the worker     *)
(* alone drives the interface: no reconcile next to it, no request that    *)
(* outlives the worker's wait.  Its commands may fail and it may die after *)
(* any of them; the commit it then misses leaves the job to be run again.  *)
(***************************************************************************)

\* Nobody but the worker sends commands.
WorkerAlone == ~LiveReconcile /\ "timeout" \notin AgentFaults

\* A device's key, where it is a key, was generated for this device.
KeysOwned ==
  \A d \in Devices :
    device[d].public_key \in Packages => package[device[d].public_key].device = d

\* Only a revocation asks for a removal.
RemovalsRevoked ==
  \A i \in DOMAIN jobs : jobs[i].type = "remove_peer" => device[jobs[i].device].revoked

TablesInv == KeysOwned /\ RemovalsRevoked

Undriven == late = {} /\ recon \in Reconcile /\ recon.pc = "idle"

-----------------------------------------------------------------------------
(***************************************************************************)
(* The tables.                                                             *)
(***************************************************************************)

\* A job is about a device, of one of two types.
LEMMA JobTypes ==
  ASSUME IndInv
  PROVE  \A i \in DOMAIN jobs : /\ jobs[i] \in Job
                               /\ jobs[i].device \in Devices
                               /\ jobs[i].type \in {"apply_peer", "remove_peer"}
<1>1. \A i \in DOMAIN jobs : jobs[i] \in Job
  BY DEF IndInv, TypeOK
<1>2. QED
  BY <1>1 DEF Job

\* What a request of the portal leaves alone in a device it does not build for.
SameKey(before, after) ==
  /\ after.public_key = before.public_key
  /\ before.revoked => after.revoked
  /\ after.status = "active" => before.status = "active"

\* A build is never for a revoked device, and ends with the key it generated or
\* with none.
Rebuilt(d) ==
  /\ ~device[d].revoked
  /\ device'[d].status # "active"
  /\ \E p \in Packages : /\ device'[d].public_key \in {p, None, ResetKey}
                         /\ package'[p].device = d

\* A build gives the device its own key, or none.
LEMMA BuiltRow ==
  ASSUME NEW row \in Device, NEW d \in Devices, NEW p \in Packages,
         NEW outcome \in BuildOutcome
  PROVE  /\ DeviceAfterBuild(row, p, outcome).public_key \in {p, row.public_key}
         /\ PackageAfterBuild(d, outcome).device = d
<1>1. PackageAfterBuild(d, outcome).device = d
  BY BuildRows
<1>2. CASE outcome = "built"
  BY <1>1, <1>2 DEF DeviceAfterBuild, Device
<1>3. CASE outcome \in {"failed", "failed_after_write"}
  BY <1>1, <1>3 DEF DeviceAfterBuild, Device
<1>4. CASE outcome = "not_configured"
  BY <1>1, <1>4 DEF DeviceAfterBuild, Device
<1>5. QED
  BY <1>2, <1>3, <1>4 DEF BuildOutcome

\* A request leaves the key of a device, or rebuilds the device.
LEMMA PortalRows ==
  ASSUME IndInv, PortalNext, NEW d \in Devices
  PROVE  SameKey(device[d], device'[d]) \/ Rebuilt(d)
<1>1. device \in [Devices -> Device] /\ package \in [Packages -> InstallPackage]
  BY DEF IndInv, TypeOK
<1>2. ASSUME NEW e \in Devices, NEW row, device' = [device EXCEPT ![e] = row],
             SameKey(device[e], row)
      PROVE  SameKey(device[d], device'[d])
  BY <1>1, <1>2 DEF SameKey
<1>3. CASE device' = device
  BY <1>3 DEF SameKey
<1>4. ASSUME NEW u \in Users, NEW e \in Devices, NEW p \in Packages,
             NEW outcome \in BuildOutcome, CreateDevice(u, e, p, outcome)
      PROVE  SameKey(device[d], device'[d]) \/ Rebuilt(d)
  <2>1. PICK ip \in 1..PoolSize :
          /\ CreateGuard(u, e, p, ip)
          /\ device' = [device EXCEPT
                          ![e] = DeviceAfterBuild(CreatedDevice(u, ip), p, outcome)]
    BY <1>4 DEF CreateDevice
  <2>2. package' = [package EXCEPT ![p] = PackageAfterBuild(e, outcome)]
    BY <1>4 DEF CreateDevice
  <2>. DEFINE row == CreatedDevice(u, ip)
  <2>3. /\ row \in Device /\ row.status = "pending_build" /\ row.public_key = None
    <3>1. NoDevice.public_key = None
      BY DEF NoDevice
    <3>2. row.public_key = NoDevice.public_key
      BY FreshRows DEF CreatedDevice, Device
    <3>3. QED
      BY <3>1, <3>2, FreshRows
  <2>. HIDE DEF row
  <2>4. CASE e # d
    BY <1>1, <2>1, <2>4 DEF SameKey
  <2>5. CASE e = d
    <3>1. device'[d] = DeviceAfterBuild(row, p, outcome)
      BY <1>1, <2>1, <2>5 DEF row
    <3>2. /\ device'[d].status \in {"ready_to_download", "pending_build"}
          /\ device'[d].public_key \in {p, None}
          /\ package'[p].device = d
      BY <1>1, <2>2, <2>3, <2>5, <3>1, BuiltRow, BuildRows
    <3>3. ~device[d].revoked
      <4>1. device[d] = NoDevice
        BY <2>1, <2>5 DEF CreateGuard, FreshDevice, DeviceExists, IndInv, TypeOK
      <4>2. QED
        BY <4>1 DEF NoDevice
    <3>4. QED
      BY <3>2, <3>3 DEF Rebuilt
  <2>6. QED
    BY <2>4, <2>5
<1>5. ASSUME NEW e \in Devices, NEW p \in Packages, NEW outcome \in BuildOutcome,
             Reset(e, p, outcome)
      PROVE  SameKey(device[d], device'[d]) \/ Rebuilt(d)
  <2>. DEFINE row == ResetDevice(device[e])
  <2>1. /\ device[e].status # "revoked"
        /\ device' = [device EXCEPT ![e] = DeviceAfterBuild(row, p, outcome)]
        /\ package' = [WithdrawPackages(e) EXCEPT ![p] = PackageAfterBuild(e, outcome)]
    BY <1>5 DEF Reset, ResetGuard
  <2>2. row \in Device /\ row.status = "reset_pending" /\ row.public_key = ResetKey
    <3>1. row.public_key = ResetKey
      BY <1>1 DEF ResetDevice, Device
    <3>2. QED
      BY <1>1, <3>1, DeviceRows, FreshRows
  <2>. HIDE DEF row
  <2>4. CASE e # d
    BY <1>1, <2>1, <2>4 DEF SameKey
  <2>5. CASE e = d
    <3>1. device'[d] = DeviceAfterBuild(row, p, outcome)
      BY <1>1, <2>1, <2>5
    <3>2. package'[p] = PackageAfterBuild(d, outcome)
      BY <2>1, <2>5 DEF WithdrawPackages
    <3>3. /\ device'[d].status # "active"
          /\ device'[d].public_key \in {p, ResetKey}
          /\ package'[p].device = d
      BY <2>2, <3>1, <3>2, BuiltRow, BuildRows
    <3>4. ~device[d].revoked
      BY <2>1, <2>5 DEF IndInv, RevokedIsFinal
    <3>5. QED
      BY <3>3, <3>4 DEF Rebuilt
  <2>6. QED
    BY <2>4, <2>5
<1>6. ASSUME NEW e \in Devices, Revoke(e) \/ ReportLost(e)
      PROVE  SameKey(device[d], device'[d])
  <2>1. \/ device' = [device EXCEPT ![e] = RevokedDevice(device[e])]
        \/ device' = [device EXCEPT ![e] = [device[e] EXCEPT !.lost = TRUE]]
    BY <1>1, <1>6 DEF Revoke, ReportLost
  <2>2. /\ SameKey(device[e], RevokedDevice(device[e]))
        /\ SameKey(device[e], [device[e] EXCEPT !.lost = TRUE])
    BY <1>1 DEF SameKey, RevokedDevice, Device
  <2>3. QED
    BY <1>2, <2>1, <2>2
<1>7. ASSUME NEW p \in Packages, ServeDownload(p) \/ ConfirmDownload(p)
      PROVE  SameKey(device[d], device'[d])
  <2>. DEFINE e == package[p].device
  <2>1. /\ e \in Devices
        /\ package[p].status \in Downloadable
        /\ \/ device' = [device EXCEPT ![e] = ServedDevice(device[e], package[p])]
           \/ device' = [device EXCEPT ![e] = ConfirmedDevice(device[e])]
    BY <1>7, PackageOwner
       DEF ServeDownload, ServeGuard, ConfirmDownload, MayDownload, MayConfirm, IndInv
  <2>2. /\ SameKey(device[e], ServedDevice(device[e], package[p]))
        /\ SameKey(device[e], ConfirmedDevice(device[e]))
    BY <1>1, <2>1 DEF SameKey, ServedDevice, ConfirmedDevice, Device
  <2>. HIDE DEF e
  <2>3. QED
    BY <1>2, <2>1, <2>2
<1>8. QED
  BY <1>3, <1>4, <1>5, <1>6, <1>7
     DEF PortalNext, ExpireOnDownload, WindowCloses, UpdateUser, LostTransaction

\* A job the portal inserts is pending, and a removal is for a device it revokes.
LEMMA PortalJobs ==
  ASSUME IndInv, PortalNext, NEW i \in DOMAIN jobs'
  PROVE  \/ i \in DOMAIN jobs /\ jobs'[i] = jobs[i]
         \/ /\ jobs'[i].status = "pending"
            /\ jobs'[i].type = "remove_peer" => device'[jobs'[i].device].revoked
<1>1. ASSUME NEW type \in {"apply_peer", "remove_peer"}, NEW d \in Devices,
             Enqueue(type, d), type = "remove_peer" => device'[d].revoked
      PROVE  \/ i \in DOMAIN jobs /\ jobs'[i] = jobs[i]
             \/ /\ jobs'[i].status = "pending"
                /\ jobs'[i].type = "remove_peer" => device'[jobs'[i].device].revoked
  <2>1. /\ \A j \in DOMAIN jobs : jobs'[j] = jobs[j]
        /\ DOMAIN jobs' = DOMAIN jobs \cup {Len(jobs) + 1}
        /\ jobs'[Len(jobs) + 1] = [type |-> type, device |-> d, status |-> "pending"]
    BY <1>1, Appended DEF IndInv
  <2>2. QED
    BY <1>1, <2>1
<1>2. ASSUME NEW p \in Packages, ConfirmDownload(p)
      PROVE  package[p].device \in Devices /\ Enqueue("apply_peer", package[p].device)
  BY <1>2, PackageOwner DEF ConfirmDownload, MayConfirm, IndInv
<1>3. ASSUME NEW d \in Devices, Revoke(d)
      PROVE  Enqueue("remove_peer", d) /\ device'[d].revoked
  <2>1. device \in [Devices -> Device] /\ device[d] \in Device
    BY DEF IndInv, TypeOK
  <2>2. Enqueue("remove_peer", d) /\ device'[d] = RevokedDevice(device[d])
    BY <1>3, <2>1 DEF Revoke
  <2>3. RevokedDevice(device[d]).revoked
    BY <2>1 DEF RevokedDevice, Device
  <2>4. QED
    BY <2>2, <2>3
<1>4. CASE jobs' = jobs
  BY <1>4
<1>5. QED
  BY <1>1, <1>2, <1>3, <1>4
     DEF PortalNext, CreateDevice, ExpireOnDownload, ServeDownload, WindowCloses,
         ReportLost, Reset, UpdateUser, LostTransaction

\* The worker writes only the status of a job, and of the device it brings up.
LEMMA WorkerRows ==
  ASSUME IndInv, NEW i \in DOMAIN jobs, JobSucceeds(i) \/ JobFails(i)
  PROVE  /\ DOMAIN jobs' = DOMAIN jobs
         /\ \A j \in DOMAIN jobs : /\ jobs'[j].type = jobs[j].type
                                   /\ jobs'[j].device = jobs[j].device
                                   /\ j # i => jobs'[j] = jobs[j]
         /\ \A d \in Devices : /\ device'[d].public_key = device[d].public_key
                               /\ device'[d].revoked = device[d].revoked
                               /\ device'[d].vpn_ip = device[d].vpn_ip
                               /\ device'[d].status \in {device[d].status, "active"}
                               /\ device'[d].status # device[d].status =>
                                    /\ JobSucceeds(i)
                                    /\ jobs[i].type = "apply_peer"
                                    /\ jobs[i].device = d
         /\ package' = package
         /\ JobFails(i) => jobs'[i].status = "failed"
<1>1. /\ jobs \in Seq(Job) /\ jobs[i] \in Job /\ device \in [Devices -> Device]
      /\ jobs[i].device \in Devices
  BY JobTypes DEF IndInv, TypeOK
<1>2. PICK st \in {"succeeded", "failed"} :
        /\ jobs' = [jobs EXCEPT ![i].status = st]
        /\ JobFails(i) => st = "failed"
  <2>1. CASE JobSucceeds(i) /\ ~JobFails(i)
    BY <2>1 DEF JobSucceeds
  <2>2. CASE JobFails(i)
    BY <2>2 DEF JobFails
  <2>3. QED
    BY <2>1, <2>2
<1>3. \/ device' = device
      \/ /\ JobSucceeds(i) /\ jobs[i].type = "apply_peer"
         /\ device' = [device EXCEPT ![jobs[i].device].status = "active"]
  BY DEF JobSucceeds, JobFails
<1>4. /\ DOMAIN jobs' = DOMAIN jobs
      /\ \A j \in DOMAIN jobs : /\ jobs'[j].type = jobs[j].type
                                /\ jobs'[j].device = jobs[j].device
                                /\ j # i => jobs'[j] = jobs[j]
      /\ JobFails(i) => jobs'[i].status = "failed"
  BY <1>1, <1>2 DEF Job
<1>5. package' = package
  BY DEF JobSucceeds, JobFails
<1>6. ASSUME NEW d \in Devices
      PROVE  /\ device'[d].public_key = device[d].public_key
             /\ device'[d].revoked = device[d].revoked
             /\ device'[d].vpn_ip = device[d].vpn_ip
             /\ device'[d].status \in {device[d].status, "active"}
             /\ device'[d].status # device[d].status =>
                  /\ JobSucceeds(i)
                  /\ jobs[i].type = "apply_peer"
                  /\ jobs[i].device = d
  BY <1>1, <1>3 DEF Device
<1>7. QED
  BY <1>4, <1>5, <1>6

\* A key is given with the package it was built for, and a package keeps its
\* device; a revoked device is not given another key.
LEMMA TablesStep ==
  ASSUME IndInv, TablesInv, [Next]_vars
  PROVE  TablesInv'
<1>1. ASSUME NEW k \in Packages, package[k].device \in Devices
      PROVE  package'[k].device = package[k].device
  <2>1. PackageExists(k)
    BY <1>1, PackageOwner DEF IndInv
  <2>2. QED
    BY <2>1, PackageStays
<1>2. CASE PortalNext
  <2>1. ASSUME NEW d \in Devices, device'[d].public_key \in Packages
        PROVE  package'[device'[d].public_key].device = d
    <3>1. CASE SameKey(device[d], device'[d])
      BY <1>1, <2>1, <3>1 DEF SameKey, TablesInv, KeysOwned
    <3>2. CASE Rebuilt(d)
      BY <2>1, <3>2, IdentifierAssumption DEF Rebuilt
    <3>3. QED
      BY <1>2, <3>1, <3>2, PortalRows
  <2>2. ASSUME NEW i \in DOMAIN jobs', jobs'[i].type = "remove_peer"
        PROVE  device'[jobs'[i].device].revoked
    <3>1. CASE i \in DOMAIN jobs /\ jobs'[i] = jobs[i]
      <4>1. /\ jobs[i].device \in Devices
            /\ device[jobs[i].device].revoked
        BY <2>2, <3>1, JobTypes DEF TablesInv, RemovalsRevoked
      <4>2. QED
        BY <1>2, <3>1, <4>1, PortalRows DEF SameKey, Rebuilt
    <3>2. QED
      BY <1>2, <2>2, <3>1, PortalJobs
  <2>3. QED
    BY <2>1, <2>2 DEF TablesInv, KeysOwned, RemovalsRevoked
<1>3. ASSUME NEW i \in DOMAIN jobs, JobSucceeds(i) \/ JobFails(i)
      PROVE  TablesInv'
  <2>1. \A j \in DOMAIN jobs : jobs[j].device \in Devices
    BY JobTypes
  <2>2. QED
    BY <1>3, <2>1, WorkerRows DEF TablesInv, KeysOwned, RemovalsRevoked
<1>4. CASE UNCHANGED vars
  BY <1>4 DEF vars, TablesInv, KeysOwned, RemovalsRevoked
<1>5. QED
  BY <1>2, <1>3, <1>4 DEF Next, WorkerNext

-----------------------------------------------------------------------------
(***************************************************************************)
(* The steps when the worker is alone.                                     *)
(***************************************************************************)

\* What is left of RuntimeNext: requests and refusals, which configure nothing;
\* a command with or without its commit; the host's restart.
LEMMA WorkerSteps ==
  ASSUME WorkerAlone, Undriven, [RuntimeNext]_allVars
  PROVE  /\ Undriven'
         /\ \/ PortalNext /\ UNCHANGED <<peers, route>>
            \/ \E i \in DOMAIN jobs : JobFails(i) /\ UNCHANGED <<peers, route>>
            \/ \E i \in DOMAIN jobs :
                 /\ JobMaySucceed(jobs[i])
                 /\ IsWgKey(device[jobs[i].device].public_key)
                 /\ Run(CommandOf(jobs[i]))
                 /\ JobSucceeds(i) \/ UNCHANGED vars
            \/ "reboot" \in AgentFaults /\ peers' = {} /\ UNCHANGED vars
            \/ UNCHANGED <<vars, peers, route>>
<1>1. late = {} /\ recon \in Reconcile /\ recon.pc = "idle"
  BY DEF Undriven
<1>a. Disturb => recon' \in Reconcile /\ recon'.pc = "idle"
  BY <1>1 DEF Disturb, Reconcile
<1>2. ~LateCommand /\ ~ReconcileNext /\ \A i : ~WorkerTimesOut(i)
  BY <1>1
     DEF WorkerAlone, LateCommand, ReconcileNext, ReconcileReads, ReconcileDumps,
         ReconcileTurns, ReconcileEnds, ReconcileFails, ReconcileRemoves,
         ReconcileApplies, WorkerTimesOut
<1>3. CASE Portal
  BY <1>1, <1>a, <1>3 DEF Portal, Undriven
<1>4. ASSUME NEW i \in DOMAIN jobs, WorkerRefuses(i) \/ WorkerGetsError(i)
      PROVE  Undriven' /\ JobFails(i) /\ UNCHANGED <<peers, route>>
  BY <1>1, <1>a, <1>4 DEF WorkerRefuses, WorkerGetsError, Undriven
<1>5. ASSUME NEW i \in DOMAIN jobs, WorkerCompletes(i) \/ WorkerCrashes(i)
      PROVE  /\ Undriven'
             /\ JobMaySucceed(jobs[i])
             /\ IsWgKey(device[jobs[i].device].public_key)
             /\ Run(CommandOf(jobs[i]))
             /\ JobSucceeds(i) \/ UNCHANGED vars
  BY <1>1, <1>a, <1>5 DEF WorkerCompletes, WorkerCrashes, JobSucceeds, Undriven
<1>6. CASE Reboot
  BY <1>6 DEF Reboot, NoReconcile, Reconcile, Undriven
<1>7. CASE UNCHANGED allVars
  BY <1>1, <1>7 DEF allVars, runtimeVars, Undriven
<1>8. QED
  BY <1>2, <1>3, <1>4, <1>5, <1>6, <1>7 DEF RuntimeNext, Worker

\* Whose key a command names: of two different devices never the same.
LEMMA CommandKey ==
  ASSUME IndInv, TablesInv, NEW i \in DOMAIN jobs, JobMaySucceed(jobs[i]),
         IsWgKey(device[jobs[i].device].public_key), Run(CommandOf(jobs[i]))
  PROVE  LET k == device[jobs[i].device].public_key
         IN  /\ jobs[i].device \in Devices
             /\ k \in Packages /\ package[k].device = jobs[i].device
             /\ \/ /\ jobs[i].type = "apply_peer"
                   /\ device[jobs[i].device].status \in RUNTIME_TARGET_DEVICE_STATUSES
                   /\ WgSetPeer(k, device[jobs[i].device].vpn_ip)
                \/ /\ jobs[i].type = "remove_peer"
                   /\ device[jobs[i].device].revoked
                   /\ WgRemovePeer(k)
<1>. DEFINE d == jobs[i].device
            k == device[d].public_key
<1>1. jobs[i] \in Job /\ d \in Devices /\ k \in Packages
  BY JobTypes DEF IsWgKey
<1>2. package[k].device = d
  BY <1>1 DEF TablesInv, KeysOwned
<1>3. CASE jobs[i].type = "apply_peer"
  BY <1>1, <1>2, <1>3 DEF Run, CommandOf, JobMaySucceed
<1>4. CASE jobs[i].type = "remove_peer"
  BY <1>1, <1>2, <1>4 DEF Run, CommandOf, TablesInv, RemovalsRevoked
<1>5. QED
  BY <1>1, <1>2, <1>3, <1>4, JobTypes

-----------------------------------------------------------------------------
(***************************************************************************)
(* A removal cuts off.                                                     *)
(***************************************************************************)

\* A removal of d has succeeded.
Removed(d) == \E i \in JobsOf("remove_peer", d) : jobs[i].status = "succeeded"

\* A key that has been removed stays off: no job configures a revoked device.
LEMMA RemovalStep ==
  ASSUME IndInv, TablesInv, WorkerAlone, Undriven, RemovalCutsOff,
         [RuntimeNext]_allVars
  PROVE  RemovalCutsOff'
<1>. SUFFICES ASSUME NEW d \in Devices, Removed(d)'
              PROVE  device'[d].public_key \notin peers'
  BY DEF RemovalCutsOff, Removed
<1>1. Removed(d) => device[d].revoked /\ device[d].public_key \notin peers
  BY DEF Removed, RemovalCutsOff, TablesInv, RemovalsRevoked, JobsOf
<1>2. CASE PortalNext /\ UNCHANGED <<peers, route>>
  <2>1. Removed(d)
    BY <1>2, PortalJobs DEF Removed, JobsOf
  <2>2. device'[d].public_key = device[d].public_key
    BY <1>1, <1>2, <2>1, PortalRows DEF SameKey, Rebuilt
  <2>3. QED
    BY <1>1, <1>2, <2>1, <2>2
<1>3. ASSUME NEW i \in DOMAIN jobs, JobFails(i), UNCHANGED <<peers, route>>
      PROVE  device'[d].public_key \notin peers'
  <2>1. Removed(d)
    BY <1>3, WorkerRows DEF Removed, JobsOf
  <2>2. QED
    BY <1>1, <1>3, <2>1, WorkerRows
<1>4. ASSUME NEW i \in DOMAIN jobs, JobMaySucceed(jobs[i]),
             IsWgKey(device[jobs[i].device].public_key), Run(CommandOf(jobs[i])),
             JobSucceeds(i) \/ UNCHANGED vars
      PROVE  device'[d].public_key \notin peers'
  <2>. DEFINE e == jobs[i].device
              k == device[e].public_key
  <2>1. /\ e \in Devices /\ k \in Packages /\ package[k].device = e
        /\ \/ /\ jobs[i].type = "apply_peer"
              /\ device[e].status \in RUNTIME_TARGET_DEVICE_STATUSES
              /\ peers' = peers \cup {k}
           \/ /\ jobs[i].type = "remove_peer"
              /\ device[e].revoked
              /\ peers' = peers \ {k}
    BY <1>4, CommandKey DEF WgSetPeer, WgRemovePeer
  <2>2. device'[d].public_key = device[d].public_key
    BY <1>4, WorkerRows DEF vars
  <2>3. Removed(d) \/ (jobs[i].type = "remove_peer" /\ e = d)
    <3>1. CASE JobSucceeds(i)
      BY <3>1, WorkerRows DEF Removed, JobsOf
    <3>2. CASE UNCHANGED vars
      BY <3>2 DEF Removed, JobsOf, vars
    <3>3. QED
      BY <1>4, <3>1, <3>2
  <2>4. device[d].public_key \in Packages => package[device[d].public_key].device = d
    BY DEF TablesInv, KeysOwned
  <2>5. device[d].revoked => device[d].status = "revoked"
    BY DEF IndInv, RevokedIsFinal
  <2>. HIDE DEF e, k
  <2>6. CASE jobs[i].type = "remove_peer" /\ e = d
    BY <2>1, <2>2, <2>6 DEF k
  <2>7. CASE Removed(d)
    <3>1. device[d].status \notin RUNTIME_TARGET_DEVICE_STATUSES
      BY <1>1, <2>5, <2>7 DEF RUNTIME_TARGET_DEVICE_STATUSES
    <3>2. QED
      BY <1>1, <2>1, <2>2, <2>4, <2>7, <3>1
  <2>8. QED
    BY <2>3, <2>6, <2>7
<1>5. CASE peers' = {}
  BY <1>5
<1>6. CASE UNCHANGED <<vars, peers, route>>
  BY <1>1, <1>6 DEF vars, Removed, JobsOf
<1>7. QED
  BY <1>2, <1>3, <1>4, <1>5, <1>6, WorkerSteps

\* A device that is active is connected, unless the host lost the interface.
LEMMA ActiveStep ==
  ASSUME IndInv, AddressesDistinct, TablesInv, WorkerAlone, Undriven,
         "reboot" \notin AgentFaults, route \in [1..PoolSize -> Packages \cup {None}],
         ActivePeersRouted, [RuntimeNext]_allVars
  PROVE  ActivePeersRouted'
<1>. SUFFICES ASSUME NEW d \in Devices, device'[d].status = "active"
              PROVE  /\ device'[d].public_key \in peers'
                     /\ route'[device'[d].vpn_ip] = device'[d].public_key
  BY DEF ActivePeersRouted
<1>1. device[d].status = "active" =>
        /\ DeviceExists(d)
        /\ device[d].public_key \in Packages
        /\ package[device[d].public_key].device = d
        /\ device[d].public_key \in peers
        /\ device[d].vpn_ip \in 1..PoolSize
        /\ route[device[d].vpn_ip] = device[d].public_key
  BY DEF ActivePeersRouted, IndInv, PeersHaveConfirmedKeys, PackagesOf, DeviceExists,
         AddressesDistinct, RUNTIME_TARGET_DEVICE_STATUSES
<1>2. CASE PortalNext /\ UNCHANGED <<peers, route>>
  <2>1. SameKey(device[d], device'[d])
    BY <1>2, PortalRows DEF Rebuilt
  <2>2. device[d].status = "active" /\ device'[d].public_key = device[d].public_key
    BY <2>1 DEF SameKey
  <2>3. device'[d].vpn_ip = device[d].vpn_ip
    <3>1. CASE DevicesKeepPlace
      BY <3>1 DEF DevicesKeepPlace, KeepsPlace
    <3>2. ASSUME NEW u \in Users, NEW e \in Devices, NEW p \in Packages,
                 NEW outcome \in BuildOutcome, CreateDevice(u, e, p, outcome)
          PROVE  device'[d].vpn_ip = device[d].vpn_ip
      <4>1. /\ ~DeviceExists(e)
            /\ \E row : device' = [device EXCEPT ![e] = row]
        BY <3>2 DEF CreateDevice, CreateGuard, FreshDevice
      <4>2. device'[d] = device[d]
        BY <1>1, <2>2, <4>1 DEF IndInv, TypeOK
      <4>3. QED
        BY <4>2
    <3>3. QED
      BY <1>2, <3>1, <3>2, OnlyCreateAdds DEF Next
  <2>4. QED
    BY <1>1, <1>2, <2>2, <2>3
<1>3. ASSUME NEW i \in DOMAIN jobs, JobFails(i), UNCHANGED <<peers, route>>
      PROVE  /\ device'[d].public_key \in peers'
             /\ route'[device'[d].vpn_ip] = device'[d].public_key
  BY <1>1, <1>3 DEF JobFails
<1>4. ASSUME NEW i \in DOMAIN jobs, JobMaySucceed(jobs[i]),
             IsWgKey(device[jobs[i].device].public_key), Run(CommandOf(jobs[i])),
             JobSucceeds(i) \/ UNCHANGED vars
      PROVE  /\ device'[d].public_key \in peers'
             /\ route'[device'[d].vpn_ip] = device'[d].public_key
  <2>. DEFINE e == jobs[i].device
              k == device[e].public_key
  <2>1. /\ e \in Devices /\ k \in Packages /\ package[k].device = e
        /\ \/ /\ jobs[i].type = "apply_peer"
              /\ device[e].status \in RUNTIME_TARGET_DEVICE_STATUSES
              /\ WgSetPeer(k, device[e].vpn_ip)
           \/ /\ jobs[i].type = "remove_peer"
              /\ device[e].revoked
              /\ WgRemovePeer(k)
    BY <1>4, CommandKey
  <2>2. /\ device'[d].public_key = device[d].public_key
        /\ device'[d].vpn_ip = device[d].vpn_ip
        /\ device[d].status = "active" \/ (jobs[i].type = "apply_peer" /\ e = d)
    <3>1. CASE JobSucceeds(i)
      BY <3>1, WorkerRows
    <3>2. CASE UNCHANGED vars
      BY <3>2 DEF vars
    <3>3. QED
      BY <1>4, <3>1, <3>2
  <2>3. device[e].revoked => device[e].status = "revoked"
    BY <2>1 DEF IndInv, RevokedIsFinal
  <2>4. DeviceExists(e) /\ device[e].vpn_ip \in 1..PoolSize
    <3>1. NoDevice.public_key \notin Packages
      BY IdentifierAssumption DEF NoDevice
    <3>2. DeviceExists(e)
      BY <2>1, <3>1 DEF DeviceExists, IndInv, TypeOK
    <3>3. QED
      BY <2>1, <3>2 DEF AddressesDistinct
  <2>5. device[d].status = "active" /\ e # d => device[e].vpn_ip # device[d].vpn_ip
    BY <1>1, <2>1, <2>4 DEF AddressesDistinct
  <2>6. CASE jobs[i].type = "apply_peer" /\ e = d
    BY <2>1, <2>2, <2>4, <2>6 DEF WgSetPeer
  <2>7. CASE device[d].status = "active" /\ e # d
    <3>1. k # device[d].public_key
      BY <1>1, <2>1, <2>7
    <3>. HIDE DEF e, k
    <3>2. QED
      BY <1>1, <2>1, <2>2, <2>5, <2>7, <3>1 DEF WgSetPeer, WgRemovePeer
  <2>8. CASE device[d].status = "active" /\ e = d /\ jobs[i].type # "apply_peer"
    BY <2>1, <2>3, <2>8
  <2>9. QED
    BY <2>1, <2>2, <2>6, <2>7, <2>8
<1>5. CASE UNCHANGED <<vars, peers, route>>
  BY <1>1, <1>5 DEF vars
<1>6. QED
  BY <1>2, <1>3, <1>4, <1>5, WorkerSteps

-----------------------------------------------------------------------------

\* The invariant of the worker alone.
LEMMA WorkerInductive ==
  ASSUME WorkerAlone
  PROVE  RuntimeSpec => [](RuntimeInv /\ TablesInv /\ Undriven)
<1>1. RuntimeInit => TablesInv /\ Undriven
  <2>1. NoDevice.public_key \notin Packages
    BY IdentifierAssumption DEF NoDevice
  <2>2. QED
    BY <2>1
       DEF RuntimeInit, Init, TablesInv, KeysOwned, RemovalsRevoked, Undriven, NoReconcile,
           Reconcile
<1>2. RuntimeInv /\ TablesInv /\ Undriven /\ [RuntimeNext]_allVars =>
        TablesInv' /\ Undriven'
  BY StepOfTables, TablesStep, WorkerSteps DEF RuntimeInv
<1>3. QED
  BY <1>1, <1>2, RuntimeInductive, PTL DEF RuntimeSpec

\* With the worker alone at the interface, the key a device had when it was
\* revoked is off the interface from the first removal that succeeded, for good.
THEOREM RemovedStaysCutOff ==
  ASSUME WorkerAlone
  PROVE  RuntimeSpec => []RemovalCutsOff
<1>1. RuntimeInit => RemovalCutsOff
  BY DEF RuntimeInit, Init, RemovalCutsOff, JobsOf
<1>2. RuntimeInv /\ TablesInv /\ Undriven /\ RemovalCutsOff /\ [RuntimeNext]_allVars
        => RemovalCutsOff'
  BY RemovalStep DEF RuntimeInv
<1>3. QED
  BY <1>1, <1>2, WorkerInductive, PTL DEF RuntimeSpec

\* With the worker alone and the host up, what the portal shows as active is
\* connected: its key is a peer and has its address.
THEOREM ActiveIsConnected ==
  ASSUME WorkerAlone, "reboot" \notin AgentFaults
  PROVE  RuntimeSpec => []ActivePeersRouted
<1>1. RuntimeInit => ActivePeersRouted
  BY DEF RuntimeInit, Init, ActivePeersRouted, NoDevice
<1>2. RuntimeInv /\ TablesInv /\ Undriven /\ ActivePeersRouted /\ [RuntimeNext]_allVars
        => ActivePeersRouted'
  BY ActiveStep DEF RuntimeInv, InterfaceInv
<1>3. QED
  BY <1>1, <1>2, WorkerInductive, PTL DEF RuntimeSpec
=============================================================================
