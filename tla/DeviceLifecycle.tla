-------------------------- MODULE DeviceLifecycle --------------------------
(***************************************************************************)
(* DeviceModule behind the portal's API: devices, their installer packages *)
(* the installer files on disk, and the runtime jobs these operations hand *)
(* to the worker.  One request runs at a time, as one transaction.  A      *)
(* request that fails with a DomainError commits what it wrote (main.py    *)
(* commits in its except clause); one lost before its commit - a killed    *)
(* process, a database error - rolls back, but not the files it touched.   *)
(***************************************************************************)
EXTENDS DeviceRecords, FiniteSets, Sequences

CONSTANTS
  MaxLimit,       \* bound: the largest approved_device_limit an admin sets
  MaxJobs,        \* bound: the rows of the jobs table
  Faults          \* which faults this instance lets happen

ASSUME BoundsAssumption == MaxLimit \in Nat /\ MaxJobs \in Nat

ASSUME DevicesAssumption == IsFiniteSet(Devices)

ASSUME FaultsAssumption == Faults \subseteq {"lost_transaction", "late_build_failure"}

VARIABLES
  limit,          \* users.approved_device_limit
  device,         \* table devices
  package,        \* table install_packages
  artifact,       \* artifacts_dir: the package whose installer the file
                  \* "wireportal-<device id>" holds, or None
  jobs            \* table jobs, by created_at; the runtime jobs only

vars == <<limit, device, package, artifact, jobs>>

Job ==
  [type : {"apply_peer", "remove_peer"}, device : Devices,
   status : {"pending", "succeeded", "failed"}]

\* Types, and the foreign key install_packages.device_id.
TypeOK ==
  /\ limit \in [Users -> 0..MaxLimit]
  /\ device \in [Devices -> Device]
  /\ package \in [Packages -> InstallPackage]
  /\ artifact \in [Devices -> Packages \cup {None}]
  /\ jobs \in Seq(Job)
  /\ \A d \in Devices : device[d].status = "absent" => device[d] = NoDevice
  /\ \A p \in Packages :
       IF package[p].status = "absent"
       THEN package[p] = NoPackage
       ELSE /\ package[p].device \in Devices
            /\ device[package[p].device].status # "absent"

Init ==
  /\ limit \in [Users -> 0..MaxLimit]
  /\ device = [d \in Devices |-> NoDevice]
  /\ package = [p \in Packages |-> NoPackage]
  /\ artifact = [d \in Devices |-> None]
  /\ jobs = <<>>

-----------------------------------------------------------------------------

DeviceExists(d) == device[d].status # "absent"

PackageExists(p) == package[p].status # "absent"

\* Identifiers are uuids: one that an earlier, lost request drew is not drawn
\* again while its file is still there.
FreshDevice(d) == ~DeviceExists(d) /\ artifact[d] = None

FreshPackage(p) == ~PackageExists(p) /\ \A d \in Devices : artifact[d] # p

PackagesOf(d) == {p \in Packages : package[p].device = d}

\* The devices create_device counts against the user's limit.
CountedDevices(u) ==
  {d \in Devices : /\ DeviceExists(d)
                   /\ device[d].user = u
                   /\ device[d].status \notin TERMINAL_DEVICE_STATUSES}

\* Mutant: the address of a revoked device is free.
UnrevokedIps ==
  {device[d].vpn_ip : d \in {e \in Devices : DeviceExists(e) /\ device[e].status # "revoked"}}

\* allocate_for_device: every row keeps its address, revoked ones included,
\* and create_device passes no cooling addresses.
AllocatedIps == {device[d].vpn_ip : d \in {e \in Devices : DeviceExists(e)}}

FreeIps == (1..PoolSize) \ (AllocatedIps \cup {ServerIp})

AllocateForDevice(ip) == ip \in FreeIps /\ \A other \in FreeIps : ip <= other

\* The file of device d after the build of package p.
FileAfterBuild(file, p, outcome) ==
  IF BuildWritesFile(outcome) THEN p ELSE file

\* Mutants: the file is not unlinked.
FileNotDeleted(p) == artifact[package[p].device]

FileKept(d) == artifact[d]

\* _delete_artifact(package p): the path names the device's one file,
\* whichever package wrote it last.
FileAfterDelete(p) ==
  IF HasArtifactPath(package[p]) THEN None ELSE artifact[package[p].device]

Enqueue(type, d) ==
  /\ Len(jobs) < MaxJobs
  /\ jobs' = Append(jobs, [type |-> type, device |-> d, status |-> "pending"])

BuildMay(outcome) ==
  outcome = "failed_after_write" => "late_build_failure" \in Faults

-----------------------------------------------------------------------------

\* Mutant: the limit is exceeded by one.
CreateGuardOffByOne(u, d, p, ip) ==
  /\ FreshDevice(d) /\ FreshPackage(p)
  /\ Cardinality(CountedDevices(u)) <= limit[u]
  /\ AllocateForDevice(ip)

CreateGuard(u, d, p, ip) ==
  /\ FreshDevice(d) /\ FreshPackage(p)
  /\ Cardinality(CountedDevices(u)) < limit[u]
  /\ AllocateForDevice(ip)

CreateDevice(u, d, p, outcome) ==
  /\ BuildMay(outcome)
  /\ \E ip \in 1..PoolSize :
       /\ CreateGuard(u, d, p, ip)
       /\ device' = [device EXCEPT
                       ![d] = DeviceAfterBuild(CreatedDevice(u, ip), p, outcome)]
  /\ package' = [package EXCEPT ![p] = PackageAfterBuild(d, outcome)]
  /\ artifact' = [artifact EXCEPT ![d] = FileAfterBuild(@, p, outcome)]
  /\ UNCHANGED <<limit, jobs>>

\* record_download_attempt when the window is over: the artifact goes and the
\* package expires, although the request answers with an error.
ExpireOnDownload(p) ==
  /\ MayDownload(package[p])
  /\ package[p].window # "open"
  /\ artifact' = [artifact EXCEPT ![package[p].device] = FileAfterDelete(p)]
  /\ package' = [package EXCEPT ![p] = ExpiredPackage(@)]
  /\ UNCHANGED <<limit, device, jobs>>

\* Mutant: max_download_attempts is not checked.
ServeGuardUncapped(p) ==
  /\ MayDownload(package[p])
  /\ package[p].window = "open"
  /\ artifact[package[p].device] # None

ServeGuard(p) ==
  /\ MayDownload(package[p])
  /\ package[p].window = "open"
  /\ package[p].download_attempts < MaxAttempts
  /\ artifact[package[p].device] # None

ServeDownload(p) ==
  /\ ServeGuard(p)
  /\ package' = [package EXCEPT ![p] = ServedPackage(@)]
  /\ device' = [device EXCEPT ![package[p].device] = ServedDevice(@, package[p])]
  /\ UNCHANGED <<limit, artifact, jobs>>

ConfirmDownload(p) ==
  /\ MayConfirm(package[p])
  /\ package' = [package EXCEPT ![p] = ConfirmedPackage(@)]
  /\ device' = [device EXCEPT ![package[p].device] = ConfirmedDevice(@)]
  /\ artifact' = [artifact EXCEPT ![package[p].device] = FileAfterDelete(p)]
  /\ Enqueue("apply_peer", package[p].device)
  /\ UNCHANGED limit

ReportLost(d) ==
  /\ DeviceExists(d)
  /\ device' = [device EXCEPT ![d].lost = TRUE]
  /\ UNCHANGED <<limit, package, artifact, jobs>>

-----------------------------------------------------------------------------

\* The requests below are an admin's.

ResetGuard(d, p) ==
  DeviceExists(d) /\ device[d].status # "revoked" /\ FreshPackage(p)

\* The file of d once reset_device has deleted the packages it withdraws.
FileAfterWithdrawal(d) ==
  IF \E q \in PackagesOf(d) : /\ package[q].status \in ACTIVE_PACKAGE_STATUSES
                              /\ HasArtifactPath(package[q])
  THEN None ELSE artifact[d]

\* Mutant: a reset leaves the earlier packages as they are.
PackagesKept(d) == package

WithdrawPackages(d) ==
  [q \in Packages |-> IF q \in PackagesOf(d) THEN WithdrawnPackage(package[q])
                      ELSE package[q]]

Reset(d, p, outcome) ==
  /\ BuildMay(outcome)
  /\ ResetGuard(d, p)
  /\ device' = [device EXCEPT ![d] = DeviceAfterBuild(ResetDevice(@), p, outcome)]
  /\ package' = [WithdrawPackages(d) EXCEPT ![p] = PackageAfterBuild(d, outcome)]
  /\ artifact' = [artifact EXCEPT
                    ![d] = FileAfterBuild(FileAfterWithdrawal(d), p, outcome)]
  /\ UNCHANGED <<limit, jobs>>

\* The file of d once revoke_device has deleted what is not yet marked deleted.
FileAfterRevoke(d) ==
  IF \E q \in PackagesOf(d) : ~package[q].deleted /\ HasArtifactPath(package[q])
  THEN None ELSE artifact[d]

Revoke(d) ==
  /\ DeviceExists(d)
  /\ device' = [device EXCEPT ![d] = RevokedDevice(@)]
  /\ package' = [q \in Packages |->
                   IF q \in PackagesOf(d) THEN RevokedPackage(package[q])
                   ELSE package[q]]
  /\ artifact' = [artifact EXCEPT ![d] = FileAfterRevoke(d)]
  /\ Enqueue("remove_peer", d)
  /\ UNCHANGED limit

UpdateUser(u, n) ==
  /\ limit' = [limit EXCEPT ![u] = n]
  /\ UNCHANGED <<device, package, artifact, jobs>>

-----------------------------------------------------------------------------

\* The clock passes the download_expires_at of p.
WindowCloses(p) ==
  /\ package[p].window = "open"
  /\ package' = [package EXCEPT ![p].window = "closed"]
  /\ UNCHANGED <<limit, device, artifact, jobs>>

\* What the worker leaves in the database.  It takes the oldest pending job,
\* and reads the device's row, not the job's payload.
OldestPending(i) ==
  /\ i \in DOMAIN jobs
  /\ jobs[i].status = "pending"
  /\ \A k \in 1..(i - 1) : jobs[k].status # "pending"

\* Mutant: apply_peer does not look at the status of the device.
JobMaySucceedUnchecked(job) == device[job.device].public_key # None

JobMaySucceed(job) ==
  /\ device[job.device].public_key # None
  /\ job.type = "apply_peer" =>
       device[job.device].status \in RUNTIME_TARGET_DEVICE_STATUSES

\* Mutant: apply_peer does not make the device active.
JobSucceedsSilently(i) ==
  /\ OldestPending(i)
  /\ JobMaySucceed(jobs[i])
  /\ jobs' = [jobs EXCEPT ![i].status = "succeeded"]
  /\ UNCHANGED <<limit, device, package, artifact>>

JobSucceeds(i) ==
  /\ OldestPending(i)
  /\ JobMaySucceed(jobs[i])
  /\ jobs' = [jobs EXCEPT ![i].status = "succeeded"]
  /\ IF jobs[i].type = "apply_peer"
     THEN device' = [device EXCEPT ![jobs[i].device].status = "active"]
     ELSE UNCHANGED device
  /\ UNCHANGED <<limit, package, artifact>>

\* Mutant: a failed job goes back to the queue, for ever.
JobFailsRetried(i) == OldestPending(i) /\ UNCHANGED vars

\* Refused above, or the agent answers with an error or not at all.
JobFails(i) ==
  /\ OldestPending(i)
  /\ jobs' = [jobs EXCEPT ![i].status = "failed"]
  /\ UNCHANGED <<limit, device, package, artifact>>

-----------------------------------------------------------------------------

\* A request is lost between what it did to the file system and its commit:
\* the rows are rolled back, the file stays as the request left it.
LostTransaction ==
  /\ "lost_transaction" \in Faults
  /\ \E d \in Devices :
       \/ \E p \in PackagesOf(d) :
            /\ \/ MayConfirm(package[p])
               \/ MayDownload(package[p]) /\ package[p].window # "open"
            /\ artifact' = [artifact EXCEPT ![d] = FileAfterDelete(p)]
       \/ /\ DeviceExists(d)
          /\ artifact' = [artifact EXCEPT ![d] = FileAfterRevoke(d)]
       \/ \E p \in Packages :
            /\ ResetGuard(d, p)
            /\ \/ artifact' = [artifact EXCEPT ![d] = FileAfterWithdrawal(d)]
               \/ artifact' = [artifact EXCEPT ![d] = p]
       \/ \E u \in Users, p \in Packages, ip \in 1..PoolSize :
            /\ CreateGuard(u, d, p, ip)
            /\ artifact' = [artifact EXCEPT ![d] = p]
  /\ UNCHANGED <<limit, device, package, jobs>>

\* Users, admins and the clock.
PortalNext ==
  \/ \E u \in Users, d \in Devices, p \in Packages, outcome \in BuildOutcome :
       CreateDevice(u, d, p, outcome)
  \/ \E p \in Packages :
       ExpireOnDownload(p) \/ ServeDownload(p) \/ ConfirmDownload(p) \/ WindowCloses(p)
  \/ \E d \in Devices : ReportLost(d) \/ Revoke(d)
  \/ \E d \in Devices, p \in Packages, outcome \in BuildOutcome :
       Reset(d, p, outcome)
  \/ \E u \in Users, n \in 0..MaxLimit : UpdateUser(u, n)
  \/ LostTransaction

WorkerNext == \E i \in DOMAIN jobs : JobSucceeds(i) \/ JobFails(i)

Next == PortalNext \/ WorkerNext

Spec == Init /\ [][Next]_vars
-----------------------------------------------------------------------------
(***************************************************************************)
(* Properties.                                                             *)
(***************************************************************************)

JobsOf(type, d) == {i \in DOMAIN jobs : jobs[i].type = type /\ jobs[i].device = d}

\* A package that can be downloaded or confirmed is the one its device waits
\* for: the two statuses agree, and the key confirm_download will activate is
\* the one in the installer.  No handler compares the two rows.
LivePackageOwnsDevice ==
  \A p \in Packages : package[p].status \in Downloadable =>
    /\ device[package[p].device].status = package[p].status
    /\ device[package[p].device].public_key = p

\* However often a device is reset, at most one of its packages is in flight,
\* so an installer handed out before the reset can no longer be confirmed.
OnePackageInFlight ==
  \A p, q \in Packages :
    /\ package[p].status \in ACTIVE_PACKAGE_STATUSES
    /\ package[q].status \in ACTIVE_PACKAGE_STATUSES
    /\ package[p].device = package[q].device
    => p = q

\* The runtime target state (build_target_state, apply_peer_for_device) names
\* only keys whose installer the user confirmed to have downloaded.
PeersHaveConfirmedKeys ==
  \A d \in Devices : device[d].status \in RUNTIME_TARGET_DEVICE_STATUSES =>
    /\ device[d].public_key \in PackagesOf(d)
    /\ package[device[d].public_key].confirmed

\* A device waiting for its peer has not lost the job that will bring it: its
\* newest apply_peer job is still to run, or failed.
ApplyJobNotLost ==
  \A d \in Devices : device[d].status = "download_confirmed" =>
    \E i \in JobsOf("apply_peer", d) :
      /\ jobs[i].status # "succeeded"
      /\ \A k \in JobsOf("apply_peer", d) : k <= i

\* apply_peer is requested exactly once per confirmed installer, and never
\* before a confirmation.
OneApplyJobPerConfirmation ==
  \A d \in Devices :
    Cardinality(JobsOf("apply_peer", d)) =
      Cardinality({p \in PackagesOf(d) : package[p].confirmed})

\* Revocation is final: no later request, and no job still queued, brings the
\* device back or leaves an installer of it to download.
RevokedIsFinal ==
  \A d \in Devices : device[d].revoked =>
    /\ device[d].status = "revoked"
    /\ \A p \in PackagesOf(d) : package[p].status \notin ACTIVE_PACKAGE_STATUSES

\* The worker takes jobs in the order of their creation; the last one it takes
\* for a revoked device is a removal.
RemovalIsLast ==
  \A d \in Devices : device[d].revoked =>
    \E i \in JobsOf("remove_peer", d) : \A k \in JobsOf("apply_peer", d) : k < i

\* No two device rows share an address, revoked ones included, and none has
\* the server's: the /32 that is a peer's allowed-ips names one device.
AddressesDistinct ==
  \A d, e \in Devices : DeviceExists(d) /\ DeviceExists(e) =>
    /\ device[d].vpn_ip \in (1..PoolSize) \ {ServerIp}
    /\ device[d].vpn_ip = device[e].vpn_ip => d = e

\* A user's devices grow in number only up to the limit of that moment.  (An
\* admin may lower the limit below the number a user already has.)
QuotaStep ==
  \A u \in Users :
    \/ CountedDevices(u)' \subseteq CountedDevices(u)
    \/ Cardinality(CountedDevices(u)') <= limit[u]

\* No step, of whatever request, takes a user above the limit.
QuotaRespected == [][QuotaStep]_vars

\* artifact_deleted_at is true: once a package whose file the code knows of has
\* it, the installer - and the private key in it - is not on disk, even if
\* requests were lost on the way.  (A builder that fails after it has put the
\* file in place leaves a package without a path.)
DeletedMeansGone ==
  \A p \in Packages, d \in Devices :
    package[p].deleted /\ HasArtifactPath(package[p]) => artifact[d] # p

-----------------------------------------------------------------------------

\* What DeviceRegistry keeps of a device's status.
RegistryStatusOf(status) ==
  CASE status \in {"absent", "revoked"} -> status
    [] status \in RUNTIME_TARGET_DEVICE_STATUSES -> "target"
    [] OTHER -> "waiting"

Registry == INSTANCE DeviceRegistry
              WITH registry <- [d \in Devices |->
                                  [status |-> RegistryStatusOf(device[d].status),
                                   vpn_ip |-> device[d].vpn_ip, user |-> device[d].user]]

\* DeviceLifecycle implements DeviceRegistry: through every order of requests
\* and jobs a device keeps its address, becomes a target of the runtime only
\* from waiting, and nothing leads out of a revocation.
ImplementsRegistry == Registry!RegistrySpec
=============================================================================
