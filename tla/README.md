# WirePortal in TLA+

WirePortal (package `yourvpn_core`, the applications under `src/apps`) is a
self-service portal for a WireGuard VPN: people apply for access, approved users
create devices, download one installer per device, confirm the download, and a
privileged agent then adds the device's key to the WireGuard interface. This
directory holds a TLA+ model of the system's core - the life of a device from
its creation to the kernel and back, the way from an application to an account
that is signed in, and the rules that say which hosts a device may reach - with
TLC configurations that check it on small instances and TLAPS proofs of its main
invariants for every instance.

Contents: 1 inventory, 2 modules, 3 correspondence to the code, 4 runs and
bounds, 5 fairness, 6 proofs, 7 disagreements found, 8 what is not modelled,
9 plan. Paths of the form `devices.py:279` are below
`src/packages/python/yourvpn-core/src/yourvpn_core/modules/` unless another
directory is given; `PROJECT.json` maps every definition to the lines it models.

## 1. Inventory

| Component | State | Operations | Interacts by |
|---|---|---|---|
| DeviceModule (`devices.py`) | tables `devices`, `install_packages`; files in `artifacts_dir` | create, record_download_attempt, confirm_download, report_lost, reset, revoke | called by the API inside one transaction; inserts `jobs`; calls the installer builder and the IP allocator |
| Installer builders (`installer_builder.py`) | one file per device | build (key pair, archive, `os.replace`) | called under the transaction of a creation or a reset |
| IpAllocatorModule | none | allocate_for_device | reads all devices' addresses |
| StateMachineModule | tables of transitions | require_transition | asked by the application module, and once per build for a constant transition |
| Job queue (`jobs`) | pending, running, succeeded, failed | insert, claim, finish | between API and worker |
| Worker (`apps/worker`) | none of its own | run_pending_job_once in a loop | one transaction per job; calls the agent in it |
| WgRuntimeModule (`wg_runtime.py`) | none | build_target_state, apply/remove peer, reconcile, agent client with a ten second timeout | reads `devices` |
| wg-agent (`apps/wg-agent`) | none | apply, remove, reconcile, firewall, status | runs `wg` and `nft` commands, one thread per request |
| WireGuard interface, nftables | peers and their allowed-ips; rules | `wg set`, `nft -f` | kernel |
| Operations scripts (`deploy/ops`) | backups | backup, restore, reconcile | restart the services, run a reconcile |
| ApplicationModule, AuthModule, SetupModule | `applications`, `users`, `password_tokens`, `sessions`, `login_attempts`, `system_settings` | submit, approve, reject, login, logout, setup_password, complete_setup | API transactions; share `users` with the device module, which reads the limit |
| Access groups (`access_groups.py`) | `access_groups`, `access_group_routes`, `user_access_groups`, `device_access_groups` | create_access_group, grant at an approval, copy at a creation, compile_allowed_ips | read by builds (AllowedIPs) and by `build_target_state` (nftables) |
| AuthorizationModule | none | can_grant_access_groups, require_admin_ip_allowed | asked by the API and the application module |
| AuditModule, API schemas, front end, install script, migrations | - | append, format, deploy | - |

What is hard here:

- **Two rows that must agree.** `confirm_download` sets the device's status from
  the package's status alone (`devices.py:279`); it is right only because every
  other handler keeps the two rows in step.
- **Interleaved requests.** FastAPI runs each request in a thread with its own
  session on SQLite: rows are read without a lock and written later, column by
  column, under the one write lock.
- **Files and rows.** The disk is changed before the commit; all packages of a
  device share one path; a request can be lost in between; an error that is a
  `DomainError` commits.
- **Worker and kernel.** The command may run and the commit fail, the caller may
  give up and the command run later, commands may fail, the host may reboot, a
  reconcile may run next to all this.
- **Rules that are only added.** `nft -f` appends to the chain it finds, the first
  rule that matches decides, and only a reconcile loads anything: what was loaded
  once goes on deciding until the host reboots.
- **Order.** A removal must come last for a revoked device; an installer of
  before a reset must not be confirmable after it.
- **Limits.** Address pool, device limit, download attempts, failed logins.
- **Once only.** One first administrator, one decision per application, one
  account per address, one use per token: each is checked with a SELECT and
  settled by a later write.

What makes each component correct, and where it is stated (section 4 has the
runs):

| Component | Property | Definition |
|---|---|---|
| devices, packages | a live package owns its device, and is the only one | `LivePackageOwnsDevice`, `OnePackageInFlight` |
| devices, packages | only confirmed keys become peers | `PeersHaveConfirmedKeys` |
| devices | revocation is final | `RevokedIsFinal` |
| devices | distinct addresses, limit respected | `AddressesDistinct`, `QuotaRespected` |
| devices | a device keeps its address for good, becomes a target only from waiting, and nothing follows a revocation | `ImplementsRegistry` |
| requests | a confirmation, a deletion or a revocation is never taken back | `DatesStand` |
| artifacts | deleted means gone; what is on disk is still on offer, so something will delete it | `DeletedMeansGone`, `NoStrayArtifacts` |
| requests | downloads that race pass the cap only up to a bound | `DownloadsBounded` |
| jobs | one apply job per confirmation, not lost; removal last | `OneApplyJobPerConfirmation`, `ConfirmationsHaveJobs`, `ApplyJobNotLost`, `RemovalIsLast` |
| requests | a request's steps implement the atomic handler | `RefinesLifecycle` |
| worker, agent, kernel | only confirmed keys on the interface, each on its own device's address | `KernelKeysConfirmed`, `RoutesBelong` |
| worker, agent, kernel | an active device is connected, a removed one is not | `ActivePeersRouted`, `RemovalCutsOff` |
| worker | every job is run; a confirmed device comes up or shows why not | `JobsDrain`, `ConfirmedComesUp` |
| applications | one approval per application and address, with its account | `OneApprovalPerAccount` |
| applications | a status comes from a recorded decision, and follows the table | `DecisionsRecorded`, `DecisionsFollowTable` |
| accounts, tokens | an account is active, with a password, from its token's use on | `PasswordComesWithToken` |
| tokens | a one-time token is used at most once by each thread | `TokenUsesBounded` |
| sessions | nobody pending is signed in; guesses are bounded | `SessionsOfActiveAccounts`, `GuessesBounded` |
| setup | marked as completed exactly when there is an administrator | `SetupMatchesAdmin` |
| reconcile | undisturbed, it ends in the target state | `ReconcileSyncs` |
| firewall | the chain lets a device reach exactly what the database says | `FilterIsDatabase` |
| firewall | a reconcile leaves no target device unfiltered | `ReconcileFilters` |
| access groups | an installer routes exactly what the server lets through | `ClientMatchesServer` |

## 2. Modules

| Module | Extends | What it is |
|---|---|---|
| `DeviceRecords` | | the rows, their statuses, and what each handler writes into one row |
| `DeviceRegistry` | | the abstract specification of devices: status, address and user of a row |
| `DeviceLifecycle` | `DeviceRecords` | each request one atomic step; implements `DeviceRegistry` |
| `DeviceRequests` | `DeviceLifecycle` | requests as threads with stale reads, the lock, column-wise flushes, files touched before the commit; implements `DeviceLifecycle` |
| `WgRuntime` | `DeviceLifecycle` | worker, agent, interface and reconcile, composed with the portal's actions |
| `AccessRules` | | networks of routes, rules of a peer, what a packet meets in the chain |
| `Firewall` | `DeviceRegistry`, `AccessRules` | groups, grants, installers and the nftables chain, composed with the registry; reconcile, reboots, backup and restore |
| `Accounts` | | setup, applications, one-time passwords, logins: interleaved transactions |
| `DeviceLifecycleMC`, `DeviceRequestsMC`, `WgRuntimeMC`, `FirewallMC`, `AccountsMC` | | instances for TLC: symmetry sets, the group rows an instance may create |
| `DeviceLifecycleProofs`, `DeviceJobsProofs` | `DeviceLifecycle` | its invariant; files and jobs |
| `DeviceRegistryProofs` | `DeviceLifecycleProofs` | addresses, the device limit, the refinement of `DeviceRegistry` |
| `DeviceRequestsProofs` | `DeviceRequests`, `DeviceJobsProofs` | what any number of interleaved requests keeps |
| `DeviceOneRequestProofs` | `DeviceRequestsProofs` | the refinement of `DeviceLifecycle` by one thread |
| `WgRuntimeProofs` | `WgRuntime`, `DeviceRegistryProofs`, `DeviceJobsProofs` | the interface under every fault; the interface with the worker alone |
| `FirewallProofs` | `Firewall` | its properties |
| `AccountsProofs` | `Accounts` | its properties |

`DeviceLifecycle` is used three times: as what is proved about, as the portal's
part of `WgRuntime`, and as the specification `DeviceRequests` implements
(`Lifecycle == INSTANCE DeviceLifecycle WITH ...`). It implements
`DeviceRegistry` in turn (`Registry == INSTANCE DeviceRegistry WITH ...`), and
`Firewall` is built on the registry alone: which packages, files and jobs a
device has makes no difference to who may reach what. `Accounts` stands alone:
it meets the others in a user's row, of which they read the limit and that the
account is approved.

## 3. Correspondence to the code

**Rows.** `device` and `package` are the tables, as functions from identifiers to
records; a row not inserted has status `absent`. Identifiers are uuids, so an
identifier is never drawn twice; a package's identifier also stands for the key
pair generated by its build (one pair per build, one build per package row).
`window` is the download window: `unset` before a build succeeded, then `open`,
then, by the clock, `closed`. `revoked`, `lost`, `confirmed`, `deleted` say
whether the corresponding time column is set. Statuses are those that any code
writes and commits: `DeviceStatus` leaves out five values of the enumeration
that nothing writes, `InstallPackageStatus` leaves out `building` and
`download_confirmed`, which are overwritten before any commit.

**Handlers.** Each is one action of `DeviceLifecycle`: its guard is the handler's
early returns, its assignments those of the handler and of everything it calls.
`_build_package` has four outcomes (`BuildOutcome`): success, an error before or
after the file is in place, and "no builder configured", which happens before
the build and leaves the package `pending_build`. A failed build is a
`DomainError`, and `main.py` commits in its except clause, so the failure's rows
stay; the model does the same. A download past its window expires the package
although the request answers with an error, and commits too: `ExpireOnDownload`.
Requests that are refused change nothing and are not actions. `update_user` is
included for the limit; the user's other columns are not modelled.

**Files.** `artifact[d]` is the package whose installer is in the device's one
file. `_delete_artifact` unlinks the path the row records, which is the device's
path whichever package wrote it last, and does nothing when the row has no path.

**Lost requests.** `LostTransaction` is a request that touched the file system and
was then rolled back ("database is locked", a killed process): the rows stay,
the file is as the request left it.

**Interleaved requests.** In `DeviceRequests` a thread holds what its session
loaded. A SELECT takes no lock; the first INSERT or UPDATE takes the write lock,
held to the commit; the ORM writes only the columns the handler changed
(`Flush`), over whatever is there by then. Unlinks come before the lock in
confirm, expiry and reset (`Unlinks`, `ResetUnlinks`), under it in revoke,
because its SELECT of the packages flushes the device first; builds run under
the lock. A request can be `Lost` at any step before its commit: the worker
keeps the lock while it waits up to ten seconds for the agent, and SQLite gives
up after five. `granted` is a history variable: downloads granted per package, without a bound.
`orphaned`, another one, has the devices for which a lost request had built a
file: a rolled-back creation leaves one that no row knows of, and
`NoStrayArtifacts` is about all other devices. It says that a file on disk is an
installer of its device that may still be downloaded, or is being built, so that
the next download, confirmation, reset or revocation hands it out or deletes it.
It does not say that one of them comes: see section 7.
Jobs are appended at the commit; the code computes `created_at` at the flush,
under the same lock, so the order is the same.

**Worker and kernel.** The worker holds the write lock from the claim of a job to
its commit, so in `WgRuntime` no request changes a row in between and the claim
is not a state of its own. `WorkerRefuses`, `WorkerCompletes`, `WorkerGetsError`,
`WorkerTimesOut` and `WorkerCrashes` are the ways one run of
`run_pending_job_once` ends; after a timeout the command is `late` and runs
whenever the agent's thread gets to it. `WgSetPeer` is `wg set ... allowed-ips`:
the address moves to the new peer and its list becomes that one address.
`wg` refuses a key that is not one, such as the `reset-pending-...` placeholder
(`IsWgKey`). `reconcile.sh` reads the target from the database, and the agent
dumps the interface, removes what is not in the target it was given, then
applies each target peer: `ReconcileReads` to `ReconcileEnds`, each command one
step. `undisturbed` is the model's own: whether anything else has happened since
the read.

**Registry.** `registry` keeps of a device's row the address, the user, and whether
it is absent, waiting (every status before a confirmation), a target of the
runtime (`download_confirmed`, `active`) or revoked: `RegistryStatusOf` maps one
to the other.

**Networks and rules.** A network is the set of hosts it covers; `Hosts` are those
behind the server, so `CompileNetworks` is a union, and the sorting and the
removal of duplicates in `_compile_networks` are not seen. A packet meets the
rules with its own source address only, so `chain` is a sequence of rules per
address: `render_nftables_table` writes for each target peer one accept for its
destinations, if there are any, and one drop (`PeerRules`), and the first rule
that matches decides, or the chain's policy, which is accept (`Passes`).

**Groups.** An administrator creates a group with its routes in one request and
nothing changes either afterwards; an approval gives a user its groups, once;
`create_device` copies them to the device, once. `installer` is the AllowedIPs in
the newest installer built for a device: `_compile_allowed_ips` falls back to the
server's own address if there is no network, because WireGuard wants one.

**Loading rules.** The agent's reconcile ends with `nft -f -` on a text that names
the table and the chain and lists the rules, and flushes nothing: `LoadRuleset`
appends. The `wg` commands before it may fail, and nft takes its input as a whole
or not at all, so a run stops before the load or after it (`EndReconcile`).
A reboot empties the table, and nothing fills it until the next reconcile.
`restore.sh` puts an older database back, restarts the services and wg-quick, and
runs a reconcile; the nftables table stays (`Restore`; `stale` is the model's own:
whether that happened since the table was last empty).

**Accounts.** `user` is the table by e-mail, which is UNIQUE; addresses are in the
normal form `strip().lower()` gives them, and no code deletes a user, changes an
e-mail or disables an account. `application` has with each row the number of its
`approval_records` of either action; `token` is the one token an approved account
ever gets, and a user's `passwordsSet` is history: how many requests have set a
password with it. `signedIn` is the set of accounts with a session that counts, so
several sessions of one account are one; `failures` has the failed rows of
`login_attempts` that are inside the window, each with its address, its client and
whether the password was looked at, since a login that is turned away is recorded
too. A transaction is
the reads that its decision rests on, one step each, then one step for
everything from its first write to its commit: it is alone from then on, and
nothing sees uncommitted rows. A request that is refused ends where the code
returns; one that is refused before it has read anything is no action. Whether a
password is right is a choice in `LoginVerifies`. The mail with the link is
outside the model. Only administrators decide, because no code creates an
approver.

## 4. Runs and bounds

Every passing run has a mutant per property: a plausible bug in a mapped
definition (the operators commented `Mutant:`, which nothing else uses) that makes
TLC find the property violated under the same configuration.

| Run | Instance | Shows |
|---|---|---|
| `lifecycle` | 1 user, 2 devices, 2 packages, 2 addresses, 4 jobs, lost requests and late build failures; 1.4 M states | all invariants of `DeviceLifecycle`, `QuotaRespected`, and that it implements `DeviceRegistry` |
| `one_request` | 1 thread, 1 device, 3 packages, 3 jobs, the same faults; 550 k states | the steps of a request implement `DeviceLifecycle` (refinement) |
| `two_requests` | 2 threads, 2 devices, 2 packages, 2 jobs, 2 addresses besides the server's, any request may be lost; 2.5 M states | what survives arbitrary interleaving: `DeletedMeansGone`, `ConfirmationsHaveJobs`, `NoStrayArtifacts`, `AddressesDistinct` when two creations choose the same address, `DownloadsBounded` and `DatesStand` |
| `runtime` | 2 devices, 2 packages, 2 jobs, errors, timeouts, worker crashes, reboots, reconcile at any time | `KernelKeysConfirmed`, `RoutesBelong`, `ReconcileSyncs` |
| `worker` | 1 device, 2 packages, 4 jobs, errors and worker crashes; no symmetry | `ActivePeersRouted`, `RemovalCutsOff`, and the liveness of jobs and confirmations |
| `accounts` | 2 threads, 2 addresses, 2 applications, 2 clients, limit 1, 3 rows of failed logins; 680 k states | all invariants of `Accounts` |
| `firewall` | 2 users, 2 devices, 2 hosts, 1 group of any of the instance's rows, 3 rules per address, failing commands, reboots, one backup; 5.0 M states | `FilterIsDatabase`, `ReconcileFilters`, `ClientMatchesServer` |
| five more | see section 7 | what documents say and the code does not do |

Why the bounds are enough: the handlers look at one device and its packages, so
one device with two packages has every relation between an old and a new package
(three packages in `one_request`: a second reset); two devices with two addresses
have every relation through the pool and the limit, including exhaustion; four
jobs are two confirmations, a revocation and one repeated. In `two_requests` two
devices are enough for two requests to be about one device or about two. In
`accounts`, two applications are of one address or of two, two requests race for
every row, and three failures are one more than `GuessesBounded` allows with a
limit of one and two threads. In `firewall`, a group's routes may be enabled or
not and lead to one host or to two; a user has the group or not, and without it
goes nowhere; three rules per address leave room for further loads behind a single
drop, while a block of two rules fits once - `FirewallProofs` covers any length.
`MaxAttempts` is 2 where the counter itself matters, 1 where the cap alone does.
In `two_requests` it is 1: two downloads that read the same count are then both
granted, which is the bound. With 2 the state space is too large for a run, though
a partial exploration reaches the bound there as well, which is 5; the theorem
covers every number.
Bounds are named: `MaxLimit`, `MaxJobs`, `MaxRules`, `LoginAttempts` (with
`FailureRoom`), `GroupRows`, one archive in `Backup`, `Operations` (the requests
an instance interleaves) and `JobRoom`, `PackageRoom`, `DeviceRoom`, which stop a
request from starting when it could not find an identifier at its end. Symmetry
(users, devices, packages, hosts, addresses, applications, clients, threads) is
used in safety runs only: no handler tells members of these sets apart. Deadlock
is checked in every run but `two_requests`: there the identifiers run out, and with
both packages and both jobs used up no request can start.

`DeletedMeansGone` speaks of packages whose path the code knows. A builder that
fails after its `os.replace` leaves a file and a package without a path, and a
later revocation marks that package deleted while the file stays.

## 5. Fairness

Only `worker` uses fairness: weak fairness of `Worker`, the disjunction of the
ways a job's run ends other than by the worker's death. The worker's loop
(`apps/worker/.../main.py:143-147`) polls for ever, a job's run ends after at
most the client's ten second timeout, and systemd restarts a worker that died
(`wireportal-worker.service:13`). Weak fairness says that a worker that is not
killed for ever in the middle of its run gets to commit; `WorkerCrashes` may
happen any number of times in between. Users, admins, late commands and
reconcile have no fairness. `ConfirmedComesUp` is about confirmed devices that
do not depend on users any more; it allows for the newest apply job to be left
`failed`, because a failed job is never retried: the worker counts `attempts` and
nothing compares it with `max_attempts`. An earlier failure, of a confirmation
before a reset, does not excuse it.

## 6. Proofs

Every safety property of the passing runs, every action property and both
refinements are proved; what is left to TLC alone is liveness.

First the modules about `DeviceLifecycle`: for all finite or infinite sets of users
and packages, any finite set of devices, any pool, any bounds and any of the
faults. Assumptions: `None` and the placeholder key are no identifiers, the
server's address is in the pool, at least one attempt is allowed, the bounds are
numbers (`IdentifierAssumption`, `PoolAssumption`, `AttemptsAssumption`,
`BoundsAssumption`, `DevicesAssumption`), and a fault is one of the two named
(`FaultsAssumption`).

| Theorem | States |
|---|---|
| `TypeCorrect` | `Spec => []TypeOK`: types, foreign keys, the attempt counter's range |
| `LivePackages` | `Spec => [](LivePackageOwnsDevice /\ OnePackageInFlight)` |
| `ConfirmedPeers` | `Spec => []PeersHaveConfirmedKeys` |
| `RevocationFinal` | `Spec => []RevokedIsFinal` |
| `AddressesStayDistinct` | `Spec => []AddressesDistinct` |
| `QuotaHolds` | `Spec => QuotaRespected` |
| `DeletedAreGone` | `Spec => []DeletedMeansGone` |
| `RemovalComesLast` | `Spec => []RemovalIsLast` |
| `ApplyJobStays` | `Spec => []ApplyJobNotLost` |
| `OneJobEach` | `Spec => []OneApplyJobPerConfirmation` |
| `RegistryImplemented` | `Spec => ImplementsRegistry` |

The first four are one inductive invariant, `IndInv`: none is inductive alone.
`PeersHaveConfirmedKeys` survives a confirmation only because the confirmed
package owns the device (`LivePackageOwnsDevice`); that survives because no other
package of the device is in flight (`OnePackageInFlight`); `RevokedIsFinal`
survives a confirmation because a revoked device has no live package, and a
worker's result because `apply_peer` looks at the status. There is one lemma per
handler, and under it one step per conjunct. Each lemma assumes only what the
handler writes into the rows (`WritesCreated` to `WritesRevoked`), so it serves
for a request in several steps as well.

`AddressesStayDistinct` and `QuotaHolds` need one more fact, `OnlyCreateAdds`: every step but
`create_device` keeps each row's address, user, existence and terminal status.
`IndInv` is needed for it: a confirmation could otherwise take a device out of
`revoked`, and the count of a user's devices would grow without a creation.

`DeviceJobsProofs` has the files and the jobs. `DeletedMeansGone` is not inductive:
a confirmation unlinks the device's file, so the invariant has to say that the
file of a deleted package could only lie there (`FilesOwned`: a file on disk is
one of its own device, unless its package was never committed). The job
properties are inductive together with `IndInv`: a confirmation inserts its job
behind all others and only for a device that is not revoked, a revocation inserts
its removal behind all apply jobs, and the worker makes a device active in the
step that makes its apply job succeed. `OneJobEach` counts, so `JobsCounted`
also carries that the confirmed packages of a device are finitely many, although
`Packages` need not be finite.

`DeviceRegistryProofs` maps every handler to a step of the registry or a stutter.
The guard `status = "waiting"` of the registry's `Confirm` is in no handler:
`confirm_download` looks at the package only, and it is `LivePackageOwnsDevice`
that gives the device's status.

`DeviceRequestsProofs`, for any number of threads, each with what its session has
read, however old, and any set of operations (`OperationsAssumption`: of those the
model has); there are finitely many threads (`ThreadsAssumption`). The other
assumptions are those of `DeviceLifecycle`.

| Theorem | States |
|---|---|
| `RequestsTyped` | `RequestsSpec => []RequestsTypeOK` |
| `DatesNeverGo` | `RequestsSpec => DatesStand` |
| `RequestsAddresses` | `RequestsSpec => []AddressesDistinct` |
| `RequestsDeletedAreGone` | `RequestsSpec => []DeletedMeansGone` |
| `RequestsLeaveNoStrays` | `RequestsSpec => []NoStrayArtifacts`, if no builder fails after writing its file |
| `ConfirmationsKeepJobs` | `RequestsSpec => []ConfirmationsHaveJobs` |
| `DownloadsStayBounded` | `RequestsSpec => []DownloadsBounded` |

`IndInv` is no invariant here: a request writes over rows that have changed since
it read them (section 7). What takes its place says what a flush cannot undo,
because no handler ever takes it back - that a row exists, whose it is, its
address, its dates - and what the lock protects (`RequestInv`): every session has
loaded rows that existed, a build's identifiers are new until its commit, the
address of a creation that holds the lock is nobody's, and one thread holds the
lock. The column-wise flush is what makes it true: `FlushedPackage` and
`FlushedDevice` show that a write from an old row leaves a date it did not mean to
change. The files need in addition that what a request in progress is to delete is
off the disk and stays off (`FilesUnlinked`), although it unlinked without the
lock: nobody writes that file again, because a build writes its own. Confirmations
are counted (`ConfirmationsCounted`), since two requests that confirm one package
both insert a job: at least as many jobs as confirmations. `RequestsLeaveNoStrays`
needs two facts: a file that is not the result of a lost request is that of a
package of its device whose deletion no row records (`FilesRecorded`), and such a
package may still be downloaded (`UndeletedOnOffer`), because whatever takes a
package off offer writes the deletion in the same flush. It is false with the
fault it excludes, see the end of section 4.

`DownloadsBounded` has no invariant in `granted` and the counter alone, since a
thread that read the counter long ago can set it back. A thread that holds such an
old value stands at it, every other thread at the row's value (`Standing`); the
profile of a package says for each number of attempts how many threads stand at it
or below it. A grant moves its thread up and no thread down past the place it
left, so that the first number of the profile that changes gets smaller
(`Raises`, `RaisingLowers`); no other step moves a thread down. The invariant
`GrantsCounted` says that the downloads granted are at most as many as the
profiles above the present one in this order (`Above`), all of which are finitely
many (`ProfilesFinite`). This is why `MostDownloads` counts profiles: that it
equals (T + M choose M) - 1 for T threads and a maximum of M attempts is
arithmetic and not proved.

`DeviceOneRequestProofs`, for one thread (`Threads = {t}`), with the worker and the
clock running between any two of its steps and any request lost at any step:

| Theorem | States |
|---|---|
| `OneRequestAtATime` | `RequestsSpec => RefinesLifecycle` |

The refinement maps a file to what it was before the request in progress touched
it, and keeps a window open for a download that has found it open, so that a
handler happens at its commit (`ArtifactAtCommit`, `PackageAtCommit`). What the
request read may be old in two ways only: a window has closed, or the worker has
made the device active (`PackageAgrees`, `DeviceAgrees`; `BackgroundDrifts`). The
first makes no difference to any handler but the download, which has decided by
then. The second makes none to a reset and a revocation, which overwrite the
status, nor to the handlers of a package: a package they accept is in flight, and
the device it owns waits and is not active. This last is `LivePackageOwnsDevice`,
so the invariant, `AloneInv`, has `IndInv` in it, and one thread keeps that, as
several do not. Its own part, `Alone`, says for each place in each handler what
the session knows: the rows agree, the file is what is left of the one it had, an
identifier is still free for the build that comes. Then each commit writes the
rows of its handler and is its step (`ExpiryAlone` to `RevocationAlone`), each
read and each touch of a file is a stutter, or closes a window at last
(`ReadsAlone`, `TouchesAlone`), and a request lost after it touched the file is
`LostTransaction` (`LostAlone`). With two threads it is false (section 7).

`WgRuntimeProofs`, for any numbers of devices, packages, late commands and jobs;
the first four theorems for any set of faults, the assumptions of the others are
in their statements:

| Theorem | States |
|---|---|
| `RuntimeTyped`, `OnlyConfirmedKeys`, `RoutesStayOwn` | `RuntimeSpec => []` of `RuntimeTypeOK`, `KernelKeysConfirmed`, `RoutesBelong` |
| `ReconcileRestores` | `RuntimeSpec => []ReconcileSyncs` |
| `RemovedStaysCutOff` | `RuntimeSpec => []RemovalCutsOff`, if the worker is alone (`WorkerAlone`: no live reconcile, no timeout) |
| `ActiveIsConnected` | `RuntimeSpec => []ActivePeersRouted`, if also the host stays up |

The argument of the first: a command is made of a confirmed key and its device's
address (`OwnCommand`, `ReconcileOwn`), and both stay what they are
(`ConfirmedStays`, `AddressStays`), so a command made from an old reading is still
right when it runs. `ReconcileRestores` adds how far an undisturbed run has come
(`SyncInv`), and that no two targets share an address. The last two add what the
tables alone do not show: a device's key was generated for it (`KeysOwned`), so
that removing one device's key disconnects no other, and only revoked devices have
removals (`RemovalsRevoked`). Without their assumptions they are false:
a late apply command behind a removal shows it for the first, the run
`live_reconcile` for the second.

`FirewallProofs`, for any users, devices, groups, hosts and chain lengths:

| Theorem | States |
|---|---|
| `FirewallTyped` | `FirewallSpec => []FirewallTypeOK` |
| `FilterStaysRight` | `FirewallSpec => []FilterIsDatabase` |
| `ReconcileLeavesNoneOpen` | `FirewallSpec => []ReconcileFilters` |
| `ClientAgreesWithServer` | `FirewallSpec => []ClientMatchesServer` |

`FirewallInvariant` is their inductive invariant. An address belongs to one device
for good and a device's destinations never change, so every block of rules ever
loaded for an address says the same of every packet (`SaysDatabase`), and what is
appended behind it changes nothing (`AppendedRules`). That holds of the rules a
running reconcile has read as well as of the chain. A restore breaks it, but not
the rest, because the archive is an earlier state of the same database
(`BackupIsPast`).

In `AccountsProofs`, for any sets of addresses, applications and clients, any
number of threads and any limit. Assumptions: `None` is no identifier
(`NoneAssumption`), the limit is a positive number (`LimitAssumption`), there are
finitely many threads and rows of `login_attempts` (`FiniteAssumption`).

| Theorem | States |
|---|---|
| `AccountsTyped` | `Spec => []TypeOK` |
| `OneApproval` | `Spec => []OneApprovalPerAccount` |
| `TokenGivesPassword` | `Spec => []PasswordComesWithToken` |
| `OnlyActiveSignIn` | `Spec => []SessionsOfActiveAccounts` |
| `SetupIsMarked` | `Spec => []SetupMatchesAdmin` |
| `StatusHasDecision` | `Spec => []DecisionsRecorded` |
| `GuessesStayBounded` | `Spec => []GuessesBounded` |
| `TokenUsesStayBounded` | `Spec => []TokenUsesBounded` |

Again one inductive invariant, `IndInv` (`Invariance`). To the properties it adds
what a request in progress may rely on after its reads although it holds no
lock (`RequestsValid`): its application keeps its address, a user with a token
stays one, an account found active with a password stays so. What it may not
rely on, that the application is still submitted or the address still free, is
missing from it: the first is the disagreement `racing_decisions`, the second
is caught by the UNIQUE column (`MayInsert`), on which `OneApproval` rests.

`GuessesBounded` is about failures that are recorded, and two logins that have both
counted may both still be recorded. So the invariant, `GuessesCounted`, counts for
each address and each client the recorded failures together with the threads that
have counted and may still fail. A step lets some of them go, turns a thread into
a failure, or lets one thread more in, which has found fewer failures than the
limit (`GuessesMove`): there are at most as many threads, so the sum stays below
the limit plus the number of threads.

`TokenUsesBounded` is proved in the same way (`UsesCounted`): the uses of a token and
the requests that have read it unused are together at most as many as the threads.
A use turns one of these into the other and marks the token, and while the token
is not marked there is no use at all; so whoever joins finds none (`UsesMove`).

Model-checked only: liveness (`JobsDrain`, `ConfirmedComesUp`), which is out of the
prover's reach. The five disagreements of section 7 are counterexamples; there
is nothing to prove.

## 7. Disagreements with the documents

Each has a run that TLC ends with a counterexample.

| Run | What the code does |
|---|---|
| `revoke_keeps_old_peer` | a reset replaces the key and enqueues no removal; a revocation removes the current key only: the peer of before the reset stays on the interface |
| `live_reconcile` | `restore.sh` starts API and worker before its reconcile; a device activated in between loses its peer and stays `active` |
| `racing_revocation` | a confirmation that read its rows before a revocation committed brings the device back: `download_confirmed`, then `active` |
| `racing_decisions` | an approval and a rejection that both read the application as submitted both commit: an application ends rejected with an account, or with an account after it was rejected |
| `restored_rules` | after a restore of an older database, the reconcile's rules are appended behind those of the device that had the address before: the documents say the ruleset replaces the table, and what was loaded first goes on deciding |

Others of the same kind were met while modelling and have no run of their own:

- `docs/security-model.md:92`: "Package download attempts are counted and capped by
  `max_download_attempts`." In `DeviceRequests`, two concurrent downloads both pass
  the cap and count as one, and one that writes an older count sets the counter
  back, which lets further downloads through. `DownloadsBounded` says how far this
  goes.
- `docs/v1-development-plan.md:361` and
  `wireguard-vpn-portal-prd-technical-design.md:213`: artifacts that expire
  unconfirmed are deleted automatically; the plan's lines 847-851 describe a job
  `expire_install_package` for it. There is no such job. `record_download_attempt`
  (`devices.py:231`) deletes an expired installer when somebody tries to download
  it, and nothing else does: if nobody does, it stays on disk, and
  `confirm_download` does not look at the window and accepts it.
  `NoStrayArtifacts` says only that such a file is still one that a download,
  confirmation, reset or revocation would delete.
- `docs/api-contract.md:171`: "Consumes a one-time password setup token." In
  `Accounts`, two requests that both read the token unused both set the password,
  and the later one's stands (`auth.py:208-252`). `TokenUsesBounded` says that no
  request joins them once the first has committed.
- Two first-run setups with different addresses both succeed and there are two
  administrators (`SetupCountsAdmins` in both threads of `Accounts`, then
  `CommitsSetup` in both).
- A package can be confirmed before it was downloaded (`DeviceLifecycle`), and the
  state machine's table has no way from `ready_to_download` to
  `download_confirmed`; `devices.py` does not ask it.
- A confirmation that races a reset makes the device `download_confirmed` with the
  new, unconfirmed key (in `DeviceRequests`, `PeersHaveConfirmedKeys` fails with the
  operations create, confirm, reset), and two concurrent creations both pass the
  device limit (`QuotaRespected` with two threads).
- A download that races a confirmation writes `downloading` over the package's
  `artifact_deleted` and, if it is the first, over the device's
  `download_confirmed`: its job is refused, and the device waits for a reset.
- In `Firewall`, an active device has no rules until somebody runs `reconcile.sh`,
  because nothing enqueues `apply_firewall`, and the chain's policy lets it through
  to everything, where `docs/v1-development-plan.md:273` says that AllowedIPs are no
  security boundary and the server's nftables enforce the restriction;
  `ReconcileFilters` states what a reconcile does about it.

`docs/v1-development-plan.md:314` speaks of a cooling period for the addresses of
revoked devices; the code never reuses them, which is stricter, and
`AddressesDistinct` states what the code does.

## 8. Not modelled

- `sample_status`, payload validation in the agent, the allocator's cooling
  argument, which no code passes.
- Whether nft accepts overlapping networks in one set, the NAT chain, IPv6 beyond
  its being left out, and the check of who may grant high privilege.
- CSRF tokens, and the single sessions of an account.
- `apply_firewall`, `reconcile_runtime_state` and `sample_wg_status` jobs: the
  worker handles them and no code enqueues them.
- What is inside an installer; the fake builder (`fake-pub-<device id>` is the
  same for every build of a device and is no WireGuard key), which is for
  development.
- The rewriting of an installer by a reset whose transaction is lost: the model
  has the new file with the old row (`LostTransaction`), as the code leaves it.
- Audit, formatting, listing endpoints, front end, install script, migrations:
  they keep no state the rest depends on.
- Backup and restore of other tables than those the firewall is made from, and of
  the files.
- The mail with the password link, which is sent before the commit: if the
  transaction is lost, the link names no token.

## 9. Plan

Done: devices, requests, runtime, accounts, access rules and the firewall, with
the proofs of section 6. What is left, most important first:

1. Of several threads: which sets of operations keep the invariant of
   `DeviceLifecycle` although they interleave, and a proof of it for those.
2. `sample_status` and the handshakes it stores, once code enqueues its job.
