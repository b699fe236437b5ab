--------------------------- MODULE DeviceRequests ---------------------------
(***************************************************************************)
(* The requests of DeviceLifecycle, interleaved.  The API runs each one in *)
(* a thread with a session of its own, on SQLite through pysqlite:         *)
(*   - a SELECT takes no lock; the rows it loads stay in the session;      *)
(*   - the first INSERT or UPDATE takes the database's one write lock,     *)
(*     kept to the commit, and sees the rows as they are by then;          *)
(*   - a flush writes only the columns the handler changed, whatever has   *)
(*     happened to the row since it was read;                              *)
(*   - files are unlinked and written where the handler does it: before    *)
(*     the lock, or under it.                                              *)
(* A request that cannot get the lock in time, or whose process dies, is   *)
(* lost and its transaction rolled back.                                   *)
(***************************************************************************)
EXTENDS DeviceLifecycle

CONSTANTS
  Threads,        \* the requests that can be in progress at once
  Operations      \* bound: the requests that this instance interleaves

ASSUME OperationsAssumption ==
  Operations \subseteq {"create", "download", "confirm", "reset", "revoke",
                        "report_lost", "update_user"}

\* The server's thread pool is finite.
ASSUME ThreadsAssumption == IsFiniteSet(Threads)

VARIABLES
  requests,       \* what each thread is doing
  granted,        \* history: downloads granted per package
  orphaned        \* history: devices for which a lost request had built a file

history == <<granted, orphaned>>

requestVars == <<vars, requests, history>>

\* pc: the last thing the handler did.  row and rows are the device and the
\* packages as its session loaded them.  file is the model's: what the
\* device's file held before this request touched it.
Request ==
  [op : {"none", "create", "download", "serve", "expire", "confirm", "reset", "revoke"},
   pc : {"idle", "user_read", "counted", "package_read", "device_read", "read",
         "touched", "locked", "sending"},
   user : Users \cup {None}, limit : 0..MaxLimit, ip : 0..PoolSize,
   d : Devices \cup {None}, p : Packages \cup {None}, outcome : BuildOutcome,
   row : Device, rows : [Packages -> InstallPackage],
   file : Packages \cup {None}]

NoRows == [q \in Packages |-> NoPackage]

Idle ==
  [op |-> "none", pc |-> "idle", user |-> None, limit |-> 0, ip |-> 0,
   d |-> None, p |-> None, outcome |-> "built", row |-> NoDevice,
   rows |-> NoRows, file |-> None]

\* Types; in particular no counter leaves its range by a stale write.
RequestsTypeOK ==
  /\ TypeOK
  /\ requests \in [Threads -> Request]
  /\ granted \in [Packages -> Nat]
  /\ orphaned \subseteq Devices

RequestsInit ==
  /\ Init
  /\ requests = [t \in Threads |-> Idle]
  /\ granted = [p \in Packages |-> 0]
  /\ orphaned = {}

-----------------------------------------------------------------------------

At(t, op, pc) == requests[t].op = op /\ requests[t].pc = pc

Unlocked == \A t \in Threads : requests[t].pc # "locked"

Become(t, request) == requests' = [requests EXCEPT ![t] = request]

Start(t, request) ==
  /\ requests[t] = Idle
  /\ request.op \in Operations
  /\ Become(t, request)

End(t) == Become(t, Idle)

\* Mutant: the UPDATE writes every column.
FlushAll(current, read, written) == written

\* A flush of a row read as "read" and changed to "written" in the session.
Flush(current, read, written) ==
  [f \in DOMAIN current |-> IF written[f] = read[f] THEN current[f] ELSE written[f]]

\* Bound: a request that will insert a job starts only if MaxJobs allows it.
JobRoom ==
  Len(jobs) + Cardinality({t \in Threads : requests[t].op \in {"confirm", "revoke"}})
    < MaxJobs

\* A uuid is drawn once, even if its file is being replaced by this request.
UnusedPackage(p) == FreshPackage(p) /\ \A t \in Threads : requests[t].file # p

\* Bound: as above, for the identifiers a request will draw.
PackageRoom ==
  Cardinality({t \in Threads : requests[t].op \in {"create", "reset"} /\ requests[t].p = None})
    < Cardinality({p \in Packages : UnusedPackage(p)})

DeviceRoom ==
  Cardinality({t \in Threads : requests[t].op = "create" /\ requests[t].d = None})
    < Cardinality({d \in Devices : FreshDevice(d)})

\* Mutant: the file is not unlinked.
FileNotUnlinked(d, rows, chosen) == artifact[d]

FileAfterUnlink(d, rows, chosen) ==
  IF \E q \in Packages : chosen[q] /\ HasArtifactPath(rows[q]) THEN None ELSE artifact[d]

-----------------------------------------------------------------------------
(***************************************************************************)
(* record_download_attempt and confirm_download.  The package is loaded,   *)
(* then its device; the answer depends on the loaded rows alone.           *)
(***************************************************************************)

ReadsPackage(t, op, p) ==
  /\ IF op = "confirm" THEN MayConfirm(package[p]) /\ JobRoom ELSE MayDownload(package[p])
  /\ Start(t, [Idle EXCEPT !.op = op, !.pc = "package_read", !.p = p,
                           !.d = package[p].device, !.rows[p] = package[p]])
  /\ UNCHANGED <<vars, history>>

\* Mutant: max_download_attempts is not checked.
DownloadBranchUncapped(request) ==
  IF request.rows[request.p].window # "open" THEN "expire"
  ELSE IF artifact[request.d] # None THEN "serve" ELSE "none"

\* What a download comes to.
DownloadBranch(request) ==
  LET row == request.rows[request.p] IN
  IF row.window # "open" THEN "expire"
  ELSE IF row.download_attempts < MaxAttempts /\ artifact[request.d] # None THEN "serve"
  ELSE "none"

ReadsDevice(t) ==
  LET request == requests[t]
      op == IF request.op = "download" THEN DownloadBranch(request) ELSE request.op
  IN /\ request.pc = "package_read"
     /\ Become(t, IF op = "none" THEN Idle
                  ELSE [request EXCEPT !.op = op, !.pc = "read", !.row = device[request.d]])
     /\ UNCHANGED <<vars, history>>

Unlinks(t) ==
  LET request == requests[t] IN
  /\ At(t, "confirm", "read") \/ At(t, "expire", "read")
  /\ artifact' = [artifact EXCEPT
                    ![request.d] = FileAfterUnlink(request.d, request.rows,
                                                   [q \in Packages |-> q = request.p])]
  /\ Become(t, [request EXCEPT !.pc = "touched", !.file = artifact[request.d]])
  /\ UNCHANGED <<limit, device, package, jobs, history>>

\* The UPDATEs of the package and of its device, as the session saw them.
WriteBoth(t, newPackage, newDevice) ==
  LET request == requests[t] IN
  /\ Unlocked
  /\ package' = [package EXCEPT ![request.p] = Flush(@, request.rows[request.p], newPackage)]
  /\ device' = [device EXCEPT ![request.d] = Flush(@, request.row, newDevice)]

CommitsExpiry(t) ==
  LET row == requests[t].rows[requests[t].p] IN
  /\ At(t, "expire", "touched")
  /\ WriteBoth(t, ExpiredPackage(row), requests[t].row)
  /\ End(t)
  /\ UNCHANGED <<limit, artifact, jobs, history>>

CommitsGrant(t) ==
  LET row == requests[t].rows[requests[t].p] IN
  /\ At(t, "serve", "read")
  /\ WriteBoth(t, ServedPackage(row), ServedDevice(requests[t].row, row))
  /\ granted' = [granted EXCEPT ![requests[t].p] = @ + 1]
  /\ Become(t, [Idle EXCEPT !.op = "serve", !.pc = "sending", !.p = requests[t].p])
  /\ UNCHANGED <<limit, artifact, jobs, orphaned>>

\* Mutant: no job is inserted.
CommitsConfirmationOnly(t) ==
  LET row == requests[t].rows[requests[t].p] IN
  /\ At(t, "confirm", "touched")
  /\ WriteBoth(t, ConfirmedPackage(row), ConfirmedDevice(requests[t].row))
  /\ End(t)
  /\ UNCHANGED <<limit, artifact, jobs, history>>

CommitsConfirmation(t) ==
  LET row == requests[t].rows[requests[t].p] IN
  /\ At(t, "confirm", "touched")
  /\ WriteBoth(t, ConfirmedPackage(row), ConfirmedDevice(requests[t].row))
  /\ Enqueue("apply_peer", requests[t].d)
  /\ End(t)
  /\ UNCHANGED <<limit, artifact, history>>

-----------------------------------------------------------------------------
(***************************************************************************)
(* create_device: the user is loaded with the session cookie, the devices  *)
(* are counted, an address is chosen; only then comes the INSERT.          *)
(***************************************************************************)

CreateReadsUser(t, u) ==
  /\ PackageRoom /\ DeviceRoom
  /\ Start(t, [Idle EXCEPT !.op = "create", !.pc = "user_read", !.user = u,
                           !.limit = limit[u]])
  /\ UNCHANGED <<vars, history>>

CreateCounts(t) ==
  /\ At(t, "create", "user_read")
  /\ Become(t, IF Cardinality(CountedDevices(requests[t].user)) < requests[t].limit
               THEN [requests[t] EXCEPT !.pc = "counted", !.limit = 0] ELSE Idle)
  /\ UNCHANGED <<vars, history>>

CreateAllocates(t) ==
  /\ At(t, "create", "counted")
  /\ IF FreeIps = {} THEN End(t)
     ELSE \E ip \in 1..PoolSize :
            /\ AllocateForDevice(ip)
            /\ Become(t, [requests[t] EXCEPT !.pc = "read", !.ip = ip])
  /\ UNCHANGED <<vars, history>>

\* Mutant: no UNIQUE constraint on vpn_ip.
CreateBuildsUnconstrained(t, d, p, outcome) ==
  /\ At(t, "create", "read")
  /\ Unlocked
  /\ BuildMay(outcome)
  /\ FreshDevice(d) /\ UnusedPackage(p)
  /\ artifact' = [artifact EXCEPT ![d] = FileAfterBuild(@, p, outcome)]
  /\ Become(t, [requests[t] EXCEPT !.pc = "locked", !.d = d, !.p = p, !.outcome = outcome])
  /\ UNCHANGED <<limit, device, package, jobs, history>>

\* The INSERT takes the lock; the build follows under it.
CreateBuilds(t, d, p, outcome) ==
  /\ At(t, "create", "read")
  /\ Unlocked
  /\ requests[t].ip \notin AllocatedIps
  /\ BuildMay(outcome)
  /\ FreshDevice(d) /\ UnusedPackage(p)
  /\ artifact' = [artifact EXCEPT ![d] = FileAfterBuild(@, p, outcome)]
  /\ Become(t, [requests[t] EXCEPT !.pc = "locked", !.d = d, !.p = p, !.outcome = outcome])
  /\ UNCHANGED <<limit, device, package, jobs, history>>

\* UNIQUE(vpn_ip): the INSERT fails and nothing is left of the request.
CreateCollides(t) ==
  /\ At(t, "create", "read")
  /\ Unlocked
  /\ requests[t].ip \in AllocatedIps
  /\ End(t)
  /\ UNCHANGED <<vars, history>>

CommitsDevice(t) ==
  LET request == requests[t] IN
  /\ At(t, "create", "locked")
  /\ device' = [device EXCEPT
                  ![request.d] = DeviceAfterBuild(CreatedDevice(request.user, request.ip),
                                                  request.p, request.outcome)]
  /\ package' = [package EXCEPT ![request.p] = PackageAfterBuild(request.d, request.outcome)]
  /\ End(t)
  /\ UNCHANGED <<limit, artifact, jobs, history>>

-----------------------------------------------------------------------------
(***************************************************************************)
(* reset_device: device, then packages are loaded; the live ones lose      *)
(* their file; the flush takes the lock and the build follows under it.    *)
(***************************************************************************)

ResetReadsDevice(t, d) ==
  /\ DeviceExists(d) /\ device[d].status # "revoked"
  /\ PackageRoom
  /\ Start(t, [Idle EXCEPT !.op = "reset", !.pc = "device_read", !.d = d, !.row = device[d]])
  /\ UNCHANGED <<vars, history>>

RowsOf(d) == [q \in Packages |-> IF q \in PackagesOf(d) THEN package[q] ELSE NoPackage]

ResetReadsPackages(t) ==
  /\ At(t, "reset", "device_read")
  /\ Become(t, [requests[t] EXCEPT !.pc = "read", !.rows = RowsOf(requests[t].d)])
  /\ UNCHANGED <<vars, history>>

ResetUnlinks(t) ==
  LET request == requests[t] IN
  /\ At(t, "reset", "read")
  /\ artifact' = [artifact EXCEPT
       ![request.d] = FileAfterUnlink(request.d, request.rows,
         [q \in Packages |-> request.rows[q].status \in ACTIVE_PACKAGE_STATUSES])]
  /\ Become(t, [request EXCEPT !.pc = "touched", !.file = artifact[request.d]])
  /\ UNCHANGED <<limit, device, package, jobs, history>>

ResetBuilds(t, p, outcome) ==
  LET request == requests[t] IN
  /\ At(t, "reset", "touched")
  /\ Unlocked
  /\ BuildMay(outcome)
  /\ UnusedPackage(p)
  /\ artifact' = [artifact EXCEPT ![request.d] = FileAfterBuild(@, p, outcome)]
  /\ Become(t, [request EXCEPT !.pc = "locked", !.p = p, !.outcome = outcome])
  /\ UNCHANGED <<limit, device, package, jobs, history>>

\* Two flushes: the reset itself, then what the build changed after it.
CommitsReset(t) ==
  LET request == requests[t]
      reset == ResetDevice(request.row)
  IN /\ At(t, "reset", "locked")
     /\ device' = [device EXCEPT
          ![request.d] = Flush(Flush(@, request.row, reset), reset,
                               DeviceAfterBuild(reset, request.p, request.outcome))]
     /\ package' = [q \in Packages |->
          IF q = request.p THEN PackageAfterBuild(request.d, request.outcome)
          ELSE Flush(package[q], request.rows[q], WithdrawnPackage(request.rows[q]))]
     /\ End(t)
     /\ UNCHANGED <<limit, artifact, jobs, history>>

-----------------------------------------------------------------------------
(***************************************************************************)
(* revoke_device: the SELECT of the packages first flushes the device, so  *)
(* the packages are read under the lock.                                   *)
(***************************************************************************)

RevokeReadsDevice(t, d) ==
  /\ DeviceExists(d) /\ JobRoom
  /\ Start(t, [Idle EXCEPT !.op = "revoke", !.pc = "device_read", !.d = d, !.row = device[d]])
  /\ UNCHANGED <<vars, history>>

RevokeUnlinks(t) ==
  LET request == requests[t] IN
  /\ At(t, "revoke", "device_read")
  /\ Unlocked
  /\ artifact' = [artifact EXCEPT ![request.d] = FileAfterRevoke(request.d)]
  /\ Become(t, [request EXCEPT !.pc = "locked", !.file = artifact[request.d],
                               !.rows = RowsOf(request.d)])
  /\ UNCHANGED <<limit, device, package, jobs, history>>

CommitsRevocation(t) ==
  LET request == requests[t] IN
  /\ At(t, "revoke", "locked")
  /\ device' = [device EXCEPT ![request.d] = Flush(@, request.row, RevokedDevice(request.row))]
  /\ package' = [q \in Packages |->
       IF request.rows[q] = NoPackage THEN package[q]
       ELSE Flush(package[q], request.rows[q], RevokedPackage(request.rows[q]))]
  /\ Enqueue("remove_peer", request.d)
  /\ End(t)
  /\ UNCHANGED <<limit, artifact, history>>

-----------------------------------------------------------------------------

\* FileResponse: the file is read and sent after the commit.
Sends(t) ==
  /\ requests[t].pc = "sending"
  /\ End(t)
  /\ UNCHANGED <<vars, history>>

\* "database is locked", or the process ends: before the commit only.
Lost(t) ==
  /\ "lost_transaction" \in Faults
  /\ requests[t].pc \notin {"idle", "sending"}
  /\ orphaned' = orphaned \cup
       {d \in Devices : requests[t].pc = "locked" /\ artifact[d] \in {requests[t].p} \ {None}}
  /\ End(t)
  /\ UNCHANGED <<vars, granted>>

\* These two change one column nothing else writes: one step of an idle thread.
ShortRequest ==
  /\ Unlocked
  /\ \E t \in Threads : requests[t] = Idle
  /\ \/ "report_lost" \in Operations /\ \E d \in Devices : ReportLost(d)
     \/ "update_user" \in Operations /\ \E u \in Users, n \in 0..MaxLimit : UpdateUser(u, n)
  /\ UNCHANGED <<requests, history>>

\* The worker holds the lock from its claim of a job to its commit; the clock
\* needs none.
Background ==
  /\ \/ Unlocked /\ WorkerNext
     \/ \E p \in Packages : WindowCloses(p)
  /\ UNCHANGED <<requests, history>>

RequestStep(t) ==
  \/ \E p \in Packages, op \in {"download", "confirm"} : ReadsPackage(t, op, p)
  \/ ReadsDevice(t) \/ Unlinks(t)
  \/ CommitsExpiry(t) \/ CommitsGrant(t) \/ CommitsConfirmation(t)
  \/ \E u \in Users : CreateReadsUser(t, u)
  \/ CreateCounts(t) \/ CreateAllocates(t) \/ CreateCollides(t) \/ CommitsDevice(t)
  \/ \E d \in Devices, p \in Packages, outcome \in BuildOutcome :
       CreateBuilds(t, d, p, outcome)
  \/ \E d \in Devices : ResetReadsDevice(t, d) \/ RevokeReadsDevice(t, d)
  \/ ResetReadsPackages(t) \/ ResetUnlinks(t) \/ CommitsReset(t)
  \/ \E p \in Packages, outcome \in BuildOutcome : ResetBuilds(t, p, outcome)
  \/ RevokeUnlinks(t) \/ CommitsRevocation(t)
  \/ Sends(t) \/ Lost(t)

RequestsNext ==
  \/ \E t \in Threads : RequestStep(t)
  \/ ShortRequest
  \/ Background

RequestsSpec == RequestsInit /\ [][RequestsNext]_requestVars

-----------------------------------------------------------------------------
(***************************************************************************)
(* Properties.                                                             *)
(***************************************************************************)

\* The state as requests that each happen at their commit would leave it: a
\* file keeps its content until then, and the window a download was granted
\* in is still open.
InProgress(d) ==
  {t \in Threads : requests[t].d = d /\ requests[t].pc \in {"touched", "locked"}}

ArtifactAtCommit ==
  [d \in Devices |-> IF InProgress(d) = {} THEN artifact[d]
                     ELSE requests[CHOOSE t \in InProgress(d) : TRUE].file]

PackageAtCommit ==
  [p \in Packages |->
     IF package[p].window = "closed"
        /\ \E t \in Threads :
             /\ requests[t].p = p
             /\ \/ requests[t].op = "serve"
                \/ requests[t].op = "download" /\ requests[t].rows[p].window = "open"
     THEN [package[p] EXCEPT !.window = "open"] ELSE package[p]]

Lifecycle == INSTANCE DeviceLifecycle
               WITH artifact <- ArtifactAtCommit, package <- PackageAtCommit

\* A thread alone implements DeviceLifecycle: every step of a request, of the
\* worker or of the clock is one of its steps, or stutters.
RefinesLifecycle == Lifecycle!Spec

\* Each confirmation has its apply_peer job, whatever ran in between.
ConfirmationsHaveJobs ==
  \A d \in Devices :
    Cardinality({p \in PackagesOf(d) : package[p].confirmed})
      <= Cardinality(JobsOf("apply_peer", d))

\* Unless a request was lost after it built a file, no file on disk is out of
\* reach: it is that of a package whose next download hands it out or, once the
\* window is over, deletes it, or its build has not been committed yet.  Nothing
\* deletes an expired installer that nobody asks for.
NoStrayArtifacts ==
  \A d \in Devices \ orphaned : artifact[d] # None =>
    LET p == artifact[d] IN
    \/ \E t \in Threads : requests[t].pc = "locked" /\ requests[t].p = p
    \/ package[p].device = d /\ HasArtifactPath(package[p]) /\ MayDownload(package[p])

\* A request may write over a row that has changed since it read it, and so
\* turn artifact_deleted back into downloading; but it takes no date back: what
\* was confirmed, deleted or revoked stays so, and is offered to nobody again.
DatesStand ==
  [][/\ \A p \in Packages :
          /\ package[p].confirmed => package'[p].confirmed
          /\ package[p].deleted => package'[p].deleted
     /\ \A d \in Devices : device[d].revoked => device'[d].revoked]_requestVars

\* How many threads may still see, or write back, k attempts or fewer: n[k].
\* While increments are lost the counter can even be set back, but each grant
\* makes the first number that changes smaller.
Profiles ==
  {n \in [0..(MaxAttempts - 1) -> 0..Cardinality(Threads)] :
     \A i, j \in DOMAIN n : i <= j => n[i] <= n[j]}

MostDownloads == Cardinality(Profiles) - 1

\* Concurrent downloads lose increments of download_attempts, and so exceed
\* max_download_attempts; but not without end: with T threads and a maximum of
\* M, at most (T + M choose M) - 1 downloads of a package are ever granted.
\* With one thread that is M.
DownloadsBounded == \A p \in Packages : granted[p] <= MostDownloads
=============================================================================
