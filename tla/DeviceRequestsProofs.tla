------------------------ MODULE DeviceRequestsProofs ------------------------
(***************************************************************************)
(* What holds of the interleaved requests, for any number of threads.  The *)
(* invariant of DeviceLifecycle does not: a request may write over a row   *)
(* that has changed since it was read.  What a flush cannot change is what *)
(* no handler ever takes back - that a row exists, whose it is, its dates  *)
(* - and what the lock protects: identifiers and addresses are new to the  *)
(* tables when the request that inserts them commits.                      *)
(***************************************************************************)
EXTENDS DeviceRequests, DeviceJobsProofs

-----------------------------------------------------------------------------
(***************************************************************************)
(* Rows: what a handler may write, and what a flush makes of it.           *)
(***************************************************************************)

\* A handler's change to a package row: it takes nothing back, and what it does
\* not delete it leaves on offer.
Writes(read, written) ==
  /\ written \in InstallPackage
  /\ written.status # "absent"
  /\ written.device = read.device
  /\ written.window = read.window
  /\ read.deleted => written.deleted
  /\ read.confirmed => written.confirmed
  /\ ~written.deleted => /\ written.confirmed = read.confirmed
                         /\ written.status \in {read.status} \cup Downloadable

\* A handler's change to a device row.
DeviceWrites(read, written) ==
  /\ written \in Device
  /\ written.status # "absent"
  /\ written.vpn_ip = read.vpn_ip
  /\ read.revoked => written.revoked

\* What no commit, and no clock, changes in a row that exists.
Stands(before, after) ==
  /\ after.status # "absent"
  /\ after.device = before.device
  /\ HasArtifactPath(after) = HasArtifactPath(before)
  /\ before.deleted => after.deleted
  /\ before.confirmed => after.confirmed
  /\ ~after.deleted => /\ after.confirmed = before.confirmed
                       /\ after.status \in {before.status} \cup Downloadable

DeviceStands(before, after) ==
  /\ after.status # "absent"
  /\ after.vpn_ip = before.vpn_ip
  /\ before.revoked => after.revoked

\* The handlers of a package write such rows.
LEMMA HandlersWrite ==
  ASSUME NEW row \in InstallPackage, row.status # "absent"
  PROVE  /\ Writes(row, row)
         /\ Writes(row, ExpiredPackage(row))
         /\ Writes(row, ConfirmedPackage(row))
         /\ Writes(row, WithdrawnPackage(row))
         /\ Writes(row, RevokedPackage(row))
         /\ row.download_attempts < MaxAttempts => Writes(row, ServedPackage(row))
<1>1. /\ Writes(row, row)
      /\ Writes(row, ExpiredPackage(row))
      /\ Writes(row, ConfirmedPackage(row))
  BY DEF Writes, ExpiredPackage, ConfirmedPackage, InstallPackage, InstallPackageStatus
<1>2. Writes(row, WithdrawnPackage(row))
  BY DEF Writes, WithdrawnPackage, InstallPackage, InstallPackageStatus,
         ACTIVE_PACKAGE_STATUSES
<1>3. Writes(row, RevokedPackage(row))
  BY DEF Writes, RevokedPackage, InstallPackage, InstallPackageStatus
<1>4. ASSUME row.download_attempts < MaxAttempts
      PROVE  Writes(row, ServedPackage(row))
  BY <1>4, ServedRow DEF Writes, ServedPackage, InstallPackage, Downloadable
<1>5. QED
  BY <1>1, <1>2, <1>3, <1>4

\* What the same handlers do to the dates.
LEMMA HandlersDates ==
  ASSUME NEW row \in InstallPackage
  PROVE  /\ ExpiredPackage(row).confirmed = row.confirmed
         /\ ServedPackage(row).confirmed = row.confirmed
         /\ ServedPackage(row).deleted = row.deleted
         /\ WithdrawnPackage(row).confirmed = row.confirmed
         /\ row.status \notin ACTIVE_PACKAGE_STATUSES =>
              WithdrawnPackage(row).deleted = row.deleted
         /\ RevokedPackage(row).confirmed = row.confirmed
BY DEF ExpiredPackage, ServedPackage, WithdrawnPackage, RevokedPackage, InstallPackage

\* The handlers of a device, and _build_package, write such rows too.
LEMMA HandlersWriteDevice ==
  ASSUME NEW row \in Device, row.status # "absent", NEW pkg \in InstallPackage,
         NEW p \in Packages, NEW outcome \in BuildOutcome
  PROVE  /\ DeviceWrites(row, row)
         /\ DeviceWrites(row, ServedDevice(row, pkg))
         /\ DeviceWrites(row, ConfirmedDevice(row))
         /\ DeviceWrites(row, ResetDevice(row))
         /\ DeviceWrites(row, RevokedDevice(row))
         /\ DeviceWrites(row, DeviceAfterBuild(row, p, outcome))
<1>1. /\ DeviceWrites(row, row)
      /\ DeviceWrites(row, ServedDevice(row, pkg))
      /\ DeviceWrites(row, ConfirmedDevice(row))
      /\ DeviceWrites(row, ResetDevice(row))
      /\ DeviceWrites(row, RevokedDevice(row))
  BY DEF DeviceWrites, ServedDevice, ConfirmedDevice, ResetDevice, RevokedDevice, Device,
         DeviceStatus, Key
<1>2. DeviceWrites(row, DeviceAfterBuild(row, p, outcome))
  <2>1. CASE outcome = "built"
    BY <2>1 DEF DeviceWrites, DeviceAfterBuild, Device, DeviceStatus, Key
  <2>2. CASE outcome \in {"failed", "failed_after_write"}
    BY <2>2 DEF DeviceWrites, DeviceAfterBuild, Device, DeviceStatus, Key
  <2>3. CASE outcome = "not_configured"
    BY <2>3 DEF DeviceWrites, DeviceAfterBuild
  <2>4. QED
    BY <2>1, <2>2, <2>3 DEF BuildOutcome
<1>3. QED
  BY <1>1, <1>2

\* A flush of such a change stands, whatever the row has become meanwhile; it
\* adds a date only if the handler did.
LEMMA FlushedPackage ==
  ASSUME NEW current \in InstallPackage, current.status # "absent",
         NEW read \in InstallPackage, NEW written, Writes(read, written),
         read.deleted => current.deleted
  PROVE  LET row == Flush(current, read, written) IN
         /\ row \in InstallPackage
         /\ Stands(current, row)
         /\ row.deleted = (current.deleted \/ (written.deleted /\ ~read.deleted))
         /\ row.confirmed = (current.confirmed \/ (written.confirmed /\ ~read.confirmed))
<1>. DEFINE row == Flush(current, read, written)
<1>1. /\ DOMAIN current = {"status", "device", "download_attempts", "confirmed",
                           "deleted", "window"}
      /\ written \in InstallPackage
  BY DEF Writes, InstallPackage
<1>2. row \in InstallPackage
  BY <1>1 DEF Flush, InstallPackage
<1>3. /\ row.status = IF written.status = read.status THEN current.status
                      ELSE written.status
      /\ row.device = current.device
      /\ row.window = current.window
  BY <1>1 DEF Flush, Writes
<1>4. /\ row.deleted = IF written.deleted = read.deleted THEN current.deleted
                       ELSE written.deleted
      /\ row.confirmed = IF written.confirmed = read.confirmed THEN current.confirmed
                         ELSE written.confirmed
  BY <1>1 DEF Flush
<1>5. /\ current.deleted \in BOOLEAN /\ read.deleted \in BOOLEAN
      /\ written.deleted \in BOOLEAN /\ current.confirmed \in BOOLEAN
      /\ read.confirmed \in BOOLEAN /\ written.confirmed \in BOOLEAN
  BY <1>1 DEF InstallPackage
<1>6. row.deleted = (current.deleted \/ (written.deleted /\ ~read.deleted))
  BY <1>4, <1>5 DEF Writes
<1>7. row.confirmed = (current.confirmed \/ (written.confirmed /\ ~read.confirmed))
  BY <1>4, <1>5 DEF Writes
<1>8. ~row.deleted => /\ row.confirmed = current.confirmed
                      /\ row.status \in {current.status} \cup Downloadable
  BY <1>3, <1>5, <1>6, <1>7 DEF Writes
<1>9. /\ row.status # "absent"
      /\ row.device = current.device
      /\ HasArtifactPath(row) = HasArtifactPath(current)
      /\ current.deleted => row.deleted
      /\ current.confirmed => row.confirmed
  BY <1>3, <1>6, <1>7 DEF Writes, HasArtifactPath
<1>10. Stands(current, row)
  BY <1>8, <1>9 DEF Stands
<1>11. QED
  BY <1>2, <1>6, <1>7, <1>10

\* The same of a device: a flush of old rows leaves its address and its
\* revocation.
LEMMA FlushedDevice ==
  ASSUME NEW current \in Device, current.status # "absent",
         NEW read \in Device, NEW written, DeviceWrites(read, written)
  PROVE  LET row == Flush(current, read, written) IN
         /\ row \in Device
         /\ DeviceStands(current, row)
<1>. DEFINE row == Flush(current, read, written)
<1>1. /\ DOMAIN current = {"status", "public_key", "vpn_ip", "user", "revoked", "lost"}
      /\ written \in Device
  BY DEF DeviceWrites, Device
<1>2. row \in Device
  BY <1>1 DEF Flush, Device
<1>3. /\ row.status \in {current.status, written.status}
      /\ row.vpn_ip = current.vpn_ip
      /\ row.revoked = IF written.revoked = read.revoked THEN current.revoked
                       ELSE written.revoked
  BY <1>1 DEF Flush, DeviceWrites
<1>4. /\ current.revoked \in BOOLEAN /\ read.revoked \in BOOLEAN
      /\ written.revoked \in BOOLEAN
  BY <1>1 DEF Device
<1>5. current.revoked => row.revoked
  BY <1>3, <1>4 DEF DeviceWrites
<1>6. QED
  BY <1>2, <1>3, <1>5 DEF DeviceStands, DeviceWrites

-----------------------------------------------------------------------------
(***************************************************************************)
(* What a request knows of the tables while it is in progress.             *)
(***************************************************************************)

\* A row its session loaded is of a device that is still there.
LoadedDevice(row, d) == d \in Devices /\ DeviceExists(d) /\ row.status # "absent"

\* So is a package's: it is the device's, has the path it had, and what was
\* deleted is.
LoadedPackage(row, q, d) ==
  /\ PackageExists(q) /\ row.status # "absent"
  /\ package[q].device = d /\ row.device = d
  /\ HasArtifactPath(row) = HasArtifactPath(package[q])
  /\ row.deleted => package[q].deleted

LoadedRows(r) ==
  \A q \in Packages : r.rows[q] = NoPackage \/ LoadedPackage(r.rows[q], q, r.d)

\* record_download_attempt and confirm_download, up to their commit.
PackageSession(r) ==
  /\ \/ r.op = "download" /\ r.pc = "package_read"
     \/ r.op = "serve" /\ r.pc = "read"
     \/ r.op = "expire" /\ r.pc \in {"read", "touched"}
     \/ r.op = "confirm" /\ r.pc \in {"package_read", "read", "touched"}
  /\ r.p \in Packages /\ r.d \in Devices
  /\ LoadedPackage(r.rows[r.p], r.p, r.d)
  /\ r.pc # "package_read" => LoadedDevice(r.row, r.d)
  /\ IF r.op = "confirm" THEN MayConfirm(r.rows[r.p]) ELSE MayDownload(r.rows[r.p])
  /\ r.op = "serve" => r.rows[r.p].download_attempts < MaxAttempts

SendingSession(r) == r.op = "serve" /\ r.pc = "sending"

\* The package a build under the lock is for is new to the table, and its file
\* to the disk.
NewBuild(r) ==
  /\ r.p \in Packages /\ r.d \in Devices
  /\ ~PackageExists(r.p)
  /\ \A e \in Devices : artifact[e] = r.p => e = r.d /\ BuildWritesFile(r.outcome)
  /\ BuildMay(r.outcome)

CreateSession(r) ==
  /\ r.op = "create"
  /\ r.pc \in {"user_read", "counted", "read", "locked"}
  /\ r.user \in Users
  /\ r.pc \in {"read", "locked"} => r.ip \in (1..PoolSize) \ {ServerIp}
  /\ r.pc = "locked" => NewBuild(r) /\ ~DeviceExists(r.d) /\ r.ip \notin AllocatedIps

ResetSession(r) ==
  /\ r.op = "reset"
  /\ r.pc \in {"device_read", "read", "touched", "locked"}
  /\ LoadedDevice(r.row, r.d) /\ LoadedRows(r)
  /\ r.pc = "locked" => NewBuild(r)

RevokeSession(r) ==
  /\ r.op = "revoke"
  /\ r.pc \in {"device_read", "locked"}
  /\ LoadedDevice(r.row, r.d) /\ LoadedRows(r)
  /\ r.p = None

SessionOK(r) ==
  \/ r = Idle
  \/ PackageSession(r) \/ SendingSession(r)
  \/ CreateSession(r) \/ ResetSession(r) \/ RevokeSession(r)

SessionsOK == \A t \in Threads : SessionOK(requests[t])

\* SQLite's write lock has one holder.
OneLock ==
  \A t, u \in Threads : requests[t].pc = "locked" /\ requests[u].pc = "locked" => t = u

RequestInv == RequestsTypeOK /\ SessionsOK /\ OneLock

-----------------------------------------------------------------------------
(***************************************************************************)
(* Commits: the rows they leave are typed and take nothing back.           *)
(***************************************************************************)

\* No row of the step goes, loses its owner or its address, or a date.
RowsStand ==
  /\ \A q \in Packages : PackageExists(q) => Stands(package[q], package'[q])
  /\ \A e \in Devices : DeviceExists(e) => DeviceStands(device[e], device'[e])

\* No row of the step is new.
NoNewRows ==
  /\ \A q \in Packages : ~PackageExists(q) => package'[q] = package[q]
  /\ \A e \in Devices : ~DeviceExists(e) => device'[e] = device[e]

\* The packages a step deletes, and those it confirms.
OnlyDeletes(S) == \A q \in Packages : package'[q].deleted /\ ~package[q].deleted => q \in S

OnlyConfirms(S) ==
  \A q \in Packages : package'[q].confirmed /\ ~package[q].confirmed => q \in S

\* The rows that a step adds refer to rows that are there.
NewRowsRefer ==
  /\ \A q \in Packages : ~PackageExists(q) =>
       \/ package'[q] = package[q]
       \/ /\ package'[q].status # "absent"
          /\ package'[q].device \in Devices
          /\ device'[package'[q].device].status # "absent"
  /\ \A e \in Devices : ~DeviceExists(e) =>
       device'[e] = device[e] \/ device'[e].status # "absent"

\* Then the types and the foreign key are kept.
LEMMA RowsTyped ==
  ASSUME TypeOK, RowsStand, NewRowsRefer,
         limit' \in [Users -> 0..MaxLimit],
         device' \in [Devices -> Device],
         package' \in [Packages -> InstallPackage],
         artifact' \in [Devices -> Packages \cup {None}],
         jobs' \in Seq(Job)
  PROVE  TypeOK'
<1>1. ASSUME NEW e \in Devices, device'[e].status = "absent"
      PROVE  device'[e] = NoDevice
  BY <1>1 DEF TypeOK, RowsStand, NewRowsRefer, DeviceStands, DeviceExists
<1>2. ASSUME NEW q \in Packages, package'[q].status = "absent"
      PROVE  package'[q] = NoPackage
  BY <1>2 DEF TypeOK, RowsStand, NewRowsRefer, Stands, PackageExists
<1>3. ASSUME NEW q \in Packages, package'[q].status # "absent"
      PROVE  /\ package'[q].device \in Devices
             /\ device'[package'[q].device].status # "absent"
  <2>1. CASE PackageExists(q)
    <3>1. package'[q].device = package[q].device
      BY <2>1 DEF RowsStand, Stands
    <3>2. package[q].device \in Devices /\ DeviceExists(package[q].device)
      BY <2>1, PackageOwner
    <3>3. QED
      BY <3>1, <3>2 DEF RowsStand, DeviceStands
  <2>2. CASE ~PackageExists(q)
    BY <1>3, <2>2 DEF NewRowsRefer, PackageExists
  <2>3. QED
    BY <2>1, <2>2
<1>4. QED
  BY <1>1, <1>2, <1>3 DEF TypeOK

\* Steps that leave the rows alone.
LEMMA SameRows ==
  ASSUME TypeOK, device' = device, package' = package
  PROVE  RowsStand /\ NoNewRows /\ OnlyDeletes({}) /\ OnlyConfirms({})
BY DEF RowsStand, NoNewRows, OnlyDeletes, OnlyConfirms, Stands, DeviceStands,
       PackageExists, DeviceExists

\* The UPDATEs of a package and its device, whatever both have become since
\* they were read.
LEMMA WriteBothStands ==
  ASSUME RequestInv, NEW t \in Threads, PackageSession(requests[t]),
         requests[t].pc # "package_read",
         NEW pkg, Writes(requests[t].rows[requests[t].p], pkg),
         NEW dev, DeviceWrites(requests[t].row, dev),
         WriteBoth(t, pkg, dev), limit' = limit, artifact' = artifact,
         jobs' \in Seq(Job)
  PROVE  /\ TypeOK' /\ RowsStand /\ NoNewRows
         /\ OnlyDeletes({q \in {requests[t].p} :
              pkg.deleted /\ ~requests[t].rows[q].deleted})
         /\ OnlyConfirms({q \in {requests[t].p} :
              pkg.confirmed /\ ~requests[t].rows[q].confirmed})
<1>. DEFINE r == requests[t]
            p == r.p
            d == r.d
            newPkg == Flush(package[p], r.rows[p], pkg)
            newDev == Flush(device[d], r.row, dev)
<1>1. /\ TypeOK /\ r \in Request
      /\ p \in Packages /\ d \in Devices
      /\ PackageExists(p) /\ DeviceExists(d)
      /\ package[p] \in InstallPackage /\ device[d] \in Device
      /\ package \in [Packages -> InstallPackage] /\ device \in [Devices -> Device]
  BY DEF RequestInv, RequestsTypeOK, TypeOK, PackageSession, LoadedPackage, LoadedDevice
<1>2. /\ r.rows[p] \in InstallPackage /\ r.row \in Device
      /\ r.rows[p].deleted => package[p].deleted
  BY <1>1 DEF Request, PackageSession, LoadedPackage
<1>3. /\ newPkg \in InstallPackage
      /\ Stands(package[p], newPkg)
      /\ newPkg.deleted = (package[p].deleted \/ (pkg.deleted /\ ~r.rows[p].deleted))
      /\ newPkg.confirmed = (package[p].confirmed \/ (pkg.confirmed /\ ~r.rows[p].confirmed))
  BY <1>1, <1>2, FlushedPackage DEF PackageExists
<1>4. newDev \in Device /\ DeviceStands(device[d], newDev)
  BY <1>1, <1>2, FlushedDevice DEF DeviceExists
<1>5. package' = [package EXCEPT ![p] = newPkg] /\ device' = [device EXCEPT ![d] = newDev]
  BY DEF WriteBoth
<1>. HIDE DEF newPkg, newDev, r, p, d
<1>6. /\ package' \in [Packages -> InstallPackage] /\ device' \in [Devices -> Device]
      /\ \A q \in Packages : package'[q] = IF q = p THEN newPkg ELSE package[q]
      /\ \A e \in Devices : device'[e] = IF e = d THEN newDev ELSE device[e]
  BY <1>1, <1>3, <1>4, <1>5
<1>7. RowsStand /\ NoNewRows
  <2>1. ASSUME NEW q \in Packages, PackageExists(q)
        PROVE  Stands(package[q], package'[q])
    BY <1>3, <1>6, <2>1 DEF Stands, PackageExists
  <2>2. ASSUME NEW e \in Devices, DeviceExists(e)
        PROVE  DeviceStands(device[e], device'[e])
    BY <1>4, <1>6, <2>2 DEF DeviceStands, DeviceExists
  <2>3. QED
    BY <1>1, <1>6, <2>1, <2>2 DEF RowsStand, NoNewRows
<1>8. TypeOK'
  BY <1>1, <1>6, <1>7, RowsTyped DEF TypeOK, NoNewRows, NewRowsRefer
<1>9. /\ OnlyDeletes({q \in {p} : pkg.deleted /\ ~r.rows[q].deleted})
      /\ OnlyConfirms({q \in {p} : pkg.confirmed /\ ~r.rows[q].confirmed})
  BY <1>3, <1>6 DEF OnlyDeletes, OnlyConfirms
<1>10. QED
  BY <1>7, <1>8, <1>9 DEF r, p

\* The packages whose deletion the request has still to commit: it has unlinked
\* their file.
Deleting(r) ==
  {q \in Packages :
     \/ r.op \in {"confirm", "expire"} /\ r.pc = "touched" /\ q = r.p
     \/ /\ r.op = "reset" /\ r.pc \in {"touched", "locked"}
        /\ r.rows[q].status \in ACTIVE_PACKAGE_STATUSES
     \/ /\ r.op = "revoke" /\ r.pc = "locked"
        /\ r.rows[q].status # "absent" /\ ~r.rows[q].deleted}

\* What the commits of one package come to: no new row, and no date but its own.
LEMMA PackageCommits ==
  ASSUME RequestInv, NEW t \in Threads,
         CommitsExpiry(t) \/ CommitsGrant(t) \/ CommitsConfirmation(t)
  PROVE  /\ TypeOK' /\ RowsStand /\ NoNewRows
         /\ OnlyDeletes(Deleting(requests[t]))
         /\ OnlyConfirms(IF CommitsConfirmation(t) THEN {requests[t].p} ELSE {})
<1>. DEFINE r == requests[t]
            row == r.rows[r.p]
<1>1. PackageSession(r) /\ r.pc # "package_read"
  BY DEF RequestInv, SessionsOK, SessionOK, SendingSession, CreateSession, ResetSession,
         RevokeSession, CommitsExpiry, CommitsGrant, CommitsConfirmation, At, Idle
<1>2. /\ row \in InstallPackage /\ row.status # "absent"
      /\ r.row \in Device /\ r.row.status # "absent"
      /\ r.op = "serve" => row.download_attempts < MaxAttempts
      /\ r.p \in Packages /\ r.d \in Devices
  BY <1>1 DEF RequestInv, RequestsTypeOK, Request, PackageSession, LoadedPackage,
              LoadedDevice
<1>3. jobs \in Seq(Job)
  BY DEF RequestInv, RequestsTypeOK, TypeOK
<1>. DEFINE Deleted(pkg) == {q \in {r.p} : pkg.deleted /\ ~r.rows[q].deleted}
            Confirmed(pkg) == {q \in {r.p} : pkg.confirmed /\ ~r.rows[q].confirmed}
<1>4. ASSUME CommitsExpiry(t)
      PROVE  /\ TypeOK' /\ RowsStand /\ NoNewRows
             /\ OnlyDeletes(Deleting(r)) /\ OnlyConfirms({})
  <2>1. Writes(row, ExpiredPackage(row)) /\ DeviceWrites(r.row, r.row)
    BY <1>2, HandlersWrite, HandlersWriteDevice DEF DeviceWrites
  <2>2. /\ TypeOK' /\ RowsStand /\ NoNewRows
        /\ OnlyDeletes(Deleted(ExpiredPackage(row)))
        /\ OnlyConfirms(Confirmed(ExpiredPackage(row)))
    BY <1>1, <1>3, <1>4, <2>1, WriteBothStands DEF CommitsExpiry
  <2>3. r.p \in Deleting(r)
    BY <1>2, <1>4 DEF CommitsExpiry, At, Deleting
  <2>4. ExpiredPackage(row).confirmed = row.confirmed
    BY <1>2, HandlersDates
  <2>5. QED
    BY <2>2, <2>3, <2>4 DEF OnlyDeletes, OnlyConfirms
<1>5. ASSUME CommitsGrant(t)
      PROVE  /\ TypeOK' /\ RowsStand /\ NoNewRows
             /\ OnlyDeletes(Deleting(r)) /\ OnlyConfirms({})
  <2>1. Writes(row, ServedPackage(row)) /\ DeviceWrites(r.row, ServedDevice(r.row, row))
    BY <1>2, <1>5, HandlersWrite, HandlersWriteDevice DEF CommitsGrant, At, BuildOutcome
  <2>2. /\ TypeOK' /\ RowsStand /\ NoNewRows
        /\ OnlyDeletes(Deleted(ServedPackage(row)))
        /\ OnlyConfirms(Confirmed(ServedPackage(row)))
    BY <1>1, <1>3, <1>5, <2>1, WriteBothStands DEF CommitsGrant
  <2>3. /\ ServedPackage(row).confirmed = row.confirmed
        /\ ServedPackage(row).deleted = row.deleted
    BY <1>2, HandlersDates
  <2>4. QED
    BY <2>2, <2>3 DEF OnlyDeletes, OnlyConfirms
<1>6. ASSUME CommitsConfirmation(t)
      PROVE  /\ TypeOK' /\ RowsStand /\ NoNewRows
             /\ OnlyDeletes(Deleting(r)) /\ OnlyConfirms({r.p})
  <2>1. Writes(row, ConfirmedPackage(row)) /\ DeviceWrites(r.row, ConfirmedDevice(r.row))
    BY <1>2, HandlersWrite, HandlersWriteDevice DEF BuildOutcome
  <2>2. jobs' \in Seq(Job)
    BY <1>2, <1>3, <1>6 DEF CommitsConfirmation, Enqueue, Job
  <2>3. /\ TypeOK' /\ RowsStand /\ NoNewRows
        /\ OnlyDeletes(Deleted(ConfirmedPackage(row)))
        /\ OnlyConfirms(Confirmed(ConfirmedPackage(row)))
    BY <1>1, <1>6, <2>1, <2>2, WriteBothStands DEF CommitsConfirmation
  <2>4. r.p \in Deleting(r)
    BY <1>2, <1>6 DEF CommitsConfirmation, At, Deleting
  <2>5. QED
    BY <2>3, <2>4 DEF OnlyDeletes, OnlyConfirms
<1>7. OnlyConfirms({}) => OnlyConfirms(IF CommitsConfirmation(t) THEN {r.p} ELSE {})
  BY DEF OnlyConfirms
<1>8. QED
  BY <1>4, <1>5, <1>6, <1>7

\* The row that the commit of a build adds to install_packages, and no other.
AddsPackage(r) ==
  \A q \in Packages : ~PackageExists(q) =>
    package'[q] = IF q = r.p THEN PackageAfterBuild(r.d, r.outcome) ELSE package[q]

\* create_device adds a device and its package; both are new.
LEMMA DeviceCommits ==
  ASSUME RequestInv, NEW t \in Threads, CommitsDevice(t)
  PROVE  /\ TypeOK' /\ RowsStand /\ AddsPackage(requests[t])
         /\ OnlyDeletes({}) /\ OnlyConfirms({})
         /\ requests[t].d \in Devices
         /\ device'[requests[t].d].vpn_ip = requests[t].ip
         /\ \A e \in Devices \ {requests[t].d} : device'[e] = device[e]
<1>. DEFINE r == requests[t]
            p == r.p
            d == r.d
            dev == DeviceAfterBuild(CreatedDevice(r.user, r.ip), p, r.outcome)
            pkg == PackageAfterBuild(d, r.outcome)
<1>1. CreateSession(r) /\ r.pc = "locked"
  BY DEF RequestInv, SessionsOK, SessionOK, PackageSession, SendingSession, ResetSession,
         RevokeSession, CommitsDevice, At, Idle
<1>2. /\ TypeOK
      /\ p \in Packages /\ d \in Devices /\ r.user \in Users /\ r.ip \in 1..PoolSize
      /\ r.outcome \in BuildOutcome
      /\ ~PackageExists(p) /\ ~DeviceExists(d)
  BY <1>1 DEF RequestInv, RequestsTypeOK, Request, CreateSession, NewBuild
<1>3. /\ CreatedDevice(r.user, r.ip) \in Device
      /\ CreatedDevice(r.user, r.ip).status = "pending_build"
  BY <1>2, FreshRows
<1>4. /\ dev \in Device /\ dev.status # "absent"
      /\ pkg \in InstallPackage /\ pkg.status # "absent" /\ pkg.device = d
  BY <1>2, <1>3, BuildRows
<1>a. dev.vpn_ip = r.ip
  <2>1. CreatedDevice(r.user, r.ip).vpn_ip = r.ip
    BY DEF CreatedDevice, NoDevice
  <2>2. dev.vpn_ip = CreatedDevice(r.user, r.ip).vpn_ip
    BY <1>2, <1>3, HandlersWriteDevice, FreshRows DEF DeviceWrites
  <2>3. QED
    BY <2>1, <2>2
<1>5. ~pkg.deleted /\ ~pkg.confirmed
  BY <1>2, BuiltIsNotDeleted
<1>6. /\ device' = [device EXCEPT ![d] = dev]
      /\ package' = [package EXCEPT ![p] = pkg]
      /\ limit' = limit /\ artifact' = artifact /\ jobs' = jobs
  BY DEF CommitsDevice
<1>. HIDE DEF dev, pkg, r, p, d
<1>7. /\ package' \in [Packages -> InstallPackage] /\ device' \in [Devices -> Device]
      /\ \A q \in Packages : package'[q] = IF q = p THEN pkg ELSE package[q]
      /\ \A e \in Devices : device'[e] = IF e = d THEN dev ELSE device[e]
  BY <1>2, <1>4, <1>6 DEF TypeOK
<1>8. RowsStand
  BY <1>2, <1>7 DEF RowsStand, Stands, DeviceStands, PackageExists, DeviceExists
<1>9. NewRowsRefer
  BY <1>2, <1>4, <1>7 DEF NewRowsRefer
<1>10. TypeOK'
  BY <1>2, <1>6, <1>7, <1>8, <1>9, RowsTyped DEF TypeOK
<1>11. AddsPackage(r)
  BY <1>7 DEF AddsPackage, pkg, p, d
<1>12. OnlyDeletes({}) /\ OnlyConfirms({})
  BY <1>5, <1>7 DEF OnlyDeletes, OnlyConfirms
<1>13. QED
  BY <1>2, <1>7, <1>8, <1>10, <1>11, <1>12, <1>a DEF r, d

\* reset_device withdraws the packages it loaded and adds one.
LEMMA ResetCommits ==
  ASSUME RequestInv, NEW t \in Threads, CommitsReset(t)
  PROVE  /\ TypeOK' /\ RowsStand /\ AddsPackage(requests[t])
         /\ OnlyDeletes(Deleting(requests[t])) /\ OnlyConfirms({})
         /\ \A e \in Devices : DeviceExists(e)' => DeviceExists(e)
<1>. DEFINE r == requests[t]
            p == r.p
            d == r.d
            reset == ResetDevice(r.row)
            built == DeviceAfterBuild(reset, p, r.outcome)
            first == Flush(device[d], r.row, reset)
            dev == Flush(first, reset, built)
            pkg == PackageAfterBuild(d, r.outcome)
            Withdrawn(q) == Flush(package[q], r.rows[q], WithdrawnPackage(r.rows[q]))
<1>1. ResetSession(r) /\ r.pc = "locked"
  BY DEF RequestInv, SessionsOK, SessionOK, PackageSession, SendingSession, CreateSession,
         RevokeSession, CommitsReset, At, Idle
<1>2. /\ TypeOK /\ r \in Request
      /\ p \in Packages /\ d \in Devices /\ r.outcome \in BuildOutcome
      /\ ~PackageExists(p) /\ DeviceExists(d)
      /\ r.row \in Device /\ r.row.status # "absent"
      /\ device[d] \in Device /\ device[d].status # "absent"
      /\ \A q \in Packages : /\ package[q] \in InstallPackage
                             /\ r.rows[q] \in InstallPackage
                             /\ r.rows[q] = NoPackage \/ LoadedPackage(r.rows[q], q, d)
  BY <1>1 DEF RequestInv, RequestsTypeOK, TypeOK, Request, ResetSession, NewBuild,
              LoadedDevice, LoadedRows, DeviceExists
<1>3. DeviceWrites(r.row, reset) /\ DeviceWrites(reset, built)
  <2>1. DeviceWrites(r.row, reset)
    BY <1>2, HandlersWriteDevice, FreshRows
  <2>2. reset \in Device /\ reset.status # "absent"
    BY <2>1 DEF DeviceWrites
  <2>3. DeviceWrites(reset, built)
    BY <1>2, <2>2, HandlersWriteDevice, FreshRows
  <2>4. QED
    BY <2>1, <2>3
<1>4. dev \in Device /\ DeviceStands(device[d], dev)
  <2>1. reset \in Device
    BY <1>3 DEF DeviceWrites
  <2>2. first \in Device /\ DeviceStands(device[d], first)
    BY <1>2, <1>3, FlushedDevice
  <2>. HIDE DEF first, reset, built
  <2>3. dev \in Device /\ DeviceStands(first, dev)
    BY <1>3, <2>1, <2>2, FlushedDevice DEF DeviceStands
  <2>4. QED
    BY <2>2, <2>3 DEF DeviceStands
<1>5. /\ pkg \in InstallPackage /\ pkg.status # "absent" /\ pkg.device = d
      /\ ~pkg.deleted /\ ~pkg.confirmed
  BY <1>2, BuildRows, BuiltIsNotDeleted, FreshRows
<1>6. ASSUME NEW q \in Packages
      PROVE  /\ Withdrawn(q) \in InstallPackage
             /\ PackageExists(q) => Stands(package[q], Withdrawn(q))
             /\ ~PackageExists(q) => Withdrawn(q) = package[q]
             /\ Withdrawn(q).deleted /\ ~package[q].deleted =>
                  r.rows[q].status \in ACTIVE_PACKAGE_STATUSES
             /\ Withdrawn(q).confirmed = package[q].confirmed
  <2>1. CASE r.rows[q] = NoPackage
    <3>1. WithdrawnPackage(r.rows[q]) = r.rows[q]
      BY <2>1 DEF WithdrawnPackage, NoPackage, ACTIVE_PACKAGE_STATUSES
    <3>2. Withdrawn(q) = package[q]
      BY <1>2, <3>1 DEF Flush, InstallPackage
    <3>3. QED
      BY <1>2, <3>2 DEF Stands, PackageExists
  <2>2. CASE LoadedPackage(r.rows[q], q, d)
    <3>1. /\ package[q] \in InstallPackage /\ package[q].status # "absent"
          /\ r.rows[q] \in InstallPackage /\ r.rows[q].status # "absent"
          /\ r.rows[q].deleted => package[q].deleted
      BY <1>2, <2>2 DEF LoadedPackage, PackageExists
    <3>2. Writes(r.rows[q], WithdrawnPackage(r.rows[q]))
      BY <3>1, HandlersWrite
    <3>3. /\ Withdrawn(q) \in InstallPackage
          /\ Stands(package[q], Withdrawn(q))
          /\ Withdrawn(q).deleted =
               (package[q].deleted
                 \/ (WithdrawnPackage(r.rows[q]).deleted /\ ~r.rows[q].deleted))
          /\ Withdrawn(q).confirmed =
               (package[q].confirmed
                 \/ (WithdrawnPackage(r.rows[q]).confirmed /\ ~r.rows[q].confirmed))
      BY <3>1, <3>2, FlushedPackage
    <3>4. /\ WithdrawnPackage(r.rows[q]).confirmed = r.rows[q].confirmed
          /\ r.rows[q].status \notin ACTIVE_PACKAGE_STATUSES =>
               WithdrawnPackage(r.rows[q]).deleted = r.rows[q].deleted
      BY <3>1, HandlersDates
    <3>5. package[q].confirmed \in BOOLEAN
      BY <3>1 DEF InstallPackage
    <3>. HIDE DEF Withdrawn
    <3>6. QED
      BY <2>2, <3>3, <3>4, <3>5 DEF LoadedPackage
  <2>3. QED
    BY <1>2, <2>1, <2>2
<1>7. /\ device' = [device EXCEPT ![d] = dev]
      /\ package' = [q \in Packages |-> IF q = p THEN pkg ELSE Withdrawn(q)]
      /\ limit' = limit /\ artifact' = artifact /\ jobs' = jobs
  BY DEF CommitsReset
<1>. HIDE DEF dev, pkg, r, p, d, Withdrawn
<1>8. /\ package' \in [Packages -> InstallPackage] /\ device' \in [Devices -> Device]
      /\ \A q \in Packages : package'[q] = IF q = p THEN pkg ELSE Withdrawn(q)
      /\ \A e \in Devices : device'[e] = IF e = d THEN dev ELSE device[e]
  BY <1>2, <1>4, <1>5, <1>6, <1>7 DEF TypeOK
<1>9. RowsStand
  <2>1. ASSUME NEW e \in Devices, DeviceExists(e)
        PROVE  DeviceStands(device[e], device'[e])
    BY <1>4, <1>8, <2>1 DEF DeviceStands, DeviceExists
  <2>2. QED
    BY <1>2, <1>6, <1>8, <2>1 DEF RowsStand
<1>10. NewRowsRefer /\ \A e \in Devices : DeviceExists(e)' => DeviceExists(e)
  BY <1>2, <1>4, <1>5, <1>6, <1>8 DEF NewRowsRefer, DeviceStands, DeviceExists
<1>11. TypeOK'
  BY <1>2, <1>7, <1>8, <1>9, <1>10, RowsTyped DEF TypeOK
<1>12. AddsPackage(r)
  BY <1>2, <1>6, <1>8 DEF AddsPackage, pkg, p, d
<1>13. OnlyDeletes(Deleting(r)) /\ OnlyConfirms({})
  BY <1>1, <1>5, <1>6, <1>8 DEF OnlyDeletes, OnlyConfirms, Deleting, ResetSession
<1>14. QED
  BY <1>9, <1>10, <1>11, <1>12, <1>13 DEF r

\* revoke_device deletes the packages it loaded under the lock.
LEMMA RevocationCommits ==
  ASSUME RequestInv, NEW t \in Threads, CommitsRevocation(t)
  PROVE  /\ TypeOK' /\ RowsStand /\ NoNewRows
         /\ OnlyDeletes(Deleting(requests[t])) /\ OnlyConfirms({})
<1>. DEFINE r == requests[t]
            d == r.d
            dev == Flush(device[d], r.row, RevokedDevice(r.row))
            Revoked(q) == IF r.rows[q] = NoPackage THEN package[q]
                          ELSE Flush(package[q], r.rows[q], RevokedPackage(r.rows[q]))
<1>1. RevokeSession(r) /\ r.pc = "locked"
  BY DEF RequestInv, SessionsOK, SessionOK, PackageSession, SendingSession, CreateSession,
         ResetSession, CommitsRevocation, At, Idle
<1>2. /\ TypeOK /\ r \in Request
      /\ d \in Devices /\ DeviceExists(d)
      /\ r.row \in Device /\ r.row.status # "absent"
      /\ device[d] \in Device /\ device[d].status # "absent"
      /\ \A q \in Packages : /\ package[q] \in InstallPackage
                             /\ r.rows[q] \in InstallPackage
                             /\ r.rows[q] = NoPackage \/ LoadedPackage(r.rows[q], q, d)
  BY <1>1 DEF RequestInv, RequestsTypeOK, TypeOK, Request, RevokeSession,
              LoadedDevice, LoadedRows, DeviceExists
<1>3. dev \in Device /\ DeviceStands(device[d], dev)
  <2>1. DeviceWrites(r.row, RevokedDevice(r.row))
    BY <1>2 DEF DeviceWrites, RevokedDevice, Device, DeviceStatus
  <2>2. QED
    BY <1>2, <2>1, FlushedDevice
<1>4. ASSUME NEW q \in Packages
      PROVE  /\ Revoked(q) \in InstallPackage
             /\ PackageExists(q) => Stands(package[q], Revoked(q))
             /\ ~PackageExists(q) => Revoked(q) = package[q]
             /\ Revoked(q).deleted /\ ~package[q].deleted =>
                  r.rows[q].status # "absent" /\ ~r.rows[q].deleted
             /\ Revoked(q).confirmed = package[q].confirmed
  <2>1. CASE r.rows[q] = NoPackage
    BY <1>2, <2>1 DEF Stands, PackageExists
  <2>2. CASE r.rows[q] # NoPackage
    <3>1. /\ package[q] \in InstallPackage /\ PackageExists(q)
          /\ r.rows[q] \in InstallPackage /\ r.rows[q].status # "absent"
          /\ r.rows[q].deleted => package[q].deleted
      BY <1>2, <2>2 DEF LoadedPackage
    <3>2. Writes(r.rows[q], RevokedPackage(r.rows[q]))
      BY <3>1, HandlersWrite
    <3>3. /\ Revoked(q) \in InstallPackage
          /\ Stands(package[q], Revoked(q))
          /\ Revoked(q).deleted =
               (package[q].deleted
                 \/ (RevokedPackage(r.rows[q]).deleted /\ ~r.rows[q].deleted))
          /\ Revoked(q).confirmed =
               (package[q].confirmed
                 \/ (RevokedPackage(r.rows[q]).confirmed /\ ~r.rows[q].confirmed))
      BY <2>2, <3>1, <3>2, FlushedPackage DEF PackageExists
    <3>4. RevokedPackage(r.rows[q]).confirmed = r.rows[q].confirmed
      BY <3>1, HandlersDates
    <3>5. package[q].confirmed \in BOOLEAN
      BY <3>1 DEF InstallPackage
    <3>. HIDE DEF Revoked
    <3>6. QED
      BY <3>1, <3>3, <3>4, <3>5
  <2>3. QED
    BY <2>1, <2>2
<1>5. /\ device' = [device EXCEPT ![d] = dev]
      /\ package' = [q \in Packages |-> Revoked(q)]
      /\ limit' = limit /\ artifact' = artifact
  BY DEF CommitsRevocation
<1>6. jobs' \in Seq(Job)
  BY <1>2 DEF CommitsRevocation, Enqueue, Job, TypeOK
<1>. HIDE DEF dev, r, d, Revoked
<1>7. /\ package' \in [Packages -> InstallPackage] /\ device' \in [Devices -> Device]
      /\ \A q \in Packages : package'[q] = Revoked(q)
      /\ \A e \in Devices : device'[e] = IF e = d THEN dev ELSE device[e]
  BY <1>2, <1>3, <1>4, <1>5 DEF TypeOK
<1>8. RowsStand /\ NoNewRows
  <2>1. ASSUME NEW e \in Devices, DeviceExists(e)
        PROVE  DeviceStands(device[e], device'[e])
    BY <1>3, <1>7, <2>1 DEF DeviceStands, DeviceExists
  <2>2. ASSUME NEW e \in Devices, ~DeviceExists(e)
        PROVE  device'[e] = device[e]
    BY <1>2, <1>7, <2>2 DEF DeviceExists
  <2>3. QED
    BY <1>4, <1>7, <2>1, <2>2 DEF RowsStand, NoNewRows
<1>9. TypeOK'
  BY <1>2, <1>5, <1>6, <1>7, <1>8, RowsTyped DEF TypeOK, NoNewRows, NewRowsRefer
<1>10. OnlyDeletes(Deleting(r)) /\ OnlyConfirms({})
  BY <1>1, <1>4, <1>7 DEF OnlyDeletes, OnlyConfirms, Deleting, RevokeSession
<1>11. QED
  BY <1>8, <1>9, <1>10 DEF r

\* The rows of a step that writes one column.
LEMMA OneColumn ==
  /\ \A row \in Device :
       /\ [row EXCEPT !.lost = TRUE] \in Device
       /\ [row EXCEPT !.status = "active"] \in Device
       /\ row.status # "absent" =>
            /\ DeviceStands(row, [row EXCEPT !.lost = TRUE])
            /\ DeviceStands(row, [row EXCEPT !.status = "active"])
  /\ \A row \in InstallPackage :
       /\ [row EXCEPT !.window = "closed"] \in InstallPackage
       /\ [row EXCEPT !.window = "closed"].deleted = row.deleted
       /\ [row EXCEPT !.window = "closed"].confirmed = row.confirmed
       /\ row.status # "absent" /\ row.window = "open" =>
            Stands(row, [row EXCEPT !.window = "closed"])
<1>1. ASSUME NEW row \in Device
      PROVE  /\ [row EXCEPT !.lost = TRUE] \in Device
             /\ [row EXCEPT !.status = "active"] \in Device
             /\ row.status # "absent" =>
                  /\ DeviceStands(row, [row EXCEPT !.lost = TRUE])
                  /\ DeviceStands(row, [row EXCEPT !.status = "active"])
  BY DEF Device, DeviceStatus, DeviceStands
<1>2. ASSUME NEW row \in InstallPackage
      PROVE  /\ [row EXCEPT !.window = "closed"] \in InstallPackage
             /\ [row EXCEPT !.window = "closed"].deleted = row.deleted
             /\ [row EXCEPT !.window = "closed"].confirmed = row.confirmed
             /\ row.status # "absent" /\ row.window = "open" =>
                  Stands(row, [row EXCEPT !.window = "closed"])
  BY DEF InstallPackage, Stands, HasArtifactPath
<1>3. QED
  BY <1>1, <1>2

\* The worker, the clock and the requests of one column write rows that are
\* there, and no date but that of a loss.
LEMMA BackgroundWrites ==
  ASSUME RequestInv, ShortRequest \/ Background
  PROVE  /\ TypeOK' /\ RowsStand /\ NoNewRows
         /\ OnlyDeletes({}) /\ OnlyConfirms({})
         /\ artifact' = artifact
<1>1. /\ TypeOK /\ limit \in [Users -> 0..MaxLimit] /\ device \in [Devices -> Device]
      /\ package \in [Packages -> InstallPackage] /\ jobs \in Seq(Job)
      /\ artifact \in [Devices -> Packages \cup {None}]
      /\ NoDevice.public_key = None
  BY DEF RequestInv, RequestsTypeOK, TypeOK, NoDevice
<1>2. ASSUME NEW d \in Devices, NEW dev \in Device, DeviceExists(d),
             DeviceStands(device[d], dev), device' = [device EXCEPT ![d] = dev],
             UNCHANGED <<limit, package, artifact>>, jobs' \in Seq(Job)
      PROVE  /\ TypeOK' /\ RowsStand /\ NoNewRows
             /\ OnlyDeletes({}) /\ OnlyConfirms({})
  <2>1. /\ device' \in [Devices -> Device]
        /\ \A e \in Devices : device'[e] = IF e = d THEN dev ELSE device[e]
    BY <1>1, <1>2
  <2>2. RowsStand /\ NoNewRows
    BY <1>1, <1>2, <2>1 DEF RowsStand, NoNewRows, Stands, DeviceStands, PackageExists,
                            DeviceExists
  <2>3. TypeOK'
    BY <1>1, <1>2, <2>1, <2>2, RowsTyped DEF NoNewRows, NewRowsRefer
  <2>4. QED
    BY <1>2, <2>2, <2>3 DEF OnlyDeletes, OnlyConfirms
<1>3. ASSUME UNCHANGED <<device, package, artifact>>,
             limit' \in [Users -> 0..MaxLimit], jobs' \in Seq(Job)
      PROVE  /\ TypeOK' /\ RowsStand /\ NoNewRows
             /\ OnlyDeletes({}) /\ OnlyConfirms({})
  <2>1. RowsStand /\ NoNewRows /\ OnlyDeletes({}) /\ OnlyConfirms({})
    BY <1>1, <1>3, SameRows
  <2>2. TypeOK'
    BY <1>1, <1>3, <2>1, RowsTyped DEF NoNewRows, NewRowsRefer
  <2>3. QED
    BY <2>1, <2>2
<1>4. ASSUME NEW d \in Devices, ReportLost(d)
      PROVE  TypeOK' /\ RowsStand /\ NoNewRows /\ OnlyDeletes({}) /\ OnlyConfirms({})
  <2>. DEFINE dev == [device[d] EXCEPT !.lost = TRUE]
  <2>1. dev \in Device /\ (DeviceExists(d) => DeviceStands(device[d], dev))
    BY <1>1, OneColumn DEF DeviceExists
  <2>2. /\ DeviceExists(d) /\ device' = [device EXCEPT ![d] = dev]
        /\ UNCHANGED <<limit, package, artifact, jobs>>
    BY <1>4 DEF ReportLost
  <2>. HIDE DEF dev
  <2>3. QED
    BY <1>1, <1>2, <2>1, <2>2
<1>5. ASSUME NEW u \in Users, NEW n \in 0..MaxLimit, UpdateUser(u, n)
      PROVE  TypeOK' /\ RowsStand /\ NoNewRows /\ OnlyDeletes({}) /\ OnlyConfirms({})
  BY <1>1, <1>3, <1>5 DEF UpdateUser
<1>6. ASSUME NEW i \in DOMAIN jobs, JobSucceeds(i) \/ JobFails(i)
      PROVE  TypeOK' /\ RowsStand /\ NoNewRows /\ OnlyDeletes({}) /\ OnlyConfirms({})
  <2>1. jobs[i] \in Job /\ i \in 1..Len(jobs)
    BY <1>1
  <2>2. ASSUME NEW st \in {"succeeded", "failed"}
        PROVE  [jobs EXCEPT ![i].status = st] \in Seq(Job)
    BY <1>1, <2>1 DEF Job
  <2>3. jobs' \in Seq(Job) /\ UNCHANGED <<limit, package, artifact>>
    BY <1>6, <2>2 DEF JobSucceeds, JobFails
  <2>4. CASE device' = device
    BY <1>1, <1>3, <2>3, <2>4
  <2>5. CASE device' # device
    <3>1. PICK d \in Devices : d = jobs[i].device
      BY <2>1 DEF Job
    <3>. DEFINE dev == [device[d] EXCEPT !.status = "active"]
    <3>2. /\ device' = [device EXCEPT ![d] = dev] /\ device[d].public_key # None
      BY <1>6, <2>5, <3>1 DEF JobSucceeds, JobFails, JobMaySucceed
    <3>3. DeviceExists(d)
      BY <1>1, <3>2 DEF DeviceExists, TypeOK
    <3>4. dev \in Device /\ DeviceStands(device[d], dev)
      BY <1>1, <3>3, OneColumn DEF DeviceExists
    <3>. HIDE DEF dev
    <3>5. QED
      BY <1>2, <2>3, <3>2, <3>3, <3>4
  <2>6. QED
    BY <2>4, <2>5
<1>7. ASSUME NEW p \in Packages, WindowCloses(p)
      PROVE  TypeOK' /\ RowsStand /\ NoNewRows /\ OnlyDeletes({}) /\ OnlyConfirms({})
  <2>. DEFINE pkg == [package[p] EXCEPT !.window = "closed"]
  <2>1. /\ package' = [package EXCEPT ![p] = pkg]
        /\ package[p].window = "open"
        /\ UNCHANGED <<limit, device, artifact, jobs>>
    BY <1>7 DEF WindowCloses
  <2>2. package[p] \in InstallPackage /\ PackageExists(p)
    BY <1>1, <2>1 DEF TypeOK, PackageExists, NoPackage
  <2>3. /\ pkg \in InstallPackage
        /\ Stands(package[p], pkg)
        /\ pkg.deleted = package[p].deleted
        /\ pkg.confirmed = package[p].confirmed
    BY <2>1, <2>2, OneColumn DEF PackageExists
  <2>. HIDE DEF pkg
  <2>4. /\ package' \in [Packages -> InstallPackage]
        /\ \A q \in Packages : package'[q] = IF q = p THEN pkg ELSE package[q]
    BY <1>1, <2>1, <2>3
  <2>5. RowsStand /\ NoNewRows
    BY <1>1, <2>1, <2>2, <2>3, <2>4 DEF RowsStand, NoNewRows, Stands, DeviceStands,
       PackageExists, DeviceExists
  <2>6. TypeOK'
    BY <1>1, <2>1, <2>4, <2>5, RowsTyped DEF NoNewRows, NewRowsRefer
  <2>7. QED
    BY <2>3, <2>4, <2>5, <2>6 DEF OnlyDeletes, OnlyConfirms
<1>8. artifact' = artifact
  BY DEF ShortRequest, Background, ReportLost, UpdateUser, WorkerNext, JobSucceeds,
         JobFails, WindowCloses
<1>9. QED
  BY <1>4, <1>5, <1>6, <1>7, <1>8 DEF ShortRequest, Background, WorkerNext

-----------------------------------------------------------------------------
(***************************************************************************)
(* What the sessions know stays true, and the lock has one holder.         *)
(***************************************************************************)

\* No step but a build's puts a file on the disk.
FilesOnlyGo == \A e \in Devices : artifact'[e] \in {artifact[e], None}

\* The rows a session has loaded stay there, whoever commits.
LEMMA LoadedStays ==
  ASSUME TypeOK, RowsStand, NEW d, NEW row \in Device, NEW q \in Packages,
         NEW pkg \in InstallPackage
  PROVE  /\ LoadedDevice(row, d) => LoadedDevice(row, d)'
         /\ LoadedPackage(pkg, q, d) => LoadedPackage(pkg, q, d)'
<1>1. LoadedDevice(row, d) => LoadedDevice(row, d)'
  BY DEF LoadedDevice, RowsStand, DeviceStands, DeviceExists
<1>2. LoadedPackage(pkg, q, d) => LoadedPackage(pkg, q, d)'
  BY DEF LoadedPackage, RowsStand, Stands, PackageExists
<1>3. QED
  BY <1>1, <1>2

\* A request that is not in this step still knows what it knew; the holder of
\* the lock relies on nobody adding a row or a file meanwhile.
LEMMA SessionStays ==
  ASSUME TypeOK, RowsStand, NEW r \in Request, SessionOK(r),
         r.pc = "locked" => NoNewRows /\ FilesOnlyGo
  PROVE  SessionOK(r)'
<1>1. /\ r.row \in Device
      /\ \A q \in Packages : r.rows[q] \in InstallPackage
  BY DEF Request
<1>2. LoadedDevice(r.row, r.d) => LoadedDevice(r.row, r.d)'
  BY <1>1 DEF LoadedDevice, RowsStand, DeviceStands, DeviceExists
<1>3. \A q \in Packages :
        LoadedPackage(r.rows[q], q, r.d) => LoadedPackage(r.rows[q], q, r.d)'
  BY <1>1, LoadedStays, FreshRows
<1>4. LoadedRows(r) => LoadedRows(r)'
  BY <1>3 DEF LoadedRows
<1>5. ASSUME r.pc = "locked", NewBuild(r)
      PROVE  NewBuild(r)'
  <2>1. r.p # None
    BY <1>5, IdentifierAssumption DEF NewBuild
  <2>2. QED
    BY <1>5, <2>1 DEF NewBuild, NoNewRows, FilesOnlyGo, PackageExists
<1>6. ASSUME r.pc = "locked", r.ip \notin AllocatedIps
      PROVE  r.ip \notin AllocatedIps'
  BY <1>6 DEF AllocatedIps, NoNewRows, RowsStand, DeviceStands, DeviceExists
<1>7. CASE PackageSession(r)
  BY <1>2, <1>3, <1>7 DEF PackageSession, SessionOK
<1>8. CASE CreateSession(r)
  <2>1. r.pc = "locked" => ~DeviceExists(r.d)'
    BY <1>8 DEF CreateSession, NewBuild, NoNewRows, DeviceExists
  <2>2. QED
    BY <1>5, <1>6, <1>8, <2>1 DEF CreateSession, SessionOK
<1>9. CASE ResetSession(r)
  BY <1>2, <1>4, <1>5, <1>9 DEF ResetSession, SessionOK
<1>10. CASE RevokeSession(r)
  BY <1>2, <1>4, <1>10 DEF RevokeSession, SessionOK
<1>11. CASE r = Idle \/ SendingSession(r)
  BY <1>11 DEF SessionOK, SendingSession
<1>12. QED
  BY <1>7, <1>8, <1>9, <1>10, <1>11 DEF SessionOK

\* A step of a thread keeps the invariant if it keeps the types, leaves its own
\* session in order, and adds nothing behind the back of a holder of the lock.
LEMMA ThreadKeepsInv ==
  ASSUME RequestInv, NEW t \in Threads, NEW r \in Request,
         requests' = [requests EXCEPT ![t] = r], SessionOK(r)',
         TypeOK', RowsStand,
         granted' \in [Packages -> Nat], orphaned' \subseteq Devices,
         r.pc = "locked" => Unlocked,
         (\A u \in Threads : requests[u].pc = "locked" => u = t)
           \/ (NoNewRows /\ FilesOnlyGo)
  PROVE  RequestInv'
<1>1. /\ TypeOK /\ requests \in [Threads -> Request] /\ SessionsOK /\ OneLock
  BY DEF RequestInv, RequestsTypeOK
<1>2. \A u \in Threads : requests'[u] = IF u = t THEN r ELSE requests[u]
  BY <1>1
<1>3. RequestsTypeOK'
  BY <1>1 DEF RequestsTypeOK
<1>4. SessionsOK'
  <2>. SUFFICES ASSUME NEW u \in Threads
                PROVE  SessionOK(requests[u])'
    BY DEF SessionsOK
  <2>1. CASE u = t
    BY <1>2, <2>1 DEF SessionOK, PackageSession, SendingSession, CreateSession,
                      ResetSession, RevokeSession, NewBuild, LoadedRows, LoadedPackage,
                      LoadedDevice
  <2>2. CASE u # t
    <3>1. PICK s \in Request : s = requests[u]
      BY <1>1
    <3>2. SessionOK(s)
      BY <1>1, <3>1 DEF SessionsOK
    <3>3. SessionOK(s)'
      BY <1>1, <2>2, <3>1, <3>2, SessionStays
    <3>4. requests'[u] = s
      BY <1>2, <2>2, <3>1
    <3>5. QED
      BY <3>3, <3>4
           DEF SessionOK, PackageSession, SendingSession, CreateSession,
               ResetSession, RevokeSession, NewBuild, LoadedRows, LoadedPackage,
               LoadedDevice
  <2>3. QED
    BY <2>1, <2>2
<1>5. OneLock'
  BY <1>1, <1>2 DEF OneLock, Unlocked
<1>6. QED
  BY <1>3, <1>4, <1>5 DEF RequestInv

\* The steps that read rows, give an answer or are lost.
LEMMA ReadKeepsInv ==
  ASSUME RequestInv, NEW t \in Threads, NEW r \in Request,
         requests' = [requests EXCEPT ![t] = r], SessionOK(r), r.pc # "locked",
         UNCHANGED <<vars, granted>>, orphaned' \subseteq Devices
  PROVE  RequestInv'
<1>1. /\ TypeOK /\ UNCHANGED <<limit, device, package, artifact, jobs>>
      /\ granted' \in [Packages -> Nat]
  BY DEF RequestInv, RequestsTypeOK, vars
<1>2. RowsStand /\ NoNewRows
  BY <1>1, SameRows
<1>3. TypeOK' /\ FilesOnlyGo
  BY <1>1 DEF TypeOK, FilesOnlyGo
<1>4. SessionOK(r)'
  BY <1>1, <1>2, <1>3, SessionStays
<1>5. QED
  BY <1>1, <1>2, <1>3, <1>4, ThreadKeepsInv

\* A thread with no request is well formed.
LEMMA IdleRequest == Idle \in Request /\ SessionOK(Idle)
<1>1. NoRows \in [Packages -> InstallPackage] /\ NoDevice \in Device
  BY FreshRows DEF NoRows
<1>2. Idle \in Request
  BY <1>1, BoundsAssumption, PoolAssumption DEF Idle, Request, BuildOutcome
<1>3. QED
  BY <1>2 DEF SessionOK

\* record_download_attempt and confirm_download load a package and its device.
LEMMA PackageReadsKeepInv ==
  ASSUME RequestInv, NEW t \in Threads,
         \/ \E p \in Packages, op \in {"download", "confirm"} : ReadsPackage(t, op, p)
         \/ ReadsDevice(t)
  PROVE  RequestInv'
<1>1. TypeOK /\ requests[t] \in Request /\ SessionOK(requests[t]) /\ orphaned \subseteq Devices
  BY DEF RequestInv, RequestsTypeOK, SessionsOK
<1>2. ASSUME NEW p \in Packages, NEW op \in {"download", "confirm"}, ReadsPackage(t, op, p)
      PROVE  RequestInv'
  <2>. DEFINE rows == [NoRows EXCEPT ![p] = package[p]]
              r == [Idle EXCEPT !.op = op, !.pc = "package_read", !.p = p,
                                !.d = package[p].device, !.rows[p] = package[p]]
  <2>1. /\ IF op = "confirm" THEN MayConfirm(package[p]) ELSE MayDownload(package[p])
        /\ requests' = [requests EXCEPT ![t] = r]
        /\ UNCHANGED <<vars, history>>
    BY <1>2 DEF ReadsPackage, Start, Become
  <2>2. PackageExists(p)
    BY <1>1, <2>1, PackageOwner DEF MayConfirm, MayDownload
  <2>3. /\ package[p] \in InstallPackage /\ package[p].device \in Devices
        /\ NoRows \in [Packages -> InstallPackage]
    BY <1>1, <2>2, PackageOwner, FreshRows DEF NoRows
  <2>4. rows \in [Packages -> InstallPackage] /\ rows[p] = package[p]
    BY <2>3
  <2>5. /\ r \in Request
        /\ r.op = op /\ r.pc = "package_read" /\ r.p = p /\ r.d = package[p].device
        /\ r.rows = rows
    BY <2>3, <2>4, IdleRequest DEF Request, Idle
  <2>. HIDE DEF r, rows
  <2>6. LoadedPackage(r.rows[r.p], r.p, r.d)
    BY <2>2, <2>4, <2>5 DEF LoadedPackage, PackageExists
  <2>7. PackageSession(r)
    BY <2>1, <2>3, <2>4, <2>5, <2>6 DEF PackageSession
  <2>8. QED
    BY <1>1, <2>1, <2>5, <2>7, ReadKeepsInv DEF SessionOK, history
<1>3. ASSUME ReadsDevice(t)
      PROVE  RequestInv'
  <2>. DEFINE old == requests[t]
              op == IF old.op = "download" THEN DownloadBranch(old) ELSE old.op
              r == IF op = "none" THEN Idle
                   ELSE [old EXCEPT !.op = op, !.pc = "read", !.row = device[old.d]]
  <2>1. /\ old.pc = "package_read"
        /\ requests' = [requests EXCEPT ![t] = r]
        /\ UNCHANGED <<vars, history>>
    BY <1>3 DEF ReadsDevice, Become
  <2>2. PackageSession(old) /\ old.op \in {"download", "confirm"}
    BY <1>1, <2>1 DEF SessionOK, Idle, PackageSession, SendingSession, CreateSession,
                      ResetSession, RevokeSession
  <2>3. op \in {"none", "serve", "expire", "confirm"}
    BY <2>2 DEF DownloadBranch
  <2>4. /\ op = "confirm" <=> old.op = "confirm"
        /\ op = "serve" => old.rows[old.p].download_attempts < MaxAttempts
    BY <2>2 DEF DownloadBranch
  <2>5. /\ old.d \in Devices /\ DeviceExists(old.d) /\ device[old.d] \in Device
    BY <1>1, <2>2, PackageOwner DEF PackageSession, LoadedPackage, TypeOK
  <2>6. CASE op = "none"
    BY <1>1, <2>1, <2>6, IdleRequest, ReadKeepsInv DEF Idle, history
  <2>7. CASE op # "none"
    <3>1. /\ r = [old EXCEPT !.op = op, !.pc = "read", !.row = device[old.d]]
          /\ op \in {"serve", "expire", "confirm"}
      BY <2>3, <2>7
    <3>. HIDE DEF op
    <3>2. /\ r \in Request
          /\ r.op = op /\ r.pc = "read" /\ r.row = device[old.d]
          /\ r.p = old.p /\ r.d = old.d /\ r.rows = old.rows
      BY <1>1, <2>5, <3>1 DEF Request
    <3>. HIDE DEF r, old
    <3>3. PackageSession(r)
      BY <2>2, <2>4, <2>5, <3>1, <3>2 DEF PackageSession, LoadedDevice, DeviceExists
    <3>4. QED
      BY <1>1, <2>1, <3>2, <3>3, ReadKeepsInv DEF SessionOK, history
  <2>8. QED
    BY <2>6, <2>7
<1>4. QED
  BY <1>2, <1>3

\* create_device chooses an address, reset_device and revoke_device load rows.
LEMMA OtherReadsKeepInv ==
  ASSUME RequestInv, NEW t \in Threads,
         \/ \E u \in Users : CreateReadsUser(t, u)
         \/ CreateCounts(t) \/ CreateAllocates(t) \/ CreateCollides(t)
         \/ \E d \in Devices : ResetReadsDevice(t, d) \/ RevokeReadsDevice(t, d)
         \/ ResetReadsPackages(t) \/ Sends(t) \/ Lost(t)
  PROVE  RequestInv'
<1>. DEFINE old == requests[t]
<1>1. TypeOK /\ old \in Request /\ SessionOK(old) /\ orphaned \subseteq Devices
  BY DEF RequestInv, RequestsTypeOK, SessionsOK
<1>2. ASSUME NEW r \in Request, requests' = [requests EXCEPT ![t] = r],
             UNCHANGED <<vars, history>>, SessionOK(r), r.pc # "locked"
      PROVE  RequestInv'
  BY <1>1, <1>2, ReadKeepsInv DEF history
<1>3. ASSUME requests' = [requests EXCEPT ![t] = Idle], UNCHANGED <<vars, history>>
      PROVE  RequestInv'
  BY <1>2, <1>3, IdleRequest DEF Idle
<1>4. ASSUME NEW u \in Users, CreateReadsUser(t, u)
      PROVE  RequestInv'
  <2>. DEFINE r == [Idle EXCEPT !.op = "create", !.pc = "user_read", !.user = u,
                                !.limit = limit[u]]
  <2>1. requests' = [requests EXCEPT ![t] = r] /\ UNCHANGED <<vars, history>>
    BY <1>4 DEF CreateReadsUser, Start, Become
  <2>2. r \in Request /\ r.op = "create" /\ r.pc = "user_read" /\ r.user = u
    BY <1>1, IdleRequest DEF Request, TypeOK, Idle
  <2>. HIDE DEF r
  <2>3. QED
    BY <1>2, <2>1, <2>2 DEF SessionOK, CreateSession
<1>5. ASSUME CreateCounts(t)
      PROVE  RequestInv'
  <2>. DEFINE r == [old EXCEPT !.pc = "counted", !.limit = 0]
  <2>1. /\ old.op = "create" /\ old.pc = "user_read" /\ UNCHANGED <<vars, history>>
        /\ requests' = [requests EXCEPT ![t] = r] \/ requests' = [requests EXCEPT ![t] = Idle]
    BY <1>5 DEF CreateCounts, Become, At
  <2>2. old.user \in Users
    BY <1>1, <2>1 DEF SessionOK, Idle, PackageSession, SendingSession, CreateSession,
                      ResetSession, RevokeSession
  <2>3. r \in Request
    <3>1. 0 \in 0..MaxLimit
      BY BoundsAssumption
    <3>2. QED
      BY <1>1, <3>1 DEF Request
  <2>4. r.op = "create" /\ r.pc = "counted" /\ r.user \in Users
    BY <1>1, <2>1, <2>2 DEF Request
  <2>. HIDE DEF r
  <2>5. QED
    BY <1>2, <1>3, <2>1, <2>3, <2>4 DEF SessionOK, CreateSession
<1>6. ASSUME CreateAllocates(t)
      PROVE  RequestInv'
  <2>1. CASE requests' = [requests EXCEPT ![t] = Idle] /\ UNCHANGED <<vars, history>>
    BY <1>3, <2>1
  <2>2. CASE ~(requests' = [requests EXCEPT ![t] = Idle] /\ UNCHANGED <<vars, history>>)
    <3>1. PICK ip \in 1..PoolSize :
            /\ AllocateForDevice(ip)
            /\ requests' = [requests EXCEPT ![t] = [old EXCEPT !.pc = "read", !.ip = ip]]
      BY <1>6, <2>2 DEF CreateAllocates, Become, End
    <3>. DEFINE r == [old EXCEPT !.pc = "read", !.ip = ip]
    <3>2. old.op = "create" /\ old.pc = "counted" /\ UNCHANGED <<vars, history>>
      BY <1>6 DEF CreateAllocates, At
    <3>3. old.user \in Users
      BY <1>1, <3>2 DEF SessionOK, Idle, PackageSession, SendingSession, CreateSession,
                        ResetSession, RevokeSession
    <3>4. ip \in (1..PoolSize) \ {ServerIp} /\ ip \in 0..PoolSize
      BY <3>1, PoolAssumption DEF AllocateForDevice, FreeIps
    <3>5. /\ r \in Request
          /\ r.op = "create" /\ r.pc = "read" /\ r.user \in Users /\ r.ip = ip
      BY <1>1, <3>2, <3>3, <3>4 DEF Request
    <3>6. requests' = [requests EXCEPT ![t] = r]
      BY <3>1
    <3>. HIDE DEF r
    <3>7. QED
      BY <1>2, <3>2, <3>4, <3>5, <3>6 DEF SessionOK, CreateSession
  <2>3. QED
    BY <2>1, <2>2
<1>7. ASSUME NEW d \in Devices, ResetReadsDevice(t, d) \/ RevokeReadsDevice(t, d)
      PROVE  RequestInv'
  <2>1. PICK op \in {"reset", "revoke"} :
          /\ requests' = [requests EXCEPT
               ![t] = [Idle EXCEPT !.op = op, !.pc = "device_read", !.d = d, !.row = device[d]]]
          /\ DeviceExists(d) /\ UNCHANGED <<vars, history>>
    BY <1>7 DEF ResetReadsDevice, RevokeReadsDevice, Start, Become
  <2>. DEFINE r == [Idle EXCEPT !.op = op, !.pc = "device_read", !.d = d, !.row = device[d]]
  <2>2. device[d] \in Device
    BY <1>1 DEF TypeOK
  <2>3. /\ r \in Request
        /\ r.op = op /\ r.pc = "device_read" /\ r.d = d /\ r.row = device[d]
        /\ r.rows = NoRows /\ r.p = None
    BY <1>1, <2>2, IdleRequest DEF Request, Idle
  <2>4. requests' = [requests EXCEPT ![t] = r]
    BY <2>1
  <2>. HIDE DEF r
  <2>5. LoadedDevice(r.row, r.d) /\ LoadedRows(r)
    BY <2>1, <2>3 DEF LoadedDevice, LoadedRows, NoRows, DeviceExists
  <2>6. ResetSession(r) \/ RevokeSession(r)
    BY <2>3, <2>5 DEF ResetSession, RevokeSession
  <2>7. QED
    BY <1>2, <2>1, <2>3, <2>4, <2>6 DEF SessionOK
<1>8. ASSUME ResetReadsPackages(t)
      PROVE  RequestInv'
  <2>. DEFINE r == [old EXCEPT !.pc = "read", !.rows = RowsOf(old.d)]
  <2>1. /\ old.op = "reset" /\ old.pc = "device_read" /\ UNCHANGED <<vars, history>>
        /\ requests' = [requests EXCEPT ![t] = r]
    BY <1>8 DEF ResetReadsPackages, Become, At
  <2>2. LoadedDevice(old.row, old.d)
    BY <1>1, <2>1 DEF SessionOK, Idle, PackageSession, SendingSession, CreateSession,
                      ResetSession, RevokeSession
  <2>3. RowsOf(old.d) \in [Packages -> InstallPackage]
    BY <1>1, FreshRows DEF RowsOf, TypeOK
  <2>4. /\ r \in Request
        /\ r.op = "reset" /\ r.pc = "read" /\ r.d = old.d /\ r.row = old.row
        /\ r.rows = RowsOf(old.d)
    BY <1>1, <2>1, <2>3 DEF Request
  <2>. HIDE DEF r
  <2>5. LoadedRows(r)
    <3>1. ASSUME NEW q \in Packages, r.rows[q] # NoPackage
          PROVE  LoadedPackage(r.rows[q], q, r.d)
      <4>1. r.rows[q] = package[q] /\ package[q].device = r.d
        BY <2>4, <3>1 DEF RowsOf, PackagesOf
      <4>2. PackageExists(q)
        BY <1>1, <2>2, <2>4, <4>1, PackageOwner DEF LoadedDevice
      <4>3. QED
        BY <4>1, <4>2 DEF LoadedPackage, PackageExists
    <3>2. QED
      BY <3>1 DEF LoadedRows
  <2>6. QED
    BY <1>2, <2>1, <2>2, <2>4, <2>5 DEF SessionOK, ResetSession
<1>9. ASSUME CreateCollides(t) \/ Sends(t)
      PROVE  RequestInv'
  BY <1>3, <1>9 DEF CreateCollides, Sends, End, Become
<1>10. ASSUME Lost(t)
      PROVE  RequestInv'
  BY <1>1, <1>10, IdleRequest, ReadKeepsInv DEF Lost, End, Become, Idle
<1>11. QED
  BY <1>4, <1>5, <1>6, <1>7, <1>8, <1>9, <1>10

\* Files are unlinked where a deletion is to be committed: before it, all of
\* them, and while the rows stay as they are.
UnlinksFirst(t) ==
  /\ UNCHANGED <<limit, device, package, jobs, history>> /\ FilesOnlyGo
  /\ \A q \in Deleting(requests'[t]) :
       /\ PackageExists(q)
       /\ HasArtifactPath(package[q]) =>
            package[q].device = requests[t].d /\ artifact'[requests[t].d] = None

\* A deletion changes the session of its own thread, and no table.
LEMMA UnlinksKeepInv ==
  ASSUME RequestInv, NEW t \in Threads,
         Unlinks(t) \/ ResetUnlinks(t) \/ RevokeUnlinks(t)
  PROVE  RequestInv' /\ UnlinksFirst(t)
<1>. DEFINE old == requests[t]
<1>1. /\ TypeOK /\ old \in Request /\ SessionOK(old) /\ orphaned \subseteq Devices
      /\ requests \in [Threads -> Request] /\ artifact \in [Devices -> Packages \cup {None}]
  BY DEF RequestInv, RequestsTypeOK, SessionsOK, TypeOK
(* What the three have in common: one device's file may go. *)
<1>2. ASSUME NEW r \in Request, requests' = [requests EXCEPT ![t] = r],
             NEW d \in Devices, NEW file \in {artifact[d], None},
             artifact' = [artifact EXCEPT ![d] = file],
             UNCHANGED <<limit, device, package, jobs, history>>,
             SessionOK(r), r.pc = "locked" => Unlocked, d = old.d,
             \A q \in Deleting(r) :
               /\ PackageExists(q)
               /\ HasArtifactPath(package[q]) => package[q].device = d /\ file = None
      PROVE  RequestInv' /\ UnlinksFirst(t)
  <2>1. \A e \in Devices : artifact'[e] = IF e = d THEN file ELSE artifact[e]
    BY <1>1, <1>2
  <2>2. FilesOnlyGo /\ artifact' \in [Devices -> Packages \cup {None}]
    BY <1>1, <1>2, <2>1 DEF FilesOnlyGo
  <2>3. TypeOK' /\ RowsStand /\ NoNewRows
    BY <1>1, <1>2, <2>2, SameRows DEF TypeOK
  <2>4. SessionOK(r)'
    BY <1>1, <1>2, <2>2, <2>3, SessionStays
  <2>5. RequestInv'
    BY <1>1, <1>2, <2>2, <2>3, <2>4, ThreadKeepsInv
       DEF history, RequestInv, RequestsTypeOK
  <2>6. requests'[t] = r
    BY <1>1, <1>2
  <2>7. QED
    BY <1>2, <2>1, <2>2, <2>5, <2>6 DEF UnlinksFirst
<1>3. ASSUME Unlinks(t)
      PROVE  RequestInv' /\ UnlinksFirst(t)
  <2>. DEFINE p == old.p
              d == old.d
              file == FileAfterUnlink(d, old.rows, [q \in Packages |-> q = p])
              r == [old EXCEPT !.pc = "touched", !.file = artifact[d]]
  <2>1. /\ old.op \in {"confirm", "expire"} /\ old.pc = "read"
        /\ artifact' = [artifact EXCEPT ![d] = file]
        /\ requests' = [requests EXCEPT ![t] = r]
        /\ UNCHANGED <<limit, device, package, jobs, history>>
    BY <1>3 DEF Unlinks, At, Become
  <2>2. PackageSession(old)
    BY <1>1, <2>1 DEF SessionOK, Idle, PackageSession, SendingSession, CreateSession,
                      ResetSession, RevokeSession
  <2>3. p \in Packages /\ d \in Devices /\ LoadedPackage(old.rows[p], p, d)
    BY <2>2 DEF PackageSession
  <2>4. /\ file \in {artifact[d], None}
        /\ HasArtifactPath(old.rows[p]) => file = None
    BY <2>3 DEF FileAfterUnlink
  <2>5. /\ r \in Request
        /\ r.op = old.op /\ r.pc = "touched" /\ r.p = p /\ r.d = d
        /\ r.row = old.row /\ r.rows = old.rows
    BY <1>1, <2>1, <2>3 DEF Request
  <2>. HIDE DEF r, file
  <2>6. PackageSession(r)
    BY <2>1, <2>2, <2>3, <2>5 DEF PackageSession
  <2>7. \A q \in Deleting(r) : q = p
    BY <2>1, <2>5 DEF Deleting
  <2>8. \A q \in Deleting(r) :
          /\ PackageExists(q)
          /\ HasArtifactPath(package[q]) => package[q].device = d /\ file = None
    BY <2>3, <2>4, <2>7 DEF LoadedPackage
  <2>9. QED
    BY <1>2, <2>1, <2>3, <2>4, <2>5, <2>6, <2>8 DEF SessionOK
<1>4. ASSUME ResetUnlinks(t)
      PROVE  RequestInv' /\ UnlinksFirst(t)
  <2>. DEFINE d == old.d
              live == [q \in Packages |-> old.rows[q].status \in ACTIVE_PACKAGE_STATUSES]
              file == FileAfterUnlink(d, old.rows, live)
              r == [old EXCEPT !.pc = "touched", !.file = artifact[d]]
  <2>1. /\ old.op = "reset" /\ old.pc = "read"
        /\ artifact' = [artifact EXCEPT ![d] = file]
        /\ requests' = [requests EXCEPT ![t] = r]
        /\ UNCHANGED <<limit, device, package, jobs, history>>
    BY <1>4 DEF ResetUnlinks, At, Become
  <2>2. ResetSession(old)
    BY <1>1, <2>1 DEF SessionOK, Idle, PackageSession, SendingSession, CreateSession,
                      RevokeSession
  <2>3. d \in Devices /\ LoadedDevice(old.row, d) /\ LoadedRows(old)
    BY <2>2 DEF ResetSession, LoadedDevice
  <2>4. /\ file \in {artifact[d], None}
        /\ \A q \in Packages : /\ old.rows[q].status \in ACTIVE_PACKAGE_STATUSES
                               /\ HasArtifactPath(old.rows[q])
                               => file = None
    BY DEF FileAfterUnlink
  <2>5. /\ r \in Request
        /\ r.op = "reset" /\ r.pc = "touched" /\ r.d = d
        /\ r.row = old.row /\ r.rows = old.rows /\ r.p = old.p
    BY <1>1, <2>1, <2>3 DEF Request
  <2>. HIDE DEF r, file
  <2>6. ResetSession(r)
    BY <2>3, <2>5 DEF ResetSession, LoadedRows
  <2>7. ASSUME NEW q \in Deleting(r)
        PROVE  /\ PackageExists(q)
               /\ HasArtifactPath(package[q]) => package[q].device = d /\ file = None
    <3>1. q \in Packages /\ old.rows[q].status \in ACTIVE_PACKAGE_STATUSES
      BY <2>5, <2>7 DEF Deleting
    <3>2. LoadedPackage(old.rows[q], q, d)
      BY <2>3, <3>1 DEF LoadedRows, NoPackage, ACTIVE_PACKAGE_STATUSES
    <3>3. QED
      BY <2>4, <2>7, <3>1, <3>2 DEF LoadedPackage
  <2>8. QED
    BY <1>2, <2>1, <2>3, <2>4, <2>5, <2>6, <2>7 DEF SessionOK
<1>5. ASSUME RevokeUnlinks(t)
      PROVE  RequestInv' /\ UnlinksFirst(t)
  <2>. DEFINE d == old.d
              file == FileAfterRevoke(d)
              r == [old EXCEPT !.pc = "locked", !.file = artifact[d], !.rows = RowsOf(d)]
  <2>1. /\ old.op = "revoke" /\ old.pc = "device_read" /\ Unlocked
        /\ artifact' = [artifact EXCEPT ![d] = file]
        /\ requests' = [requests EXCEPT ![t] = r]
        /\ UNCHANGED <<limit, device, package, jobs, history>>
    BY <1>5 DEF RevokeUnlinks, At, Become
  <2>2. RevokeSession(old)
    BY <1>1, <2>1 DEF SessionOK, Idle, PackageSession, SendingSession, CreateSession,
                      ResetSession
  <2>3. d \in Devices /\ LoadedDevice(old.row, d) /\ DeviceExists(d)
    BY <2>2 DEF RevokeSession, LoadedDevice
  <2>4. /\ file \in {artifact[d], None}
        /\ \A q \in PackagesOf(d) : ~package[q].deleted /\ HasArtifactPath(package[q]) =>
             file = None
    BY DEF FileAfterRevoke
  <2>5. RowsOf(d) \in [Packages -> InstallPackage]
    BY <1>1, FreshRows DEF RowsOf, TypeOK
  <2>6. /\ r \in Request
        /\ r.op = "revoke" /\ r.pc = "locked" /\ r.d = d /\ r.p = None
        /\ r.row = old.row /\ r.rows = RowsOf(d)
    BY <1>1, <2>1, <2>2, <2>3, <2>5 DEF Request, RevokeSession
  <2>. HIDE DEF r, file
  <2>7. ASSUME NEW q \in Packages
        PROVE  \/ r.rows[q] = NoPackage
               \/ /\ r.rows[q] = package[q] /\ q \in PackagesOf(d)
                  /\ LoadedPackage(r.rows[q], q, r.d)
    <3>1. CASE q \in PackagesOf(d)
      <4>1. r.rows[q] = package[q] /\ package[q].device = r.d
        BY <2>6, <3>1 DEF RowsOf, PackagesOf
      <4>2. PackageExists(q)
        BY <1>1, <2>3, <2>6, <4>1, PackageOwner
      <4>3. QED
        BY <3>1, <4>1, <4>2 DEF LoadedPackage, PackageExists
    <3>2. CASE q \notin PackagesOf(d)
      BY <2>6, <3>2 DEF RowsOf
    <3>3. QED
      BY <3>1, <3>2
  <2>8. RevokeSession(r)
    BY <2>3, <2>6, <2>7 DEF RevokeSession, LoadedRows
  <2>9. ASSUME NEW q \in Deleting(r)
        PROVE  /\ PackageExists(q)
               /\ HasArtifactPath(package[q]) => package[q].device = d /\ file = None
    <3>1. q \in Packages /\ r.rows[q].status # "absent" /\ ~r.rows[q].deleted
      BY <2>6, <2>9 DEF Deleting
    <3>2. r.rows[q] = package[q] /\ q \in PackagesOf(d)
      BY <2>7, <3>1 DEF NoPackage
    <3>3. QED
      BY <1>1, <2>3, <2>4, <3>1, <3>2, PackageOwner DEF PackagesOf
  <2>10. QED
    BY <1>2, <2>1, <2>3, <2>4, <2>6, <2>8, <2>9 DEF SessionOK
<1>6. QED
  BY <1>3, <1>4, <1>5

\* A build under the lock writes the file of a package that has none, and is the
\* only one to do so.
BuildsNew(t) ==
  /\ UNCHANGED <<limit, device, package, jobs, history>> /\ Unlocked
  /\ LET r == requests'[t]
     IN  /\ r.pc = "locked" /\ r.p \in Packages /\ r.d \in Devices
         /\ UnusedPackage(r.p)
         /\ artifact'[r.d] \in {artifact[r.d], r.p}
         /\ \A e \in Devices \ {r.d} : artifact'[e] = artifact[e]
         /\ Deleting(r) = Deleting(requests[t])

\* A build draws identifiers nobody has, and takes the lock.
LEMMA BuildsKeepInv ==
  ASSUME RequestInv, NEW t \in Threads, NEW p \in Packages, NEW outcome \in BuildOutcome,
         \/ \E d \in Devices : CreateBuilds(t, d, p, outcome)
         \/ ResetBuilds(t, p, outcome)
  PROVE  RequestInv' /\ BuildsNew(t)
<1>. DEFINE old == requests[t]
<1>1. /\ TypeOK /\ old \in Request /\ SessionOK(old) /\ orphaned \subseteq Devices
      /\ requests \in [Threads -> Request] /\ artifact \in [Devices -> Packages \cup {None}]
  BY DEF RequestInv, RequestsTypeOK, SessionsOK, TypeOK
(* What the two have in common: one device's file may be that of p. *)
<1>2. ASSUME NEW r \in Request, requests' = [requests EXCEPT ![t] = r],
             NEW d \in Devices, r.d = d, r.p = p, r.outcome = outcome, r.pc = "locked",
             artifact' = [artifact EXCEPT ![d] = FileAfterBuild(@, p, outcome)],
             UNCHANGED <<limit, device, package, jobs, history>>,
             BuildMay(outcome), UnusedPackage(p), Unlocked,
             NewBuild(r) => SessionOK(r), Deleting(r) = Deleting(old)
      PROVE  RequestInv' /\ BuildsNew(t)
  <2>1. /\ artifact'[d] = FileAfterBuild(artifact[d], p, outcome)
        /\ \A e \in Devices \ {d} : artifact'[e] = artifact[e]
        /\ artifact' \in [Devices -> Packages \cup {None}]
    BY <1>1, <1>2 DEF FileAfterBuild
  <2>2. ~PackageExists(p) /\ \A e \in Devices : artifact[e] # p
    BY <1>2 DEF UnusedPackage, FreshPackage
  <2>3. TypeOK' /\ RowsStand /\ NoNewRows
    BY <1>1, <1>2, <2>1, SameRows DEF TypeOK
  <2>4. NewBuild(r) /\ NewBuild(r)'
    BY <1>2, <2>1, <2>2 DEF NewBuild, FileAfterBuild, PackageExists
  <2>5. SessionOK(r)
    BY <1>2, <2>4
  <2>6. SessionOK(r)'
    <3>1. LoadedDevice(r.row, r.d)' = LoadedDevice(r.row, r.d)
      BY <1>2 DEF LoadedDevice, DeviceExists
    <3>2. LoadedRows(r)' = LoadedRows(r)
      BY <1>2 DEF LoadedRows, LoadedPackage, PackageExists
    <3>3. (r.ip \in AllocatedIps)' = (r.ip \in AllocatedIps)
      BY <1>2 DEF AllocatedIps, DeviceExists
    <3>4. DeviceExists(r.d)' = DeviceExists(r.d)
      BY <1>2 DEF DeviceExists
    <3>5. CASE CreateSession(r)
      BY <2>4, <3>3, <3>4, <3>5 DEF CreateSession, SessionOK
    <3>6. CASE ResetSession(r)
      BY <2>4, <3>1, <3>2, <3>6 DEF ResetSession, SessionOK
    <3>7. CASE RevokeSession(r)
      BY <3>1, <3>2, <3>7 DEF RevokeSession, SessionOK
    <3>8. ~PackageSession(r) /\ ~SendingSession(r) /\ r # Idle
      BY <1>2 DEF PackageSession, SendingSession, Idle
    <3>9. QED
      BY <2>5, <3>5, <3>6, <3>7, <3>8 DEF SessionOK
  <2>7. RequestInv'
    BY <1>1, <1>2, <2>3, <2>6, ThreadKeepsInv
       DEF history, Unlocked, RequestInv, RequestsTypeOK
  <2>8. requests'[t] = r
    BY <1>1, <1>2
  <2>9. QED
    BY <1>2, <2>1, <2>7, <2>8 DEF BuildsNew, FileAfterBuild
<1>3. ASSUME NEW d \in Devices, CreateBuilds(t, d, p, outcome)
      PROVE  RequestInv' /\ BuildsNew(t)
  <2>. DEFINE r == [old EXCEPT !.pc = "locked", !.d = d, !.p = p, !.outcome = outcome]
  <2>1. /\ old.op = "create" /\ old.pc = "read" /\ Unlocked /\ old.ip \notin AllocatedIps
        /\ BuildMay(outcome) /\ FreshDevice(d) /\ UnusedPackage(p)
        /\ artifact' = [artifact EXCEPT ![d] = FileAfterBuild(@, p, outcome)]
        /\ requests' = [requests EXCEPT ![t] = r]
        /\ UNCHANGED <<limit, device, package, jobs, history>>
    BY <1>3 DEF CreateBuilds, At, Become
  <2>2. CreateSession(old)
    BY <1>1, <2>1 DEF SessionOK, Idle, PackageSession, SendingSession, RevokeSession,
                      ResetSession
  <2>3. /\ r \in Request
        /\ r.op = "create" /\ r.pc = "locked" /\ r.d = d /\ r.p = p /\ r.outcome = outcome
        /\ r.user = old.user /\ r.ip = old.ip
    BY <1>1, <2>1 DEF Request
  <2>. HIDE DEF r
  <2>4. NewBuild(r) => SessionOK(r)
    BY <2>1, <2>2, <2>3 DEF CreateSession, SessionOK, FreshDevice
  <2>5. Deleting(r) = Deleting(old)
    BY <2>1, <2>3 DEF Deleting
  <2>6. QED
    BY <1>2, <2>1, <2>3, <2>4, <2>5
<1>4. ASSUME ResetBuilds(t, p, outcome)
      PROVE  RequestInv' /\ BuildsNew(t)
  <2>. DEFINE d == old.d
              r == [old EXCEPT !.pc = "locked", !.p = p, !.outcome = outcome]
  <2>1. /\ old.op = "reset" /\ old.pc = "touched" /\ Unlocked
        /\ BuildMay(outcome) /\ UnusedPackage(p)
        /\ artifact' = [artifact EXCEPT ![d] = FileAfterBuild(@, p, outcome)]
        /\ requests' = [requests EXCEPT ![t] = r]
        /\ UNCHANGED <<limit, device, package, jobs, history>>
    BY <1>4 DEF ResetBuilds, At, Become
  <2>2. ResetSession(old)
    BY <1>1, <2>1 DEF SessionOK, Idle, PackageSession, SendingSession, CreateSession,
                      RevokeSession
  <2>3. /\ r \in Request
        /\ r.op = "reset" /\ r.pc = "locked" /\ r.d = d /\ r.p = p /\ r.outcome = outcome
        /\ r.row = old.row /\ r.rows = old.rows
    BY <1>1, <2>1 DEF Request
  <2>4. d \in Devices
    BY <2>2 DEF ResetSession, LoadedDevice
  <2>. HIDE DEF r
  <2>5. NewBuild(r) => SessionOK(r)
    BY <2>1, <2>2, <2>3 DEF ResetSession, SessionOK, LoadedRows
  <2>6. Deleting(r) = Deleting(old)
    BY <2>1, <2>3 DEF Deleting
  <2>7. QED
    BY <1>2, <2>1, <2>3, <2>4, <2>5, <2>6
<1>5. QED
  BY <1>3, <1>4

\* A commit ends the session; only the holder of the lock, or a request that
\* finds it free, commits.
LEMMA CommitsKeepInv ==
  ASSUME RequestInv, NEW t \in Threads,
         \/ CommitsExpiry(t) \/ CommitsGrant(t) \/ CommitsConfirmation(t)
         \/ CommitsDevice(t) \/ CommitsReset(t) \/ CommitsRevocation(t)
  PROVE  RequestInv'
<1>. DEFINE old == requests[t]
<1>1. /\ TypeOK /\ old \in Request /\ SessionOK(old) /\ orphaned \subseteq Devices
      /\ requests \in [Threads -> Request] /\ OneLock
      /\ granted \in [Packages -> Nat]
  BY DEF RequestInv, RequestsTypeOK, SessionsOK
<1>2. TypeOK' /\ RowsStand
  BY PackageCommits, DeviceCommits, ResetCommits, RevocationCommits
<1>3. \A u \in Threads : requests[u].pc = "locked" => u = t
  BY <1>1 DEF CommitsExpiry, CommitsGrant, CommitsConfirmation, CommitsDevice, WriteBoth,
              CommitsReset, CommitsRevocation, At, OneLock, Unlocked
<1>4. orphaned' = orphaned
  BY DEF CommitsExpiry, CommitsGrant, CommitsConfirmation, CommitsDevice, CommitsReset,
         CommitsRevocation, history
<1>5. granted' \in [Packages -> Nat]
  <2>1. CASE CommitsGrant(t)
    <3>1. PICK p \in Packages : p = old.p
      BY <1>1, <2>1 DEF CommitsGrant, At, SessionOK, Idle, PackageSession, SendingSession,
                        CreateSession, ResetSession, RevokeSession
    <3>2. granted' = [granted EXCEPT ![p] = granted[p] + 1]
      BY <2>1, <3>1 DEF CommitsGrant
    <3>3. QED
      BY <1>1, <3>2
  <2>2. CASE ~CommitsGrant(t)
    BY <1>1, <2>2 DEF CommitsExpiry, CommitsConfirmation, CommitsDevice, CommitsReset,
                      CommitsRevocation, history
  <2>3. QED
    BY <2>1, <2>2
<1>6. CASE CommitsGrant(t)
  <2>1. [Idle EXCEPT !.op = "serve", !.pc = "sending", !.p = old.p] \in Request
    BY <1>1, IdleRequest DEF Request, Idle
  <2>2. PICK r \in Request : r = [Idle EXCEPT !.op = "serve", !.pc = "sending", !.p = old.p]
    BY <2>1
  <2>3. /\ r.op = "serve" /\ r.pc = "sending"
        /\ requests' = [requests EXCEPT ![t] = r]
    BY <1>6, <2>2 DEF CommitsGrant, Become, Idle
  <2>4. SessionOK(r)'
    BY <2>3 DEF SessionOK, SendingSession
  <2>5. QED
    BY <1>1, <1>2, <1>3, <1>4, <1>5, <2>3, <2>4, ThreadKeepsInv
<1>7. CASE ~CommitsGrant(t)
  <2>1. requests' = [requests EXCEPT ![t] = Idle]
    BY <1>7 DEF CommitsExpiry, CommitsConfirmation, CommitsDevice, CommitsReset,
                CommitsRevocation, End, Become
  <2>2. Idle \in Request /\ SessionOK(Idle)' /\ Idle.pc = "idle"
    BY IdleRequest DEF Idle, SessionOK
  <2>3. QED
    BY <1>1, <1>2, <1>3, <1>4, <1>5, <2>1, <2>2, ThreadKeepsInv
<1>8. QED
  BY <1>6, <1>7

\* The worker, the clock and the requests of one step keep what every session
\* has loaded.
LEMMA BackgroundKeepsInv ==
  ASSUME RequestInv, ShortRequest \/ Background
  PROVE  RequestInv'
<1>1. TypeOK /\ requests \in [Threads -> Request]
  BY DEF RequestInv, RequestsTypeOK
<1>2. TypeOK' /\ RowsStand /\ NoNewRows /\ FilesOnlyGo
  BY <1>1, BackgroundWrites DEF FilesOnlyGo
<1>3. requests' = requests /\ UNCHANGED history
  BY DEF ShortRequest, Background
<1>4. ASSUME NEW u \in Threads
      PROVE  SessionOK(requests[u])'
  <2>1. PICK s \in Request : s = requests[u]
    BY <1>1
  <2>2. SessionOK(s)
    BY <2>1 DEF RequestInv, SessionsOK
  <2>3. SessionOK(s)'
    BY <1>1, <1>2, <2>2, SessionStays
  <2>4. requests'[u] = s
    BY <1>3, <2>1
  <2>5. QED
    BY <2>3, <2>4
       DEF SessionOK, PackageSession, SendingSession, CreateSession,
           ResetSession, RevokeSession, NewBuild, LoadedRows, LoadedPackage, LoadedDevice
<1>5. QED
  BY <1>2, <1>3, <1>4 DEF RequestInv, RequestsTypeOK, SessionsOK, OneLock, history

-----------------------------------------------------------------------------
(***************************************************************************)
(* The invariant, and the dates.                                           *)
(***************************************************************************)

\* The kinds of steps of a thread.
Reads(t) ==
  \/ \E p \in Packages, op \in {"download", "confirm"} : ReadsPackage(t, op, p)
  \/ ReadsDevice(t)
  \/ \E u \in Users : CreateReadsUser(t, u)
  \/ CreateCounts(t) \/ CreateAllocates(t) \/ CreateCollides(t)
  \/ \E d \in Devices : ResetReadsDevice(t, d) \/ RevokeReadsDevice(t, d)
  \/ ResetReadsPackages(t) \/ Sends(t) \/ Lost(t)

Deletes(t) == Unlinks(t) \/ ResetUnlinks(t) \/ RevokeUnlinks(t)

Builds(t) ==
  \E p \in Packages, outcome \in BuildOutcome :
    \/ \E d \in Devices : CreateBuilds(t, d, p, outcome)
    \/ ResetBuilds(t, p, outcome)

Commits(t) ==
  \/ CommitsExpiry(t) \/ CommitsGrant(t) \/ CommitsConfirmation(t)
  \/ CommitsDevice(t) \/ CommitsReset(t) \/ CommitsRevocation(t)

\* A step of a request reads, deletes a file, builds, or commits.
LEMMA StepKinds ==
  ASSUME NEW t \in Threads, RequestStep(t)
  PROVE  Reads(t) \/ Deletes(t) \/ Builds(t) \/ Commits(t)
BY DEF RequestStep, Reads, Deletes, Builds, Commits

\* A read changes no table and no file.
LEMMA ReadsOnly ==
  ASSUME NEW t \in Threads, Reads(t)
  PROVE  UNCHANGED <<limit, device, package, artifact, jobs, granted>>
BY DEF Reads, ReadsPackage, ReadsDevice, CreateReadsUser, CreateCounts, CreateAllocates,
       CreateCollides, ResetReadsDevice, RevokeReadsDevice, ResetReadsPackages, Sends,
       Lost, vars, history

\* No request is in progress at the start.
LEMMA EmptyRequests == RequestsInit => RequestInv
<1>. SUFFICES ASSUME RequestsInit PROVE RequestInv
  OBVIOUS
<1>1. NoDevice.status = "absent" /\ NoPackage.status = "absent"
  BY DEF NoDevice, NoPackage
<1>2. TypeOK
  BY <1>1, FreshRows DEF RequestsInit, Init, TypeOK
<1>3. RequestsTypeOK
  BY <1>2, IdleRequest, AttemptsAssumption DEF RequestsInit, RequestsTypeOK
<1>4. SessionsOK /\ OneLock
  BY IdleRequest DEF RequestsInit, SessionsOK, OneLock, Idle
<1>5. QED
  BY <1>3, <1>4 DEF RequestInv

\* Every step of the interleaved requests keeps the invariant, and takes nothing
\* back from a row that is there.
LEMMA RequestsStep ==
  ASSUME RequestInv, [RequestsNext]_requestVars
  PROVE  RequestInv' /\ RowsStand
<1>1. TypeOK
  BY DEF RequestInv, RequestsTypeOK
<1>2. ASSUME NEW t \in Threads, Reads(t)
      PROVE  RequestInv' /\ RowsStand
  BY <1>1, <1>2, ReadsOnly, SameRows, PackageReadsKeepInv, OtherReadsKeepInv DEF Reads
<1>3. ASSUME NEW t \in Threads, Deletes(t)
      PROVE  RequestInv' /\ RowsStand
  BY <1>1, <1>3, SameRows, UnlinksKeepInv DEF Deletes, UnlinksFirst
<1>4. ASSUME NEW t \in Threads, Builds(t)
      PROVE  RequestInv' /\ RowsStand
  BY <1>1, <1>4, SameRows, BuildsKeepInv DEF Builds, BuildsNew
<1>5. ASSUME NEW t \in Threads, Commits(t)
      PROVE  RequestInv' /\ RowsStand
  BY <1>5, CommitsKeepInv, PackageCommits, DeviceCommits, ResetCommits, RevocationCommits
     DEF Commits
<1>6. CASE ShortRequest \/ Background
  BY <1>6, BackgroundKeepsInv, BackgroundWrites
<1>7. CASE UNCHANGED requestVars
  <2>1. UNCHANGED <<limit, device, package, artifact, jobs, requests, granted, orphaned>>
    BY <1>7 DEF requestVars, vars, history
  <2>2. RowsStand /\ NoNewRows /\ FilesOnlyGo
    BY <1>1, <2>1, SameRows DEF FilesOnlyGo
  <2>3. SessionsOK'
    <3>. SUFFICES ASSUME NEW u \in Threads PROVE SessionOK(requests[u])'
      BY DEF SessionsOK
    <3>1. PICK s \in Request : s = requests[u]
      BY DEF RequestInv, RequestsTypeOK
    <3>2. SessionOK(s)
      BY <3>1 DEF RequestInv, SessionsOK
    <3>3. SessionOK(s)'
      BY <1>1, <2>2, <3>2, SessionStays
    <3>4. requests'[u] = s
      BY <2>1, <3>1
    <3>5. QED
      BY <3>3, <3>4
         DEF SessionOK, PackageSession, SendingSession, CreateSession, ResetSession,
             RevokeSession, NewBuild, LoadedRows, LoadedPackage, LoadedDevice
  <2>4. QED
    BY <2>1, <2>2, <2>3 DEF RequestInv, RequestsTypeOK, TypeOK, OneLock
<1>8. QED
  BY <1>2, <1>3, <1>4, <1>5, <1>6, <1>7, StepKinds DEF RequestsNext

\* So the sessions and the tables agree in every state.
LEMMA RequestsInductive == RequestsSpec => []RequestInv
<1>1. RequestInv /\ [RequestsNext]_requestVars => RequestInv'
  BY RequestsStep
<1>2. QED
  BY <1>1, EmptyRequests, PTL DEF RequestsSpec

\* However many requests write over each other's rows, every row keeps its type
\* and every package's device exists; no counter leaves its range.
THEOREM RequestsTyped == RequestsSpec => []RequestsTypeOK
<1>1. RequestInv => RequestsTypeOK
  BY DEF RequestInv
<1>2. QED
  BY <1>1, RequestsInductive, PTL

\* A package that was confirmed or deleted stays so, and a device that was
\* revoked: no request, however old its rows, takes a date back.
THEOREM DatesNeverGo == RequestsSpec => DatesStand
<1>1. RequestInv /\ [RequestsNext]_requestVars =>
        [/\ \A p \in Packages :
              /\ package[p].confirmed => package'[p].confirmed
              /\ package[p].deleted => package'[p].deleted
         /\ \A d \in Devices : device[d].revoked => device'[d].revoked]_requestVars
  <2>. SUFFICES ASSUME RequestInv, [RequestsNext]_requestVars
                PROVE  /\ \A p \in Packages :
                            /\ package[p].confirmed => package'[p].confirmed
                            /\ package[p].deleted => package'[p].deleted
                       /\ \A d \in Devices : device[d].revoked => device'[d].revoked
    OBVIOUS
  <2>1. RowsStand
    BY RequestsStep
  <2>2. TypeOK
    BY DEF RequestInv, RequestsTypeOK
  <2>3. ~NoPackage.confirmed /\ ~NoPackage.deleted /\ ~NoDevice.revoked
    BY DEF NoPackage, NoDevice
  <2>4. QED
    BY <2>1, <2>2, <2>3 DEF RowsStand, Stands, DeviceStands, TypeOK, PackageExists,
                            DeviceExists
<1>2. QED
  BY <1>1, RequestsInductive, PTL DEF RequestsSpec, DatesStand

-----------------------------------------------------------------------------
(***************************************************************************)
(* Addresses.                                                              *)
(***************************************************************************)

\* A step that adds no device keeps the addresses distinct.
LEMMA PlacesKept ==
  ASSUME AddressesDistinct, RowsStand, \A e \in Devices : DeviceExists(e)' => DeviceExists(e)
  PROVE  AddressesDistinct'
BY DEF AddressesDistinct, RowsStand, DeviceStands

\* The INSERT of a device fails if another row has got the address meanwhile.
LEMMA AddressesStayApart ==
  ASSUME RequestInv, AddressesDistinct, [RequestsNext]_requestVars
  PROVE  AddressesDistinct'
<1>1. TypeOK /\ RowsStand
  BY RequestsStep DEF RequestInv, RequestsTypeOK
<1>2. CASE UNCHANGED device
  BY <1>1, <1>2, PlacesKept DEF DeviceExists
<1>3. ASSUME NoNewRows
      PROVE  AddressesDistinct'
  BY <1>1, <1>3, PlacesKept DEF NoNewRows, DeviceExists
<1>4. ASSUME NEW t \in Threads, CommitsDevice(t)
      PROVE  AddressesDistinct'
  <2>. DEFINE r == requests[t]
              d == r.d
  <2>1. SessionOK(r) /\ r.op = "create" /\ r.pc = "locked"
    BY <1>4 DEF RequestInv, SessionsOK, CommitsDevice, At
  <2>2. r.ip \in (1..PoolSize) \ {ServerIp} /\ r.ip \notin AllocatedIps /\ ~DeviceExists(d)
    BY <2>1 DEF SessionOK, Idle, PackageSession, SendingSession, CreateSession,
                ResetSession, RevokeSession
  <2>3. /\ d \in Devices /\ device'[d].vpn_ip = r.ip
        /\ \A e \in Devices \ {d} : device'[e] = device[e]
    BY <1>4, DeviceCommits
  <2>4. \A e \in Devices : DeviceExists(e) => device[e].vpn_ip # r.ip
    BY <2>2 DEF AllocatedIps
  <2>. HIDE DEF d, r
  <2>5. QED
    BY <2>2, <2>3, <2>4 DEF AddressesDistinct, DeviceExists
<1>5. ASSUME NEW t \in Threads, CommitsReset(t)
      PROVE  AddressesDistinct'
  BY <1>1, <1>5, ResetCommits, PlacesKept
<1>6. ASSUME NEW t \in Threads, RequestStep(t)
      PROVE  AddressesDistinct'
  <2>1. CASE Reads(t)
    BY <1>2, <2>1, ReadsOnly
  <2>2. CASE Deletes(t)
    BY <1>2, <2>2, UnlinksKeepInv DEF Deletes, UnlinksFirst
  <2>3. CASE Builds(t)
    BY <1>2, <2>3, BuildsKeepInv DEF Builds, BuildsNew
  <2>4. CASE Commits(t)
    BY <1>3, <1>4, <1>5, <2>4, PackageCommits, RevocationCommits DEF Commits
  <2>5. QED
    BY <1>6, <2>1, <2>2, <2>3, <2>4, StepKinds
<1>7. CASE ShortRequest \/ Background
  BY <1>3, <1>7, BackgroundWrites
<1>8. QED
  BY <1>2, <1>6, <1>7 DEF RequestsNext, requestVars, vars

\* Two requests may choose the same address; only one of them gets it.
THEOREM RequestsAddresses == RequestsSpec => []AddressesDistinct
<1>1. RequestsInit => AddressesDistinct
  BY DEF RequestsInit, Init, AddressesDistinct, DeviceExists, NoDevice
<1>2. RequestInv /\ AddressesDistinct /\ [RequestsNext]_requestVars => AddressesDistinct'
  BY AddressesStayApart
<1>3. QED
  BY <1>1, <1>2, RequestsInductive, PTL DEF RequestsSpec

-----------------------------------------------------------------------------
(***************************************************************************)
(* Files: what a request deletes is off the disk before its commit, and    *)
(* nobody puts it back.                                                    *)
(***************************************************************************)

FilesUnlinked ==
  \A t \in Threads : \A q \in Deleting(requests[t]) : \A e \in Devices :
    HasArtifactPath(package[q]) => artifact[e] # q

RequestFiles == FilesInv /\ FilesUnlinked

\* What a request is to delete is a row of the table.
LEMMA DeletingExists ==
  ASSUME RequestInv, NEW t \in Threads, NEW q \in Deleting(requests[t])
  PROVE  q \in Packages /\ PackageExists(q)
<1>. DEFINE r == requests[t]
<1>1. SessionOK(r) /\ q \in Packages
  BY DEF RequestInv, SessionsOK, Deleting
<1>2. CASE r.op \in {"confirm", "expire"} /\ q = r.p
  BY <1>1, <1>2 DEF SessionOK, Idle, PackageSession, SendingSession, CreateSession,
                    ResetSession, RevokeSession, LoadedPackage
<1>3. CASE r.op \in {"reset", "revoke"} /\ r.rows[q].status # "absent"
  <2>1. LoadedRows(r)
    BY <1>1, <1>3 DEF SessionOK, Idle, PackageSession, SendingSession, CreateSession,
                      ResetSession, RevokeSession
  <2>2. QED
    BY <1>1, <1>3, <2>1 DEF LoadedRows, LoadedPackage, NoPackage
<1>4. QED
  BY <1>2, <1>3 DEF Deleting, ACTIVE_PACKAGE_STATUSES

\* What a step has to do to keep the files in order.
LEMMA FilesInOrder ==
  ASSUME RequestInv, RequestFiles, RowsStand,
         \A u \in Threads :
           \/ Deleting(requests'[u]) \subseteq Deleting(requests[u])
           \/ \A q \in Deleting(requests'[u]) :
                /\ PackageExists(q)
                /\ HasArtifactPath(package[q]) => \A e \in Devices : artifact'[e] # q,
         \A q \in Packages, e \in Devices :
           PackageExists(q) /\ artifact'[e] = q => artifact[e] = q,
         OnlyDeletes(UNION {Deleting(requests[u]) : u \in Threads}),
         \A q \in Packages : ~PackageExists(q) /\ PackageExists(q)' =>
           /\ ~package'[q].deleted
           /\ \A e \in Devices : artifact'[e] = q => e = package'[q].device
  PROVE  RequestFiles'
<1>1. TypeOK
  BY DEF RequestInv, RequestsTypeOK
<1>2. FilesOwned'
  BY DEF RequestFiles, FilesInv, FilesOwned, RowsStand, Stands
<1>3. DeletedMeansGone'
  <2>. SUFFICES ASSUME NEW q \in Packages, NEW e \in Devices,
                       package'[q].deleted, HasArtifactPath(package'[q])
                PROVE  artifact'[e] # q
    BY DEF DeletedMeansGone
  <2>1. CASE PackageExists(q)
    <3>1. HasArtifactPath(package[q])
      BY <2>1 DEF RowsStand, Stands
    <3>2. CASE package[q].deleted
      BY <2>1, <3>1, <3>2 DEF RequestFiles, FilesInv, DeletedMeansGone
    <3>3. CASE ~package[q].deleted
      <4>1. PICK u \in Threads : q \in Deleting(requests[u])
        BY <3>3 DEF OnlyDeletes
      <4>2. artifact[e] # q
        BY <3>1, <4>1 DEF RequestFiles, FilesUnlinked
      <4>3. QED
        BY <2>1, <4>2
    <3>4. QED
      BY <3>2, <3>3
  <2>2. CASE ~PackageExists(q)
    <3>1. ~PackageExists(q)'
      BY <2>2
    <3>2. ~package[q].deleted
      BY <1>1, <2>2 DEF TypeOK, PackageExists, NoPackage
    <3>3. PICK u \in Threads : q \in Deleting(requests[u])
      BY <3>2 DEF OnlyDeletes
    <3>4. QED
      BY <2>2, <3>3, DeletingExists
  <2>3. QED
    BY <2>1, <2>2
<1>4. FilesUnlinked'
  <2>. SUFFICES ASSUME NEW u \in Threads, NEW q \in Deleting(requests'[u]), NEW e \in Devices,
                       HasArtifactPath(package'[q])
                PROVE  artifact'[e] # q
    BY DEF FilesUnlinked, Deleting
  <2>1. q \in Packages
    BY DEF Deleting
  <2>2. CASE Deleting(requests'[u]) \subseteq Deleting(requests[u])
    <3>1. q \in Deleting(requests[u]) /\ PackageExists(q)
      BY <2>2, DeletingExists
    <3>2. HasArtifactPath(package[q])
      BY <2>1, <3>1 DEF RowsStand, Stands
    <3>3. artifact[e] # q
      BY <3>1, <3>2 DEF RequestFiles, FilesUnlinked
    <3>4. QED
      BY <2>1, <3>1, <3>3
  <2>3. CASE /\ PackageExists(q)
             /\ HasArtifactPath(package[q]) => \A f \in Devices : artifact'[f] # q
    BY <2>1, <2>3 DEF RowsStand, Stands
  <2>4. QED
    BY <2>2, <2>3
<1>5. QED
  BY <1>2, <1>3, <1>4 DEF RequestFiles, FilesInv

\* A step of a thread leaves the others where they are; with a read or a commit
\* it has nothing left to delete.
LEMMA OthersStay ==
  ASSUME RequestInv, NEW t \in Threads, RequestStep(t)
  PROVE  /\ \A u \in Threads \ {t} : requests'[u] = requests[u]
         /\ Reads(t) \/ Commits(t) => Deleting(requests'[t]) = {}
<1>1. requests \in [Threads -> Request] /\ SessionOK(requests[t])
  BY DEF RequestInv, RequestsTypeOK, SessionsOK
<1>2. PICK r : requests' = [requests EXCEPT ![t] = r]
  BY DEF RequestStep, ReadsPackage, ReadsDevice, Unlinks, CommitsExpiry, CommitsGrant,
         CommitsConfirmation, CreateReadsUser, CreateCounts, CreateAllocates,
         CreateCollides, CommitsDevice, CreateBuilds, ResetReadsDevice, RevokeReadsDevice,
         ResetReadsPackages, ResetUnlinks, CommitsReset, ResetBuilds, RevokeUnlinks,
         CommitsRevocation, Sends, Lost, Start, End, Become
<1>3. requests'[t] = r
  BY <1>1, <1>2
<1>4. ASSUME Reads(t) \/ Commits(t)
      PROVE  r.pc \notin {"touched", "locked"}
  <2>1. Idle.pc = "idle"
    BY DEF Idle
  <2>2. ASSUME NEW p \in Packages, NEW op, ReadsPackage(t, op, p)
        PROVE  r.pc \notin {"touched", "locked"}
    <3>1. r = [Idle EXCEPT !.op = op, !.pc = "package_read", !.p = p,
                           !.d = package[p].device, !.rows[p] = package[p]]
      BY <1>1, <1>3, <2>2 DEF ReadsPackage, Start, Become
    <3>2. r.pc = "package_read"
      BY <3>1, IdleRequest DEF Request
    <3>3. QED
      BY <3>2
  <2>3. ASSUME NEW u \in Users, CreateReadsUser(t, u)
        PROVE  r.pc \notin {"touched", "locked"}
    <3>1. r = [Idle EXCEPT !.op = "create", !.pc = "user_read", !.user = u,
                           !.limit = limit[u]]
      BY <1>1, <1>3, <2>3 DEF CreateReadsUser, Start, Become
    <3>2. r.pc = "user_read"
      BY <3>1, IdleRequest DEF Request
    <3>3. QED
      BY <3>2
  <2>4. ASSUME NEW d \in Devices, ResetReadsDevice(t, d) \/ RevokeReadsDevice(t, d)
        PROVE  r.pc \notin {"touched", "locked"}
    <3>1. PICK op \in {"reset", "revoke"} :
            r = [Idle EXCEPT !.op = op, !.pc = "device_read", !.d = d, !.row = device[d]]
      BY <1>1, <1>3, <2>4 DEF ResetReadsDevice, RevokeReadsDevice, Start, Become
    <3>2. r.pc = "device_read"
      BY <3>1, IdleRequest DEF Request
    <3>3. QED
      BY <3>2
  <2>5. CASE ReadsDevice(t)
    BY <1>1, <1>3, <2>1, <2>5 DEF ReadsDevice, Become, Request
  <2>6. CASE CreateCounts(t)
    BY <1>1, <1>3, <2>1, <2>6 DEF CreateCounts, Become, Request
  <2>7. CASE CreateAllocates(t)
    BY <1>1, <1>3, <2>1, <2>7 DEF CreateAllocates, End, Become, Request
  <2>8. CASE ResetReadsPackages(t)
    BY <1>1, <1>3, <2>1, <2>8 DEF ResetReadsPackages, Become, Request
  <2>9. CASE CommitsGrant(t)
    <3>1. r = [Idle EXCEPT !.op = "serve", !.pc = "sending", !.p = requests[t].p]
      BY <1>1, <1>3, <2>9 DEF CommitsGrant, Become
    <3>2. r.pc = "sending"
      BY <3>1, IdleRequest DEF Request
    <3>3. QED
      BY <3>2
  <2>10. CASE \/ Commits(t) /\ ~CommitsGrant(t)
             \/ CreateCollides(t) \/ Sends(t) \/ Lost(t)
    <3>1. End(t)
      BY <2>10 DEF Commits, CommitsExpiry, CommitsConfirmation, CommitsDevice,
                  CommitsReset, CommitsRevocation, CreateCollides, Sends, Lost
    <3>2. QED
      BY <1>1, <1>3, <2>1, <3>1 DEF End, Become
  <2>11. QED
    BY <1>4, <2>2, <2>3, <2>4, <2>5, <2>6, <2>7, <2>8, <2>9, <2>10 DEF Reads
<1>5. Reads(t) \/ Commits(t) => Deleting(requests'[t]) = {}
  BY <1>3, <1>4 DEF Deleting
<1>6. QED
  BY <1>1, <1>2, <1>5

\* The commit of a build gives the file it wrote its row.
LEMMA BuiltFileHasRow ==
  ASSUME RequestInv, NEW t \in Threads, CommitsDevice(t) \/ CommitsReset(t)
  PROVE  /\ NewBuild(requests[t]) /\ requests[t].pc = "locked"
         /\ package'[requests[t].p] = PackageAfterBuild(requests[t].d, requests[t].outcome)
         /\ \A q \in Packages : ~PackageExists(q) /\ PackageExists(q)' => q = requests[t].p
         /\ ~package'[requests[t].p].deleted
         /\ package'[requests[t].p].device = requests[t].d
<1>. DEFINE r == requests[t]
<1>1. SessionOK(r) /\ r.outcome \in BuildOutcome /\ r.pc = "locked" /\ r.op # "revoke"
  BY DEF RequestInv, SessionsOK, RequestsTypeOK, Request, CommitsDevice, CommitsReset, At
<1>2. NewBuild(r)
  BY <1>1 DEF SessionOK, Idle, PackageSession, SendingSession, CreateSession, ResetSession,
              RevokeSession
<1>3. AddsPackage(r)
  BY DeviceCommits, ResetCommits
<1>4. /\ package'[r.p] = PackageAfterBuild(r.d, r.outcome)
      /\ \A q \in Packages : ~PackageExists(q) /\ PackageExists(q)' => q = r.p
  BY <1>2, <1>3 DEF AddsPackage, NewBuild, PackageExists
<1>5. /\ ~PackageAfterBuild(r.d, r.outcome).deleted
      /\ PackageAfterBuild(r.d, r.outcome).device = r.d
  BY <1>1, <1>2, BuiltIsNotDeleted, BuildRows, FreshRows DEF NewBuild
<1>6. QED
  BY <1>1, <1>2, <1>4, <1>5

\* Files are in order after every step: those a request is to delete go before
\* its commit, a build writes that of a package the table does not have yet, and
\* its commit adds this very package.
LEMMA FilesStayInOrder ==
  ASSUME RequestInv, RequestFiles, [RequestsNext]_requestVars
  PROVE  RequestFiles'
<1>. DEFINE ToDelete == UNION {Deleting(requests[u]) : u \in Threads}
<1>1. TypeOK /\ RowsStand /\ requests \in [Threads -> Request]
  BY RequestsStep DEF RequestInv, RequestsTypeOK
<1>2. None \notin Packages
  BY IdentifierAssumption
(* Steps that leave the files and what is to be deleted as they are. *)
<1>3. ASSUME NoNewRows, artifact' = artifact, OnlyDeletes(ToDelete),
             \A u \in Threads : Deleting(requests'[u]) \subseteq Deleting(requests[u])
      PROVE  RequestFiles'
  BY <1>1, <1>3, FilesInOrder DEF NoNewRows, PackageExists
<1>4. ASSUME NEW t \in Threads, RequestStep(t)
      PROVE  RequestFiles'
  <2>1. /\ \A u \in Threads \ {t} : requests'[u] = requests[u]
        /\ Reads(t) \/ Commits(t) => Deleting(requests'[t]) = {}
    BY <1>4, OthersStay
  <2>2. Reads(t) \/ Commits(t) =>
          \A u \in Threads : Deleting(requests'[u]) \subseteq Deleting(requests[u])
    BY <2>1
  <2>3. CASE Reads(t)
    <3>1. NoNewRows /\ OnlyDeletes({}) /\ artifact' = artifact
      BY <1>1, <2>3, ReadsOnly, SameRows
    <3>2. OnlyDeletes(ToDelete)
      BY <3>1 DEF OnlyDeletes
    <3>3. QED
      BY <1>3, <2>2, <2>3, <3>1, <3>2
  <2>4. CASE Deletes(t)
    <3>1. UnlinksFirst(t)
      BY <2>4, UnlinksKeepInv DEF Deletes
    <3>2. NoNewRows /\ OnlyDeletes({})
      BY <1>1, <3>1, SameRows DEF UnlinksFirst
    <3>3. \A q \in Packages, e \in Devices : artifact'[e] = q => artifact[e] = q
      BY <1>2, <3>1 DEF UnlinksFirst, FilesOnlyGo
    <3>4. ASSUME NEW q \in Deleting(requests'[t])
          PROVE  /\ PackageExists(q)
                 /\ HasArtifactPath(package[q]) => \A e \in Devices : artifact'[e] # q
      <4>1. /\ q \in Packages /\ PackageExists(q)
            /\ HasArtifactPath(package[q]) =>
                 package[q].device = requests[t].d /\ artifact'[requests[t].d] = None
        BY <3>1 DEF UnlinksFirst, Deleting
      <4>2. QED
        BY <1>2, <3>3, <4>1 DEF RequestFiles, FilesInv, FilesOwned
    <3>5. OnlyDeletes(ToDelete)
      BY <3>2 DEF OnlyDeletes
    <3>6. \A u \in Threads :
            \/ Deleting(requests'[u]) \subseteq Deleting(requests[u])
            \/ \A q \in Deleting(requests'[u]) :
                 /\ PackageExists(q)
                 /\ HasArtifactPath(package[q]) => \A e \in Devices : artifact'[e] # q
      BY <2>1, <3>4
    <3>7. QED
      BY <1>1, <3>2, <3>3, <3>5, <3>6, FilesInOrder DEF NoNewRows, PackageExists
  <2>5. CASE Builds(t)
    <3>1. BuildsNew(t)
      BY <2>5, BuildsKeepInv DEF Builds
    <3>2. NoNewRows /\ OnlyDeletes({})
      BY <1>1, <3>1, SameRows DEF BuildsNew
    <3>3. \A u \in Threads : Deleting(requests'[u]) \subseteq Deleting(requests[u])
      BY <2>1, <3>1 DEF BuildsNew
    <3>4. \A q \in Packages, e \in Devices :
            PackageExists(q) /\ artifact'[e] = q => artifact[e] = q
      BY <3>1 DEF BuildsNew, UnusedPackage, FreshPackage
    <3>5. OnlyDeletes(ToDelete)
      BY <3>2 DEF OnlyDeletes
    <3>6. QED
      BY <1>1, <3>2, <3>3, <3>4, <3>5, FilesInOrder DEF NoNewRows, PackageExists
  <2>6. CASE Commits(t)
    <3>1. artifact' = artifact
      BY <2>6 DEF Commits, CommitsExpiry, CommitsGrant, CommitsConfirmation,
                  CommitsDevice, CommitsReset, CommitsRevocation
    <3>2. OnlyDeletes(ToDelete)
      BY <2>6, PackageCommits, DeviceCommits, ResetCommits, RevocationCommits
         DEF Commits, OnlyDeletes
    <3>3. CASE CommitsDevice(t) \/ CommitsReset(t)
      <4>1. ASSUME NEW q \in Packages, ~PackageExists(q), PackageExists(q)'
            PROVE  /\ ~package'[q].deleted
                   /\ \A e \in Devices : artifact'[e] = q => e = package'[q].device
        BY <3>1, <3>3, <4>1, BuiltFileHasRow DEF NewBuild
      <4>2. QED
        BY <1>1, <2>2, <2>6, <3>1, <3>2, <4>1, FilesInOrder
    <3>4. CASE ~(CommitsDevice(t) \/ CommitsReset(t))
      <4>1. NoNewRows
        BY <2>6, <3>4, PackageCommits, RevocationCommits DEF Commits
      <4>2. QED
        BY <1>3, <2>2, <2>6, <3>1, <3>2, <4>1
    <3>5. QED
      BY <3>3, <3>4
  <2>7. QED
    BY <1>4, <2>3, <2>4, <2>5, <2>6, StepKinds
<1>5. CASE ShortRequest \/ Background
  <2>1. NoNewRows /\ OnlyDeletes({}) /\ artifact' = artifact /\ requests' = requests
    BY <1>5, BackgroundWrites DEF ShortRequest, Background
  <2>2. QED
    BY <1>3, <2>1 DEF OnlyDeletes
<1>6. CASE UNCHANGED requestVars
  <2>1. UNCHANGED <<device, package, artifact, requests>>
    BY <1>6 DEF requestVars, vars
  <2>2. NoNewRows /\ OnlyDeletes({})
    BY <1>1, <2>1, SameRows
  <2>3. QED
    BY <1>3, <2>1, <2>2 DEF OnlyDeletes
<1>7. QED
  BY <1>4, <1>5, <1>6 DEF RequestsNext

\* And so do the files.
LEMMA RequestsFilesInductive == RequestsSpec => []RequestFiles
<1>1. RequestsInit => RequestFiles
  <2>. SUFFICES ASSUME RequestsInit PROVE RequestFiles
    OBVIOUS
  <2>1. ~NoPackage.deleted /\ NoPackage.status = "absent"
    BY DEF NoPackage
  <2>2. FilesInv
    BY <2>1 DEF RequestsInit, Init, FilesInv, FilesOwned, DeletedMeansGone, PackageExists
  <2>3. \A t \in Threads : Deleting(requests[t]) = {}
    BY DEF RequestsInit, Deleting, Idle
  <2>4. QED
    BY <2>2, <2>3 DEF RequestFiles, FilesUnlinked
<1>2. RequestInv /\ RequestFiles /\ [RequestsNext]_requestVars => RequestFiles'
  BY FilesStayInOrder
<1>3. QED
  BY <1>1, <1>2, RequestsInductive, PTL DEF RequestsSpec

\* However requests interleave, and wherever one is lost, an installer whose
\* deletion the row of its package records is not on disk.
THEOREM RequestsDeletedAreGone == RequestsSpec => []DeletedMeansGone
<1>1. RequestFiles => DeletedMeansGone
  BY DEF RequestFiles, FilesInv
<1>2. QED
  BY <1>1, RequestsFilesInductive, PTL

\* The holder of the lock is lost, or commits what took it.
LEMMA HolderEnds ==
  ASSUME NEW t \in Threads, requests[t].pc = "locked"
  PROVE  /\ Reads(t) => Lost(t)
         /\ Commits(t) => CommitsDevice(t) \/ CommitsReset(t) \/ CommitsRevocation(t)
<1>1. requests[t] # Idle
  BY DEF Idle
<1>2. /\ \A p, op : ~ReadsPackage(t, op, p)
      /\ \A u : ~CreateReadsUser(t, u)
      /\ \A d : ~ResetReadsDevice(t, d) /\ ~RevokeReadsDevice(t, d)
  BY <1>1 DEF ReadsPackage, CreateReadsUser, ResetReadsDevice, RevokeReadsDevice, Start
<1>3. /\ ~ReadsDevice(t) /\ ~CreateCounts(t) /\ ~CreateAllocates(t) /\ ~CreateCollides(t)
      /\ ~ResetReadsPackages(t) /\ ~Sends(t)
  BY DEF ReadsDevice, CreateCounts, CreateAllocates, CreateCollides, ResetReadsPackages,
         Sends, At
<1>4. ~CommitsExpiry(t) /\ ~CommitsGrant(t) /\ ~CommitsConfirmation(t)
  BY DEF CommitsExpiry, CommitsGrant, CommitsConfirmation, At
<1>5. QED
  BY <1>2, <1>3, <1>4 DEF Reads, Commits

\* A file with a row that stands and is not deleted keeps it.
LEMMA RowStillOwns ==
  ASSUME RequestInv, RequestFiles, RowsStand, NEW t \in Threads,
         OnlyDeletes(Deleting(requests[t])) \/ OnlyDeletes({}),
         NEW d \in Devices, NEW p \in Packages, artifact[d] = p,
         package[p].device = d, HasArtifactPath(package[p]), ~package[p].deleted
  PROVE  package'[p].device = d /\ HasArtifactPath(package'[p]) /\ ~package'[p].deleted
<1>1. PackageExists(p)
  BY DEF RequestInv, RequestsTypeOK, TypeOK, PackageExists, NoPackage, HasArtifactPath
<1>2. package'[p].device = d /\ HasArtifactPath(package'[p])
  BY <1>1 DEF RowsStand, Stands
<1>3. p \notin Deleting(requests[t])
  BY DEF RequestFiles, FilesUnlinked
<1>4. QED
  BY <1>2, <1>3 DEF OnlyDeletes

\* While files are followed, owning one is having its path and no deletion date.
FilesRecorded ==
  \A d \in Devices \ orphaned : artifact[d] # None =>
    LET p == artifact[d] IN
    \/ \E t \in Threads : requests[t].pc = "locked" /\ requests[t].p = p
    \/ package[p].device = d /\ HasArtifactPath(package[p]) /\ ~package[p].deleted

\* If a builder that fails leaves no file behind, every file on the disk is
\* followed from the build to the commit, and from the commit to the deletion.
LEMMA FilesStayRecorded ==
  ASSUME "late_build_failure" \notin Faults,
         RequestInv, RequestFiles, FilesRecorded, [RequestsNext]_requestVars
  PROVE  FilesRecorded'
<1>1. /\ TypeOK /\ RowsStand /\ requests \in [Threads -> Request] /\ OneLock
      /\ artifact \in [Devices -> Packages \cup {None}]
      /\ None \notin Packages
  BY RequestsStep, IdentifierAssumption DEF RequestInv, RequestsTypeOK, TypeOK
<1>. SUFFICES ASSUME NEW d \in Devices \ orphaned', artifact'[d] # None
              PROVE  \/ \E t \in Threads :
                          requests'[t].pc = "locked" /\ requests'[t].p = artifact'[d]
                     \/ /\ package'[artifact'[d]].device = d
                        /\ HasArtifactPath(package'[artifact'[d]])
                        /\ ~package'[artifact'[d]].deleted
  BY DEF FilesRecorded, HasArtifactPath
<1>. DEFINE p == artifact[d]
            Held(t) == requests[t].pc = "locked" /\ requests[t].p = p
            Owned == package[p].device = d /\ HasArtifactPath(package[p]) /\ ~package[p].deleted
<1>2. p \in Packages \cup {None}
  BY <1>1
<1>3. ASSUME d \notin orphaned, p # None
      PROVE  Owned \/ \E t \in Threads : Held(t)
  BY <1>3 DEF FilesRecorded
<1>4. ASSUME NEW t \in Threads, RequestStep(t)
      PROVE  \/ \E u \in Threads :
                  requests'[u].pc = "locked" /\ requests'[u].p = artifact'[d]
             \/ /\ package'[artifact'[d]].device = d
                /\ HasArtifactPath(package'[artifact'[d]])
                /\ ~package'[artifact'[d]].deleted
  <2>1. \A u \in Threads \ {t} : requests'[u] = requests[u]
    BY <1>4, OthersStay
  <2>2. d \notin orphaned
    BY <1>4 DEF RequestStep, ReadsPackage, ReadsDevice, Unlinks, CommitsExpiry,
       CommitsGrant, CommitsConfirmation, CreateReadsUser, CreateCounts, CreateAllocates,
       CreateCollides, CommitsDevice, CreateBuilds, ResetReadsDevice, RevokeReadsDevice,
       ResetReadsPackages, ResetUnlinks, CommitsReset, ResetBuilds, RevokeUnlinks,
       CommitsRevocation, Sends, Lost, history
  (* The file was there before, and has a row. *)
  <2>3. ASSUME artifact'[d] = p, Owned,
               OnlyDeletes(Deleting(requests[t])) \/ OnlyDeletes({})
        PROVE  /\ package'[artifact'[d]].device = d
               /\ HasArtifactPath(package'[artifact'[d]])
               /\ ~package'[artifact'[d]].deleted
    BY <1>1, <1>2, <2>3, RowStillOwns
  (* The file was there before, and waits for the commit of its build. *)
  <2>4. ASSUME NEW u \in Threads, Held(u), artifact'[d] = p,
               u # t \/ requests[t].pc # "locked"
        PROVE  \E v \in Threads : requests'[v].pc = "locked" /\ requests'[v].p = artifact'[d]
    BY <2>1, <2>4
  <2>5. CASE Reads(t)
    <3>1. artifact'[d] = p /\ OnlyDeletes({})
      BY <1>1, <2>5, ReadsOnly, SameRows
    <3>2. ASSUME Held(t) PROVE FALSE
      <4>1. Lost(t)
        BY <2>5, <3>2, HolderEnds
      <4>2. QED
        BY <3>1, <3>2, <4>1 DEF Lost
    <3>3. QED
      BY <1>3, <2>2, <2>3, <2>4, <3>1, <3>2
  <2>6. CASE Deletes(t)
    <3>1. UnlinksFirst(t) /\ requests[t].pc # "locked"
      BY <2>6, UnlinksKeepInv DEF Deletes, Unlinks, ResetUnlinks, RevokeUnlinks, At
    <3>2. artifact'[d] = p /\ OnlyDeletes({})
      BY <1>1, <3>1, SameRows DEF UnlinksFirst, FilesOnlyGo
    <3>3. QED
      BY <1>3, <2>2, <2>3, <2>4, <3>1, <3>2
  <2>7. CASE Builds(t)
    <3>1. BuildsNew(t)
      BY <2>7, BuildsKeepInv DEF Builds
    <3>2. CASE artifact'[d] = requests'[t].p
      BY <3>1, <3>2 DEF BuildsNew
    <3>3. CASE artifact'[d] = p
      <4>1. OnlyDeletes({}) /\ \A u \in Threads : ~Held(u)
        BY <1>1, <3>1, SameRows DEF BuildsNew, Unlocked
      <4>2. QED
        BY <1>3, <2>2, <2>3, <3>3, <4>1
    <3>4. QED
      BY <3>1, <3>2, <3>3 DEF BuildsNew
  <2>8. CASE Commits(t)
    <3>1. artifact'[d] = p
      BY <2>8 DEF Commits, CommitsExpiry, CommitsGrant, CommitsConfirmation,
                  CommitsDevice, CommitsReset, CommitsRevocation
    <3>2. OnlyDeletes(Deleting(requests[t])) \/ OnlyDeletes({})
      BY <2>8, PackageCommits, DeviceCommits, ResetCommits, RevocationCommits DEF Commits
    <3>3. CASE Owned
      BY <2>3, <3>1, <3>2, <3>3
    <3>4. CASE \E u \in Threads : Held(u)
      <4>1. CASE ~Held(t)
        BY <2>4, <3>1, <3>4, <4>1
      <4>2. CASE Held(t)
        <5>1. p \in Packages /\ requests[t].p = p
          BY <1>2, <3>1, <4>2
        <5>2. CommitsDevice(t) \/ CommitsReset(t)
          <6>1. SessionOK(requests[t])
            BY DEF RequestInv, SessionsOK
          <6>2. requests[t].op = "revoke" => RevokeSession(requests[t])
            BY <4>2, <6>1 DEF SessionOK, Idle, PackageSession, SendingSession,
                              CreateSession, ResetSession
          <6>3. ~CommitsRevocation(t)
            BY <1>1, <5>1, <6>2 DEF CommitsRevocation, At, RevokeSession
          <6>4. QED
            BY <2>8, <4>2, <6>3, HolderEnds
        <5>3. requests[t].d = d /\ requests[t].outcome = "built"
          BY <5>1, <5>2, BuiltFileHasRow DEF NewBuild, BuildMay, BuildWritesFile
        <5>4. package'[p] = PackageAfterBuild(d, "built")
          BY <5>1, <5>2, <5>3, BuiltFileHasRow
        <5>5. HasArtifactPath(PackageAfterBuild(d, "built"))
          BY DEF PackageAfterBuild, NoPackage, HasArtifactPath
        <5>6. package'[p].device = d /\ ~package'[p].deleted
          BY <5>1, <5>2, <5>3, BuiltFileHasRow
        <5>7. QED
          BY <3>1, <5>4, <5>5, <5>6
      <4>3. QED
        BY <4>1, <4>2
    <3>5. QED
      BY <1>3, <2>2, <3>1, <3>3, <3>4
  <2>9. QED
    BY <1>4, <2>5, <2>6, <2>7, <2>8, StepKinds
<1>5. CASE ShortRequest \/ Background \/ UNCHANGED requestVars
  <2>1. /\ requests' = requests /\ orphaned' = orphaned
        /\ artifact' = artifact /\ OnlyDeletes({})
    <3>1. CASE ShortRequest \/ Background
      BY <3>1, BackgroundWrites DEF ShortRequest, Background, history
    <3>2. CASE UNCHANGED requestVars
      <4>1. UNCHANGED <<device, package, artifact, requests, orphaned>>
        BY <3>2 DEF requestVars, vars, history
      <4>2. QED
        BY <1>1, <4>1, SameRows
    <3>3. QED
      BY <1>5, <3>1, <3>2
  <2>2. CASE \E t \in Threads : Held(t)
    BY <2>1, <2>2
  <2>3. CASE Owned
    <3>1. PackageExists(p) /\ p \in Packages
      BY <1>1, <1>2, <2>1, <2>3 DEF TypeOK, PackageExists, NoPackage, HasArtifactPath
    <3>2. QED
      BY <1>1, <2>1, <2>3, <3>1 DEF RowsStand, Stands, OnlyDeletes
  <2>4. QED
    BY <1>3, <2>1, <2>2, <2>3
<1>6. QED
  BY <1>4, <1>5 DEF RequestsNext

\* A package with a path that is not deleted can be downloaded: whatever ends a
\* package deletes it in the same flush.
UndeletedOnOffer ==
  \A q \in Packages :
    HasArtifactPath(package[q]) /\ ~package[q].deleted => MayDownload(package[q])

\* A row that is new to the table is that of a build.
LEMMA NewRowsBuilt ==
  ASSUME RequestInv, [RequestsNext]_requestVars, NEW q \in Packages, ~PackageExists(q)
  PROVE  \/ package'[q] = package[q]
         \/ \E d, outcome : package'[q] = PackageAfterBuild(d, outcome)
<1>1. ASSUME NEW t \in Threads, RequestStep(t)
      PROVE  \/ package'[q] = package[q]
             \/ \E d, outcome : package'[q] = PackageAfterBuild(d, outcome)
  <2>1. CASE Commits(t)
    <3>1. NoNewRows \/ AddsPackage(requests[t])
      BY <2>1, PackageCommits, DeviceCommits, ResetCommits, RevocationCommits DEF Commits
    <3>2. CASE NoNewRows
      BY <3>2 DEF NoNewRows
    <3>3. CASE AddsPackage(requests[t])
      BY <3>3 DEF AddsPackage
    <3>4. QED
      BY <3>1, <3>2, <3>3
  <2>2. CASE Reads(t) \/ Deletes(t) \/ Builds(t)
    BY <2>2, ReadsOnly
       DEF Deletes, Builds, Unlinks, ResetUnlinks, RevokeUnlinks, CreateBuilds, ResetBuilds
  <2>3. QED
    BY <1>1, <2>1, <2>2, StepKinds
<1>2. CASE ShortRequest \/ Background
  BY <1>2, BackgroundWrites DEF NoNewRows
<1>3. CASE UNCHANGED requestVars
  BY <1>3 DEF requestVars, vars
<1>4. QED
  BY <1>1, <1>2, <1>3 DEF RequestsNext

\* So no interleaving leaves a package on the disk that can no longer be
\* downloaded, nor therefore expired.
LEMMA OffersStand ==
  ASSUME RequestInv, UndeletedOnOffer, [RequestsNext]_requestVars
  PROVE  UndeletedOnOffer'
<1>. SUFFICES ASSUME NEW q \in Packages,
                     HasArtifactPath(package'[q]), ~package'[q].deleted
              PROVE  MayDownload(package'[q])
  BY DEF UndeletedOnOffer, MayDownload, HasArtifactPath
<1>1. TypeOK /\ RowsStand
  BY RequestsStep DEF RequestInv, RequestsTypeOK
<1>2. CASE PackageExists(q)
  <2>1. Stands(package[q], package'[q])
    BY <1>1, <1>2 DEF RowsStand
  <2>2. MayDownload(package[q])
    BY <2>1 DEF Stands, UndeletedOnOffer
  <2>3. QED
    BY <2>1, <2>2 DEF Stands, MayDownload
<1>3. CASE ~PackageExists(q)
  <2>1. ~HasArtifactPath(package[q])
    BY <1>1, <1>3 DEF TypeOK, PackageExists, NoPackage, HasArtifactPath
  <2>2. PICK d, outcome : package'[q] = PackageAfterBuild(d, outcome)
    BY <1>3, <2>1, NewRowsBuilt
  <2>3. outcome = "built"
    BY <2>2 DEF PackageAfterBuild, NoPackage, HasArtifactPath
  <2>4. QED
    BY <2>2, <2>3 DEF PackageAfterBuild, NoPackage, MayDownload, Downloadable
<1>4. QED
  BY <1>2, <1>3

\* Where a builder that fails leaves no file, every file on the disk is that of a
\* build in progress or of a package whose next download can hand it out or
\* delete it; only what a lost request had built is out of reach.
THEOREM RequestsLeaveNoStrays ==
  ASSUME "late_build_failure" \notin Faults
  PROVE  RequestsSpec => []NoStrayArtifacts
<1>1. RequestsInit => FilesRecorded /\ UndeletedOnOffer
  BY DEF RequestsInit, Init, FilesRecorded, UndeletedOnOffer, NoPackage, HasArtifactPath
<1>2. /\ RequestInv /\ RequestFiles
      /\ FilesRecorded /\ UndeletedOnOffer
      /\ [RequestsNext]_requestVars
      => FilesRecorded' /\ UndeletedOnOffer'
  BY FilesStayRecorded, OffersStand
<1>3. RequestInv /\ FilesRecorded /\ UndeletedOnOffer => NoStrayArtifacts
  <2>. SUFFICES ASSUME RequestInv, FilesRecorded, UndeletedOnOffer,
                       NEW d \in Devices \ orphaned, artifact[d] # None,
                       NEW p, p = artifact[d]
                PROVE  \/ \E t \in Threads : requests[t].pc = "locked" /\ requests[t].p = p
                       \/ /\ package[p].device = d
                          /\ HasArtifactPath(package[p]) /\ MayDownload(package[p])
    BY DEF NoStrayArtifacts
  <2>1. p \in Packages
    BY DEF RequestInv, RequestsTypeOK, TypeOK
  <2>2. QED
    BY <2>1 DEF FilesRecorded, UndeletedOnOffer
<1>4. QED
  BY <1>1, <1>2, <1>3, RequestsInductive, RequestsFilesInductive, PTL DEF RequestsSpec

-----------------------------------------------------------------------------
(***************************************************************************)
(* Confirmations and their jobs.                                           *)
(***************************************************************************)

\* With the finiteness that makes both sides numbers: Packages may be infinite.
ConfirmationsCounted ==
  /\ \A d \in Devices : IsFiniteSet(ConfirmedOf(d))
  /\ ConfirmationsHaveJobs

\* A step confirms only what was confirmed and what it lists.
LEMMA OnlyThoseConfirmed ==
  ASSUME RequestInv, RowsStand, NEW S, OnlyConfirms(S), NEW d \in Devices
  PROVE  ConfirmedOf(d)' \subseteq
           ConfirmedOf(d) \cup {q \in Packages :
                                q \in S /\ (PackageExists(q) => package[q].device = d)}
<1>. SUFFICES ASSUME NEW q \in Packages, package'[q].device = d, package'[q].confirmed
              PROVE  \/ package[q].device = d /\ package[q].confirmed
                     \/ q \in S /\ (PackageExists(q) => package[q].device = d)
  BY DEF ConfirmedOf, PackagesOf
<1>1. PackageExists(q) => package[q].device = d
  BY DEF RowsStand, Stands
<1>2. CASE package[q].confirmed
  <2>1. PackageExists(q)
    BY <1>2 DEF RequestInv, RequestsTypeOK, TypeOK, PackageExists, NoPackage
  <2>2. QED
    BY <1>1, <1>2, <2>1
<1>3. CASE ~package[q].confirmed
  BY <1>1, <1>3 DEF OnlyConfirms
<1>4. QED
  BY <1>2, <1>3

\* Steps that confirm nothing and take no apply_peer job away.
LEMMA UnconfirmingCounted ==
  ASSUME RequestInv, RowsStand, ConfirmationsCounted, OnlyConfirms({}),
         \A d \in Devices : JobsOf("apply_peer", d)' = JobsOf("apply_peer", d)
  PROVE  ConfirmationsCounted'
<1>. SUFFICES ASSUME NEW d \in Devices
              PROVE  /\ IsFiniteSet(ConfirmedOf(d)')
                     /\ Cardinality(ConfirmedOf(d)') <= Cardinality(JobsOf("apply_peer", d)')
  BY DEF ConfirmationsCounted, ConfirmationsHaveJobs, ConfirmedOf
<1>1. ConfirmedOf(d)' \in SUBSET ConfirmedOf(d)
  BY OnlyThoseConfirmed
<1>2. /\ IsFiniteSet(ConfirmedOf(d))
      /\ Cardinality(ConfirmedOf(d)) <= Cardinality(JobsOf("apply_peer", d))
  BY DEF ConfirmationsCounted, ConfirmationsHaveJobs, ConfirmedOf
<1>3. /\ IsFiniteSet(ConfirmedOf(d)')
      /\ Cardinality(ConfirmedOf(d)') <= Cardinality(ConfirmedOf(d))
  BY <1>1, <1>2, FS_Subset
<1>4. /\ Cardinality(ConfirmedOf(d)') \in Nat /\ Cardinality(ConfirmedOf(d)) \in Nat
      /\ Cardinality(JobsOf("apply_peer", d)) \in Nat
  BY <1>2, <1>3, FiniteJobs, FS_CardinalityType DEF RequestInv, RequestsTypeOK
<1>5. QED
  BY <1>2, <1>3, <1>4

\* A confirmation commits one package and one job with it.
LEMMA ConfirmingCounted ==
  ASSUME RequestInv, ConfirmationsCounted, NEW t \in Threads, CommitsConfirmation(t)
  PROVE  ConfirmationsCounted'
<1>. DEFINE r == requests[t]
            new == Len(jobs) + 1
<1>1. TypeOK /\ RowsStand /\ OnlyConfirms({r.p}) /\ Enqueue("apply_peer", r.d)
  BY PackageCommits DEF RequestInv, RequestsTypeOK, CommitsConfirmation
<1>2. r.p \in Packages /\ r.d \in Devices /\ PackageExists(r.p) /\ package[r.p].device = r.d
  BY DEF RequestInv, SessionsOK, SessionOK, Idle, PackageSession, SendingSession,
         CreateSession, ResetSession, RevokeSession, LoadedPackage, CommitsConfirmation, At
<1>3. new \notin DOMAIN jobs
  BY <1>1, <1>2, Appended
<1>. SUFFICES ASSUME NEW d \in Devices
              PROVE  /\ IsFiniteSet(ConfirmedOf(d)')
                     /\ Cardinality(ConfirmedOf(d)') <= Cardinality(JobsOf("apply_peer", d)')
  BY DEF ConfirmationsCounted, ConfirmationsHaveJobs, ConfirmedOf
<1>4. /\ IsFiniteSet(ConfirmedOf(d))
      /\ Cardinality(ConfirmedOf(d)) <= Cardinality(JobsOf("apply_peer", d))
      /\ Cardinality(ConfirmedOf(d)) \in Nat
      /\ IsFiniteSet(JobsOf("apply_peer", d)) /\ Cardinality(JobsOf("apply_peer", d)) \in Nat
  BY <1>1, FiniteJobs, FS_CardinalityType
     DEF ConfirmationsCounted, ConfirmationsHaveJobs, ConfirmedOf
<1>5. ConfirmedOf(d)' \subseteq
        ConfirmedOf(d) \cup {q \in Packages :
                             q \in {r.p} /\ (PackageExists(q) => package[q].device = d)}
  BY <1>1, OnlyThoseConfirmed
<1>6. JobsOf("apply_peer", d)' = IF d = r.d THEN JobsOf("apply_peer", d) \cup {new}
                                 ELSE JobsOf("apply_peer", d)
  BY <1>1, <1>2, AppendedJobsOf
<1>. DEFINE all == ConfirmedOf(d) \cup {r.p}
<1>7. CASE d = r.d
  <2>1. ConfirmedOf(d)' \in SUBSET all
    BY <1>5
  <2>2. /\ IsFiniteSet(all) /\ Cardinality(all) <= Cardinality(ConfirmedOf(d)) + 1
        /\ Cardinality(all) \in Nat
    <3>1. /\ IsFiniteSet(all)
          /\ Cardinality(all) \in {Cardinality(ConfirmedOf(d)), Cardinality(ConfirmedOf(d)) + 1}
      BY <1>4, FS_AddElement, Zenon
    <3>. HIDE DEF all
    <3>2. QED
      BY <1>4, <3>1
  <2>. HIDE DEF all
  <2>3. /\ IsFiniteSet(ConfirmedOf(d)') /\ Cardinality(ConfirmedOf(d)') <= Cardinality(all)
        /\ Cardinality(ConfirmedOf(d)') \in Nat
    BY <2>1, <2>2, FS_Subset, FS_CardinalityType
  <2>4. Cardinality(JobsOf("apply_peer", d)') = Cardinality(JobsOf("apply_peer", d)) + 1
    <3>1. new \notin JobsOf("apply_peer", d)
      BY <1>3 DEF JobsOf
    <3>2. JobsOf("apply_peer", d)' = JobsOf("apply_peer", d) \cup {new}
      BY <1>6, <1>7
    <3>. HIDE DEF new
    <3>3. QED
      BY <1>4, <3>1, <3>2, FS_AddElement, Zenon
  <2>5. QED
    BY <1>4, <2>2, <2>3, <2>4
<1>8. CASE d # r.d
  <2>1. ConfirmedOf(d)' \in SUBSET ConfirmedOf(d)
    BY <1>2, <1>5, <1>8
  <2>2. /\ IsFiniteSet(ConfirmedOf(d)')
        /\ Cardinality(ConfirmedOf(d)') <= Cardinality(ConfirmedOf(d))
        /\ Cardinality(ConfirmedOf(d)') \in Nat
    BY <1>4, <2>1, FS_Subset, FS_CardinalityType
  <2>3. QED
    BY <1>4, <1>6, <1>8, <2>2
<1>9. QED
  BY <1>7, <1>8

\* No other step confirms a package, and none takes a job away.
LEMMA ConfirmationsStayCounted ==
  ASSUME RequestInv, ConfirmationsCounted, [RequestsNext]_requestVars
  PROVE  ConfirmationsCounted'
<1>1. TypeOK /\ RowsStand /\ jobs \in Seq(Job)
  BY RequestsStep DEF RequestInv, RequestsTypeOK, TypeOK
<1>2. ASSUME OnlyConfirms({}), jobs' = jobs
      PROVE  ConfirmationsCounted'
  BY <1>1, <1>2, UnconfirmingCounted DEF JobsOf
<1>3. ASSUME NEW t \in Threads, RequestStep(t)
      PROVE  ConfirmationsCounted'
  <2>1. CASE Reads(t)
    BY <1>1, <1>2, <2>1, ReadsOnly, SameRows
  <2>2. CASE Deletes(t)
    BY <1>1, <1>2, <2>2, UnlinksKeepInv, SameRows DEF Deletes, UnlinksFirst
  <2>3. CASE Builds(t)
    BY <1>1, <1>2, <2>3, BuildsKeepInv, SameRows DEF Builds, BuildsNew
  <2>4. CASE CommitsConfirmation(t)
    BY <2>4, ConfirmingCounted
  <2>5. CASE CommitsRevocation(t)
    <3>1. OnlyConfirms({}) /\ Enqueue("remove_peer", requests[t].d)
      BY <2>5, RevocationCommits DEF CommitsRevocation
    <3>2. requests[t].d \in Devices
      BY <2>5 DEF RequestInv, SessionsOK, SessionOK, Idle, PackageSession, SendingSession,
                  CreateSession, ResetSession, RevokeSession, LoadedDevice,
                  CommitsRevocation, At
    <3>3. \A d \in Devices : JobsOf("apply_peer", d)' = JobsOf("apply_peer", d)
      BY <1>1, <3>1, <3>2, AppendedJobsOf
    <3>4. QED
      BY <1>1, <3>1, <3>3, UnconfirmingCounted
  <2>6. CASE CommitsExpiry(t) \/ CommitsGrant(t) \/ CommitsDevice(t) \/ CommitsReset(t)
    <3>1. jobs' = jobs
      BY <2>6 DEF CommitsExpiry, CommitsGrant, CommitsDevice, CommitsReset
    <3>2. CASE CommitsConfirmation(t)
      BY <3>2, ConfirmingCounted
    <3>3. CASE ~CommitsConfirmation(t)
      BY <1>2, <2>6, <3>1, <3>3, PackageCommits, DeviceCommits, ResetCommits
    <3>4. QED
      BY <3>2, <3>3
  <2>7. QED
    BY <1>3, <2>1, <2>2, <2>3, <2>4, <2>5, <2>6, StepKinds DEF Commits
<1>4. CASE ShortRequest \/ Background
  <2>1. OnlyConfirms({})
    BY <1>4, BackgroundWrites
  <2>2. CASE jobs' = jobs
    BY <1>2, <2>1, <2>2
  <2>3. CASE jobs' # jobs
    <3>1. PICK i \in DOMAIN jobs, st \in {"succeeded", "failed"} :
            jobs' = [jobs EXCEPT ![i].status = st]
      BY <1>4, <2>3 DEF ShortRequest, Background, ReportLost, UpdateUser, WorkerNext,
                        JobSucceeds, JobFails, WindowCloses
    <3>2. /\ DOMAIN jobs' = DOMAIN jobs
          /\ \A k \in DOMAIN jobs : /\ jobs'[k].type = jobs[k].type
                                    /\ jobs'[k].device = jobs[k].device
      <4>1. jobs[i] \in Job
        BY <1>1
      <4>2. QED
        BY <1>1, <3>1, <4>1 DEF Job
    <3>3. \A d \in Devices : JobsOf("apply_peer", d)' = JobsOf("apply_peer", d)
      BY <3>2 DEF JobsOf
    <3>4. QED
      BY <1>1, <2>1, <3>3, UnconfirmingCounted
  <2>4. QED
    BY <2>2, <2>3
<1>5. CASE UNCHANGED requestVars
  BY <1>1, <1>2, <1>5, SameRows DEF requestVars, vars
<1>6. QED
  BY <1>3, <1>4, <1>5 DEF RequestsNext

\* Each confirmation that commits brings its apply_peer job, and no other request
\* that writes over its rows takes it back.
THEOREM ConfirmationsKeepJobs == RequestsSpec => []ConfirmationsHaveJobs
<1>1. RequestsInit => ConfirmationsCounted
  <2>. SUFFICES ASSUME RequestsInit PROVE ConfirmationsCounted
    OBVIOUS
  <2>1. ~NoPackage.confirmed
    BY DEF NoPackage
  <2>2. \A d \in Devices : ConfirmedOf(d) = {} /\ JobsOf("apply_peer", d) = {}
    BY <2>1 DEF RequestsInit, Init, ConfirmedOf, PackagesOf, JobsOf
  <2>3. \A d \in Devices :
          /\ IsFiniteSet(ConfirmedOf(d)) /\ Cardinality(ConfirmedOf(d)) = 0
          /\ Cardinality(JobsOf("apply_peer", d)) = 0
    BY <2>2, FS_EmptySet
  <2>4. \A d \in Devices : Cardinality(ConfirmedOf(d)) <= Cardinality(JobsOf("apply_peer", d))
    BY <2>3
  <2>5. QED
    BY <2>3, <2>4 DEF ConfirmationsCounted, ConfirmationsHaveJobs, ConfirmedOf
<1>2. RequestInv /\ ConfirmationsCounted /\ [RequestsNext]_requestVars =>
        ConfirmationsCounted'
  BY ConfirmationsStayCounted
<1>3. ConfirmationsCounted => ConfirmationsHaveJobs
  BY DEF ConfirmationsCounted
<1>4. QED
  BY <1>1, <1>2, <1>3, RequestsInductive, PTL DEF RequestsSpec

-----------------------------------------------------------------------------
(***************************************************************************)
(* Downloads.  A thread that holds an old value of download_attempts can   *)
(* set the counter back to just above it; until then it is as if the       *)
(* thread stood at the old value, and every other thread at the counter.   *)
(* Profile counts the threads that stand at each value or below it.  A     *)
(* grant moves one thread up and none down past it, so that the first      *)
(* number that changes gets smaller: there are as many grants as steps     *)
(* down this order, from all profiles to the last.                         *)
(***************************************************************************)

Counts == 0..(MaxAttempts - 1)

\* The thread may still write back the number of attempts it has read.
Holds(t, p) ==
  requests[t].p = p /\ (At(t, "download", "package_read") \/ At(t, "serve", "read"))

Standing(p) ==
  [t \in Threads |->
     IF Holds(t, p) /\ requests[t].rows[p].download_attempts < package[p].download_attempts
     THEN requests[t].rows[p].download_attempts
     ELSE package[p].download_attempts]

Behind(v, k) == {t \in Threads : v[t] <= k}

Profile(v) == [k \in Counts |-> Cardinality(Behind(v, k))]

Below(m, n) ==
  \E k \in Counts : m[k] < n[k] /\ \A j \in Counts : j < k => m[j] = n[j]

Above(n) == {m \in Profiles : Below(n, m)}

\* One thread goes up from k, and no other thread gets to k or below it.
Raises(v, w) ==
  \E k \in Counts, t \in Threads :
    /\ v[t] = k /\ w[t] > k
    /\ \A u \in Threads : /\ v[u] < k => w[u] = v[u]
                          /\ v[u] = k => w[u] >= k
                          /\ v[u] > k => w[u] > k

\* There are finitely many profiles.
LEMMA ProfilesFinite ==
  /\ IsFiniteSet(Profiles)
  /\ Profiles \subseteq [Counts -> Nat]
  /\ Counts \subseteq Nat
<1>. DEFINE T == 0..Cardinality(Threads)
            graph == [n \in Profiles |-> {<<k, n[k]>> : k \in Counts}]
<1>1. Counts \subseteq Nat /\ IsFiniteSet(Counts)
  BY AttemptsAssumption, FS_Interval DEF Counts
<1>2. Cardinality(Threads) \in Nat
  BY ThreadsAssumption, FS_CardinalityType
<1>3. T \subseteq Nat /\ IsFiniteSet(T)
  BY <1>2, FS_Interval
<1>4. Profiles \subseteq [Counts -> T]
  BY DEF Profiles, Counts
<1>. HIDE DEF T
<1>5. IsFiniteSet(SUBSET (Counts \X T))
  BY <1>1, <1>3, FS_Product, FS_SUBSET
<1>6. graph \in [Profiles -> SUBSET (Counts \X T)]
  <2>. SUFFICES ASSUME NEW n \in Profiles, NEW k \in Counts
                PROVE  <<k, n[k]>> \in Counts \X T
    OBVIOUS
  <2>1. n \in [Counts -> T]
    BY <1>4
  <2>2. QED
    BY <2>1
<1>7. ASSUME NEW m \in Profiles, NEW n \in Profiles, graph[m] = graph[n]
      PROVE  m = n
  <2>1. m \in [Counts -> T] /\ n \in [Counts -> T]
    BY <1>4
  <2>2. ASSUME NEW k \in Counts
        PROVE  m[k] = n[k]
    <3>1. <<k, m[k]>> \in {<<j, n[j]>> : j \in Counts}
      BY <1>7
    <3>2. PICK j \in Counts : <<k, m[k]>> = <<j, n[j]>>
      BY <3>1
    <3>3. QED
      BY <3>2
  <2>3. QED
    BY <2>1, <2>2
<1>8. graph \in Injection(Profiles, SUBSET (Counts \X T))
  BY <1>6, <1>7 DEF Injection, IsInjective
<1>9. IsFiniteSet(Profiles)
  <2>. HIDE DEF graph
  <2>1. QED
    BY <1>5, <1>8, FS_Injection
<1>10. QED
  BY <1>1, <1>3, <1>4, <1>9

\* The order is strict.
LEMMA BelowOrders ==
  ASSUME NEW l \in [Counts -> Nat], NEW m \in [Counts -> Nat], NEW n \in [Counts -> Nat]
  PROVE  /\ ~Below(m, m)
         /\ Below(l, m) /\ Below(m, n) => Below(l, n)
<1>1. ~Below(m, m)
  BY DEF Below
<1>2. ASSUME Below(l, m), Below(m, n)
      PROVE  Below(l, n)
  <2>1. PICK i \in Counts : l[i] < m[i] /\ \A j \in Counts : j < i => l[j] = m[j]
    BY <1>2 DEF Below
  <2>2. PICK k \in Counts : m[k] < n[k] /\ \A j \in Counts : j < k => m[j] = n[j]
    BY <1>2 DEF Below
  <2>3. i \in Nat /\ k \in Nat /\ \A j \in Counts : j \in Nat
    BY ProfilesFinite
  <2>4. CASE i < k
    <3>1. l[i] < n[i] /\ \A j \in Counts : j < i => l[j] = n[j]
      BY <2>1, <2>2, <2>3, <2>4
    <3>2. QED
      BY <3>1 DEF Below
  <2>5. CASE i = k
    <3>1. l[i] < n[i] /\ \A j \in Counts : j < i => l[j] = n[j]
      BY <2>1, <2>2, <2>3, <2>5
    <3>2. QED
      BY <3>1 DEF Below
  <2>6. CASE i > k
    <3>1. l[k] < n[k] /\ \A j \in Counts : j < k => l[j] = n[j]
      BY <2>1, <2>2, <2>3, <2>6
    <3>2. QED
      BY <3>1 DEF Below
  <2>7. QED
    BY <2>3, <2>4, <2>5, <2>6
<1>3. QED
  BY <1>1, <1>2

\* A step down leaves one more profile above.
LEMMA AboveGrows ==
  ASSUME NEW m \in Profiles, NEW n \in Profiles, Below(m, n)
  PROVE  Cardinality(Above(n)) + 1 <= Cardinality(Above(m))
<1>1. \A q \in Profiles : q \in [Counts -> Nat]
  BY ProfilesFinite
<1>2. Above(n) \cup {n} \in SUBSET Above(m)
  <2>1. \A q \in Above(n) : q \in Above(m)
    BY <1>1, BelowOrders DEF Above
  <2>2. n \in Above(m)
    BY DEF Above
  <2>3. QED
    BY <2>1, <2>2
<1>3. n \notin Above(n)
  BY <1>1, BelowOrders DEF Above
<1>4. IsFiniteSet(Above(n)) /\ IsFiniteSet(Above(m))
  BY ProfilesFinite, FS_Subset DEF Above
<1>5. Cardinality(Above(n) \cup {n}) = Cardinality(Above(n)) + 1
  BY <1>3, <1>4, FS_AddElement
<1>6. Cardinality(Above(n) \cup {n}) <= Cardinality(Above(m))
  BY <1>2, <1>4, FS_Subset
<1>7. QED
  BY <1>5, <1>6

\* At most the others are above a profile.
LEMMA AboveBounded ==
  ASSUME NEW n \in Profiles
  PROVE  Cardinality(Above(n)) \in Nat /\ Cardinality(Above(n)) <= MostDownloads
<1>1. n \in [Counts -> Nat]
  BY ProfilesFinite
<1>2. Above(n) \in SUBSET (Profiles \ {n})
  BY <1>1, BelowOrders DEF Above
<1>3. IsFiniteSet(Profiles \ {n}) /\ Cardinality(Profiles \ {n}) = Cardinality(Profiles) - 1
  BY ProfilesFinite, FS_RemoveElement
<1>4. /\ IsFiniteSet(Above(n))
      /\ Cardinality(Above(n)) <= Cardinality(Profiles \ {n})
  BY <1>2, <1>3, FS_Subset
<1>5. Cardinality(Above(n)) \in Nat
  BY <1>4, FS_CardinalityType
<1>6. QED
  BY <1>3, <1>4, <1>5 DEF MostDownloads

\* Threads that stand anywhere have a profile.
LEMMA ProfileOfThreads ==
  ASSUME NEW v \in [Threads -> Nat]
  PROVE  Profile(v) \in Profiles
<1>1. ASSUME NEW k \in Counts
      PROVE  /\ IsFiniteSet(Behind(v, k))
             /\ Cardinality(Behind(v, k)) \in 0..Cardinality(Threads)
  <2>1. Behind(v, k) \in SUBSET Threads
    BY DEF Behind
  <2>2. /\ IsFiniteSet(Behind(v, k))
        /\ Cardinality(Behind(v, k)) <= Cardinality(Threads)
    BY <2>1, ThreadsAssumption, FS_Subset
  <2>3. Cardinality(Behind(v, k)) \in Nat /\ Cardinality(Threads) \in Nat
    BY <2>2, ThreadsAssumption, FS_CardinalityType
  <2>4. QED
    BY <2>2, <2>3
<1>2. ASSUME NEW i \in Counts, NEW j \in Counts, i <= j
      PROVE  Cardinality(Behind(v, i)) <= Cardinality(Behind(v, j))
  <2>1. Behind(v, i) \in SUBSET Behind(v, j)
    BY <1>2, ProfilesFinite DEF Behind
  <2>2. QED
    BY <1>1, <2>1, FS_Subset
<1>3. Profile(v) \in [Counts -> 0..Cardinality(Threads)]
  BY <1>1 DEF Profile
<1>4. \A i, j \in DOMAIN Profile(v) : i <= j => Profile(v)[i] <= Profile(v)[j]
  BY <1>2 DEF Profile
<1>5. QED
  BY <1>3, <1>4 DEF Profiles, Counts

\* A thread that goes up lowers the profile.
LEMMA RaisingLowers ==
  ASSUME NEW v \in [Threads -> Nat], NEW w \in [Threads -> Nat], Raises(v, w)
  PROVE  Below(Profile(w), Profile(v))
<1>1. PICK k \in Counts, t \in Threads :
        /\ v[t] = k /\ w[t] > k
        /\ \A u \in Threads : /\ v[u] < k => w[u] = v[u]
                              /\ v[u] = k => w[u] >= k
                              /\ v[u] > k => w[u] > k
  BY DEF Raises
<1>2. k \in Nat /\ \A j \in Counts : j \in Nat
  BY ProfilesFinite
<1>3. ASSUME NEW j \in Counts, j < k
      PROVE  Behind(w, j) = Behind(v, j)
  <2>1. ASSUME NEW u \in Threads
        PROVE  w[u] <= j <=> v[u] <= j
    BY <1>1, <1>2, <1>3
  <2>2. QED
    BY <2>1 DEF Behind
<1>4. Behind(w, k) \in SUBSET (Behind(v, k) \ {t}) /\ t \in Behind(v, k)
  <2>1. ASSUME NEW u \in Threads, w[u] <= k
        PROVE  v[u] <= k /\ u # t
    BY <1>1, <1>2, <2>1
  <2>2. QED
    BY <1>1, <1>2, <2>1 DEF Behind
<1>5. IsFiniteSet(Behind(v, k))
  BY ThreadsAssumption, FS_Subset DEF Behind
<1>6. /\ IsFiniteSet(Behind(v, k) \ {t})
      /\ Cardinality(Behind(v, k) \ {t}) = Cardinality(Behind(v, k)) - 1
  BY <1>4, <1>5, FS_RemoveElement
<1>7. /\ IsFiniteSet(Behind(w, k))
      /\ Cardinality(Behind(w, k)) <= Cardinality(Behind(v, k) \ {t})
  BY <1>4, <1>6, FS_Subset
<1>8. Cardinality(Behind(v, k)) \in Nat /\ Cardinality(Behind(w, k)) \in Nat
  BY <1>5, <1>7, FS_CardinalityType
<1>9. Cardinality(Behind(w, k)) < Cardinality(Behind(v, k))
  BY <1>6, <1>7, <1>8
<1>10. QED
  BY <1>3, <1>9 DEF Below, Profile

\* A flush leaves the attempts alone unless the handler changed them.
LEMMA FlushKeepsAttempts ==
  ASSUME NEW current \in InstallPackage, NEW read \in InstallPackage,
         NEW written, written.download_attempts = read.download_attempts
  PROVE  Flush(current, read, written).download_attempts = current.download_attempts
BY DEF Flush, InstallPackage

\* Only a grant changes them.
LEMMA AttemptsKept ==
  ASSUME RequestInv, [RequestsNext]_requestVars, \A t \in Threads : ~CommitsGrant(t),
         NEW q \in Packages
  PROVE  package'[q].download_attempts = package[q].download_attempts
<1>1. /\ TypeOK /\ package \in [Packages -> InstallPackage]
      /\ package[q] \in InstallPackage
      /\ \A t \in Threads : requests[t] \in Request /\ requests[t].rows[q] \in InstallPackage
  BY DEF RequestInv, RequestsTypeOK, TypeOK, Request
<1>2. CASE ~PackageExists(q)
  <2>1. package[q].download_attempts = 0
    BY <1>1, <1>2 DEF TypeOK, PackageExists, NoPackage
  <2>2. \A d, outcome : PackageAfterBuild(d, outcome).download_attempts = 0
    BY DEF PackageAfterBuild, NoPackage
  <2>3. QED
    BY <1>2, <2>1, <2>2, NewRowsBuilt
<1>3. ASSUME PackageExists(q), NEW t \in Threads, Commits(t)
      PROVE  package'[q].download_attempts = package[q].download_attempts
  <2>1. PICK r \in Request : r = requests[t]
    BY <1>1
  <2>2. r.rows[q] \in InstallPackage
    BY <1>1, <2>1
  <2>3. /\ ExpiredPackage(r.rows[q]).download_attempts = r.rows[q].download_attempts
        /\ ConfirmedPackage(r.rows[q]).download_attempts = r.rows[q].download_attempts
        /\ WithdrawnPackage(r.rows[q]).download_attempts = r.rows[q].download_attempts
        /\ RevokedPackage(r.rows[q]).download_attempts = r.rows[q].download_attempts
    BY <2>2
       DEF ExpiredPackage, ConfirmedPackage, WithdrawnPackage, RevokedPackage, InstallPackage
  <2>4. \/ package'[q] = package[q]
        \/ package'[q] = Flush(package[q], r.rows[q], ExpiredPackage(r.rows[q]))
        \/ package'[q] = Flush(package[q], r.rows[q], ConfirmedPackage(r.rows[q]))
        \/ package'[q] = Flush(package[q], r.rows[q], WithdrawnPackage(r.rows[q]))
        \/ package'[q] = Flush(package[q], r.rows[q], RevokedPackage(r.rows[q]))
    <3>1. CASE CommitsExpiry(t)
      BY <1>1, <2>1, <3>1 DEF CommitsExpiry, WriteBoth
    <3>2. CASE CommitsConfirmation(t)
      BY <1>1, <2>1, <3>2 DEF CommitsConfirmation, WriteBoth
    <3>3. CASE CommitsDevice(t) \/ CommitsReset(t)
      <4>1. q # r.p
        BY <1>3, <2>1, <3>3, BuiltFileHasRow DEF NewBuild
      <4>2. QED
        BY <1>1, <2>1, <3>3, <4>1 DEF CommitsDevice, CommitsReset
    <3>4. CASE CommitsRevocation(t)
      BY <2>1, <3>4 DEF CommitsRevocation
    <3>5. QED
      BY <1>3, <3>1, <3>2, <3>3, <3>4 DEF Commits
  <2>5. QED
    BY <1>1, <2>2, <2>3, <2>4, FlushKeepsAttempts
<1>4. ASSUME NEW t \in Threads, Reads(t) \/ Deletes(t) \/ Builds(t)
      PROVE  package' = package
  BY <1>4, ReadsOnly
     DEF Deletes, Builds, Unlinks, ResetUnlinks, RevokeUnlinks, CreateBuilds, ResetBuilds
<1>5. CASE ShortRequest \/ Background
  <2>1. \/ package' = package
        \/ \E p \in Packages : package' = [package EXCEPT ![p].window = "closed"]
    BY <1>5 DEF ShortRequest, Background, ReportLost, UpdateUser, WorkerNext, JobSucceeds,
                JobFails, WindowCloses
  <2>2. [package[q] EXCEPT !.window = "closed"].download_attempts
          = package[q].download_attempts
    BY <1>1 DEF InstallPackage
  <2>3. QED
    BY <1>1, <2>1, <2>2
<1>6. CASE UNCHANGED requestVars
  BY <1>6 DEF requestVars, vars
<1>7. QED
  BY <1>2, <1>3, <1>4, <1>5, <1>6, StepKinds DEF RequestsNext

\* Every thread stands at a number of attempts.
LEMMA StandingTyped ==
  ASSUME RequestInv, NEW p \in Packages
  PROVE  /\ package[p].download_attempts \in 0..MaxAttempts
         /\ \A t \in Threads : requests[t].rows[p].download_attempts \in Nat
         /\ Standing(p) \in [Threads -> Nat]
<1>1. package[p].download_attempts \in 0..MaxAttempts
  BY DEF RequestInv, RequestsTypeOK, TypeOK, InstallPackage
<1>2. ASSUME NEW t \in Threads
      PROVE  requests[t].rows[p].download_attempts \in Nat
  <2>1. requests[t].rows[p] \in InstallPackage
    BY DEF RequestInv, RequestsTypeOK, Request
  <2>2. QED
    BY <2>1 DEF InstallPackage
<1>3. QED
  BY <1>1, <1>2 DEF Standing

\* Also after a step.
LEMMA StandingTypedNext ==
  ASSUME RequestInv', NEW p \in Packages
  PROVE  Standing(p)' \in [Threads -> Nat]
<1>1. package'[p].download_attempts \in Nat
  BY AttemptsAssumption DEF RequestInv, RequestsTypeOK, TypeOK, InstallPackage
<1>2. ASSUME NEW t \in Threads
      PROVE  requests'[t].rows[p].download_attempts \in Nat
  <2>1. requests'[t].rows[p] \in InstallPackage
    BY DEF RequestInv, RequestsTypeOK, Request
  <2>2. QED
    BY <2>1 DEF InstallPackage
<1>3. QED
  BY <1>1, <1>2 DEF Standing

\* What a thread holds it has just read, or held before.
LEMMA HeldWasRead ==
  ASSUME RequestInv, NEW t \in Threads, RequestStep(t), ~CommitsGrant(t),
         NEW p \in Packages, Holds(t, p)'
  PROVE  \/ requests'[t].rows[p] = package[p]
         \/ Holds(t, p) /\ requests'[t].rows[p] = requests[t].rows[p]
<1>1. requests \in [Threads -> Request] /\ SessionOK(requests[t])
  BY DEF RequestInv, RequestsTypeOK, SessionsOK
<1>. DEFINE new == requests'[t]
<1>2. /\ new.p = p
      /\ new.op \in {"download", "serve"}
      /\ new.pc \in {"package_read", "read"}
  BY DEF Holds, At
<1>3. Idle.op = "none" /\ Idle \in Request /\ NoRows \in [Packages -> InstallPackage]
  BY IdleRequest, FreshRows DEF Idle, NoRows
<1>4. new # Idle
  BY <1>2, <1>3
<1>5. ASSUME NEW q \in Packages, NEW op, ReadsPackage(t, op, q)
      PROVE  new.rows[p] = package[p]
  <2>1. new = [Idle EXCEPT !.op = op, !.pc = "package_read", !.p = q,
                           !.d = package[q].device, !.rows[q] = package[q]]
    BY <1>1, <1>5 DEF ReadsPackage, Start, Become
  <2>2. q = p
    BY <1>2, <2>1 DEF Idle
  <2>3. QED
    BY <1>3, <2>1, <2>2 DEF Idle
<1>6. CASE ReadsDevice(t)
  <2>1. requests[t].pc = "package_read"
    BY <1>6 DEF ReadsDevice
  <2>2. PICK op : /\ op = IF requests[t].op = "download" THEN DownloadBranch(requests[t])
                          ELSE requests[t].op
                  /\ new = IF op = "none" THEN Idle
                           ELSE [requests[t] EXCEPT !.op = op, !.pc = "read",
                                                    !.row = device[requests[t].d]]
    BY <1>1, <1>6 DEF ReadsDevice, Become
  <2>3. new = [requests[t] EXCEPT !.op = op, !.pc = "read", !.row = device[requests[t].d]]
    BY <1>4, <2>2
  <2>4. /\ new.op = op /\ new.p = requests[t].p /\ new.rows = requests[t].rows
    BY <1>1, <2>3 DEF Request
  <2>5. requests[t].op \in {"download", "confirm"}
    BY <1>1, <2>1 DEF SessionOK, Idle, PackageSession, SendingSession, CreateSession,
                      ResetSession, RevokeSession
  <2>6. requests[t].op = "download"
    BY <1>2, <2>2, <2>4, <2>5
  <2>7. QED
    BY <1>2, <2>1, <2>4, <2>6 DEF Holds, At
<1>7. \A u \in Users : ~CreateReadsUser(t, u)
  BY <1>1, <1>2 DEF CreateReadsUser, Start, Become, Idle
<1>8. ~CreateCounts(t) /\ ~CreateAllocates(t) /\ ~CreateCollides(t)
  BY <1>1, <1>2, <1>4 DEF CreateCounts, CreateAllocates, CreateCollides, At, End, Become,
                          Request
<1>9. \A d \in Devices : ~ResetReadsDevice(t, d) /\ ~RevokeReadsDevice(t, d)
  BY <1>1, <1>2 DEF ResetReadsDevice, RevokeReadsDevice, Start, Become, Idle
<1>10. ~ResetReadsPackages(t) /\ ~Sends(t) /\ ~Lost(t)
  BY <1>1, <1>2, <1>4 DEF ResetReadsPackages, Sends, Lost, At, End, Become, Request
<1>11. ~Deletes(t) /\ ~Builds(t)
  <2>1. \A r \in Request : \A f, rows :
          /\ [r EXCEPT !.pc = "touched", !.file = f].pc = "touched"
          /\ [r EXCEPT !.pc = "locked", !.file = f, !.rows = rows].pc = "locked"
    BY DEF Request
  <2>2. ASSUME Deletes(t)
        PROVE  \E f, rows : \/ new = [requests[t] EXCEPT !.pc = "touched", !.file = f]
                            \/ new = [requests[t] EXCEPT !.pc = "locked", !.file = f,
                                                         !.rows = rows]
    <3>1. CASE Unlinks(t) \/ ResetUnlinks(t)
      BY <1>1, <3>1 DEF Unlinks, ResetUnlinks, Become
    <3>2. CASE RevokeUnlinks(t)
      BY <1>1, <3>2 DEF RevokeUnlinks, Become
    <3>3. QED
      BY <2>2, <3>1, <3>2 DEF Deletes
  <2>3. ASSUME Deletes(t)
        PROVE  new.pc \in {"touched", "locked"}
    <3>1. PICK r \in Request : r = requests[t]
      BY <1>1
    <3>2. PICK f, rows : \/ new = [r EXCEPT !.pc = "touched", !.file = f]
                         \/ new = [r EXCEPT !.pc = "locked", !.file = f, !.rows = rows]
      BY <2>2, <2>3, <3>1
    <3>3. /\ [r EXCEPT !.pc = "touched", !.file = f].pc = "touched"
          /\ [r EXCEPT !.pc = "locked", !.file = f, !.rows = rows].pc = "locked"
      BY <2>1
    <3>. HIDE DEF new
    <3>4. new.pc = "touched" \/ new.pc = "locked"
      BY <3>2, <3>3
    <3>5. QED
      BY <3>4
  <2>4. Builds(t) => new.pc = "locked"
    BY BuildsKeepInv DEF Builds, BuildsNew
  <2>5. QED
    BY <1>2, <2>3, <2>4
<1>12. ~Commits(t)
  BY <1>1, <1>4 DEF Commits, CommitsExpiry, CommitsConfirmation, CommitsDevice,
                    CommitsReset, CommitsRevocation, End, Become
<1>13. QED
  BY <1>5, <1>6, <1>7, <1>8, <1>9, <1>10, <1>11, <1>12, StepKinds DEF Reads

\* A thread that reads the attempts, keeps them or lets go of them, goes up or
\* stays.
LEMMA OthersRaise ==
  ASSUME RequestInv, RequestInv', NEW t \in Threads, RequestStep(t), ~CommitsGrant(t),
         NEW p \in Packages,
         package'[p].download_attempts = package[p].download_attempts
  PROVE  Standing(p)' = Standing(p) \/ Raises(Standing(p), Standing(p)')
<1>1. PICK c \in 0..MaxAttempts : c = package[p].download_attempts
  BY StandingTyped
<1>2. PICK v \in [Threads -> Nat] : v = Standing(p)
  BY StandingTyped
<1>3. PICK w \in [Threads -> Nat] : w = Standing(p)'
  BY StandingTypedNext
<1>4. c \in Nat /\ MaxAttempts \in Nat
  BY <1>1, AttemptsAssumption
<1>5. ASSUME NEW u \in Threads
      PROVE  /\ v[u] = IF Holds(u, p) /\ requests[u].rows[p].download_attempts < c
                       THEN requests[u].rows[p].download_attempts ELSE c
             /\ w[u] = IF Holds(u, p)' /\ requests'[u].rows[p].download_attempts < c
                       THEN requests'[u].rows[p].download_attempts ELSE c
  BY <1>1, <1>2, <1>3 DEF Standing
<1>6. ASSUME NEW u \in Threads \ {t}
      PROVE  w[u] = v[u]
  <2>1. requests'[u] = requests[u]
    BY OthersStay
  <2>2. Holds(u, p)' <=> Holds(u, p)
    BY <2>1 DEF Holds, At
  <2>3. QED
    BY <1>5, <2>1, <2>2
<1>7. w[t] \in {v[t], c}
  <2>1. CASE Holds(t, p)'
    <3>1. \/ requests'[t].rows[p] = package[p]
          \/ Holds(t, p) /\ requests'[t].rows[p] = requests[t].rows[p]
      BY <2>1, HeldWasRead
    <3>2. QED
      BY <1>1, <1>4, <1>5, <3>1
  <2>2. CASE ~Holds(t, p)'
    BY <1>5, <2>2
  <2>3. QED
    BY <2>1, <2>2
<1>8. v[t] <= c
  BY <1>4, <1>5, StandingTyped
<1>9. CASE w[t] = v[t]
  BY <1>2, <1>3, <1>6, <1>9
<1>10. CASE w[t] # v[t]
  <2>1. w[t] = c /\ v[t] < c
    BY <1>4, <1>7, <1>8, <1>10
  <2>2. v[t] \in Counts
    BY <1>1, <1>4, <2>1 DEF Counts
  <2>3. \A u \in Threads : /\ v[u] < v[t] => w[u] = v[u]
                           /\ v[u] = v[t] => w[u] >= v[t]
                           /\ v[u] > v[t] => w[u] > v[t]
    BY <1>4, <1>6, <2>1
  <2>4. Raises(v, w)
    BY <2>1, <2>2, <2>3 DEF Raises
  <2>5. QED
    BY <1>2, <1>3, <2>4
<1>11. QED
  BY <1>9, <1>10

\* A grant sends its thread on from where it stood, and no other thread back
\* beyond that, even if the attempts it writes are fewer than the row's.
LEMMA GrantRaises ==
  ASSUME RequestInv, RequestInv', NEW t \in Threads, CommitsGrant(t),
         NEW p \in Packages, requests[t].p = p
  PROVE  Raises(Standing(p), Standing(p)')
<1>1. PICK a \in Nat, c \in Nat :
        /\ a = requests[t].rows[p].download_attempts /\ a < MaxAttempts
        /\ c = package[p].download_attempts
  <2>1. requests[t].op = "serve" /\ requests[t].pc = "read"
    BY DEF CommitsGrant, At
  <2>2. PackageSession(requests[t])
    BY <2>1 DEF RequestInv, SessionsOK, SessionOK, Idle, SendingSession, CreateSession,
                ResetSession, RevokeSession
  <2>3. requests[t].rows[p].download_attempts < MaxAttempts
    BY <2>1, <2>2 DEF PackageSession
  <2>4. package[p].download_attempts \in Nat
    BY StandingTyped, AttemptsAssumption
  <2>5. QED
    BY <2>3, <2>4, StandingTyped
<1>2. PICK v \in [Threads -> Nat] : v = Standing(p)
  BY StandingTyped
<1>3. PICK w \in [Threads -> Nat] : w = Standing(p)'
  BY StandingTypedNext
<1>4. package'[p].download_attempts = a + 1
  <2>1. PICK row \in InstallPackage : row = requests[t].rows[p]
    BY DEF RequestInv, RequestsTypeOK, Request
  <2>2. PICK current \in InstallPackage : current = package[p]
    BY DEF RequestInv, RequestsTypeOK, TypeOK
  <2>3. package' = [package EXCEPT ![p] = Flush(@, row, ServedPackage(row))]
    BY <2>1 DEF CommitsGrant, WriteBoth
  <2>4. package'[p] = Flush(current, row, ServedPackage(row))
    BY <2>2, <2>3 DEF RequestInv, RequestsTypeOK, TypeOK
  <2>5. row.download_attempts = a /\ ServedPackage(row).download_attempts = a + 1
    BY <1>1, <2>1 DEF ServedPackage, InstallPackage
  <2>6. Flush(current, row, ServedPackage(row)).download_attempts = a + 1
    BY <1>1, <2>5 DEF Flush, InstallPackage
  <2>7. QED
    BY <2>4, <2>6
<1>5. requests' = [requests EXCEPT
                     ![t] = [Idle EXCEPT !.op = "serve", !.pc = "sending", !.p = p]]
  BY DEF CommitsGrant, Become
<1>6. requests \in [Threads -> Request]
  BY DEF RequestInv, RequestsTypeOK
<1>7. Holds(t, p) /\ ~Holds(t, p)'
  <2>1. Holds(t, p)
    BY DEF CommitsGrant, Holds
  <2>2. requests'[t].pc = "sending"
    BY <1>5, <1>6 DEF Idle
  <2>3. QED
    BY <2>1, <2>2 DEF Holds, At
<1>8. ASSUME NEW u \in Threads
      PROVE  v[u] = IF Holds(u, p) /\ requests[u].rows[p].download_attempts < c
                    THEN requests[u].rows[p].download_attempts ELSE c
  BY <1>1, <1>2 DEF Standing
<1>9. ASSUME NEW u \in Threads
      PROVE  w[u] = IF Holds(u, p)' /\ requests'[u].rows[p].download_attempts < a + 1
                    THEN requests'[u].rows[p].download_attempts ELSE a + 1
  BY <1>3, <1>4 DEF Standing
<1>10. PICK k \in Nat : k = v[t]
  BY <1>2
<1>11. k = IF a < c THEN a ELSE c
  BY <1>1, <1>7, <1>8, <1>10
<1>12. k \in Counts /\ w[t] > k
  <2>1. w[t] = a + 1
    BY <1>7, <1>9
  <2>2. QED
    BY <1>1, <1>11, <2>1, AttemptsAssumption DEF Counts
<1>13. ASSUME NEW u \in Threads
       PROVE  /\ v[u] < k => w[u] = v[u]
              /\ v[u] = k => w[u] >= k
              /\ v[u] > k => w[u] > k
  <2>1. CASE u = t
    BY <1>10, <1>12, <2>1
  <2>2. CASE u # t
    <3>1. requests'[u] = requests[u]
      BY <1>5, <1>6, <2>2
    <3>2. Holds(u, p)' <=> Holds(u, p)
      BY <3>1 DEF Holds, At
    <3>3. PICK b \in Nat : b = requests[u].rows[p].download_attempts
      BY StandingTyped
    <3>4. CASE Holds(u, p)
      <4>1. /\ v[u] = IF b < c THEN b ELSE c
            /\ w[u] = IF b < a + 1 THEN b ELSE a + 1
        BY <1>8, <1>9, <3>1, <3>2, <3>3, <3>4
      <4>2. QED
        BY <1>11, <4>1
    <3>5. CASE ~Holds(u, p)
      <4>1. v[u] = c /\ w[u] = a + 1
        BY <1>8, <1>9, <3>2, <3>5
      <4>2. QED
        BY <1>11, <4>1
    <3>6. QED
      BY <3>4, <3>5
  <2>3. QED
    BY <2>1, <2>2
<1>14. Raises(v, w)
  BY <1>10, <1>12, <1>13 DEF Raises
<1>15. QED
  BY <1>2, <1>3, <1>14

\* Only a grant counts one, of its own package.
LEMMA GrantsCount ==
  ASSUME NEW t \in Threads, RequestStep(t), ~CommitsGrant(t)
  PROVE  granted' = granted
BY StepKinds, ReadsOnly
   DEF Deletes, Builds, Commits, Unlinks, ResetUnlinks, RevokeUnlinks, CreateBuilds,
       ResetBuilds, CommitsExpiry, CommitsConfirmation, CommitsDevice, CommitsReset,
       CommitsRevocation, history

\* A step leaves the threads of a package where they stand, or raises them and
\* grants at most one download.
LEMMA StepRaises ==
  ASSUME RequestInv, [RequestsNext]_requestVars, NEW p \in Packages
  PROVE  \/ Standing(p)' = Standing(p) /\ granted'[p] = granted[p]
         \/ Raises(Standing(p), Standing(p)') /\ granted'[p] \in {granted[p], granted[p] + 1}
<1>1. /\ RequestInv' /\ granted \in [Packages -> Nat]
      /\ requests \in [Threads -> Request]
  BY RequestsStep DEF RequestInv, RequestsTypeOK
<1>2. ASSUME NEW t \in Threads, CommitsGrant(t)
      PROVE  \/ Standing(p)' = Standing(p) /\ granted'[p] = granted[p]
             \/ /\ Raises(Standing(p), Standing(p)')
                /\ granted'[p] \in {granted[p], granted[p] + 1}
  <2>1. granted' = [granted EXCEPT ![requests[t].p] = @ + 1]
    BY <1>2 DEF CommitsGrant
  <2>2. CASE requests[t].p = p
    BY <1>1, <1>2, <2>1, <2>2, GrantRaises
  <2>3. CASE requests[t].p # p
    <3>1. granted'[p] = granted[p]
      BY <1>1, <2>1, <2>3
    <3>2. package'[p] = package[p]
      BY <1>2, <2>3 DEF CommitsGrant, WriteBoth, RequestInv, RequestsTypeOK, TypeOK
    <3>3. requests' = [requests EXCEPT ![t] = [Idle EXCEPT !.op = "serve", !.pc = "sending",
                                                           !.p = requests[t].p]]
      BY <1>2 DEF CommitsGrant, Become
    <3>4. ASSUME NEW u \in Threads
          PROVE  \/ ~Holds(u, p) /\ ~Holds(u, p)'
                 \/ (Holds(u, p)' <=> Holds(u, p)) /\ requests'[u] = requests[u]
      <4>1. CASE u = t
        <5>1. requests'[t].pc = "sending"
          BY <1>1, <3>3 DEF Idle
        <5>2. QED
          BY <2>3, <4>1, <5>1 DEF Holds, At
      <4>2. CASE u # t
        <5>1. requests'[u] = requests[u]
          BY <1>1, <3>3, <4>2
        <5>2. QED
          BY <5>1 DEF Holds, At
      <4>3. QED
        BY <4>1, <4>2
    <3>5. Standing(p)' = Standing(p)
      BY <3>2, <3>4 DEF Standing
    <3>6. QED
      BY <3>1, <3>5
  <2>4. QED
    BY <2>2, <2>3
<1>3. ASSUME NEW t \in Threads, RequestStep(t), \A u \in Threads : ~CommitsGrant(u)
      PROVE  \/ Standing(p)' = Standing(p) /\ granted'[p] = granted[p]
             \/ Raises(Standing(p), Standing(p)') /\ granted'[p] = granted[p]
  <2>1. package'[p].download_attempts = package[p].download_attempts
    BY <1>3, AttemptsKept DEF RequestsNext
  <2>2. QED
    BY <1>1, <1>3, <2>1, GrantsCount, OthersRaise
<1>4. ASSUME ShortRequest \/ Background \/ UNCHANGED requestVars,
             \A u \in Threads : ~CommitsGrant(u)
      PROVE  Standing(p)' = Standing(p) /\ granted'[p] = granted[p]
  <2>1. package'[p].download_attempts = package[p].download_attempts
    BY <1>4, AttemptsKept
  <2>2. requests' = requests /\ granted' = granted
    BY <1>4 DEF ShortRequest, Background, requestVars, history
  <2>3. ASSUME NEW u \in Threads
        PROVE  Holds(u, p)' <=> Holds(u, p)
    BY <2>2 DEF Holds, At
  <2>4. QED
    BY <2>1, <2>2, <2>3 DEF Standing
<1>5. QED
  BY <1>2, <1>3, <1>4 DEF RequestsNext

\* What has been granted is no more than the profiles left behind.
GrantsCounted ==
  \A p \in Packages : granted[p] <= Cardinality(Above(Profile(Standing(p))))

\* A grant leaves one behind.
LEMMA GrantsStayCounted ==
  ASSUME RequestInv, GrantsCounted, [RequestsNext]_requestVars
  PROVE  GrantsCounted'
<1>. SUFFICES ASSUME NEW p \in Packages
              PROVE  granted'[p] <= Cardinality(Above(Profile(Standing(p)')))
  BY DEF GrantsCounted, Above, Below, Profile, Behind, Profiles, Counts
<1>1. RequestInv' /\ granted[p] \in Nat
  BY RequestsStep DEF RequestInv, RequestsTypeOK
<1>2. PICK v \in [Threads -> Nat] : v = Standing(p)
  BY StandingTyped
<1>3. PICK w \in [Threads -> Nat] : w = Standing(p)'
  BY <1>1, StandingTypedNext
<1>4. granted[p] <= Cardinality(Above(Profile(v)))
  BY <1>2 DEF GrantsCounted
<1>5. Profile(v) \in Profiles /\ Profile(w) \in Profiles
  BY ProfileOfThreads
<1>6. Cardinality(Above(Profile(v))) \in Nat /\ Cardinality(Above(Profile(w))) \in Nat
  BY <1>5, AboveBounded
<1>7. granted'[p] <= Cardinality(Above(Profile(w)))
  <2>1. CASE w = v /\ granted'[p] = granted[p]
    BY <1>4, <2>1
  <2>2. CASE Raises(v, w) /\ granted'[p] \in {granted[p], granted[p] + 1}
    <3>1. Cardinality(Above(Profile(v))) + 1 <= Cardinality(Above(Profile(w)))
      BY <1>5, <2>2, RaisingLowers, AboveGrows
    <3>2. QED
      BY <1>1, <1>4, <1>6, <2>2, <3>1
  <2>3. QED
    BY <1>2, <1>3, <2>1, <2>2, StepRaises
<1>8. QED
  BY <1>3, <1>7

\* However many downloads race, they are granted finitely often: with T threads
\* and a maximum of M attempts, (T + M choose M) - 1 times for each package, and
\* with one thread M times.
THEOREM DownloadsStayBounded == RequestsSpec => []DownloadsBounded
<1>1. RequestsInit => GrantsCounted
  <2>. SUFFICES ASSUME RequestsInit, NEW p \in Packages
                PROVE  granted[p] <= Cardinality(Above(Profile(Standing(p))))
    BY DEF GrantsCounted
  <2>1. RequestInv /\ granted[p] = 0
    BY EmptyRequests DEF RequestsInit
  <2>2. Profile(Standing(p)) \in Profiles
    BY <2>1, StandingTyped, ProfileOfThreads
  <2>3. QED
    BY <2>1, <2>2, AboveBounded
<1>2. RequestInv /\ GrantsCounted /\ [RequestsNext]_requestVars => GrantsCounted'
  BY GrantsStayCounted
<1>3. RequestInv /\ GrantsCounted => DownloadsBounded
  <2>. SUFFICES ASSUME RequestInv, GrantsCounted, NEW p \in Packages
                PROVE  granted[p] <= MostDownloads
    BY DEF DownloadsBounded
  <2>1. Profile(Standing(p)) \in Profiles
    BY StandingTyped, ProfileOfThreads
  <2>2. granted[p] \in Nat /\ granted[p] <= Cardinality(Above(Profile(Standing(p))))
    BY DEF GrantsCounted, RequestInv, RequestsTypeOK
  <2>3. MostDownloads \in Int
    BY ProfilesFinite, FS_CardinalityType DEF MostDownloads
  <2>4. QED
    BY <2>1, <2>2, <2>3, AboveBounded
<1>4. QED
  BY <1>1, <1>2, <1>3, RequestsInductive, PTL DEF RequestsSpec
=============================================================================
