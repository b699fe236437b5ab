---------------------- MODULE DeviceOneRequestProofs ----------------------
(***************************************************************************)
(* A thread alone implements DeviceLifecycle: every step of its requests,  *)
(* of the worker and of the clock is one of the atomic handlers, or a      *)
(* stutter.  The files are mapped to what they were before the request in  *)
(* progress touched them, and the window a download was granted in stays   *)
(* open until the file is sent.                                            *)
(*                                                                         *)
(* What a session read may be old at the commit in two ways only: a window *)
(* has closed, or the worker has activated the device.  Neither matters to *)
(* the handlers, the second because a package that can be confirmed owns   *)
(* its device - the invariant of DeviceLifecycle, which a thread alone     *)
(* keeps.                                                                  *)
(***************************************************************************)
EXTENDS DeviceRequestsProofs

-----------------------------------------------------------------------------
(***************************************************************************)
(* The handlers' rows are those of the instance.                           *)
(***************************************************************************)

\* What the rows are made of.
LEMMA SameConstants ==
  /\ Lifecycle!NoDevice = NoDevice /\ Lifecycle!NoPackage = NoPackage
  /\ Lifecycle!BuildOutcome = BuildOutcome
  /\ Lifecycle!ACTIVE_PACKAGE_STATUSES = ACTIVE_PACKAGE_STATUSES
  /\ Lifecycle!TERMINAL_DEVICE_STATUSES = TERMINAL_DEVICE_STATUSES
  /\ Lifecycle!RUNTIME_TARGET_DEVICE_STATUSES = RUNTIME_TARGET_DEVICE_STATUSES
  /\ \A row : Lifecycle!MayDownload(row) = MayDownload(row)
  /\ \A row : Lifecycle!MayConfirm(row) = MayConfirm(row)
  /\ \A row : Lifecycle!HasArtifactPath(row) = HasArtifactPath(row)
  /\ \A outcome : Lifecycle!BuildMay(outcome) = BuildMay(outcome)
  /\ \A outcome : Lifecycle!BuildWritesFile(outcome) = BuildWritesFile(outcome)
BY DEF Lifecycle!NoDevice, NoDevice, Lifecycle!NoPackage, NoPackage,
       Lifecycle!BuildOutcome, BuildOutcome,
       Lifecycle!ACTIVE_PACKAGE_STATUSES, ACTIVE_PACKAGE_STATUSES,
       Lifecycle!TERMINAL_DEVICE_STATUSES, TERMINAL_DEVICE_STATUSES,
       Lifecycle!RUNTIME_TARGET_DEVICE_STATUSES, RUNTIME_TARGET_DEVICE_STATUSES,
       Lifecycle!Downloadable, Downloadable,
       Lifecycle!MayDownload, MayDownload, Lifecycle!MayConfirm, MayConfirm,
       Lifecycle!HasArtifactPath, HasArtifactPath, Lifecycle!BuildMay, BuildMay,
       Lifecycle!BuildWritesFile, BuildWritesFile

\* What the handlers make of them.
LEMMA SameHandlers ==
  /\ \A row : Lifecycle!ExpiredPackage(row) = ExpiredPackage(row)
  /\ \A row : Lifecycle!ServedPackage(row) = ServedPackage(row)
  /\ \A row, pkg : Lifecycle!ServedDevice(row, pkg) = ServedDevice(row, pkg)
  /\ \A row : Lifecycle!ConfirmedPackage(row) = ConfirmedPackage(row)
  /\ \A row : Lifecycle!ConfirmedDevice(row) = ConfirmedDevice(row)
  /\ \A row : Lifecycle!WithdrawnPackage(row) = WithdrawnPackage(row)
  /\ \A row : Lifecycle!ResetDevice(row) = ResetDevice(row)
  /\ \A row : Lifecycle!RevokedPackage(row) = RevokedPackage(row)
  /\ \A row : Lifecycle!RevokedDevice(row) = RevokedDevice(row)
  /\ \A u, ip : Lifecycle!CreatedDevice(u, ip) = CreatedDevice(u, ip)
  /\ \A row, p, outcome :
       Lifecycle!DeviceAfterBuild(row, p, outcome) = DeviceAfterBuild(row, p, outcome)
  /\ \A d, outcome : Lifecycle!PackageAfterBuild(d, outcome) = PackageAfterBuild(d, outcome)
<1>1. /\ \A row : Lifecycle!ExpiredPackage(row) = ExpiredPackage(row)
      /\ \A row : Lifecycle!ServedPackage(row) = ServedPackage(row)
  BY DEF Lifecycle!ExpiredPackage, ExpiredPackage, Lifecycle!ServedPackage, ServedPackage
<1>2. \A row, pkg : Lifecycle!ServedDevice(row, pkg) = ServedDevice(row, pkg)
  BY DEF Lifecycle!ServedDevice, ServedDevice
<1>3. /\ \A row : Lifecycle!ConfirmedPackage(row) = ConfirmedPackage(row)
      /\ \A row : Lifecycle!ConfirmedDevice(row) = ConfirmedDevice(row)
  BY DEF Lifecycle!ConfirmedPackage, ConfirmedPackage, Lifecycle!ConfirmedDevice,
         ConfirmedDevice
<1>4. /\ \A row : Lifecycle!WithdrawnPackage(row) = WithdrawnPackage(row)
      /\ \A row : Lifecycle!ResetDevice(row) = ResetDevice(row)
  BY SameConstants DEF Lifecycle!WithdrawnPackage, WithdrawnPackage,
                       Lifecycle!ResetDevice, ResetDevice
<1>5. /\ \A row : Lifecycle!RevokedPackage(row) = RevokedPackage(row)
      /\ \A row : Lifecycle!RevokedDevice(row) = RevokedDevice(row)
  BY DEF Lifecycle!RevokedPackage, RevokedPackage, Lifecycle!RevokedDevice, RevokedDevice
<1>6. \A u, ip : Lifecycle!CreatedDevice(u, ip) = CreatedDevice(u, ip)
  BY DEF Lifecycle!CreatedDevice, CreatedDevice, Lifecycle!NoDevice, NoDevice
<1>7. \A row, p, outcome :
        Lifecycle!DeviceAfterBuild(row, p, outcome) = DeviceAfterBuild(row, p, outcome)
  BY DEF Lifecycle!DeviceAfterBuild, DeviceAfterBuild
<1>8. \A d, outcome : Lifecycle!PackageAfterBuild(d, outcome) = PackageAfterBuild(d, outcome)
  BY DEF Lifecycle!PackageAfterBuild, PackageAfterBuild, Lifecycle!NoPackage, NoPackage
<1>9. QED
  BY <1>1, <1>2, <1>3, <1>4, <1>5, <1>6, <1>7, <1>8

-----------------------------------------------------------------------------
(***************************************************************************)
(* What a session read, and what the row has become.                       *)
(***************************************************************************)

PackageAgrees(read, current) ==
  \/ current = read
  \/ read.window = "open" /\ current = [read EXCEPT !.window = "closed"]

DeviceAgrees(read, current) ==
  \/ current = read
  \/ read.status = "download_confirmed" /\ current = [read EXCEPT !.status = "active"]

\* The answers a handler takes from the row it read are those of the row.
LEMMA AgreeingAnswers ==
  ASSUME NEW read \in InstallPackage, NEW current, PackageAgrees(read, current)
  PROVE  /\ current \in InstallPackage
         /\ current.status = read.status /\ current.device = read.device
         /\ current.download_attempts = read.download_attempts
         /\ current.deleted = read.deleted /\ current.confirmed = read.confirmed
         /\ HasArtifactPath(current) = HasArtifactPath(read)
         /\ MayConfirm(current) = MayConfirm(read)
         /\ MayDownload(current) = MayDownload(read)
         /\ read.window # "open" => current = read
         /\ read.window = "open" => current.window \in {"open", "closed"}
BY DEF PackageAgrees, InstallPackage, HasArtifactPath, MayConfirm, MayDownload

\* A device that agrees with what was read of it has the same identity, and is
\* revoked, absent or downloadable when it was.
LEMMA AgreeingDevice ==
  ASSUME NEW read \in Device, NEW current, DeviceAgrees(read, current)
  PROVE  /\ current \in Device
         /\ current.vpn_ip = read.vpn_ip /\ current.user = read.user
         /\ current.public_key = read.public_key /\ current.revoked = read.revoked
         /\ current.status = "revoked" <=> read.status = "revoked"
         /\ current.status = "absent" <=> read.status = "absent"
         /\ current.status \in Downloadable => current = read
BY DEF DeviceAgrees, Device, DeviceStatus, Downloadable

\* So a flush that writes the changed columns only writes the handler's row
\* over whatever the row has become.
LEMMA AgreeingFlush ==
  ASSUME NEW read \in InstallPackage, NEW current, PackageAgrees(read, current)
  PROVE  /\ Flush(current, read, ExpiredPackage(read)) = ExpiredPackage(current)
         /\ Flush(current, read, ServedPackage(read)) = ServedPackage(current)
         /\ Flush(current, read, ConfirmedPackage(read)) = ConfirmedPackage(current)
         /\ Flush(current, read, WithdrawnPackage(read)) = WithdrawnPackage(current)
         /\ Flush(current, read, RevokedPackage(read)) = RevokedPackage(current)
<1>1. /\ current \in InstallPackage
      /\ \A f \in {"status", "device", "download_attempts", "confirmed", "deleted"} :
           current[f] = read[f]
  BY DEF PackageAgrees, InstallPackage
<1>2. DOMAIN current = {"status", "device", "download_attempts", "confirmed", "deleted",
                        "window"}
  BY <1>1 DEF InstallPackage
<1>3. Flush(current, read, ExpiredPackage(read)) = ExpiredPackage(current)
  BY <1>1, <1>2 DEF Flush, ExpiredPackage, InstallPackage
<1>4. Flush(current, read, ServedPackage(read)) = ServedPackage(current)
  BY <1>1, <1>2 DEF Flush, ServedPackage, InstallPackage
<1>5. Flush(current, read, ConfirmedPackage(read)) = ConfirmedPackage(current)
  BY <1>1, <1>2 DEF Flush, ConfirmedPackage, InstallPackage
<1>6. Flush(current, read, WithdrawnPackage(read)) = WithdrawnPackage(current)
  BY <1>1, <1>2 DEF Flush, WithdrawnPackage, InstallPackage
<1>7. Flush(current, read, RevokedPackage(read)) = RevokedPackage(current)
  BY <1>1, <1>2 DEF Flush, RevokedPackage, InstallPackage
<1>8. QED
  BY <1>3, <1>4, <1>5, <1>6, <1>7

\* An unchanged row becomes what the handler wrote.
LEMMA FlushUnchanged ==
  ASSUME NEW read \in Device, NEW written \in Device
  PROVE  Flush(read, read, written) = written
BY DEF Flush, Device

\* revoke_device and reset_device set the status, whatever it was.
LEMMA RevokedDeviceFlush ==
  ASSUME NEW read \in Device, NEW current, DeviceAgrees(read, current)
  PROVE  Flush(current, read, RevokedDevice(read)) = RevokedDevice(current)
BY DEF DeviceAgrees, Flush, RevokedDevice, Device, DeviceStatus

\* So the two flushes of a reset write what the atomic reset writes.
LEMMA AgreeingDeviceFlush ==
  ASSUME NEW read \in Device, NEW current, DeviceAgrees(read, current),
         NEW p \in Packages, NEW outcome \in BuildOutcome
  PROVE  Flush(Flush(current, read, ResetDevice(read)), ResetDevice(read),
               DeviceAfterBuild(ResetDevice(read), p, outcome))
           = DeviceAfterBuild(ResetDevice(current), p, outcome)
<1>1. /\ current \in Device
      /\ DOMAIN current = {"status", "public_key", "vpn_ip", "user", "revoked", "lost"}
      /\ DOMAIN read = {"status", "public_key", "vpn_ip", "user", "revoked", "lost"}
  BY DEF DeviceAgrees, Device, DeviceStatus
<1>2. Flush(current, read, ResetDevice(read)) = ResetDevice(current)
  BY <1>1 DEF DeviceAgrees, Flush, ResetDevice, Device, DeviceStatus
<1>. DEFINE reset == ResetDevice(read)
            now == ResetDevice(current)
<1>3. /\ now \in Device /\ reset \in Device
      /\ now.status = "reset_pending" /\ reset.status = "reset_pending"
      /\ now.public_key = ResetKey /\ reset.public_key = ResetKey
      /\ DOMAIN now = {"status", "public_key", "vpn_ip", "user", "revoked", "lost"}
      /\ DOMAIN reset = {"status", "public_key", "vpn_ip", "user", "revoked", "lost"}
  BY <1>1 DEF ResetDevice, Device, DeviceStatus, Key
<1>. HIDE DEF reset, now
<1>4. Flush(now, reset, DeviceAfterBuild(reset, p, outcome)) = DeviceAfterBuild(now, p, outcome)
  <2>1. CASE outcome = "built"
    BY <1>3, <2>1 DEF Flush, DeviceAfterBuild, Device, DeviceStatus, Key
  <2>2. CASE outcome \in {"failed", "failed_after_write"}
    BY <1>3, <2>2 DEF Flush, DeviceAfterBuild, Device, DeviceStatus, Key
  <2>3. CASE outcome = "not_configured"
    BY <1>3, <2>3 DEF Flush, DeviceAfterBuild, Device, DeviceStatus, Key
  <2>4. QED
    BY <2>1, <2>2, <2>3 DEF BuildOutcome
<1>5. QED
  BY <1>2, <1>4 DEF reset, now

-----------------------------------------------------------------------------
(***************************************************************************)
(* The state as the request in progress will leave it at its commit.       *)
(***************************************************************************)

\* The request holds the file of d as it was.
Held(r, d) == r.d = d /\ r.pc \in {"touched", "locked"}

\* A download has found the window of p open, and is not yet sent.
Masks(r, p) ==
  r.p = p /\ (r.op = "serve" \/ (r.op = "download" /\ r.rows[p].window = "open"))

Masked(r, p, row) ==
  IF row.window = "closed" /\ Masks(r, p) THEN [row EXCEPT !.window = "open"] ELSE row

\* The mapped tables with one thread: its own request is the only one that
\* holds a file back or keeps a window open.
LEMMA Mapped ==
  ASSUME NEW t, Threads = {t}
  PROVE  /\ ArtifactAtCommit =
              [d \in Devices |-> IF Held(requests[t], d) THEN requests[t].file
                                 ELSE artifact[d]]
         /\ PackageAtCommit =
              [p \in Packages |-> Masked(requests[t], p, package[p])]
         /\ ArtifactAtCommit' =
              [d \in Devices |-> IF Held(requests'[t], d) THEN requests'[t].file
                                 ELSE artifact'[d]]
         /\ PackageAtCommit' =
              [p \in Packages |-> Masked(requests'[t], p, package'[p])]
<1>1. \A d : InProgress(d) = IF Held(requests[t], d) THEN {t} ELSE {}
  BY DEF InProgress, Held
<1>2. \A d : InProgress(d)' = IF Held(requests'[t], d) THEN {t} ELSE {}
  BY DEF InProgress, Held
<1>3. ArtifactAtCommit =
        [d \in Devices |-> IF Held(requests[t], d) THEN requests[t].file ELSE artifact[d]]
  BY <1>1 DEF ArtifactAtCommit
<1>4. ArtifactAtCommit' =
        [d \in Devices |-> IF Held(requests'[t], d) THEN requests'[t].file
                           ELSE artifact'[d]]
  BY <1>2 DEF ArtifactAtCommit
<1>5. PackageAtCommit = [p \in Packages |-> Masked(requests[t], p, package[p])]
  BY DEF PackageAtCommit, Masked, Masks
<1>6. PackageAtCommit' = [p \in Packages |-> Masked(requests'[t], p, package'[p])]
  BY DEF PackageAtCommit, Masked, Masks
<1>7. QED
  BY <1>3, <1>4, <1>5, <1>6

\* Where nothing is held or masked, the state is what the tables say.
LEMMA MappedRows ==
  ASSUME NEW t, Threads = {t}, TypeOK
  PROVE  /\ requests[t].op \notin {"serve", "download"} => PackageAtCommit = package
         /\ requests[t].pc \notin {"touched", "locked"} => ArtifactAtCommit = artifact
<1>1. /\ package = [p \in Packages |-> package[p]]
      /\ artifact = [d \in Devices |-> artifact[d]]
  BY DEF TypeOK
<1>2. ASSUME requests[t].op \notin {"serve", "download"}
      PROVE  PackageAtCommit = package
  <2>1. \A p \in Packages : Masked(requests[t], p, package[p]) = package[p]
    BY <1>2 DEF Masked, Masks
  <2>2. QED
    BY <1>1, <2>1, Mapped
<1>3. ASSUME requests[t].pc \notin {"touched", "locked"}
      PROVE  ArtifactAtCommit = artifact
  <2>1. \A d \in Devices : ~Held(requests[t], d)
    BY <1>3 DEF Held
  <2>2. QED
    BY <1>1, <2>1, Mapped
<1>4. QED
  BY <1>2, <1>3

\* And after the step.
LEMMA MappedRowsAfter ==
  ASSUME NEW t, Threads = {t}, TypeOK'
  PROVE  /\ requests'[t].op \notin {"serve", "download"} => PackageAtCommit' = package'
         /\ requests'[t].pc \notin {"touched", "locked"} => ArtifactAtCommit' = artifact'
<1>1. /\ package' = [p \in Packages |-> package'[p]]
      /\ artifact' = [d \in Devices |-> artifact'[d]]
  BY DEF TypeOK
<1>2. ASSUME requests'[t].op \notin {"serve", "download"}
      PROVE  PackageAtCommit' = package'
  <2>1. \A p \in Packages : Masked(requests'[t], p, package'[p]) = package'[p]
    BY <1>2 DEF Masked, Masks
  <2>2. QED
    BY <1>1, <2>1, Mapped
<1>3. ASSUME requests'[t].pc \notin {"touched", "locked"}
      PROVE  ArtifactAtCommit' = artifact'
  <2>1. \A d \in Devices : ~Held(requests'[t], d)
    BY <1>3 DEF Held
  <2>2. QED
    BY <1>1, <2>1, Mapped
<1>4. QED
  BY <1>2, <1>3

-----------------------------------------------------------------------------
(***************************************************************************)
(* What a request knows when no other runs.                                *)
(***************************************************************************)

\* The file of d without the packages a reset withdraws, or a revocation deletes.
Withdrawn(d, file) ==
  IF \E q \in PackagesOf(d) : /\ package[q].status \in ACTIVE_PACKAGE_STATUSES
                              /\ HasArtifactPath(package[q])
  THEN None ELSE file

Removed(d, file) ==
  IF \E q \in PackagesOf(d) : ~package[q].deleted /\ HasArtifactPath(package[q])
  THEN None ELSE file

\* The packages its session loaded are those of the device, as they still are.
RowsAgree(r) ==
  \A q \in Packages : IF package[q].device = r.d THEN PackageAgrees(r.rows[q], package[q])
                      ELSE r.rows[q] = NoPackage

PackageAlone(r) ==
  /\ PackageAgrees(r.rows[r.p], package[r.p])
  /\ r.pc # "package_read" => DeviceAgrees(r.row, device[r.d])
  /\ r.op = "serve" => r.rows[r.p].window = "open" /\ artifact[r.d] # None
  /\ r.op = "expire" => r.rows[r.p].window # "open"
  /\ r.pc = "touched" =>
       artifact[r.d] = IF HasArtifactPath(package[r.p]) THEN None ELSE r.file

CreateAlone(r) ==
  /\ IF r.pc = "user_read" THEN r.limit = limit[r.user]
     ELSE Cardinality(CountedDevices(r.user)) < limit[r.user]
  /\ r.pc \in {"read", "locked"} => AllocateForDevice(r.ip)
  /\ r.file = None
  /\ r.pc = "locked" => artifact[r.d] = FileAfterBuild(None, r.p, r.outcome)

ResetAlone(r) ==
  /\ DeviceAgrees(r.row, device[r.d]) /\ r.row.status # "revoked"
  /\ r.pc # "device_read" => RowsAgree(r)
  /\ r.pc # "locked" => \E p \in Packages : FreshPackage(p) /\ r.file # p
  /\ r.pc = "touched" => artifact[r.d] = Withdrawn(r.d, r.file)
  /\ r.pc = "locked" =>
       /\ r.file # r.p
       /\ artifact[r.d] = FileAfterBuild(Withdrawn(r.d, r.file), r.p, r.outcome)

RevokeAlone(r) ==
  /\ DeviceAgrees(r.row, device[r.d])
  /\ r.pc = "locked" => RowsAgree(r) /\ artifact[r.d] = Removed(r.d, r.file)

Alone(r) ==
  /\ PackageSession(r) => PackageAlone(r)
  /\ CreateSession(r) => CreateAlone(r)
  /\ ResetSession(r) => ResetAlone(r)
  /\ RevokeSession(r) => RevokeAlone(r)

-----------------------------------------------------------------------------
(***************************************************************************)
(* The worker and the clock, which may run between two steps of a request. *)
(***************************************************************************)

\* A row may drift twice.
LEMMA AgreeTransitive ==
  /\ \A a, b, c \in InstallPackage :
       PackageAgrees(a, b) /\ PackageAgrees(b, c) => PackageAgrees(a, c)
  /\ \A a, b, c \in Device : DeviceAgrees(a, b) /\ DeviceAgrees(b, c) => DeviceAgrees(a, c)
BY DEF PackageAgrees, DeviceAgrees, InstallPackage, Device

\* What a request is doing tells which session it has.
LEMMA SessionOf ==
  ASSUME RequestInv, NEW t \in Threads
  PROVE  LET r == requests[t] IN
         /\ r \in Request /\ SessionOK(r)
         /\ r.op \in {"download", "expire", "confirm"} => PackageSession(r)
         /\ r.op = "serve" /\ r.pc # "sending" => PackageSession(r)
         /\ r.pc = "package_read" => PackageSession(r)
         /\ r.pc = "sending" => SendingSession(r)
         /\ r.op = "create" => CreateSession(r)
         /\ r.op = "reset" => ResetSession(r)
         /\ r.op = "revoke" => RevokeSession(r)
BY DEF RequestInv, RequestsTypeOK, SessionsOK, SessionOK, Idle, PackageSession,
       SendingSession, CreateSession, ResetSession, RevokeSession

Drifts ==
  /\ \A q \in Packages : PackageAgrees(package[q], package'[q])
  /\ \A e \in Devices : DeviceAgrees(device[e], device'[e])
  /\ limit' = limit /\ artifact' = artifact

\* The clock closes a window; the worker activates a device.
LEMMA BackgroundDrifts ==
  ASSUME TypeOK, Background
  PROVE  Drifts
<1>1. CASE \E p \in Packages : WindowCloses(p)
  BY <1>1 DEF WindowCloses, Drifts, PackageAgrees, DeviceAgrees, TypeOK
<1>2. CASE WorkerNext
  <2>1. PICK i \in DOMAIN jobs : JobSucceeds(i) \/ JobFails(i)
    BY <1>2 DEF WorkerNext
  <2>2. CASE JobFails(i)
    BY <2>2 DEF JobFails, Drifts, PackageAgrees, DeviceAgrees
  <2>3. CASE JobSucceeds(i)
    <3>1. jobs[i] \in Job
      BY DEF TypeOK
    <3>. DEFINE d == jobs[i].device
    <3>2. /\ package' = package /\ artifact' = artifact /\ limit' = limit
          /\ \/ device' = device
             \/ /\ device[d].status \in RUNTIME_TARGET_DEVICE_STATUSES
                /\ device' = [device EXCEPT ![d].status = "active"]
      BY <2>3 DEF JobSucceeds, JobMaySucceed
    <3>3. d \in Devices /\ device[d] \in Device
      BY <3>1 DEF Job, TypeOK
    <3>4. device[d].status \in RUNTIME_TARGET_DEVICE_STATUSES =>
            DeviceAgrees(device[d], [device[d] EXCEPT !.status = "active"])
      BY <3>3 DEF DeviceAgrees, RUNTIME_TARGET_DEVICE_STATUSES, Device
    <3>. HIDE DEF d
    <3>5. \A e \in Devices : DeviceAgrees(device[e], device'[e])
      BY <3>2, <3>3, <3>4 DEF TypeOK, DeviceAgrees
    <3>6. QED
      BY <3>2, <3>5 DEF Drifts, PackageAgrees
  <2>4. QED
    BY <2>1, <2>2, <2>3
<1>3. QED
  BY <1>1, <1>2 DEF Background

\* Neither changes what the rows say to a handler.
LEMMA DriftKeepsAnswers ==
  ASSUME TypeOK, Drifts
  PROVE  /\ \A q \in Packages :
              /\ package'[q] \in InstallPackage
              /\ package'[q].status = package[q].status
              /\ package'[q].device = package[q].device
              /\ package'[q].deleted = package[q].deleted
              /\ package'[q].download_attempts = package[q].download_attempts
              /\ HasArtifactPath(package'[q]) = HasArtifactPath(package[q])
         /\ \A e \in Devices :
              /\ device'[e] \in Device
              /\ device'[e].vpn_ip = device[e].vpn_ip /\ device'[e].user = device[e].user
              /\ device'[e].status = "absent" <=> device[e].status = "absent"
              /\ device'[e].status \in TERMINAL_DEVICE_STATUSES <=>
                   device[e].status \in TERMINAL_DEVICE_STATUSES
<1>1. ASSUME NEW q \in Packages
      PROVE  package[q] \in InstallPackage /\ PackageAgrees(package[q], package'[q])
  BY DEF TypeOK, Drifts
<1>2. ASSUME NEW e \in Devices
      PROVE  device[e] \in Device /\ DeviceAgrees(device[e], device'[e])
  BY DEF TypeOK, Drifts
<1>3. ASSUME NEW e \in Devices
      PROVE  device'[e].status \in TERMINAL_DEVICE_STATUSES <=>
               device[e].status \in TERMINAL_DEVICE_STATUSES
  BY <1>2 DEF DeviceAgrees, TERMINAL_DEVICE_STATUSES, Device
<1>4. QED
  BY <1>1, <1>2, <1>3, AgreeingAnswers, AgreeingDevice

\* A drift takes no address, no count, no identifier and no file.
LEMMA DriftKeepsSets ==
  ASSUME TypeOK, Drifts
  PROVE  /\ \A u : CountedDevices(u)' = CountedDevices(u)
         /\ FreeIps' = FreeIps
         /\ \A p \in Packages : FreshPackage(p)' = FreshPackage(p)
         /\ \A d \in Devices : \A file : Withdrawn(d, file)' = Withdrawn(d, file)
         /\ \A d \in Devices : \A file : Removed(d, file)' = Removed(d, file)
<1>1. \A u : CountedDevices(u)' = CountedDevices(u)
  BY DriftKeepsAnswers DEF CountedDevices, DeviceExists
<1>2. FreeIps' = FreeIps
  <2>1. AllocatedIps' = AllocatedIps
    BY DriftKeepsAnswers DEF AllocatedIps, DeviceExists
  <2>2. QED
    BY <2>1 DEF FreeIps
<1>3. \A p \in Packages : FreshPackage(p)' = FreshPackage(p)
  BY DriftKeepsAnswers DEF FreshPackage, PackageExists, Drifts
<1>4. \A d \in Devices : PackagesOf(d)' = PackagesOf(d)
  BY DriftKeepsAnswers DEF PackagesOf
<1>5. \A d \in Devices : \A file : Withdrawn(d, file)' = Withdrawn(d, file)
  BY <1>4, DriftKeepsAnswers DEF Withdrawn, PackagesOf
<1>6. \A d \in Devices : \A file : Removed(d, file)' = Removed(d, file)
  BY <1>4, DriftKeepsAnswers DEF Removed, PackagesOf
<1>7. QED
  BY <1>1, <1>2, <1>3, <1>5, <1>6

\* So a request still knows what it knew.
LEMMA AloneStays ==
  ASSUME TypeOK, Drifts, NEW r \in Request, SessionOK(r), Alone(r)
  PROVE  Alone(r)'
<1>1. /\ r.row \in Device /\ r.rows \in [Packages -> InstallPackage]
      /\ device \in [Devices -> Device] /\ package \in [Packages -> InstallPackage]
  BY DEF Request, TypeOK
<1>2. /\ PackageSession(r)' => PackageSession(r)
      /\ CreateSession(r)' => CreateSession(r)
      /\ ResetSession(r)' => ResetSession(r)
      /\ RevokeSession(r)' => RevokeSession(r)
  <2>1. /\ PackageSession(r)' => r.op \in {"download", "serve", "expire", "confirm"}
        /\ PackageSession(r)' => r.pc # "sending"
        /\ CreateSession(r)' => r.op = "create"
        /\ ResetSession(r)' => r.op = "reset"
        /\ RevokeSession(r)' => r.op = "revoke"
    BY DEF PackageSession, CreateSession, ResetSession, RevokeSession
  <2>2. QED
    BY <2>1 DEF SessionOK, Idle, PackageSession, SendingSession, CreateSession,
                ResetSession, RevokeSession
<1>3. \A q \in Packages : PackageAgrees(r.rows[q], package[q]) =>
                            PackageAgrees(r.rows[q], package'[q])
  BY <1>1, DriftKeepsAnswers, AgreeTransitive DEF Drifts
<1>4. \A e \in Devices : DeviceAgrees(r.row, device[e]) => DeviceAgrees(r.row, device'[e])
  BY <1>1, DriftKeepsAnswers, AgreeTransitive DEF Drifts
<1>5. RowsAgree(r) => RowsAgree(r)'
  BY <1>3, DriftKeepsAnswers DEF RowsAgree
<1>6. ASSUME PackageSession(r), PackageAlone(r)
      PROVE  PackageAlone(r)'
  <2>1. r.p \in Packages /\ r.d \in Devices
    BY <1>6 DEF PackageSession
  <2>2. QED
    BY <1>3, <1>4, <1>6, <2>1, DriftKeepsAnswers DEF PackageAlone, Drifts
<1>7. ASSUME CreateSession(r), CreateAlone(r)
      PROVE  CreateAlone(r)'
  BY <1>7, DriftKeepsSets DEF CreateAlone, AllocateForDevice, Drifts
<1>8. ASSUME ResetSession(r), ResetAlone(r)
      PROVE  ResetAlone(r)'
  <2>1. r.d \in Devices
    BY <1>8 DEF ResetSession, LoadedDevice
  <2>2. QED
    BY <1>4, <1>5, <1>8, <2>1, DriftKeepsSets DEF ResetAlone, Drifts
<1>9. ASSUME RevokeSession(r), RevokeAlone(r)
      PROVE  RevokeAlone(r)'
  <2>1. r.d \in Devices
    BY <1>9 DEF RevokeSession, LoadedDevice
  <2>2. QED
    BY <1>4, <1>5, <1>9, <2>1, DriftKeepsSets DEF RevokeAlone, Drifts
<1>10. QED
  BY <1>2, <1>6, <1>7, <1>8, <1>9 DEF Alone

-----------------------------------------------------------------------------
(***************************************************************************)
(* Commits: each is the handler of DeviceLifecycle, on the rows as they    *)
(* are and from the file as it was.                                        *)
(***************************************************************************)

AloneInv == RequestInv /\ IndInv /\ \A t \in Threads : Alone(requests[t])

Simulates == Lifecycle!Next \/ UNCHANGED Lifecycle!vars

\* What the request holds is one device's file.
LEMMA HeldFile ==
  ASSUME NEW t, Threads = {t}, TypeOK, requests[t].pc \in {"touched", "locked"},
         requests[t].d \in Devices
  PROVE  /\ ArtifactAtCommit[requests[t].d] = requests[t].file
         /\ \A e \in Devices \ {requests[t].d} : ArtifactAtCommit[e] = artifact[e]
         /\ artifact = [ArtifactAtCommit EXCEPT ![requests[t].d] = artifact[requests[t].d]]
<1>1. /\ ArtifactAtCommit =
           [e \in Devices |-> IF Held(requests[t], e) THEN requests[t].file ELSE artifact[e]]
      /\ artifact = [e \in Devices |-> artifact[e]]
  BY Mapped DEF TypeOK
<1>2. \A e \in Devices : Held(requests[t], e) <=> e = requests[t].d
  BY DEF Held
<1>3. QED
  BY <1>1, <1>2

\* What a thread alone knows of the package it works on.
LEMMA PackageFacts ==
  ASSUME AloneInv, NEW t \in Threads, PackageSession(requests[t]),
         requests[t].pc # "package_read"
  PROVE  LET r == requests[t] IN
         /\ r.p \in Packages /\ r.d \in Devices
         /\ package[r.p].device = r.d
         /\ r.rows[r.p] \in InstallPackage /\ r.row \in Device
         /\ PackageAgrees(r.rows[r.p], package[r.p])
         /\ package[r.p].status \in Downloadable /\ ~package[r.p].confirmed
         /\ device[r.d] = r.row
         /\ IF r.op = "confirm" THEN MayConfirm(package[r.p]) ELSE MayDownload(package[r.p])
<1>. DEFINE r == requests[t]
<1>1. /\ r \in Request /\ PackageAlone(r)
      /\ r.p \in Packages /\ r.d \in Devices /\ package[r.p].device = r.d
      /\ IF r.op = "confirm" THEN MayConfirm(r.rows[r.p]) ELSE MayDownload(r.rows[r.p])
  BY DEF AloneInv, RequestInv, RequestsTypeOK, Alone, PackageSession, LoadedPackage
<1>2. /\ r.rows[r.p] \in InstallPackage /\ r.row \in Device
      /\ PackageAgrees(r.rows[r.p], package[r.p]) /\ DeviceAgrees(r.row, device[r.d])
  BY <1>1 DEF Request, PackageAlone
<1>3. /\ MayConfirm(package[r.p]) = MayConfirm(r.rows[r.p])
      /\ MayDownload(package[r.p]) = MayDownload(r.rows[r.p])
  BY <1>2, AgreeingAnswers
<1>4. package[r.p].status \in Downloadable /\ ~package[r.p].confirmed
  BY <1>1, <1>3 DEF MayConfirm, MayDownload
<1>5. device[r.d].status \in Downloadable
  BY <1>1, <1>4 DEF AloneInv, IndInv, LivePackageOwnsDevice
<1>6. device[r.d] = r.row
  BY <1>2, <1>5, AgreeingDevice
<1>7. QED
  BY <1>1, <1>2, <1>3, <1>4, <1>6

\* record_download_attempt once the window is over.
LEMMA ExpiryAlone ==
  ASSUME AloneInv, NEW t, Threads = {t}, CommitsExpiry(t), TypeOK'
  PROVE  WritesExpired(requests[t].p) /\ Simulates
<1>. DEFINE r == requests[t]
            p == r.p
            d == r.d
<1>1. /\ RequestInv /\ TypeOK /\ t \in Threads /\ r.op = "expire" /\ r.pc = "touched"
      /\ requests \in [Threads -> Request]
  BY DEF AloneInv, RequestInv, RequestsTypeOK, CommitsExpiry, At
<1>2. PackageSession(r) /\ PackageAlone(r)
  BY <1>1, SessionOf DEF AloneInv, Alone
<1>3. /\ p \in Packages /\ d \in Devices /\ package[p].device = d
      /\ r.rows[p] \in InstallPackage /\ PackageAgrees(r.rows[p], package[p])
      /\ device[d] = r.row /\ r.row \in Device /\ MayDownload(package[p])
      /\ r.rows[p].window # "open"
  BY <1>1, <1>2, PackageFacts DEF PackageAlone
<1>4. package' = [package EXCEPT ![p] = ExpiredPackage(package[p])]
  BY <1>3, AgreeingFlush DEF CommitsExpiry, WriteBoth
<1>5. device' = device
  <2>1. Flush(device[d], r.row, r.row) = device[d]
    BY <1>3, FlushUnchanged
  <2>2. QED
    BY <1>1, <1>3, <2>1 DEF CommitsExpiry, WriteBoth, TypeOK
<1>6. WritesExpired(p)
  BY <1>3, <1>4, <1>5 DEF WritesExpired
<1>7. requests'[t] = Idle /\ artifact' = artifact /\ limit' = limit /\ jobs' = jobs
  BY <1>1 DEF CommitsExpiry, End, Become
<1>8. /\ PackageAtCommit = package /\ PackageAtCommit' = package'
      /\ ArtifactAtCommit' = artifact
  BY <1>1, <1>7, MappedRows, MappedRowsAfter DEF Idle
<1>9. /\ ArtifactAtCommit[d] = r.file
      /\ ArtifactAtCommit' = [ArtifactAtCommit EXCEPT ![d] = artifact[d]]
  BY <1>1, <1>3, <1>8, HeldFile
<1>10. artifact[d] = IF HasArtifactPath(package[p]) THEN None ELSE r.file
  BY <1>1, <1>2 DEF PackageAlone
<1>11. package[p].window # "open"
  BY <1>3, AgreeingAnswers
<1>12. Lifecycle!ExpireOnDownload(p)
  <2>1. Lifecycle!FileAfterDelete(p) = artifact[d]
    BY <1>3, <1>8, <1>9, <1>10, SameConstants DEF Lifecycle!FileAfterDelete
  <2>. HIDE DEF p, d, r
  <2>2. QED
    BY <1>3, <1>4, <1>5, <1>7, <1>8, <1>9, <1>11, <2>1, SameConstants, SameHandlers
       DEF Lifecycle!ExpireOnDownload
<1>13. QED
  BY <1>3, <1>6, <1>12 DEF Simulates, Lifecycle!Next, Lifecycle!PortalNext

\* record_download_attempt when the artifact is handed out: the window it was
\* granted in is still open in the mapped state.
LEMMA GrantAlone ==
  ASSUME AloneInv, NEW t, Threads = {t}, CommitsGrant(t), TypeOK'
  PROVE  WritesServed(requests[t].p) /\ Simulates
<1>. DEFINE r == requests[t]
            p == r.p
            d == r.d
<1>1. /\ RequestInv /\ TypeOK /\ t \in Threads /\ r.op = "serve" /\ r.pc = "read"
      /\ requests \in [Threads -> Request] /\ package \in [Packages -> InstallPackage]
  BY DEF AloneInv, RequestInv, RequestsTypeOK, CommitsGrant, At, TypeOK
<1>2. PackageSession(r) /\ PackageAlone(r)
  BY <1>1, SessionOf DEF AloneInv, Alone
<1>3. /\ p \in Packages /\ d \in Devices /\ package[p].device = d
      /\ r.rows[p] \in InstallPackage /\ PackageAgrees(r.rows[p], package[p])
      /\ device[d] = r.row /\ r.row \in Device /\ MayDownload(package[p])
      /\ r.rows[p].window = "open" /\ artifact[d] # None
      /\ r.rows[p].download_attempts < MaxAttempts
  BY <1>1, <1>2, PackageFacts DEF PackageAlone, PackageSession
<1>4. package' = [package EXCEPT ![p] = ServedPackage(package[p])]
  BY <1>3, AgreeingFlush DEF CommitsGrant, WriteBoth
<1>5. package[p].download_attempts < MaxAttempts
  BY <1>3, AgreeingAnswers
<1>6. ServedDevice(r.row, r.rows[p]) = ServedDevice(device[d], package[p])
  BY <1>3, AgreeingAnswers DEF ServedDevice
<1>7. ServedDevice(device[d], package[p]) \in Device
  BY <1>1, <1>3, DeviceRows
<1>8. device' = [device EXCEPT ![d] = ServedDevice(device[d], package[p])]
  BY <1>3, <1>6, <1>7, FlushUnchanged DEF CommitsGrant, WriteBoth
<1>9. WritesServed(p)
  BY <1>3, <1>4, <1>5, <1>8 DEF WritesServed
<1>10. /\ requests'[t] = [Idle EXCEPT !.op = "serve", !.pc = "sending", !.p = p]
       /\ artifact' = artifact /\ limit' = limit /\ jobs' = jobs
  BY <1>1 DEF CommitsGrant, Become
<1>11. requests'[t].op = "serve" /\ requests'[t].pc = "sending" /\ requests'[t].p = p
  BY <1>10 DEF Idle
<1>12. ArtifactAtCommit = artifact /\ ArtifactAtCommit' = artifact
  BY <1>1, <1>10, <1>11, MappedRows, MappedRowsAfter
(* Both sides of the step are masked for p, and for no other package. *)
<1>13. /\ \A q \in Packages : Masks(r, q) <=> q = p
       /\ \A q \in Packages : Masks(requests'[t], q) <=> q = p
  BY <1>1, <1>11 DEF Masks
<1>14. /\ PackageAtCommit = [package EXCEPT ![p] = r.rows[p]]
  <2>1. Masked(r, p, package[p]) = r.rows[p]
    BY <1>3, <1>13 DEF Masked, PackageAgrees, InstallPackage
  <2>2. \A q \in Packages \ {p} : Masked(r, q, package[q]) = package[q]
    BY <1>13 DEF Masked
  <2>3. QED
    BY <1>1, <1>3, <2>1, <2>2, Mapped
<1>15. PackageAtCommit' = [package EXCEPT ![p] = ServedPackage(r.rows[p])]
  <2>1. Masked(requests'[t], p, ServedPackage(package[p])) = ServedPackage(r.rows[p])
    <3>1. CASE package[p] = r.rows[p]
      BY <1>3, <3>1 DEF Masked, ServedPackage, InstallPackage
    <3>2. CASE package[p] = [r.rows[p] EXCEPT !.window = "closed"]
      <4>1. ServedPackage(package[p]).window = "closed"
        BY <1>1, <1>3, <3>2 DEF ServedPackage, InstallPackage
      <4>2. [ServedPackage(package[p]) EXCEPT !.window = "open"] = ServedPackage(r.rows[p])
        BY <1>3, <3>2 DEF ServedPackage, InstallPackage
      <4>3. QED
        BY <1>3, <1>13, <4>1, <4>2 DEF Masked
    <3>3. QED
      BY <1>3, <3>1, <3>2 DEF PackageAgrees
  <2>2. \A q \in Packages \ {p} : Masked(requests'[t], q, package[q]) = package[q]
    BY <1>13 DEF Masked
  <2>3. QED
    BY <1>1, <1>3, <1>4, <2>1, <2>2, Mapped
<1>16. Lifecycle!ServeDownload(p)
  <2>1. /\ PackageAtCommit[p] = r.rows[p]
        /\ PackageAtCommit' = [PackageAtCommit EXCEPT ![p] = ServedPackage(r.rows[p])]
    BY <1>1, <1>3, <1>14, <1>15
  <2>2. MayDownload(r.rows[p]) /\ r.rows[p].device = d
    BY <1>3, AgreeingAnswers
  <2>3. device' = [device EXCEPT ![d] = ServedDevice(device[d], r.rows[p])]
    BY <1>3, <1>6, <1>8
  <2>. HIDE DEF p, d, r
  <2>4. QED
    BY <1>3, <1>10, <1>12, <2>1, <2>2, <2>3, SameConstants, SameHandlers
       DEF Lifecycle!ServeDownload, Lifecycle!ServeGuard
<1>17. QED
  BY <1>3, <1>9, <1>16 DEF Simulates, Lifecycle!Next, Lifecycle!PortalNext

\* confirm_download.
LEMMA ConfirmationAlone ==
  ASSUME AloneInv, NEW t, Threads = {t}, CommitsConfirmation(t), TypeOK'
  PROVE  WritesConfirmed(requests[t].p) /\ Simulates
<1>. DEFINE r == requests[t]
            p == r.p
            d == r.d
<1>1. /\ RequestInv /\ TypeOK /\ t \in Threads /\ r.op = "confirm" /\ r.pc = "touched"
      /\ requests \in [Threads -> Request]
  BY DEF AloneInv, RequestInv, RequestsTypeOK, CommitsConfirmation, At
<1>2. PackageSession(r) /\ PackageAlone(r)
  BY <1>1, SessionOf DEF AloneInv, Alone
<1>3. /\ p \in Packages /\ d \in Devices /\ package[p].device = d
      /\ r.rows[p] \in InstallPackage /\ PackageAgrees(r.rows[p], package[p])
      /\ device[d] = r.row /\ r.row \in Device /\ MayConfirm(package[p])
  BY <1>1, <1>2, PackageFacts
<1>4. package' = [package EXCEPT ![p] = ConfirmedPackage(package[p])]
  BY <1>3, AgreeingFlush DEF CommitsConfirmation, WriteBoth
<1>5. device' = [device EXCEPT ![d] = ConfirmedDevice(device[d])]
  <2>1. ConfirmedDevice(device[d]) \in Device
    BY <1>3 DEF ConfirmedDevice, Device, DeviceStatus
  <2>2. QED
    BY <1>3, <2>1, FlushUnchanged DEF CommitsConfirmation, WriteBoth
<1>6. WritesConfirmed(p)
  BY <1>3, <1>4, <1>5 DEF WritesConfirmed
<1>7. /\ requests'[t] = Idle /\ artifact' = artifact /\ limit' = limit
      /\ Enqueue("apply_peer", d)
  BY <1>1 DEF CommitsConfirmation, End, Become
<1>8. /\ PackageAtCommit = package /\ PackageAtCommit' = package'
      /\ ArtifactAtCommit' = artifact
  BY <1>1, <1>7, MappedRows, MappedRowsAfter DEF Idle
<1>9. /\ ArtifactAtCommit[d] = r.file
      /\ ArtifactAtCommit' = [ArtifactAtCommit EXCEPT ![d] = artifact[d]]
  BY <1>1, <1>3, <1>8, HeldFile
<1>10. artifact[d] = IF HasArtifactPath(package[p]) THEN None ELSE r.file
  BY <1>1, <1>2 DEF PackageAlone
<1>11. Lifecycle!ConfirmDownload(p)
  <2>1. Lifecycle!FileAfterDelete(p) = artifact[d]
    BY <1>3, <1>8, <1>9, <1>10, SameConstants DEF Lifecycle!FileAfterDelete
  <2>2. Lifecycle!Enqueue("apply_peer", d)
    BY <1>7 DEF Enqueue, Lifecycle!Enqueue
  <2>. HIDE DEF p, d, r
  <2>3. QED
    BY <1>3, <1>4, <1>5, <1>7, <1>8, <1>9, <2>1, <2>2, SameConstants, SameHandlers
       DEF Lifecycle!ConfirmDownload
<1>12. QED
  BY <1>3, <1>6, <1>11 DEF Simulates, Lifecycle!Next, Lifecycle!PortalNext

\* A number of elements is one number in both modules.
LEMMA SameCardinality == \A S : Lifecycle!Cardinality(S) = Cardinality(S)
BY DEF Lifecycle!Cardinality, Cardinality

\* What a handler reads of the devices is the same in the mapped state.
LEMMA SameDeviceReads ==
  /\ \A u : Lifecycle!CountedDevices(u) = CountedDevices(u)
  /\ \A ip : Lifecycle!AllocateForDevice(ip) = AllocateForDevice(ip)
  /\ \A d : Lifecycle!DeviceExists(d) = DeviceExists(d)
<1>1. \A d : Lifecycle!DeviceExists(d) = DeviceExists(d)
  BY DEF Lifecycle!DeviceExists, DeviceExists
<1>2. \A u : Lifecycle!CountedDevices(u) = CountedDevices(u)
  BY <1>1, SameConstants DEF Lifecycle!CountedDevices, CountedDevices
<1>3. Lifecycle!FreeIps = FreeIps
  BY <1>1 DEF Lifecycle!FreeIps, FreeIps, Lifecycle!AllocatedIps, AllocatedIps
<1>4. \A ip : Lifecycle!AllocateForDevice(ip) = AllocateForDevice(ip)
  BY <1>3 DEF Lifecycle!AllocateForDevice, AllocateForDevice
<1>5. QED
  BY <1>1, <1>2, <1>4

\* A package under construction is new to the tables, and to the disk as it was.
LEMMA BuildIsNew ==
  ASSUME AloneInv, NEW t, Threads = {t}, NewBuild(requests[t]),
         requests[t].op \in {"create", "reset"}, requests[t].pc = "locked",
         requests[t].file # requests[t].p
  PROVE  /\ PackageAtCommit = package
         /\ Lifecycle!FreshPackage(requests[t].p)
<1>1. TypeOK
  BY DEF AloneInv, RequestInv, RequestsTypeOK
<1>2. PackageAtCommit = package
  BY <1>1, MappedRows
<1>3. requests[t].p \in Packages /\ requests[t].d \in Devices
  BY DEF NewBuild
<1>4. \A e \in Devices : ArtifactAtCommit[e] # requests[t].p
  BY <1>1, <1>3, HeldFile DEF NewBuild
<1>5. QED
  BY <1>2, <1>4 DEF NewBuild, Lifecycle!FreshPackage, Lifecycle!PackageExists, PackageExists

\* create_device.
LEMMA CreationAlone ==
  ASSUME AloneInv, NEW t, Threads = {t}, CommitsDevice(t), TypeOK'
  PROVE  LET r == requests[t] IN
         /\ r.user \in Users /\ r.d \in Devices /\ r.p \in Packages
         /\ r.outcome \in BuildOutcome /\ r.ip \in 1..PoolSize
         /\ WritesCreated(r.user, r.ip, r.d, r.p, r.outcome)
         /\ Simulates
<1>. DEFINE r == requests[t]
            u == r.user
            ip == r.ip
            p == r.p
            d == r.d
            outcome == r.outcome
<1>1. /\ RequestInv /\ TypeOK /\ t \in Threads /\ r.op = "create" /\ r.pc = "locked"
      /\ requests \in [Threads -> Request] /\ r \in Request
  BY DEF AloneInv, RequestInv, RequestsTypeOK, CommitsDevice, At
<1>2. CreateSession(r) /\ CreateAlone(r)
  BY <1>1, SessionOf DEF AloneInv, Alone
<1>3. /\ NewBuild(r) /\ u \in Users /\ d \in Devices /\ p \in Packages
      /\ outcome \in BuildOutcome /\ ip \in 1..PoolSize
      /\ ~DeviceExists(d) /\ ~PackageExists(p) /\ BuildMay(outcome)
  BY <1>1, <1>2 DEF CreateSession, NewBuild, Request
<1>4. /\ Cardinality(CountedDevices(u)) < limit[u]
      /\ AllocateForDevice(ip) /\ r.file = None
      /\ artifact[d] = FileAfterBuild(None, p, outcome)
  BY <1>1, <1>2 DEF CreateAlone
<1>5. /\ device' = [device EXCEPT ![d] = DeviceAfterBuild(CreatedDevice(u, ip), p, outcome)]
      /\ package' = [package EXCEPT ![p] = PackageAfterBuild(d, outcome)]
      /\ requests'[t] = Idle /\ artifact' = artifact /\ limit' = limit /\ jobs' = jobs
  BY <1>1 DEF CommitsDevice, End, Become
<1>6. WritesCreated(u, ip, d, p, outcome)
  BY <1>3, <1>5 DEF WritesCreated
<1>7. PackageAtCommit' = package' /\ ArtifactAtCommit' = artifact
  BY <1>5, MappedRowsAfter DEF Idle
<1>8. /\ ArtifactAtCommit[d] = None
      /\ ArtifactAtCommit' = [ArtifactAtCommit EXCEPT ![d] = artifact[d]]
  BY <1>1, <1>3, <1>4, <1>7, HeldFile
<1>9. PackageAtCommit = package /\ Lifecycle!FreshPackage(p)
  <2>1. r.file # p
    BY <1>3, <1>4, IdentifierAssumption
  <2>2. QED
    BY <1>1, <1>3, <2>1, BuildIsNew
<1>10. Lifecycle!CreateGuard(u, d, p, ip)
  BY <1>3, <1>4, <1>8, <1>9, SameDeviceReads, SameCardinality
     DEF Lifecycle!CreateGuard, Lifecycle!FreshDevice
<1>11. Lifecycle!CreateDevice(u, d, p, outcome)
  <2>1. Lifecycle!FileAfterBuild(ArtifactAtCommit[d], p, outcome) = artifact[d]
    BY <1>4, <1>8, SameConstants DEF Lifecycle!FileAfterBuild, FileAfterBuild
  <2>. HIDE DEF u, ip, p, d, outcome, r
  <2>2. QED
    BY <1>3, <1>5, <1>7, <1>8, <1>9, <1>10, <2>1, SameConstants, SameHandlers
       DEF Lifecycle!CreateDevice
<1>12. Lifecycle!Next
  <2>. HIDE DEF u, ip, p, d, outcome, r
  <2>1. QED
    BY <1>3, <1>11, SameConstants DEF Lifecycle!Next, Lifecycle!PortalNext
<1>13. QED
  BY <1>3, <1>6, <1>12 DEF Simulates

\* reset_device.
LEMMA ResetCommitAlone ==
  ASSUME AloneInv, NEW t, Threads = {t}, CommitsReset(t), TypeOK'
  PROVE  LET r == requests[t] IN
         /\ r.d \in Devices /\ r.p \in Packages /\ r.outcome \in BuildOutcome
         /\ WritesReset(r.d, r.p, r.outcome)
         /\ Simulates
<1>. DEFINE r == requests[t]
            p == r.p
            d == r.d
            outcome == r.outcome
<1>1. /\ RequestInv /\ TypeOK /\ t \in Threads /\ r.op = "reset" /\ r.pc = "locked"
      /\ requests \in [Threads -> Request] /\ r \in Request
      /\ package \in [Packages -> InstallPackage]
  BY DEF AloneInv, RequestInv, RequestsTypeOK, CommitsReset, At, TypeOK
<1>2. ResetSession(r) /\ ResetAlone(r)
  BY <1>1, SessionOf DEF AloneInv, Alone
<1>3. /\ NewBuild(r) /\ d \in Devices /\ p \in Packages /\ outcome \in BuildOutcome
      /\ DeviceExists(d) /\ ~PackageExists(p) /\ BuildMay(outcome)
      /\ r.row \in Device /\ r.rows \in [Packages -> InstallPackage]
  BY <1>1, <1>2 DEF ResetSession, LoadedDevice, NewBuild, Request
<1>4. /\ DeviceAgrees(r.row, device[d]) /\ r.row.status # "revoked" /\ RowsAgree(r)
      /\ r.file # p /\ artifact[d] = FileAfterBuild(Withdrawn(d, r.file), p, outcome)
  BY <1>1, <1>2 DEF ResetAlone
<1>5. device[d].status # "revoked"
  BY <1>3, <1>4, AgreeingDevice
<1>6. device' = [device EXCEPT ![d] = DeviceAfterBuild(ResetDevice(device[d]), p, outcome)]
  BY <1>3, <1>4, AgreeingDeviceFlush DEF CommitsReset
<1>7. package' = [WithdrawPackages(d) EXCEPT ![p] = PackageAfterBuild(d, outcome)]
  <2>1. ASSUME NEW q \in Packages, package[q].device = d
        PROVE  /\ q \in PackagesOf(d)
               /\ Flush(package[q], r.rows[q], WithdrawnPackage(r.rows[q]))
                    = WithdrawnPackage(package[q])
    BY <1>3, <1>4, <2>1, AgreeingFlush DEF RowsAgree, PackagesOf
  <2>2. ASSUME NEW q \in Packages, package[q].device # d
        PROVE  /\ q \notin PackagesOf(d)
               /\ Flush(package[q], r.rows[q], WithdrawnPackage(r.rows[q])) = package[q]
    <3>1. r.rows[q] = NoPackage
      BY <1>4, <2>2 DEF RowsAgree
    <3>2. WithdrawnPackage(NoPackage) = NoPackage
      BY DEF WithdrawnPackage, NoPackage, ACTIVE_PACKAGE_STATUSES
    <3>3. Flush(package[q], NoPackage, NoPackage) = package[q]
      BY <1>1 DEF Flush, InstallPackage
    <3>4. QED
      BY <2>2, <3>1, <3>2, <3>3 DEF PackagesOf
  <2>3. /\ WithdrawPackages(d) = [q \in Packages |-> IF q \in PackagesOf(d)
                                    THEN WithdrawnPackage(package[q]) ELSE package[q]]
        /\ package' = [q \in Packages |->
             IF q = p THEN PackageAfterBuild(d, outcome)
             ELSE Flush(package[q], r.rows[q], WithdrawnPackage(r.rows[q]))]
    BY DEF WithdrawPackages, CommitsReset
  <2>. HIDE DEF d, p, r, outcome
  <2>4. \A q \in Packages \ {p} : package'[q] = WithdrawPackages(d)[q]
    BY <2>1, <2>2, <2>3
  <2>5. QED
    BY <1>3, <2>3, <2>4
<1>8. WritesReset(d, p, outcome)
  BY <1>3, <1>5, <1>6, <1>7 DEF WritesReset
<1>9. requests'[t] = Idle /\ artifact' = artifact /\ limit' = limit /\ jobs' = jobs
  BY <1>1 DEF CommitsReset, End, Become
<1>10. PackageAtCommit' = package' /\ ArtifactAtCommit' = artifact
  BY <1>9, MappedRowsAfter DEF Idle
<1>11. /\ ArtifactAtCommit[d] = r.file
       /\ ArtifactAtCommit' = [ArtifactAtCommit EXCEPT ![d] = artifact[d]]
  BY <1>1, <1>3, <1>10, HeldFile
<1>12. PackageAtCommit = package /\ Lifecycle!FreshPackage(p)
  BY <1>1, <1>3, <1>4, BuildIsNew
<1>13. /\ Lifecycle!FileAfterWithdrawal(d) = Withdrawn(d, r.file)
       /\ Lifecycle!WithdrawPackages(d) = WithdrawPackages(d)
  BY <1>11, <1>12, SameConstants, SameHandlers
     DEF Lifecycle!FileAfterWithdrawal, Withdrawn, Lifecycle!PackagesOf, PackagesOf,
         Lifecycle!WithdrawPackages, WithdrawPackages
<1>14. Lifecycle!Reset(d, p, outcome)
  <2>1. Lifecycle!FileAfterBuild(Lifecycle!FileAfterWithdrawal(d), p, outcome) = artifact[d]
    BY <1>4, <1>13, SameConstants DEF Lifecycle!FileAfterBuild, FileAfterBuild
  <2>2. Lifecycle!ResetGuard(d, p)
    BY <1>3, <1>5, <1>12, SameDeviceReads DEF Lifecycle!ResetGuard
  <2>. HIDE DEF p, d, outcome, r
  <2>3. QED
    BY <1>3, <1>6, <1>7, <1>9, <1>10, <1>11, <1>12, <1>13, <2>1, <2>2, SameConstants,
       SameHandlers DEF Lifecycle!Reset
<1>15. Lifecycle!Next
  <2>. HIDE DEF p, d, outcome, r
  <2>1. QED
    BY <1>3, <1>14, SameConstants DEF Lifecycle!Next, Lifecycle!PortalNext
<1>16. QED
  BY <1>3, <1>8, <1>15 DEF Simulates

\* revoke_device.
LEMMA RevocationAlone ==
  ASSUME AloneInv, NEW t, Threads = {t}, CommitsRevocation(t), TypeOK'
  PROVE  /\ requests[t].d \in Devices /\ WritesRevoked(requests[t].d)
         /\ Simulates
<1>. DEFINE r == requests[t]
            d == r.d
<1>1. /\ RequestInv /\ TypeOK /\ t \in Threads /\ r.op = "revoke" /\ r.pc = "locked"
      /\ requests \in [Threads -> Request] /\ r \in Request
      /\ package \in [Packages -> InstallPackage]
  BY DEF AloneInv, RequestInv, RequestsTypeOK, CommitsRevocation, At, TypeOK
<1>2. RevokeSession(r) /\ RevokeAlone(r)
  BY <1>1, SessionOf DEF AloneInv, Alone
<1>3. /\ d \in Devices /\ DeviceExists(d)
      /\ r.row \in Device /\ r.rows \in [Packages -> InstallPackage]
  BY <1>1, <1>2 DEF RevokeSession, LoadedDevice, Request
<1>4. /\ DeviceAgrees(r.row, device[d]) /\ RowsAgree(r)
      /\ artifact[d] = Removed(d, r.file)
  BY <1>1, <1>2 DEF RevokeAlone
<1>5. device' = [device EXCEPT ![d] = RevokedDevice(device[d])]
  <2>1. Flush(device[d], r.row, RevokedDevice(r.row)) = RevokedDevice(device[d])
    BY <1>3, <1>4, RevokedDeviceFlush
  <2>2. QED
    BY <1>3, <2>1 DEF CommitsRevocation
<1>6. package' = [q \in Packages |-> IF q \in PackagesOf(d) THEN RevokedPackage(package[q])
                                     ELSE package[q]]
  <2>1. ASSUME NEW q \in Packages, package[q].device = d
        PROVE  /\ q \in PackagesOf(d) /\ r.rows[q] # NoPackage
               /\ Flush(package[q], r.rows[q], RevokedPackage(r.rows[q]))
                    = RevokedPackage(package[q])
    <3>1. r.rows[q] \in InstallPackage /\ PackageAgrees(r.rows[q], package[q])
      BY <1>3, <1>4, <2>1 DEF RowsAgree
    <3>2. r.rows[q].device = d
      BY <2>1, <3>1, AgreeingAnswers
    <3>3. r.rows[q] # NoPackage
      BY <1>3, <3>2, IdentifierAssumption DEF NoPackage
    <3>4. QED
      BY <2>1, <3>1, <3>3, AgreeingFlush DEF PackagesOf
  <2>2. ASSUME NEW q \in Packages, package[q].device # d
        PROVE  q \notin PackagesOf(d) /\ r.rows[q] = NoPackage
    BY <1>4, <2>2 DEF RowsAgree, PackagesOf
  <2>3. package' = [q \in Packages |->
          IF r.rows[q] = NoPackage THEN package[q]
          ELSE Flush(package[q], r.rows[q], RevokedPackage(r.rows[q]))]
    BY DEF CommitsRevocation
  <2>. HIDE DEF d, r
  <2>4. QED
    BY <2>1, <2>2, <2>3
<1>7. WritesRevoked(d)
  BY <1>3, <1>5, <1>6 DEF WritesRevoked
<1>8. /\ requests'[t] = Idle /\ artifact' = artifact /\ limit' = limit
      /\ Enqueue("remove_peer", d)
  BY <1>1 DEF CommitsRevocation, End, Become
<1>9. /\ PackageAtCommit = package /\ PackageAtCommit' = package'
      /\ ArtifactAtCommit' = artifact
  BY <1>1, <1>8, MappedRows, MappedRowsAfter DEF Idle
<1>10. /\ ArtifactAtCommit[d] = r.file
       /\ ArtifactAtCommit' = [ArtifactAtCommit EXCEPT ![d] = artifact[d]]
  BY <1>1, <1>3, <1>9, HeldFile
<1>11. Lifecycle!FileAfterRevoke(d) = artifact[d]
  BY <1>4, <1>9, <1>10, SameConstants
     DEF Lifecycle!FileAfterRevoke, Removed, Lifecycle!PackagesOf, PackagesOf
<1>12. Lifecycle!Revoke(d)
  <2>1. Lifecycle!Enqueue("remove_peer", d)
    BY <1>8 DEF Enqueue, Lifecycle!Enqueue
  <2>2. Lifecycle!PackagesOf(d) = PackagesOf(d)
    BY <1>9 DEF Lifecycle!PackagesOf, PackagesOf
  <2>. HIDE DEF d, r
  <2>3. QED
    BY <1>3, <1>5, <1>6, <1>8, <1>9, <1>10, <1>11, <2>1, <2>2, SameDeviceReads, SameHandlers
       DEF Lifecycle!Revoke
<1>13. QED
  BY <1>3, <1>7, <1>12 DEF Simulates, Lifecycle!Next, Lifecycle!PortalNext

-----------------------------------------------------------------------------
(***************************************************************************)
(* What each step makes of its request.                                    *)
(***************************************************************************)

\* What a request that starts has loaded.
LEMMA StartsRequest ==
  ASSUME NEW t \in Threads, requests \in [Threads -> Request]
  PROVE  LET s == requests'[t] IN
         /\ \A u \in Users : CreateReadsUser(t, u) =>
              /\ requests[t] = Idle /\ s.op = "create" /\ s.pc = "user_read"
              /\ s.user = u /\ s.limit = limit[u] /\ s.file = None
         /\ \A d \in Devices : ResetReadsDevice(t, d) =>
              /\ requests[t] = Idle /\ s.op = "reset" /\ s.pc = "device_read"
              /\ s.d = d /\ s.row = device[d] /\ s.file = None
         /\ \A d \in Devices : RevokeReadsDevice(t, d) =>
              /\ requests[t] = Idle /\ s.op = "revoke" /\ s.pc = "device_read"
              /\ s.d = d /\ s.row = device[d]
         /\ \A p \in Packages, op \in {"download", "confirm"} : ReadsPackage(t, op, p) =>
              /\ requests[t] = Idle /\ s.op = op /\ s.pc = "package_read"
              /\ s.p = p /\ s.rows[p] = package[p]
<1>1. ASSUME NEW u \in Users, CreateReadsUser(t, u)
      PROVE  LET s == requests'[t] IN
             /\ requests[t] = Idle /\ s.op = "create" /\ s.pc = "user_read"
             /\ s.user = u /\ s.limit = limit[u] /\ s.file = None
  <2>1. /\ requests[t] = Idle
        /\ requests'[t] = [Idle EXCEPT !.op = "create", !.pc = "user_read", !.user = u,
                                       !.limit = limit[u]]
    BY <1>1 DEF CreateReadsUser, Start, Become
  <2>2. Idle.file = None
    BY DEF Idle
  <2>3. QED
    BY <2>1, <2>2, IdleRequest DEF Request
<1>2. ASSUME NEW d \in Devices, ResetReadsDevice(t, d)
      PROVE  LET s == requests'[t] IN
             /\ requests[t] = Idle /\ s.op = "reset" /\ s.pc = "device_read"
             /\ s.d = d /\ s.row = device[d] /\ s.file = None
  <2>1. /\ requests[t] = Idle
        /\ requests'[t] = [Idle EXCEPT !.op = "reset", !.pc = "device_read", !.d = d,
                                       !.row = device[d]]
    BY <1>2 DEF ResetReadsDevice, Start, Become
  <2>2. Idle.file = None
    BY DEF Idle
  <2>3. QED
    BY <2>1, <2>2, IdleRequest DEF Request
<1>3. ASSUME NEW d \in Devices, RevokeReadsDevice(t, d)
      PROVE  LET s == requests'[t] IN
             /\ requests[t] = Idle /\ s.op = "revoke" /\ s.pc = "device_read"
             /\ s.d = d /\ s.row = device[d]
  <2>1. /\ requests[t] = Idle
        /\ requests'[t] = [Idle EXCEPT !.op = "revoke", !.pc = "device_read", !.d = d,
                                       !.row = device[d]]
    BY <1>3 DEF RevokeReadsDevice, Start, Become
  <2>2. QED
    BY <2>1, IdleRequest DEF Request
<1>4. ASSUME NEW p \in Packages, NEW op \in {"download", "confirm"}, ReadsPackage(t, op, p)
      PROVE  LET s == requests'[t] IN
             /\ requests[t] = Idle /\ s.op = op /\ s.pc = "package_read"
             /\ s.p = p /\ s.rows[p] = package[p]
  <2>1. /\ requests[t] = Idle
        /\ requests'[t] = [Idle EXCEPT !.op = op, !.pc = "package_read", !.p = p,
                             !.d = package[p].device, !.rows[p] = package[p]]
    BY <1>4 DEF ReadsPackage, Start, Become
  <2>2. QED
    BY <2>1 DEF Idle, NoRows
<1>5. QED
  BY <1>1, <1>2, <1>3, <1>4

\* The device is loaded, the user's devices are counted, an address is chosen,
\* the packages are loaded - or the request is over.
LEMMA ReadsOn ==
  ASSUME NEW t \in Threads, requests \in [Threads -> Request]
  PROVE  LET r == requests[t]
             s == requests'[t]
             op == IF r.op = "download" THEN DownloadBranch(r) ELSE r.op
         IN
         /\ ReadsDevice(t) =>
              /\ r.pc = "package_read"
              /\ \/ op = "none" /\ s = Idle
                 \/ /\ s.op = op /\ s.pc = "read" /\ s.row = device[r.d]
                    /\ s.d = r.d /\ s.p = r.p /\ s.rows = r.rows
         /\ CreateCounts(t) =>
              /\ r.op = "create" /\ r.pc = "user_read"
              /\ \/ s = Idle
                 \/ /\ s.op = "create" /\ s.pc = "counted" /\ s.user = r.user
                    /\ s.file = r.file
                    /\ Cardinality(CountedDevices(r.user)) < r.limit
         /\ CreateAllocates(t) =>
              /\ r.op = "create" /\ r.pc = "counted"
              /\ \/ s = Idle
                 \/ /\ s.op = "create" /\ s.pc = "read" /\ s.user = r.user
                    /\ s.file = r.file /\ AllocateForDevice(s.ip)
         /\ ResetReadsPackages(t) =>
              /\ r.op = "reset" /\ r.pc = "device_read"
              /\ s.op = "reset" /\ s.pc = "read" /\ s.row = r.row /\ s.d = r.d
              /\ s.file = r.file /\ s.rows = RowsOf(r.d)
         /\ CreateCollides(t) => r.op = "create" /\ r.pc = "read" /\ s = Idle
         /\ Sends(t) => r.pc = "sending" /\ s = Idle
         /\ Lost(t) => s = Idle
<1>. DEFINE r == requests[t]
            s == requests'[t]
            op == IF r.op = "download" THEN DownloadBranch(r) ELSE r.op
<1>1. r \in Request
  OBVIOUS
<1>2. ASSUME ReadsDevice(t)
      PROVE  /\ r.pc = "package_read"
             /\ \/ op = "none" /\ s = Idle
                \/ /\ s.op = op /\ s.pc = "read" /\ s.row = device[r.d]
                   /\ s.d = r.d /\ s.p = r.p /\ s.rows = r.rows
  <2>1. /\ r.pc = "package_read"
        /\ s = IF op = "none" THEN Idle
               ELSE [r EXCEPT !.op = op, !.pc = "read", !.row = device[r.d]]
    BY <1>2 DEF ReadsDevice, Become
  <2>. HIDE DEF op
  <2>2. QED
    BY <1>1, <2>1 DEF Request
<1>3. ASSUME CreateCounts(t)
      PROVE  /\ r.op = "create" /\ r.pc = "user_read"
             /\ \/ s = Idle
                \/ /\ s.op = "create" /\ s.pc = "counted" /\ s.user = r.user
                   /\ s.file = r.file
                   /\ Cardinality(CountedDevices(r.user)) < r.limit
  <2>1. /\ r.op = "create" /\ r.pc = "user_read"
        /\ \/ s = Idle
           \/ /\ s = [r EXCEPT !.pc = "counted", !.limit = 0]
              /\ Cardinality(CountedDevices(r.user)) < r.limit
    BY <1>3 DEF CreateCounts, Become, At
  <2>2. QED
    BY <1>1, <2>1 DEF Request
<1>4. ASSUME CreateAllocates(t)
      PROVE  /\ r.op = "create" /\ r.pc = "counted"
             /\ \/ s = Idle
                \/ /\ s.op = "create" /\ s.pc = "read" /\ s.user = r.user
                   /\ s.file = r.file /\ AllocateForDevice(s.ip)
  <2>1. /\ r.op = "create" /\ r.pc = "counted"
        /\ \/ s = Idle
           \/ \E ip \in 1..PoolSize :
                AllocateForDevice(ip) /\ s = [r EXCEPT !.pc = "read", !.ip = ip]
    BY <1>4 DEF CreateAllocates, End, Become, At
  <2>2. QED
    BY <1>1, <2>1 DEF Request
<1>5. ASSUME ResetReadsPackages(t)
      PROVE  /\ r.op = "reset" /\ r.pc = "device_read"
             /\ s.op = "reset" /\ s.pc = "read" /\ s.row = r.row /\ s.d = r.d
             /\ s.file = r.file /\ s.rows = RowsOf(r.d)
  <2>1. /\ r.op = "reset" /\ r.pc = "device_read"
        /\ s = [r EXCEPT !.pc = "read", !.rows = RowsOf(r.d)]
    BY <1>5 DEF ResetReadsPackages, Become, At
  <2>2. QED
    BY <1>1, <2>1 DEF Request
<1>6. /\ CreateCollides(t) => r.op = "create" /\ r.pc = "read" /\ s = Idle
      /\ Sends(t) => r.pc = "sending" /\ s = Idle
      /\ Lost(t) => s = Idle
  BY DEF CreateCollides, Sends, Lost, End, Become, At
<1>7. QED
  BY <1>2, <1>3, <1>4, <1>5, <1>6

\* A file is unlinked, or a build writes it.
LEMMA TouchesOn ==
  ASSUME NEW t \in Threads, requests \in [Threads -> Request]
  PROVE  LET r == requests[t]
             s == requests'[t]
         IN
         /\ Unlinks(t) \/ ResetUnlinks(t) =>
              /\ r.op \in {"confirm", "expire", "reset"} /\ r.pc = "read"
              /\ ResetUnlinks(t) <=> r.op = "reset"
              /\ s.op = r.op /\ s.pc = "touched" /\ s.d = r.d /\ s.p = r.p
              /\ s.row = r.row /\ s.rows = r.rows /\ s.file = artifact[r.d]
         /\ RevokeUnlinks(t) =>
              /\ r.op = "revoke" /\ r.pc = "device_read"
              /\ s.op = "revoke" /\ s.pc = "locked" /\ s.d = r.d
              /\ s.row = r.row /\ s.rows = RowsOf(r.d) /\ s.file = artifact[r.d]
         /\ \A d \in Devices, p \in Packages, outcome \in BuildOutcome :
              CreateBuilds(t, d, p, outcome) =>
                /\ r.op = "create" /\ r.pc = "read"
                /\ s.op = "create" /\ s.pc = "locked" /\ s.d = d /\ s.p = p
                /\ s.outcome = outcome /\ s.user = r.user /\ s.ip = r.ip
                /\ s.file = r.file
         /\ \A p \in Packages, outcome \in BuildOutcome : ResetBuilds(t, p, outcome) =>
              /\ r.op = "reset" /\ r.pc = "touched"
              /\ s.op = "reset" /\ s.pc = "locked" /\ s.d = r.d /\ s.p = p
              /\ s.outcome = outcome /\ s.row = r.row /\ s.rows = r.rows
              /\ s.file = r.file
<1>. DEFINE r == requests[t]
            s == requests'[t]
<1>1. r \in Request
  OBVIOUS
<1>2. ASSUME Unlinks(t) \/ ResetUnlinks(t)
      PROVE  /\ r.op \in {"confirm", "expire", "reset"} /\ r.pc = "read"
             /\ ResetUnlinks(t) <=> r.op = "reset"
             /\ s.op = r.op /\ s.pc = "touched" /\ s.d = r.d /\ s.p = r.p
             /\ s.row = r.row /\ s.rows = r.rows /\ s.file = artifact[r.d]
  <2>1. /\ r.op \in {"confirm", "expire", "reset"} /\ r.pc = "read"
        /\ ResetUnlinks(t) <=> r.op = "reset"
        /\ s = [r EXCEPT !.pc = "touched", !.file = artifact[r.d]]
    BY <1>2 DEF Unlinks, ResetUnlinks, Become, At
  <2>2. QED
    BY <1>1, <2>1 DEF Request
<1>3. ASSUME RevokeUnlinks(t)
      PROVE  /\ r.op = "revoke" /\ r.pc = "device_read"
             /\ s.op = "revoke" /\ s.pc = "locked" /\ s.d = r.d
             /\ s.row = r.row /\ s.rows = RowsOf(r.d) /\ s.file = artifact[r.d]
  <2>1. /\ r.op = "revoke" /\ r.pc = "device_read"
        /\ s = [r EXCEPT !.pc = "locked", !.file = artifact[r.d], !.rows = RowsOf(r.d)]
    BY <1>3 DEF RevokeUnlinks, Become, At
  <2>2. QED
    BY <1>1, <2>1 DEF Request
<1>4. ASSUME NEW d \in Devices, NEW p \in Packages, NEW outcome \in BuildOutcome,
             CreateBuilds(t, d, p, outcome)
      PROVE  /\ r.op = "create" /\ r.pc = "read"
             /\ s.op = "create" /\ s.pc = "locked" /\ s.d = d /\ s.p = p
             /\ s.outcome = outcome /\ s.user = r.user /\ s.ip = r.ip
             /\ s.file = r.file
  <2>1. /\ r.op = "create" /\ r.pc = "read"
        /\ s = [r EXCEPT !.pc = "locked", !.d = d, !.p = p, !.outcome = outcome]
    BY <1>4 DEF CreateBuilds, Become, At
  <2>2. QED
    BY <1>1, <2>1 DEF Request
<1>5. ASSUME NEW p \in Packages, NEW outcome \in BuildOutcome, ResetBuilds(t, p, outcome)
      PROVE  /\ r.op = "reset" /\ r.pc = "touched"
             /\ s.op = "reset" /\ s.pc = "locked" /\ s.d = r.d /\ s.p = p
             /\ s.outcome = outcome /\ s.row = r.row /\ s.rows = r.rows
             /\ s.file = r.file
  <2>1. /\ r.op = "reset" /\ r.pc = "touched"
        /\ s = [r EXCEPT !.pc = "locked", !.p = p, !.outcome = outcome]
    BY <1>5 DEF ResetBuilds, Become, At
  <2>2. QED
    BY <1>1, <2>1 DEF Request
<1>6. QED
  BY <1>2, <1>3, <1>4, <1>5

-----------------------------------------------------------------------------
(***************************************************************************)
(* The other steps of a request: they change nothing of the mapped state,  *)
(* but for a window that a download no longer keeps open, and for what a   *)
(* lost request leaves on the disk.                                        *)
(***************************************************************************)

\* A step that changes no table, and no file but one the request holds back, is
\* a stutter of DeviceLifecycle.
LEMMA Stutters ==
  ASSUME NEW t, Threads = {t}, UNCHANGED <<limit, device, package, jobs>>,
         \A q \in Packages : Masked(requests'[t], q, package[q]) =
                               Masked(requests[t], q, package[q]),
         \A e \in Devices :
           (IF Held(requests'[t], e) THEN requests'[t].file ELSE artifact'[e]) =
             (IF Held(requests[t], e) THEN requests[t].file ELSE artifact[e])
  PROVE  UNCHANGED Lifecycle!vars
<1>1. ArtifactAtCommit' = ArtifactAtCommit
  BY Mapped
<1>2. PackageAtCommit' = PackageAtCommit
  BY Mapped
<1>3. QED
  BY <1>1, <1>2 DEF Lifecycle!vars

\* The download is over: a window that has closed meanwhile closes now.
LEMMA MaskDrops ==
  ASSUME NEW t, Threads = {t}, TypeOK, requests[t].pc \notin {"touched", "locked"},
         UNCHANGED <<limit, device, package, artifact, jobs>>,
         requests'[t].pc \notin {"touched", "locked"},
         requests'[t].op \notin {"serve", "download"}
  PROVE  Simulates
<1>. DEFINE p == requests[t].p
<1>1. TypeOK' /\ package \in [Packages -> InstallPackage]
  BY DEF TypeOK, PackageExists
<1>2. /\ ArtifactAtCommit = artifact /\ ArtifactAtCommit' = artifact
      /\ PackageAtCommit' = package
  BY <1>1, MappedRows, MappedRowsAfter
<1>3. PackageAtCommit = [q \in Packages |-> Masked(requests[t], q, package[q])]
  BY Mapped
<1>4. CASE p \in Packages /\ Masks(requests[t], p) /\ package[p].window = "closed"
  <2>1. /\ PackageAtCommit = [package EXCEPT ![p] = [package[p] EXCEPT !.window = "open"]]
        /\ PackageAtCommit[p].window = "open"
    BY <1>1, <1>3, <1>4 DEF Masked, Masks, InstallPackage
  <2>2. [PackageAtCommit[p] EXCEPT !.window = "closed"] = package[p]
    BY <1>1, <1>4, <2>1 DEF InstallPackage
  <2>3. package = [PackageAtCommit EXCEPT ![p].window = "closed"]
    BY <1>1, <1>4, <2>1, <2>2
  <2>4. Lifecycle!WindowCloses(p)
    BY <1>2, <2>1, <2>3 DEF Lifecycle!WindowCloses
  <2>5. QED
    BY <1>4, <2>4 DEF Simulates, Lifecycle!Next, Lifecycle!PortalNext
<1>5. CASE ~(p \in Packages /\ Masks(requests[t], p) /\ package[p].window = "closed")
  <2>1. \A q \in Packages : Masked(requests[t], q, package[q]) = package[q]
    BY <1>5 DEF Masked, Masks
  <2>2. PackageAtCommit = package
    BY <1>1, <1>3, <2>1
  <2>3. QED
    BY <1>2, <2>2 DEF Simulates, Lifecycle!vars
<1>6. QED
  BY <1>4, <1>5

\* The steps that read, a lost request apart.
LEMMA ReadsAlone ==
  ASSUME AloneInv, NEW t, Threads = {t}, Reads(t), ~Lost(t)
  PROVE  Simulates
<1>. DEFINE r == requests[t]
<1>1. /\ RequestInv /\ TypeOK /\ t \in Threads
      /\ requests \in [Threads -> Request]
      /\ UNCHANGED <<limit, device, package, artifact, jobs>>
  BY ReadsOnly DEF AloneInv, RequestInv, RequestsTypeOK
<1>2. ASSUME NEW p \in Packages, NEW op \in {"download", "confirm"}, ReadsPackage(t, op, p)
      PROVE  Simulates
  <2>1. /\ r = Idle
        /\ requests'[t].op = op /\ requests'[t].pc = "package_read" /\ requests'[t].p = p
        /\ requests'[t].rows[p] = package[p]
    BY <1>1, <1>2, StartsRequest
  <2>2. \A e : ~Held(r, e) /\ ~Held(requests'[t], e)
    BY <2>1 DEF Held, Idle
  <2>3. \A q \in Packages : Masked(requests'[t], q, package[q]) = package[q]
    BY <1>2, <2>1 DEF Masked, Masks
  <2>4. \A q \in Packages : Masked(r, q, package[q]) = package[q]
    BY <2>1 DEF Masked, Masks, Idle
  <2>5. QED
    BY <1>1, <2>2, <2>3, <2>4, Stutters DEF Simulates
<1>3. ASSUME ReadsDevice(t)
      PROVE  Simulates
  <2>. DEFINE op == IF r.op = "download" THEN DownloadBranch(r) ELSE r.op
  <2>1. r.pc = "package_read" /\ r.op \in {"download", "confirm"}
    BY <1>1, <1>3, SessionOf, ReadsOn DEF PackageSession
  <2>2. op \in {"none", "serve", "expire", "confirm"}
    BY <2>1 DEF DownloadBranch
  <2>3. \/ requests'[t] = Idle
        \/ /\ requests'[t].op = op /\ requests'[t].pc = "read" /\ requests'[t].p = r.p
           /\ requests'[t].rows = r.rows
    BY <1>1, <1>3, ReadsOn
  <2>4. CASE requests'[t] = Idle
    BY <1>1, <2>1, <2>4, MaskDrops DEF Idle
  <2>5. CASE requests'[t] # Idle /\ op = "serve"
    <3>1. r.op = "download" /\ r.rows[r.p].window = "open"
      BY <2>1, <2>5 DEF DownloadBranch
    <3>2. \A q \in Packages : Masks(requests'[t], q) <=> Masks(r, q)
      BY <2>3, <2>5, <3>1 DEF Masks
    <3>3. \A e : ~Held(r, e) /\ ~Held(requests'[t], e)
      BY <2>1, <2>3, <2>5 DEF Held
    <3>. HIDE DEF r
    <3>4. QED
      BY <1>1, <3>2, <3>3, Stutters DEF Simulates, Masked, r
  <2>6. CASE requests'[t] # Idle /\ op # "serve"
    <3>1. requests'[t].op \in {"none", "expire", "confirm"} /\ requests'[t].pc = "read"
      BY <2>2, <2>3, <2>6
    <3>2. QED
      BY <1>1, <2>1, <3>1, MaskDrops
  <2>7. QED
    BY <2>4, <2>5, <2>6
<1>4. ASSUME Sends(t)
      PROVE  Simulates
  <2>1. r.pc = "sending" /\ requests'[t] = Idle
    BY <1>1, <1>4, ReadsOn
  <2>2. QED
    BY <1>1, <2>1, MaskDrops DEF Idle
<1>5. ASSUME \/ \E u \in Users : CreateReadsUser(t, u)
             \/ \E d \in Devices : ResetReadsDevice(t, d) \/ RevokeReadsDevice(t, d)
      PROVE  Simulates
  <2>1. /\ r = Idle
        /\ requests'[t].op \in {"create", "reset", "revoke"}
        /\ requests'[t].pc \in {"user_read", "device_read"}
    BY <1>1, <1>5, StartsRequest
  <2>2. QED
    BY <1>1, <2>1, MaskDrops DEF Idle
<1>6. ASSUME CreateCounts(t) \/ CreateAllocates(t) \/ CreateCollides(t)
               \/ ResetReadsPackages(t)
      PROVE  Simulates
  <2>1. r.pc \in {"user_read", "counted", "read", "device_read"}
    BY <1>1, <1>6, ReadsOn
  <2>2. /\ requests'[t].op \in {"none", "create", "reset"}
        /\ requests'[t].pc \in {"idle", "counted", "read"}
    BY <1>1, <1>6, ReadsOn DEF Idle
  <2>3. QED
    BY <1>1, <2>1, <2>2, MaskDrops
<1>7. QED
  BY <1>2, <1>3, <1>4, <1>5, <1>6 DEF Reads

\* The steps that touch a file: the mapped state still has it as it was.
LEMMA TouchesAlone ==
  ASSUME AloneInv, NEW t, Threads = {t}, Deletes(t) \/ Builds(t)
  PROVE  UNCHANGED Lifecycle!vars
<1>. DEFINE r == requests[t]
<1>1. /\ RequestInv /\ TypeOK /\ t \in Threads
      /\ requests \in [Threads -> Request]
      /\ artifact \in [Devices -> Packages \cup {None}]
  BY DEF AloneInv, RequestInv, RequestsTypeOK, TypeOK
<1>2. ASSUME r.pc \notin {"touched", "locked"}, r.op \notin {"serve", "download"},
             requests'[t].op = r.op, requests'[t].pc \in {"touched", "locked"},
             requests'[t].d \in Devices,
             requests'[t].file = artifact[requests'[t].d],
             \A e \in Devices \ {requests'[t].d} : artifact'[e] = artifact[e],
             UNCHANGED <<limit, device, package, jobs>>
      PROVE  UNCHANGED Lifecycle!vars
  <2>1. \A q \in Packages : ~Masks(r, q) /\ ~Masks(requests'[t], q)
    BY <1>2 DEF Masks
  <2>2. \A e : ~Held(r, e) /\ (Held(requests'[t], e) <=> e = requests'[t].d)
    BY <1>2 DEF Held
  <2>. HIDE DEF r
  <2>3. QED
    BY <1>2, <2>1, <2>2, Stutters DEF Masked, r
<1>3. ASSUME Unlinks(t) \/ ResetUnlinks(t) \/ RevokeUnlinks(t)
      PROVE  UNCHANGED Lifecycle!vars
  <2>1. /\ r.op \in {"confirm", "expire", "reset", "revoke"}
        /\ r.pc \in {"read", "device_read"}
        /\ requests'[t].op = r.op /\ requests'[t].pc \in {"touched", "locked"}
        /\ requests'[t].d = r.d /\ requests'[t].file = artifact[r.d]
    BY <1>1, <1>3, TouchesOn
  <2>2. r.d \in Devices
    BY <1>1, <2>1, SessionOf DEF PackageSession, ResetSession, RevokeSession, LoadedDevice
  <2>3. /\ \A e \in Devices \ {r.d} : artifact'[e] = artifact[e]
        /\ UNCHANGED <<limit, device, package, jobs>>
    BY <1>1, <1>3, <2>2 DEF Unlinks, ResetUnlinks, RevokeUnlinks
  <2>. HIDE DEF r
  <2>4. QED
    BY <1>2, <2>1, <2>2, <2>3
<1>4. ASSUME NEW d \in Devices, NEW p \in Packages, NEW outcome \in BuildOutcome,
             CreateBuilds(t, d, p, outcome)
      PROVE  UNCHANGED Lifecycle!vars
  <2>1. /\ r.op = "create" /\ r.pc = "read" /\ artifact[d] = None
        /\ requests'[t].op = r.op /\ requests'[t].pc = "locked"
        /\ requests'[t].d = d /\ requests'[t].file = r.file
    BY <1>1, <1>4, TouchesOn DEF CreateBuilds, FreshDevice
  <2>2. r.file = None
    BY <1>1, <2>1, SessionOf DEF AloneInv, Alone, CreateAlone
  <2>3. /\ \A e \in Devices \ {d} : artifact'[e] = artifact[e]
        /\ UNCHANGED <<limit, device, package, jobs>>
    BY <1>1, <1>4 DEF CreateBuilds
  <2>. HIDE DEF r
  <2>4. QED
    BY <1>2, <2>1, <2>2, <2>3
<1>5. ASSUME NEW p \in Packages, NEW outcome \in BuildOutcome, ResetBuilds(t, p, outcome)
      PROVE  UNCHANGED Lifecycle!vars
  <2>1. /\ r.op = "reset" /\ r.pc = "touched"
        /\ requests'[t].op = "reset" /\ requests'[t].pc = "locked"
        /\ requests'[t].d = r.d /\ requests'[t].file = r.file
    BY <1>1, <1>5, TouchesOn
  <2>2. \A q \in Packages : ~Masks(r, q) /\ ~Masks(requests'[t], q)
    BY <2>1 DEF Masks
  <2>3. \A e : (Held(r, e) <=> e = r.d) /\ (Held(requests'[t], e) <=> e = r.d)
    BY <2>1 DEF Held
  <2>4. /\ \A e \in Devices \ {r.d} : artifact'[e] = artifact[e]
        /\ UNCHANGED <<limit, device, package, jobs>>
    BY <1>1, <1>5 DEF ResetBuilds
  <2>. HIDE DEF r
  <2>5. QED
    BY <2>1, <2>2, <2>3, <2>4, Stutters DEF Masked, r
<1>6. QED
  BY <1>3, <1>4, <1>5 DEF Deletes, Builds

\* A request that is lost leaves the rows as they are and the file as it made it.
LEMMA LostAlone ==
  ASSUME AloneInv, NEW t, Threads = {t}, Lost(t)
  PROVE  Simulates
<1>. DEFINE r == requests[t]
            p == r.p
            d == r.d
<1>1. /\ RequestInv /\ TypeOK /\ t \in Threads /\ r \in Request /\ SessionOK(r)
      /\ requests \in [Threads -> Request]
      /\ "lost_transaction" \in Faults /\ requests'[t] = Idle
      /\ UNCHANGED <<limit, device, package, artifact, jobs>>
  BY SessionOf, ReadsOn DEF AloneInv, RequestInv, RequestsTypeOK, Lost, vars
<1>2. CASE r.pc \notin {"touched", "locked"}
  BY <1>1, <1>2, MaskDrops DEF Idle
<1>3. CASE r.pc \in {"touched", "locked"}
  <2>1. TypeOK'
    BY <1>1 DEF TypeOK, PackageExists
  <2>2. /\ r.op \notin {"serve", "download"}
        /\ d \in Devices
    BY <1>1, <1>3 DEF SessionOK, Idle, PackageSession, SendingSession, CreateSession,
                      NewBuild, ResetSession, RevokeSession, LoadedDevice
  <2>3. /\ PackageAtCommit = package /\ PackageAtCommit' = package
        /\ ArtifactAtCommit' = artifact
        /\ ArtifactAtCommit[d] = r.file
        /\ ArtifactAtCommit' = [ArtifactAtCommit EXCEPT ![d] = artifact[d]]
    BY <1>1, <1>3, <2>1, <2>2, HeldFile, MappedRows, MappedRowsAfter DEF Idle
  <2>4. CASE r.op \in {"expire", "confirm"}
    <3>1. PackageSession(r) /\ PackageAlone(r) /\ r.pc = "touched"
      BY <1>1, <1>3, <2>4, SessionOf DEF AloneInv, Alone, PackageSession
    <3>2. /\ p \in Packages /\ package[p].device = d
          /\ r.rows[p] \in InstallPackage /\ PackageAgrees(r.rows[p], package[p])
          /\ \/ MayConfirm(package[p])
             \/ MayDownload(package[p]) /\ r.rows[p].window # "open"
      BY <1>1, <2>4, <3>1, PackageFacts DEF PackageAlone
    <3>3. r.rows[p].window # "open" => package[p].window # "open"
      BY <3>2, AgreeingAnswers
    <3>4. Lifecycle!FileAfterDelete(p) = artifact[d]
      BY <2>3, <3>1, <3>2, SameConstants DEF PackageAlone, Lifecycle!FileAfterDelete
    <3>5. p \in Lifecycle!PackagesOf(d)
      BY <2>3, <3>2 DEF Lifecycle!PackagesOf
    <3>6. \/ Lifecycle!MayConfirm(PackageAtCommit[p])
          \/ /\ Lifecycle!MayDownload(PackageAtCommit[p])
             /\ PackageAtCommit[p].window # "open"
      BY <2>3, <3>2, <3>3, SameConstants
    <3>7. ArtifactAtCommit' =
            [ArtifactAtCommit EXCEPT ![d] = Lifecycle!FileAfterDelete(p)]
      BY <2>3, <3>4
    <3>8. UNCHANGED <<limit, device, PackageAtCommit, jobs>>
      BY <1>1, <2>3
    <3>. HIDE DEF p, d, r
    <3>9. Lifecycle!LostTransaction
      BY <1>1, <2>2, <3>5, <3>6, <3>7, <3>8 DEF Lifecycle!LostTransaction
    <3>10. QED
      BY <3>9 DEF Simulates, Lifecycle!Next, Lifecycle!PortalNext
  <2>5. CASE r.op = "create"
    <3>1. CreateSession(r) /\ CreateAlone(r) /\ r.pc = "locked"
      BY <1>1, <1>3, <2>5, SessionOf DEF AloneInv, Alone, CreateSession
    <3>2. /\ NewBuild(r) /\ p \in Packages /\ r.user \in Users /\ r.ip \in 1..PoolSize
          /\ ~DeviceExists(d) /\ r.file = None /\ r.file # p
          /\ Cardinality(CountedDevices(r.user)) < limit[r.user]
          /\ AllocateForDevice(r.ip) /\ artifact[d] \in {None, p}
      BY <3>1, IdentifierAssumption
         DEF CreateSession, CreateAlone, NewBuild, FileAfterBuild
    <3>3. Lifecycle!FreshPackage(p)
      BY <1>1, <2>5, <3>1, <3>2, BuildIsNew
    <3>4. Lifecycle!CreateGuard(r.user, d, p, r.ip)
      BY <2>3, <3>2, <3>3, SameDeviceReads, SameCardinality
         DEF Lifecycle!CreateGuard, Lifecycle!FreshDevice
    <3>5. CASE artifact[d] = p
      <4>. HIDE DEF p, d, r
      <4>1. Lifecycle!LostTransaction
        BY <1>1, <2>2, <2>3, <3>2, <3>4, <3>5 DEF Lifecycle!LostTransaction
      <4>2. QED
        BY <4>1 DEF Simulates, Lifecycle!Next, Lifecycle!PortalNext
    <3>6. CASE artifact[d] = None
      <4>1. \A q \in Packages : ~Masks(r, q) /\ ~Masks(Idle, q)
        BY <2>5 DEF Masks, Idle
      <4>2. \A e : /\ Held(r, e) => r.file = artifact[e]
                   /\ ~Held(Idle, e)
        BY <3>2, <3>6 DEF Held, Idle
      <4>. HIDE DEF r
      <4>3. QED
        BY <1>1, <4>1, <4>2, Stutters DEF Masked, Simulates, r
    <3>7. QED
      BY <3>2, <3>5, <3>6
  <2>6. CASE r.op = "reset"
    <3>1. ResetSession(r) /\ ResetAlone(r)
      BY <1>1, <2>6, SessionOf DEF AloneInv, Alone
    <3>2. DeviceExists(d) /\ device[d].status # "revoked"
      <4>1. r.row \in Device /\ DeviceAgrees(r.row, device[d]) /\ r.row.status # "revoked"
        BY <1>1, <3>1 DEF ResetAlone, Request
      <4>2. QED
        BY <3>1, <4>1, AgreeingDevice DEF ResetSession, LoadedDevice
    <3>3. PICK q \in Packages :
            /\ Lifecycle!FreshPackage(q)
            /\ artifact[d] = Withdrawn(d, r.file) \/ artifact[d] = q
      <4>1. CASE r.pc = "touched"
        <5>1. PICK q \in Packages : FreshPackage(q) /\ r.file # q
          BY <3>1, <4>1 DEF ResetAlone
        <5>2. \A e \in Devices : ArtifactAtCommit[e] # q
          BY <1>1, <1>3, <2>2, <5>1, HeldFile DEF FreshPackage
        <5>3. Lifecycle!FreshPackage(q)
          BY <2>3, <5>1, <5>2
             DEF FreshPackage, PackageExists, Lifecycle!FreshPackage, Lifecycle!PackageExists
        <5>4. QED
          BY <3>1, <4>1, <5>3 DEF ResetAlone
      <4>2. CASE r.pc = "locked"
        <5>1. /\ NewBuild(r) /\ p \in Packages /\ r.file # p
              /\ artifact[d] = Withdrawn(d, r.file) \/ artifact[d] = p
          BY <3>1, <4>2 DEF ResetSession, ResetAlone, NewBuild, FileAfterBuild
        <5>2. Lifecycle!FreshPackage(p)
          BY <1>1, <2>6, <4>2, <5>1, BuildIsNew
        <5>3. QED
          BY <5>1, <5>2
      <4>3. QED
        BY <1>3, <4>1, <4>2
    <3>4. Lifecycle!ResetGuard(d, q)
      BY <3>2, <3>3, SameDeviceReads DEF Lifecycle!ResetGuard
    <3>5. Lifecycle!FileAfterWithdrawal(d) = Withdrawn(d, r.file)
      BY <2>3, SameConstants
         DEF Lifecycle!FileAfterWithdrawal, Withdrawn, Lifecycle!PackagesOf, PackagesOf
    <3>. HIDE DEF p, d, r
    <3>6. Lifecycle!LostTransaction
      BY <1>1, <2>2, <2>3, <3>3, <3>4, <3>5 DEF Lifecycle!LostTransaction
    <3>7. QED
      BY <3>6 DEF Simulates, Lifecycle!Next, Lifecycle!PortalNext
  <2>7. CASE r.op = "revoke"
    <3>1. RevokeSession(r) /\ RevokeAlone(r)
      BY <1>1, <2>7, SessionOf DEF AloneInv, Alone
    <3>2. DeviceExists(d) /\ artifact[d] = Removed(d, r.file)
      BY <1>3, <3>1 DEF RevokeSession, LoadedDevice, RevokeAlone
    <3>3. Lifecycle!FileAfterRevoke(d) = artifact[d]
      BY <2>3, <3>2, SameConstants
         DEF Lifecycle!FileAfterRevoke, Removed, Lifecycle!PackagesOf, PackagesOf
    <3>. HIDE DEF p, d, r
    <3>4. Lifecycle!LostTransaction
      BY <1>1, <2>2, <2>3, <3>2, <3>3, SameDeviceReads DEF Lifecycle!LostTransaction
    <3>5. QED
      BY <3>4 DEF Simulates, Lifecycle!Next, Lifecycle!PortalNext
  <2>8. QED
    BY <1>1, <1>3, <2>2, <2>4, <2>5, <2>6, <2>7
       DEF SessionOK, Idle, PackageSession, SendingSession, CreateSession, ResetSession,
           RevokeSession
<1>4. QED
  BY <1>2, <1>3

\* The worker and the clock, and the two requests of one column.
LEMMA BackgroundAlone ==
  ASSUME AloneInv, NEW t, Threads = {t}, ShortRequest \/ Background, TypeOK'
  PROVE  Simulates
<1>1. /\ TypeOK /\ t \in Threads /\ requests' = requests
      /\ package \in [Packages -> InstallPackage]
      /\ artifact' = artifact
  BY BackgroundWrites DEF AloneInv, RequestInv, RequestsTypeOK, TypeOK, ShortRequest,
                          Background
<1>2. ArtifactAtCommit' = ArtifactAtCommit
  BY <1>1, Mapped
<1>3. package' = package => PackageAtCommit' = PackageAtCommit
  BY <1>1, Mapped
<1>4. CASE ShortRequest
  <2>1. package' = package /\ jobs' = jobs
    BY <1>4 DEF ShortRequest, ReportLost, UpdateUser
  <2>2. CASE \E d \in Devices : ReportLost(d)
    <3>1. PICK d \in Devices : ReportLost(d)
      BY <2>2
    <3>2. Lifecycle!ReportLost(d)
      BY <1>2, <1>3, <2>1, <3>1, SameDeviceReads DEF ReportLost, Lifecycle!ReportLost
    <3>3. QED
      BY <3>2 DEF Simulates, Lifecycle!Next, Lifecycle!PortalNext
  <2>3. CASE \E u \in Users, n \in 0..MaxLimit : UpdateUser(u, n)
    <3>1. PICK u \in Users, n \in 0..MaxLimit : UpdateUser(u, n)
      BY <2>3
    <3>2. Lifecycle!UpdateUser(u, n)
      BY <1>2, <1>3, <2>1, <3>1 DEF UpdateUser, Lifecycle!UpdateUser
    <3>3. QED
      BY <3>2 DEF Simulates, Lifecycle!Next, Lifecycle!PortalNext
  <2>4. QED
    BY <1>4, <2>2, <2>3 DEF ShortRequest
<1>5. CASE WorkerNext
  <2>1. PICK i \in DOMAIN jobs : JobSucceeds(i) \/ JobFails(i)
    BY <1>5 DEF WorkerNext
  <2>2. package' = package
    BY <2>1 DEF JobSucceeds, JobFails
  <2>3. JobSucceeds(i) => Lifecycle!JobSucceeds(i)
    BY <1>2, <1>3, <2>2, SameConstants
       DEF JobSucceeds, Lifecycle!JobSucceeds, OldestPending, Lifecycle!OldestPending,
           JobMaySucceed, Lifecycle!JobMaySucceed
  <2>4. JobFails(i) => Lifecycle!JobFails(i)
    BY <1>2, <1>3, <2>2
       DEF JobFails, Lifecycle!JobFails, OldestPending, Lifecycle!OldestPending
  <2>5. QED
    BY <2>1, <2>3, <2>4 DEF Simulates, Lifecycle!Next, Lifecycle!WorkerNext
<1>6. CASE \E p \in Packages : WindowCloses(p)
  <2>1. PICK p \in Packages : WindowCloses(p)
    BY <1>6
  <2>2. /\ package[p].window = "open" /\ UNCHANGED <<limit, device, jobs>>
        /\ package'[p] = [package[p] EXCEPT !.window = "closed"]
        /\ \A q \in Packages \ {p} : package'[q] = package[q]
    BY <1>1, <2>1 DEF WindowCloses
  <2>3. \A q \in Packages : /\ PackageAtCommit[q] = Masked(requests[t], q, package[q])
                            /\ PackageAtCommit'[q] = Masked(requests[t], q, package'[q])
    BY <1>1, Mapped
  <2>4. PackageAtCommit[p] = package[p]
    BY <2>2, <2>3 DEF Masked
  <2>5. \A q \in Packages \ {p} : PackageAtCommit'[q] = PackageAtCommit[q]
    BY <2>2, <2>3
  <2>6. CASE Masks(requests[t], p)
    <3>1. PackageAtCommit'[p] = package[p]
      BY <1>1, <2>2, <2>3, <2>6 DEF Masked, InstallPackage
    <3>2. PackageAtCommit' = PackageAtCommit
      BY <2>4, <2>5, <3>1, Mapped
    <3>3. QED
      BY <1>2, <2>2, <3>2 DEF Simulates, Lifecycle!vars
  <2>7. CASE ~Masks(requests[t], p)
    <3>1. PackageAtCommit'[p] = [PackageAtCommit[p] EXCEPT !.window = "closed"]
      BY <2>2, <2>3, <2>4, <2>7 DEF Masked
    <3>2. PackageAtCommit' = [PackageAtCommit EXCEPT ![p].window = "closed"]
      BY <2>5, <3>1, Mapped
    <3>3. Lifecycle!WindowCloses(p)
      BY <1>2, <2>2, <2>4, <3>2 DEF Lifecycle!WindowCloses
    <3>4. QED
      BY <3>3 DEF Simulates, Lifecycle!Next, Lifecycle!PortalNext
  <2>8. QED
    BY <2>6, <2>7
<1>7. QED
  BY <1>4, <1>5, <1>6 DEF Background

-----------------------------------------------------------------------------
(***************************************************************************)
(* The invariant is kept.                                                  *)
(***************************************************************************)

\* Only the rows matter to the invariant of DeviceLifecycle.
LEMMA SameRowsKeepIndInv ==
  ASSUME IndInv, TypeOK', device' = device, package' = package
  PROVE  IndInv'
BY DEF IndInv, LivePackageOwnsDevice, OnePackageInFlight, PeersHaveConfirmedKeys,
       RevokedIsFinal, PackagesOf

\* A step that changes no table and no file leaves a session as it was.
LEMMA SameTables ==
  ASSUME NEW s, UNCHANGED <<limit, device, package, artifact>>
  PROVE  Alone(s)' <=> Alone(s)
<1>1. /\ \A d : DeviceExists(d)' <=> DeviceExists(d)
      /\ \A q : PackageExists(q)' <=> PackageExists(q)
  BY DEF DeviceExists, PackageExists
<1>2. /\ \A u : CountedDevices(u)' = CountedDevices(u)
      /\ AllocatedIps' = AllocatedIps
      /\ \A d : PackagesOf(d)' = PackagesOf(d)
  BY <1>1 DEF CountedDevices, AllocatedIps, PackagesOf
<1>3. FreeIps' = FreeIps
  BY <1>2 DEF FreeIps
<1>4. /\ \A q : FreshPackage(q)' <=> FreshPackage(q)
      /\ \A d, file : Withdrawn(d, file)' = Withdrawn(d, file)
      /\ \A d, file : Removed(d, file)' = Removed(d, file)
      /\ RowsAgree(s)' <=> RowsAgree(s)
  BY <1>1, <1>2 DEF FreshPackage, Withdrawn, Removed, RowsAgree
<1>5. NewBuild(s)' <=> NewBuild(s)
  BY <1>1 DEF NewBuild
<1>6. /\ PackageSession(s)' <=> PackageSession(s)
      /\ ResetSession(s)' <=> ResetSession(s)
      /\ RevokeSession(s)' <=> RevokeSession(s)
  BY <1>1, <1>5 DEF PackageSession, ResetSession, RevokeSession, LoadedPackage,
                    LoadedDevice, LoadedRows
<1>7. CreateSession(s)' <=> CreateSession(s)
  BY <1>1, <1>2, <1>5 DEF CreateSession
<1>8. /\ PackageAlone(s)' <=> PackageAlone(s)
      /\ RevokeAlone(s)' <=> RevokeAlone(s)
  BY <1>4 DEF PackageAlone, RevokeAlone
<1>9. CreateAlone(s)' <=> CreateAlone(s)
  BY <1>2, <1>3 DEF CreateAlone, AllocateForDevice
<1>10. ResetAlone(s)' <=> ResetAlone(s)
  BY <1>4 DEF ResetAlone
<1>11. QED
  BY <1>6, <1>7, <1>8, <1>9, <1>10 DEF Alone

\* What a session is of shows in what the request is doing.
LEMMA SessionShows ==
  ASSUME NEW s
  PROVE  /\ PackageSession(s) => s.op \in {"download", "serve", "expire", "confirm"}
         /\ PackageSession(s) => s.pc # "sending"
         /\ CreateSession(s) => s.op = "create"
         /\ ResetSession(s) => s.op = "reset"
         /\ RevokeSession(s) => s.op = "revoke"
         /\ s = Idle => Alone(s)
BY DEF PackageSession, CreateSession, ResetSession, RevokeSession, Alone, Idle

\* A request that starts knows the rows it has loaded.
LEMMA ReadsStayAlone ==
  ASSUME AloneInv, NEW t \in Threads, Threads = {t}, Reads(t),
         NEW s \in Request, s = requests'[t]
  PROVE  Alone(s)'
<1>. DEFINE r == requests[t]
<1>1. /\ RequestInv /\ TypeOK /\ t \in Threads /\ r \in Request /\ Alone(r)
      /\ requests \in [Threads -> Request]
      /\ UNCHANGED <<limit, device, package, artifact, jobs>>
  BY ReadsOnly DEF AloneInv, RequestInv, RequestsTypeOK
<1>2. ASSUME Alone(s) PROVE Alone(s)'
  BY <1>1, <1>2, SameTables
<1>3. ASSUME NEW p \in Packages, NEW op \in {"download", "confirm"}, ReadsPackage(t, op, p)
      PROVE  Alone(s)
  <2>1. s.op = op /\ s.pc = "package_read" /\ s.p = p /\ s.rows[p] = package[p]
    BY <1>1, <1>3, StartsRequest
  <2>2. PackageAlone(s)
    BY <1>3, <2>1 DEF PackageAlone, PackageAgrees
  <2>3. QED
    BY <1>3, <2>1, <2>2, SessionShows DEF Alone
<1>4. ASSUME ReadsDevice(t)
      PROVE  Alone(s)
  <2>. DEFINE op == IF r.op = "download" THEN DownloadBranch(r) ELSE r.op
  <2>1. r.pc = "package_read" /\ PackageSession(r) /\ PackageAlone(r)
    BY <1>1, <1>4, SessionOf, ReadsOn DEF Alone
  <2>2. r.op \in {"download", "confirm"} /\ op \in {"none", "serve", "expire", "confirm"}
    BY <2>1 DEF PackageSession, DownloadBranch
  <2>3. \/ s = Idle
        \/ /\ s.op = op /\ s.pc = "read" /\ s.row = device[r.d]
           /\ s.d = r.d /\ s.p = r.p /\ s.rows = r.rows
    BY <1>1, <1>4, ReadsOn
  <2>4. /\ op = "serve" => r.rows[r.p].window = "open" /\ artifact[r.d] # None
        /\ op = "expire" => r.rows[r.p].window # "open"
    BY <2>2 DEF DownloadBranch
  <2>. HIDE DEF r, op
  <2>5. CASE s # Idle
    <3>1. PackageAlone(s)
      BY <2>1, <2>3, <2>4, <2>5 DEF PackageAlone, DeviceAgrees
    <3>2. QED
      BY <2>2, <2>3, <2>5, <3>1, SessionShows DEF Alone
  <2>6. QED
    BY <2>5, SessionShows
<1>5. ASSUME NEW u \in Users, CreateReadsUser(t, u)
      PROVE  Alone(s)
  <2>1. /\ s.op = "create" /\ s.pc = "user_read" /\ s.user = u /\ s.limit = limit[u]
        /\ s.file = None
    BY <1>1, <1>5, StartsRequest
  <2>2. CreateAlone(s)
    BY <2>1 DEF CreateAlone
  <2>3. QED
    BY <2>1, <2>2, SessionShows DEF Alone
<1>6. ASSUME NEW d \in Devices, ResetReadsDevice(t, d)
      PROVE  Alone(s)
  <2>1. /\ r = Idle
        /\ s.op = "reset" /\ s.pc = "device_read" /\ s.d = d /\ s.row = device[d]
        /\ s.file = None
    BY <1>1, <1>6, StartsRequest
  <2>2. \E p \in Packages : FreshPackage(p)
    <3>1. PackageRoom
      BY <1>6 DEF ResetReadsDevice
    <3>2. {u \in Threads : requests[u].op \in {"create", "reset"} /\ requests[u].p = None} = {}
      BY <2>1 DEF Idle
    <3>3. 0 < Cardinality({p \in Packages : UnusedPackage(p)})
      BY <3>1, <3>2, FS_EmptySet DEF PackageRoom
    <3>4. {p \in Packages : UnusedPackage(p)} # {}
      BY <3>3, FS_EmptySet
    <3>5. QED
      BY <3>4 DEF UnusedPackage
  <2>3. device[d].status # "revoked"
    BY <1>6 DEF ResetReadsDevice
  <2>4. ResetAlone(s)
    BY <2>1, <2>2, <2>3, IdentifierAssumption DEF ResetAlone, DeviceAgrees
  <2>5. QED
    BY <2>1, <2>4, SessionShows DEF Alone
<1>7. ASSUME NEW d \in Devices, RevokeReadsDevice(t, d)
      PROVE  Alone(s)
  <2>1. s.op = "revoke" /\ s.pc = "device_read" /\ s.d = d /\ s.row = device[d]
    BY <1>1, <1>7, StartsRequest
  <2>2. RevokeAlone(s)
    BY <2>1 DEF RevokeAlone, DeviceAgrees
  <2>3. QED
    BY <2>1, <2>2, SessionShows DEF Alone
<1>8. ASSUME CreateCounts(t) \/ CreateAllocates(t)
      PROVE  Alone(s)
  <2>1. /\ r.op = "create" /\ r.pc \in {"user_read", "counted"}
        /\ \/ s = Idle
           \/ /\ s.op = "create" /\ s.pc \in {"counted", "read"} /\ s.user = r.user
              /\ s.file = r.file
              /\ r.pc = "user_read" => Cardinality(CountedDevices(r.user)) < r.limit
              /\ s.pc = "read" => r.pc = "counted" /\ AllocateForDevice(s.ip)
              /\ s.pc = "counted" => r.pc = "user_read"
    BY <1>1, <1>8, ReadsOn
  <2>2. CreateAlone(r)
    BY <1>1, <2>1, SessionOf DEF Alone
  <2>. HIDE DEF r
  <2>3. CASE s # Idle
    <3>1. CreateAlone(s)
      BY <2>1, <2>2, <2>3 DEF CreateAlone
    <3>2. QED
      BY <2>1, <2>3, <3>1, SessionShows DEF Alone
  <2>4. QED
    BY <2>3, SessionShows
<1>9. ASSUME ResetReadsPackages(t)
      PROVE  Alone(s)
  <2>1. /\ r.op = "reset" /\ r.pc = "device_read"
        /\ s.op = "reset" /\ s.pc = "read" /\ s.row = r.row /\ s.d = r.d
        /\ s.file = r.file /\ s.rows = RowsOf(r.d)
    BY <1>1, <1>9, ReadsOn
  <2>2. ResetAlone(r)
    BY <1>1, <2>1, SessionOf DEF Alone
  <2>. HIDE DEF r
  <2>3. RowsAgree(s)
    BY <2>1 DEF RowsAgree, RowsOf, PackagesOf, PackageAgrees
  <2>4. ResetAlone(s)
    BY <2>1, <2>2, <2>3 DEF ResetAlone
  <2>5. QED
    BY <2>1, <2>4, SessionShows DEF Alone
<1>10. ASSUME CreateCollides(t) \/ Sends(t) \/ Lost(t)
       PROVE  Alone(s)
  BY <1>1, <1>10, ReadsOn, SessionShows
<1>11. QED
  BY <1>2, <1>3, <1>4, <1>5, <1>6, <1>7, <1>8, <1>9, <1>10 DEF Reads

\* A request that has touched the file knows what is left of it.
LEMMA TouchesStayAlone ==
  ASSUME AloneInv, NEW t \in Threads, Threads = {t}, Deletes(t) \/ Builds(t),
         NEW r \in Request, r = requests[t], NEW s \in Request, s = requests'[t]
  PROVE  Alone(s)'
<1>. DEFINE d == r.d
<1>1. /\ RequestInv /\ TypeOK /\ t \in Threads /\ r \in Request /\ Alone(r)
      /\ requests \in [Threads -> Request]
      /\ artifact \in [Devices -> Packages \cup {None}]
      /\ package \in [Packages -> InstallPackage]
  BY DEF AloneInv, RequestInv, RequestsTypeOK, TypeOK
<1>2. UNCHANGED <<limit, device, package, jobs>>
  BY DEF Deletes, Builds, Unlinks, ResetUnlinks, RevokeUnlinks, CreateBuilds, ResetBuilds
<1>3. ASSUME Unlinks(t) \/ ResetUnlinks(t)
      PROVE  Alone(s)'
  <2>1. /\ r.op \in {"confirm", "expire", "reset"} /\ r.pc = "read"
        /\ ResetUnlinks(t) <=> r.op = "reset"
        /\ s.op = r.op /\ s.pc = "touched" /\ s.d = d /\ s.p = r.p
        /\ s.row = r.row /\ s.rows = r.rows /\ s.file = artifact[d]
    BY <1>1, <1>3, TouchesOn
  <2>2. CASE r.op \in {"confirm", "expire"}
    <3>1. /\ PackageSession(r) /\ PackageAlone(r)
      BY <1>1, <2>2, SessionOf DEF Alone
    <3>2. /\ r.p \in Packages /\ d \in Devices /\ r.rows[r.p] \in InstallPackage
          /\ PackageAgrees(r.rows[r.p], package[r.p]) /\ DeviceAgrees(r.row, device[d])
          /\ r.op = "expire" => r.rows[r.p].window # "open"
      BY <1>1, <2>1, <3>1 DEF PackageSession, PackageAlone, Request
    <3>3. artifact' = [artifact EXCEPT
                         ![d] = FileAfterUnlink(d, r.rows, [q \in Packages |-> q = r.p])]
      BY <1>3, <2>1, <2>2 DEF Unlinks
    <3>4. FileAfterUnlink(d, r.rows, [q \in Packages |-> q = r.p])
            = IF HasArtifactPath(r.rows[r.p]) THEN None ELSE artifact[d]
      BY <3>2 DEF FileAfterUnlink
    <3>5. artifact'[d] = IF HasArtifactPath(package[r.p]) THEN None ELSE artifact[d]
      BY <1>1, <3>2, <3>3, <3>4, AgreeingAnswers
    <3>6. PackageAlone(s)'
      BY <1>2, <2>1, <2>2, <3>2, <3>5 DEF PackageAlone
    <3>7. QED
      BY <2>1, <2>2, <3>6 DEF Alone, CreateSession, ResetSession, RevokeSession
  <2>3. CASE r.op = "reset"
    <3>1. /\ ResetSession(r) /\ ResetAlone(r)
      BY <1>1, <2>3, SessionOf DEF Alone
    <3>2. /\ d \in Devices /\ RowsAgree(r) /\ r.rows \in [Packages -> InstallPackage]
          /\ DeviceAgrees(r.row, device[d]) /\ r.row.status # "revoked"
      BY <1>1, <2>1, <3>1 DEF ResetSession, LoadedDevice, ResetAlone, Request
    <3>3. PICK p \in Packages : FreshPackage(p)
      BY <2>1, <3>1 DEF ResetAlone
    <3>. DEFINE chosen == [q \in Packages |-> r.rows[q].status \in ACTIVE_PACKAGE_STATUSES]
    <3>4. artifact' = [artifact EXCEPT ![d] = FileAfterUnlink(d, r.rows, chosen)]
      BY <2>1, <2>3 DEF ResetUnlinks
    <3>5. FileAfterUnlink(d, r.rows, chosen) = Withdrawn(d, artifact[d])
      <4>1. ASSUME NEW q \in Packages
            PROVE  (chosen[q] /\ HasArtifactPath(r.rows[q]))
                     <=> (/\ q \in PackagesOf(d)
                          /\ package[q].status \in ACTIVE_PACKAGE_STATUSES
                          /\ HasArtifactPath(package[q]))
        <5>1. CASE package[q].device = d
          <6>1. PackageAgrees(r.rows[q], package[q])
            BY <3>2, <5>1 DEF RowsAgree
          <6>2. r.rows[q] \in InstallPackage /\ package[q] \in InstallPackage
            BY <1>1, <3>2
          <6>3. /\ r.rows[q].status = package[q].status
                /\ HasArtifactPath(r.rows[q]) <=> HasArtifactPath(package[q])
            BY <6>1, <6>2, AgreeingAnswers DEF PackageAgrees
          <6>4. QED
            BY <5>1, <6>3 DEF PackagesOf
        <5>2. CASE package[q].device # d
          BY <3>2, <5>2 DEF RowsAgree, PackagesOf, NoPackage, HasArtifactPath
        <5>3. QED
          BY <5>1, <5>2
      <4>. HIDE DEF chosen
      <4>2. QED
        BY <4>1 DEF FileAfterUnlink, Withdrawn, PackagesOf
    <3>6. artifact'[d] = Withdrawn(d, artifact[d])
      BY <1>1, <3>2, <3>4, <3>5
    <3>7. Withdrawn(d, artifact[d])' = Withdrawn(d, artifact'[d])
      BY <1>2 DEF Withdrawn, PackagesOf
    <3>8. FreshPackage(p)' /\ artifact[d] # p
      <4>1. \A e \in Devices : artifact'[e] \in {artifact[e], None}
        BY <1>1, <3>2, <3>4, <3>5 DEF Withdrawn
      <4>2. QED
        BY <1>2, <3>2, <3>3, <4>1, IdentifierAssumption DEF FreshPackage, PackageExists
    <3>. HIDE DEF chosen
    <3>9. RowsAgree(s)'
      BY <1>2, <2>1, <3>2 DEF RowsAgree
    <3>10. artifact'[s.d] = Withdrawn(s.d, s.file)'
      BY <1>2, <2>1, <3>6 DEF Withdrawn, PackagesOf
    <3>11. ResetAlone(s)'
      BY <1>2, <2>1, <3>2, <3>8, <3>9, <3>10 DEF ResetAlone
    <3>12. QED
      BY <2>1, <2>3, <3>11 DEF Alone, CreateSession, PackageSession, RevokeSession
  <2>4. QED
    BY <2>1, <2>2, <2>3
<1>4. ASSUME RevokeUnlinks(t)
      PROVE  Alone(s)'
  <2>1. /\ r.op = "revoke" /\ r.pc = "device_read"
        /\ s.op = "revoke" /\ s.pc = "locked" /\ s.d = d
        /\ s.row = r.row /\ s.rows = RowsOf(d) /\ s.file = artifact[d]
    BY <1>1, <1>4, TouchesOn
  <2>2. /\ RevokeSession(r) /\ RevokeAlone(r)
    BY <1>1, <2>1, SessionOf DEF Alone
  <2>3. d \in Devices /\ DeviceAgrees(r.row, device[d])
    BY <2>2 DEF RevokeSession, LoadedDevice, RevokeAlone
  <2>4. artifact'[d] = Removed(d, artifact[d])
    BY <1>1, <1>4, <2>3 DEF RevokeUnlinks, FileAfterRevoke, Removed
  <2>5. RowsAgree(s)'
    BY <1>2, <2>1 DEF RowsAgree, RowsOf, PackagesOf, PackageAgrees
  <2>6. artifact'[s.d] = Removed(s.d, s.file)'
    BY <1>2, <2>1, <2>4 DEF Removed, PackagesOf
  <2>7. RevokeAlone(s)'
    BY <1>2, <2>1, <2>3, <2>5, <2>6 DEF RevokeAlone
  <2>8. QED
    BY <2>1, <2>7 DEF Alone, CreateSession, PackageSession, ResetSession
<1>5. ASSUME NEW e \in Devices, NEW p \in Packages, NEW outcome \in BuildOutcome,
             CreateBuilds(t, e, p, outcome)
      PROVE  Alone(s)'
  <2>1. /\ r.op = "create" /\ r.pc = "read"
        /\ s.op = "create" /\ s.pc = "locked" /\ s.d = e /\ s.p = p
        /\ s.outcome = outcome /\ s.user = r.user /\ s.ip = r.ip
        /\ s.file = r.file
    BY <1>1, <1>5, TouchesOn
  <2>2. CreateAlone(r)
    BY <1>1, <2>1, SessionOf DEF Alone
  <2>3. artifact'[e] = FileAfterBuild(None, p, outcome)
    BY <1>1, <1>5 DEF CreateBuilds, FreshDevice
  <2>4. /\ CountedDevices(r.user)' = CountedDevices(r.user)
        /\ AllocateForDevice(r.ip)' = AllocateForDevice(r.ip)
    BY <1>2 DEF CountedDevices, AllocateForDevice, FreeIps, AllocatedIps, DeviceExists
  <2>5. CreateAlone(s)'
    BY <1>2, <2>1, <2>2, <2>3, <2>4 DEF CreateAlone, FileAfterBuild
  <2>6. QED
    BY <2>1, <2>5 DEF Alone, ResetSession, PackageSession, RevokeSession
<1>6. ASSUME NEW p \in Packages, NEW outcome \in BuildOutcome, ResetBuilds(t, p, outcome)
      PROVE  Alone(s)'
  <2>1. /\ r.op = "reset" /\ r.pc = "touched"
        /\ s.op = "reset" /\ s.pc = "locked" /\ s.d = d /\ s.p = p
        /\ s.outcome = outcome /\ s.row = r.row /\ s.rows = r.rows
        /\ s.file = r.file
    BY <1>1, <1>6, TouchesOn
  <2>2. ResetSession(r) /\ ResetAlone(r)
    BY <1>1, <2>1, SessionOf DEF Alone
  <2>3. /\ d \in Devices /\ RowsAgree(r) /\ DeviceAgrees(r.row, device[d])
        /\ r.row.status # "revoked" /\ artifact[d] = Withdrawn(d, r.file)
    BY <2>1, <2>2 DEF ResetSession, LoadedDevice, ResetAlone
  <2>4. r.file # p /\ artifact'[d] = FileAfterBuild(artifact[d], p, outcome)
    BY <1>1, <1>6, <2>3 DEF ResetBuilds, UnusedPackage
  <2>5. RowsAgree(s)'
    BY <1>2, <2>1, <2>3 DEF RowsAgree
  <2>6. Withdrawn(s.d, s.file)' = Withdrawn(d, r.file)
    BY <1>2, <2>1 DEF Withdrawn, PackagesOf
  <2>7. ResetAlone(s)'
    BY <1>2, <2>1, <2>3, <2>4, <2>5, <2>6 DEF ResetAlone, FileAfterBuild
  <2>8. QED
    BY <2>1, <2>7 DEF Alone, CreateSession, PackageSession, RevokeSession
<1>7. QED
  BY <1>3, <1>4, <1>5, <1>6 DEF Deletes, Builds

\* A commit ends its request, or leaves it sending, and writes the rows as the
\* atomic handler does.
LEMMA CommitsKeepAloneInv ==
  ASSUME AloneInv, NEW t \in Threads, Threads = {t}, Commits(t), RequestInv'
  PROVE  IndInv' /\ (\A u \in Threads : Alone(requests[u]))'
<1>1. /\ TypeOK' /\ IndInv /\ RequestInv
      /\ requests[t] \in Request /\ requests \in [Threads -> Request]
  BY DEF AloneInv, RequestInv, RequestsTypeOK
<1>2. OthersTyped
  BY <1>1 DEF OthersTyped, TypeOK
<1>3. PICK s \in Request : s = requests'[t]
  BY DEF RequestInv, RequestsTypeOK
<1>4. s = Idle \/ s.pc = "sending"
  <2>1. CASE CommitsGrant(t)
    <3>. DEFINE sent == [Idle EXCEPT !.op = "serve", !.pc = "sending", !.p = requests[t].p]
    <3>1. requests'[t] = sent
      BY <1>1, <2>1 DEF CommitsGrant, Become
    <3>2. sent.pc = "sending"
      BY DEF Idle
    <3>. HIDE DEF sent
    <3>3. QED
      BY <1>3, <3>1, <3>2
  <2>2. CASE ~CommitsGrant(t)
    BY <1>1, <1>3, <2>2
       DEF Commits, CommitsExpiry, CommitsConfirmation, CommitsDevice, CommitsReset,
           CommitsRevocation, End, Become
  <2>3. QED
    BY <2>1, <2>2
<1>5. Alone(s)'
  <2>1. /\ s = Idle => Alone(s)'
        /\ PackageSession(s)' => s.pc # "sending" /\ s.op # "none"
        /\ CreateSession(s)' => s.pc # "sending"
        /\ ResetSession(s)' => s.pc # "sending"
        /\ RevokeSession(s)' => s.pc # "sending"
    BY DEF PackageSession, CreateSession, ResetSession, RevokeSession, Alone, Idle
  <2>2. QED
    BY <1>4, <2>1 DEF Alone
<1>6. IndInv'
  <2>1. CASE CommitsExpiry(t) \/ CommitsGrant(t) \/ CommitsConfirmation(t)
    <3>1. requests[t].p \in Packages
      <4>1. requests[t].op \in {"expire", "confirm", "serve"} /\ requests[t].pc # "sending"
        BY <2>1 DEF CommitsExpiry, CommitsGrant, CommitsConfirmation, At
      <4>2. PackageSession(requests[t])
        BY <1>1, <4>1, SessionOf
      <4>3. QED
        BY <4>2 DEF PackageSession
    <3>2. QED
      BY <1>1, <1>2, <2>1, <3>1, ExpiryAlone, GrantAlone, ConfirmationAlone,
         ExpirePreserves, ServePreserves, ConfirmPreserves
  <2>2. CASE CommitsDevice(t)
    BY <1>1, <1>2, <2>2, CreationAlone, CreatePreserves
  <2>3. CASE CommitsReset(t)
    BY <1>1, <1>2, <2>3, ResetCommitAlone, ResetPreserves
  <2>4. CASE CommitsRevocation(t)
    BY <1>1, <1>2, <2>4, RevocationAlone, RevokePreserves
  <2>5. QED
    BY <2>1, <2>2, <2>3, <2>4 DEF Commits
<1>7. QED
  BY <1>3, <1>5, <1>6

\* What another request does in one step does nothing to a request: there is
\* no other.  The worker and the clock only let its rows drift.
LEMMA BackgroundKeepsAloneInv ==
  ASSUME AloneInv, NEW t \in Threads, Threads = {t}, ShortRequest \/ Background, RequestInv'
  PROVE  IndInv' /\ (\A u \in Threads : Alone(requests[u]))'
<1>1. /\ TypeOK /\ IndInv /\ RequestInv /\ requests' = requests
      /\ SessionOK(requests[t]) /\ Alone(requests[t])
  BY DEF AloneInv, RequestInv, RequestsTypeOK, SessionsOK, ShortRequest, Background
<1>2. PICK r \in Request : r = requests[t]
  BY DEF AloneInv, RequestInv, RequestsTypeOK
<1>3. CASE ShortRequest
  <2>1. r = Idle
    BY <1>2, <1>3 DEF ShortRequest
  <2>2. Alone(r)'
    BY <2>1 DEF PackageSession, CreateSession, ResetSession, RevokeSession, Alone, Idle
  <2>3. IndInv'
    BY <1>1, <1>3, QuietPreserves DEF ShortRequest
  <2>4. QED
    BY <1>1, <1>2, <2>2, <2>3
<1>4. CASE Background
  <2>1. Alone(r)'
    BY <1>1, <1>2, <1>4, BackgroundDrifts, AloneStays
  <2>2. IndInv'
    BY <1>1, <1>4, QuietPreserves, JobPreserves DEF Background, WorkerNext
  <2>3. QED
    BY <1>1, <1>2, <2>1, <2>2
<1>5. QED
  BY <1>3, <1>4

\* Every step keeps the invariant.
LEMMA AloneStep ==
  ASSUME AloneInv, NEW t, Threads = {t}, [RequestsNext]_requestVars
  PROVE  AloneInv' /\ [Lifecycle!Next]_(Lifecycle!vars)
<1>1. /\ t \in Threads /\ RequestInv /\ IndInv /\ RequestInv' /\ TypeOK'
      /\ \A u \in Threads : RequestStep(u) => u = t
  BY RequestsStep DEF AloneInv, RequestInv, RequestsTypeOK
<1>2. PICK r \in Request : r = requests[t]
  BY <1>1 DEF RequestInv, RequestsTypeOK
<1>3. PICK s \in Request : s = requests'[t]
  BY <1>1 DEF RequestInv, RequestsTypeOK
<1>4. ASSUME Alone(s)' PROVE (\A u \in Threads : Alone(requests[u]))'
  BY <1>3, <1>4
<1>5. CASE Reads(t)
  <2>1. (\A u \in Threads : Alone(requests[u]))'
    BY <1>1, <1>3, <1>4, <1>5, ReadsStayAlone
  <2>2. IndInv'
    BY <1>1, <1>5, ReadsOnly, SameRowsKeepIndInv
  <2>3. Simulates
    BY <1>5, ReadsAlone, LostAlone
  <2>4. QED
    BY <1>1, <2>1, <2>2, <2>3 DEF AloneInv, Simulates
<1>6. CASE Deletes(t) \/ Builds(t)
  <2>1. (\A u \in Threads : Alone(requests[u]))'
    BY <1>1, <1>2, <1>3, <1>4, <1>6, TouchesStayAlone
  <2>2. UNCHANGED <<device, package>>
    BY <1>6 DEF Deletes, Builds, Unlinks, ResetUnlinks, RevokeUnlinks, CreateBuilds,
                ResetBuilds
  <2>3. IndInv'
    BY <1>1, <2>2, SameRowsKeepIndInv
  <2>4. UNCHANGED Lifecycle!vars
    BY <1>6, TouchesAlone
  <2>5. QED
    BY <1>1, <2>1, <2>3, <2>4 DEF AloneInv
<1>7. CASE Commits(t)
  <2>1. IndInv' /\ (\A u \in Threads : Alone(requests[u]))'
    BY <1>1, <1>7, CommitsKeepAloneInv
  <2>2. Simulates
    BY <1>1, <1>7, ExpiryAlone, GrantAlone, ConfirmationAlone, CreationAlone,
       ResetCommitAlone, RevocationAlone DEF Commits
  <2>3. QED
    BY <1>1, <2>1, <2>2 DEF AloneInv, Simulates
<1>8. CASE ShortRequest \/ Background
  <2>1. IndInv' /\ (\A u \in Threads : Alone(requests[u]))'
    BY <1>1, <1>8, BackgroundKeepsAloneInv
  <2>2. Simulates
    BY <1>1, <1>8, BackgroundAlone
  <2>3. QED
    BY <1>1, <2>1, <2>2 DEF AloneInv, Simulates
<1>9. CASE UNCHANGED requestVars
  <2>1. UNCHANGED <<limit, device, package, artifact, jobs, requests>>
    BY <1>9 DEF requestVars, vars
  <2>2. IndInv'
    BY <1>1, <2>1, SameRowsKeepIndInv
  <2>3. Alone(r)'
    BY <1>1, <1>2, <2>1, SameTables DEF AloneInv
  <2>4. s = r
    BY <1>2, <1>3, <2>1
  <2>5. UNCHANGED Lifecycle!vars
    BY <2>1, Stutters
  <2>6. QED
    BY <1>1, <1>4, <2>2, <2>3, <2>4, <2>5 DEF AloneInv
<1>10. QED
  BY <1>1, <1>5, <1>6, <1>7, <1>8, <1>9, StepKinds DEF RequestsNext

\* At the start no request is in progress, and the files are as they are.
LEMMA AloneInit ==
  ASSUME NEW t, Threads = {t}, RequestsInit
  PROVE  AloneInv /\ Lifecycle!Init
<1>1. RequestInv /\ IndInv /\ requests[t] = Idle
  BY EmptyRequests, InitEstablishes DEF RequestsInit
<1>2. AloneInv
  BY <1>1, SessionShows DEF AloneInv
<1>3. PackageAtCommit = package
  BY DEF PackageAtCommit, RequestsInit, Init, NoPackage
<1>4. ArtifactAtCommit = artifact
  <2>1. \A d \in Devices : InProgress(d) = {}
    BY <1>1 DEF InProgress, Idle
  <2>2. QED
    BY <2>1 DEF ArtifactAtCommit, RequestsInit, Init
<1>5. QED
  BY <1>2, <1>3, <1>4, SameConstants DEF RequestsInit, Init, Lifecycle!Init

-----------------------------------------------------------------------------
(***************************************************************************)
(* Theorems.                                                               *)
(***************************************************************************)

\* With one thread the handlers of DeviceModule are atomic: whatever the
\* worker and the clock do between the steps of a request, and wherever its
\* transaction is lost, the tables and the files are those of DeviceLifecycle.
THEOREM OneRequestAtATime ==
  ASSUME NEW t, Threads = {t}
  PROVE  RequestsSpec => RefinesLifecycle
<1>1. RequestsInit => AloneInv /\ Lifecycle!Init
  BY AloneInit
<1>2. AloneInv /\ [RequestsNext]_requestVars => AloneInv' /\ [Lifecycle!Next]_(Lifecycle!vars)
  BY AloneStep
<1>3. QED
  BY <1>1, <1>2, PTL DEF RequestsSpec, RefinesLifecycle, Lifecycle!Spec
=============================================================================
