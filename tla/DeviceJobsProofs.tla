-------------------------- MODULE DeviceJobsProofs --------------------------
(***************************************************************************)
(* The two things a handler of DeviceLifecycle leaves outside the rows it  *)
(* writes: files and jobs.  Deleted installers are gone, because a file on *)
(* disk is always one of its own device; jobs agree with confirmations and *)
(* revocations, because both insert theirs in their own transaction.       *)
(***************************************************************************)
EXTENDS DeviceLifecycleProofs, FiniteSetTheorems

\* A file belongs to the device it lies under, unless its row was rolled back.
FilesOwned ==
  \A d \in Devices, p \in Packages :
    artifact[d] = p /\ PackageExists(p) => package[p].device = d

FilesInv == FilesOwned /\ DeletedMeansGone

\* A step that deletes no row's file and gives no device another one.
FilesKept ==
  /\ artifact' = artifact
  /\ \A p \in Packages :
       /\ package'[p].deleted = package[p].deleted
       /\ HasArtifactPath(package'[p]) = HasArtifactPath(package[p])
       /\ package'[p].device = package[p].device
       /\ PackageExists(p)' = PackageExists(p)

-----------------------------------------------------------------------------
(***************************************************************************)
(* Files.                                                                  *)
(***************************************************************************)

\* An identifier not used yet names no file and no deleted row.
LEMMA FreshHasNothing ==
  ASSUME IndInv, NEW p \in Packages, FreshPackage(p)
  PROVE  /\ package[p] = NoPackage
         /\ ~package[p].deleted
         /\ \A d \in Devices : artifact[d] # p /\ package[p].device # d
<1>1. ~NoPackage.deleted
  BY DEF NoPackage
<1>2. QED
  BY <1>1, PackageOwner DEF IndInv, FreshPackage

\* A package leaves _build_package with no deletion date.
LEMMA BuiltIsNotDeleted ==
  ASSUME NEW d \in Devices, NEW outcome \in BuildOutcome
  PROVE  /\ ~PackageAfterBuild(d, outcome).deleted
         /\ ~PackageAfterBuild(d, outcome).confirmed
BY DEF PackageAfterBuild, NoPackage

\* What keeps each file, and each date of a deletion, keeps the invariant.
LEMMA FilesKeptPreserves ==
  ASSUME IndInv, FilesInv, FilesKept
  PROVE  FilesInv'
BY DEF FilesInv, FilesOwned, FilesKept, DeletedMeansGone, HasArtifactPath

\* create_device writes the file of a package that has no other.
LEMMA CreateKeepsFiles ==
  ASSUME IndInv, FilesInv, NEW u \in Users, NEW d \in Devices, NEW p \in Packages,
         NEW outcome \in BuildOutcome, CreateDevice(u, d, p, outcome)
  PROVE  FilesInv'
<1>1. /\ FreshPackage(p)
      /\ package' = [package EXCEPT ![p] = PackageAfterBuild(d, outcome)]
      /\ artifact' = [artifact EXCEPT ![d] = FileAfterBuild(artifact[d], p, outcome)]
  BY DEF CreateDevice, CreateGuard
<1>2. /\ \A q \in Packages : q # p => package'[q] = package[q]
      /\ package'[p].device = d /\ ~package'[p].deleted
      /\ artifact'[d] \in {p, artifact[d]}
      /\ \A e \in Devices : e # d => artifact'[e] = artifact[e]
  BY <1>1, BuiltIsNotDeleted, BuildRows, FreshRows DEF IndInv, TypeOK, FileAfterBuild
<1>3. \A e \in Devices : artifact[e] # p
  BY <1>1, FreshHasNothing
<1>4. QED
  BY <1>2, <1>3 DEF FilesInv, FilesOwned, DeletedMeansGone, PackageExists

\* Expiry and confirmation delete one package and unlink its device's file.
LEMMA DeleteKeepsFiles ==
  ASSUME IndInv, FilesInv, NEW p \in Packages, PackageExists(p),
         NEW pkg, pkg.deleted, pkg.device = package[p].device,
         pkg.status # "absent", pkg.window = package[p].window,
         package' = [package EXCEPT ![p] = pkg],
         artifact' = [artifact EXCEPT ![package[p].device] = FileAfterDelete(p)]
  PROVE  FilesInv'
<1>. DEFINE d == package[p].device
<1>1. d \in Devices
  BY PackageOwner DEF IndInv
<1>2. /\ \A q \in Packages : q # p => package'[q] = package[q]
      /\ package'[p] = pkg
      /\ HasArtifactPath(package[p]) => artifact'[d] = None
      /\ ~HasArtifactPath(package[p]) => artifact'[d] = artifact[d]
      /\ \A e \in Devices : e # d => artifact'[e] = artifact[e]
  BY <1>1 DEF IndInv, TypeOK, FileAfterDelete
<1>3. None \notin Packages
  BY IdentifierAssumption
<1>4. FilesOwned'
  BY <1>1, <1>2, <1>3 DEF FilesInv, FilesOwned, PackageExists
<1>5. DeletedMeansGone'
  <2>. SUFFICES ASSUME NEW q \in Packages, NEW e \in Devices,
                       package'[q].deleted, HasArtifactPath(package'[q])
                PROVE  artifact'[e] # q
    BY DEF DeletedMeansGone
  <2>1. CASE q = p
    <3>1. HasArtifactPath(package[p])
      BY <1>2, <2>1 DEF HasArtifactPath
    <3>2. QED
      BY <1>2, <1>3, <2>1, <3>1 DEF FilesInv, FilesOwned
  <2>2. CASE q # p
    BY <1>2, <1>3, <2>2 DEF FilesInv, DeletedMeansGone
  <2>3. QED
    BY <2>1, <2>2
<1>6. QED
  BY <1>4, <1>5 DEF FilesInv

\* A reset unlinks the file before it marks packages deleted, and the new one
\* is of a package no row is marked for.
LEMMA ResetKeepsFiles ==
  ASSUME IndInv, FilesInv, NEW d \in Devices, NEW p \in Packages,
         NEW outcome \in BuildOutcome, Reset(d, p, outcome)
  PROVE  FilesInv'
<1>1. /\ FreshPackage(p)
      /\ package' = [WithdrawPackages(d) EXCEPT ![p] = PackageAfterBuild(d, outcome)]
      /\ artifact' = [artifact EXCEPT
                        ![d] = FileAfterBuild(FileAfterWithdrawal(d), p, outcome)]
  BY DEF Reset, ResetGuard
<1>2. /\ package'[p].device = d /\ ~package'[p].deleted
      /\ \A q \in Packages : q # p => package'[q] = WithdrawPackages(d)[q]
      /\ artifact'[d] \in {p, FileAfterWithdrawal(d)}
      /\ \A e \in Devices : e # d => artifact'[e] = artifact[e]
  BY <1>1, BuiltIsNotDeleted, BuildRows, FreshRows
     DEF IndInv, TypeOK, FileAfterBuild, WithdrawPackages
<1>3. \A e \in Devices : artifact[e] # p
  BY <1>1, FreshHasNothing
<1>4. None \notin Packages
  BY IdentifierAssumption
<1>5. ASSUME NEW q \in Packages
      PROVE  /\ WithdrawPackages(d)[q].device = package[q].device
             /\ WithdrawPackages(d)[q].window = package[q].window
             /\ package[q].status = "absent" => WithdrawPackages(d)[q].status = "absent"
             /\ \/ WithdrawPackages(d)[q].deleted = package[q].deleted
                \/ /\ package[q].device = d
                   /\ package[q].status \in ACTIVE_PACKAGE_STATUSES
  <2>1. package[q] \in InstallPackage
    BY DEF IndInv, TypeOK
  <2>2. CASE q \in PackagesOf(d) /\ package[q].status \in ACTIVE_PACKAGE_STATUSES
    BY <2>1, <2>2
       DEF WithdrawPackages, WithdrawnPackage, PackagesOf, InstallPackage,
           ACTIVE_PACKAGE_STATUSES
  <2>3. CASE ~(q \in PackagesOf(d) /\ package[q].status \in ACTIVE_PACKAGE_STATUSES)
    BY <2>3 DEF WithdrawPackages, WithdrawnPackage
  <2>4. QED
    BY <2>2, <2>3
<1>6. FileAfterWithdrawal(d) \in {None, artifact[d]}
  BY DEF FileAfterWithdrawal
<1>7. FilesOwned'
  <2>. SUFFICES ASSUME NEW e \in Devices, NEW q \in Packages,
                       artifact'[e] = q, PackageExists(q)'
                PROVE  package'[q].device = e
    BY DEF FilesOwned
  <2>1. CASE q = p
    BY <1>2, <1>3, <2>1
  <2>2. CASE q # p
    BY <1>2, <1>4, <1>5, <1>6, <2>2 DEF FilesInv, FilesOwned, PackageExists
  <2>3. QED
    BY <2>1, <2>2
<1>8. DeletedMeansGone'
  <2>. SUFFICES ASSUME NEW q \in Packages, NEW e \in Devices,
                       package'[q].deleted, HasArtifactPath(package'[q])
                PROVE  artifact'[e] # q
    BY DEF DeletedMeansGone
  <2>1. q # p /\ HasArtifactPath(package[q])
    BY <1>2, <1>5 DEF HasArtifactPath
  <2>2. CASE package[q].deleted
    BY <1>2, <1>4, <1>6, <2>1, <2>2 DEF FilesInv, DeletedMeansGone
  <2>3. CASE ~package[q].deleted
    <3>1. package[q].device = d /\ package[q].status \in ACTIVE_PACKAGE_STATUSES
      BY <1>2, <1>5, <2>1, <2>3
    <3>2. FileAfterWithdrawal(d) = None
      BY <2>1, <3>1 DEF FileAfterWithdrawal, PackagesOf
    <3>3. e # d => artifact[e] # q
      BY <3>1, PackageOwner DEF IndInv, FilesInv, FilesOwned
    <3>4. QED
      BY <1>2, <1>4, <2>1, <3>2, <3>3
  <2>4. QED
    BY <2>2, <2>3
<1>9. QED
  BY <1>7, <1>8 DEF FilesInv

\* A revocation marks every package of the device and unlinks the file of any
\* that was not marked before.
LEMMA RevokeKeepsFiles ==
  ASSUME IndInv, FilesInv, NEW d \in Devices, Revoke(d)
  PROVE  FilesInv'
<1>1. /\ artifact'[d] = FileAfterRevoke(d)
      /\ \A e \in Devices : e # d => artifact'[e] = artifact[e]
  BY DEF Revoke, IndInv, TypeOK
<1>2. None \notin Packages
  BY IdentifierAssumption
<1>3. FileAfterRevoke(d) \in {None, artifact[d]}
  BY DEF FileAfterRevoke
<1>4. ASSUME NEW q \in Packages
      PROVE  /\ package'[q].device = package[q].device
             /\ package'[q].window = package[q].window
             /\ package[q].status = "absent" => package'[q].status = "absent"
             /\ package[q].device # d => package'[q] = package[q]
  <2>1. package[q] \in InstallPackage
    BY DEF IndInv, TypeOK
  <2>2. CASE package[q].device = d
    BY <2>1, <2>2, PackageOwner
       DEF Revoke, RevokedPackage, PackagesOf, InstallPackage, IndInv, PackageExists
  <2>3. CASE package[q].device # d
    BY <2>3 DEF Revoke, PackagesOf
  <2>4. QED
    BY <2>2, <2>3
<1>5. FilesOwned'
  BY <1>1, <1>2, <1>3, <1>4 DEF FilesInv, FilesOwned, PackageExists
<1>6. DeletedMeansGone'
  <2>. SUFFICES ASSUME NEW q \in Packages, NEW e \in Devices,
                       package'[q].deleted, HasArtifactPath(package'[q])
                PROVE  artifact'[e] # q
    BY DEF DeletedMeansGone
  <2>1. HasArtifactPath(package[q])
    BY <1>4 DEF HasArtifactPath
  <2>2. CASE package[q].deleted
    BY <1>1, <1>2, <1>3, <2>1, <2>2 DEF FilesInv, DeletedMeansGone
  <2>3. CASE ~package[q].deleted
    <3>1. package[q].device = d
      BY <1>4, <2>3
    <3>2. FileAfterRevoke(d) = None
      BY <2>1, <2>3, <3>1 DEF FileAfterRevoke, PackagesOf
    <3>3. PackageExists(q)
      BY <3>1, PackageOwner DEF IndInv
    <3>4. QED
      BY <1>1, <1>2, <3>1, <3>2, <3>3 DEF FilesInv, FilesOwned
  <2>4. QED
    BY <2>2, <2>3
<1>7. QED
  BY <1>5, <1>6 DEF FilesInv

\* A lost request leaves the file gone, as it was, or of a package that has no
\* row and therefore no deletion date.
LEMMA LostKeepsFiles ==
  ASSUME IndInv, FilesInv, LostTransaction
  PROVE  FilesInv'
<1>1. package' = package
  BY DEF LostTransaction
<1>2. PICK d \in Devices, file \in Packages \cup {None} :
        /\ artifact' = [artifact EXCEPT ![d] = file]
        /\ \/ file \in {None, artifact[d]}
           \/ file \in Packages /\ FreshPackage(file)
  <2>1. PICK d \in Devices :
          \/ \E p \in PackagesOf(d) : artifact' = [artifact EXCEPT ![d] = FileAfterDelete(p)]
          \/ artifact' = [artifact EXCEPT ![d] = FileAfterRevoke(d)]
          \/ artifact' = [artifact EXCEPT ![d] = FileAfterWithdrawal(d)]
          \/ \E p \in Packages : FreshPackage(p) /\ artifact' = [artifact EXCEPT ![d] = p]
    BY DEF LostTransaction, ResetGuard, CreateGuard
  <2>2. artifact[d] \in Packages \cup {None}
    BY DEF IndInv, TypeOK
  <2>3. \A p \in PackagesOf(d) : FileAfterDelete(p) \in {None, artifact[d]}
    BY DEF FileAfterDelete, PackagesOf
  <2>4. /\ FileAfterRevoke(d) \in {None, artifact[d]}
        /\ FileAfterWithdrawal(d) \in {None, artifact[d]}
    BY DEF FileAfterRevoke, FileAfterWithdrawal
  <2>5. QED
    BY <2>1, <2>2, <2>3, <2>4
<1>3. /\ artifact'[d] = file
      /\ \A e \in Devices : e # d => artifact'[e] = artifact[e]
  BY <1>2 DEF IndInv, TypeOK
<1>4. None \notin Packages
  BY IdentifierAssumption
<1>5. CASE file \in {None, artifact[d]}
  BY <1>1, <1>3, <1>4, <1>5
     DEF FilesInv, FilesOwned, DeletedMeansGone, PackageExists
<1>6. CASE file \in Packages /\ FreshPackage(file)
  BY <1>1, <1>3, <1>6, FreshHasNothing
     DEF FilesInv, FilesOwned, DeletedMeansGone, FreshPackage, PackageExists
<1>7. QED
  BY <1>2, <1>5, <1>6

\* Every step preserves the invariant of the files.
LEMMA FilesPreserved ==
  ASSUME IndInv, FilesInv, [Next]_vars
  PROVE  FilesInv'
<1>1. ASSUME NEW p \in Packages, ExpireOnDownload(p)
      PROVE  FilesInv'
  <2>1. package[p] \in InstallPackage /\ PackageExists(p)
    BY <1>1, PackageOwner DEF IndInv, ExpireOnDownload, MayDownload
  <2>2. /\ ExpiredPackage(package[p]).deleted
        /\ ExpiredPackage(package[p]).device = package[p].device
        /\ ExpiredPackage(package[p]).status # "absent"
        /\ ExpiredPackage(package[p]).window = package[p].window
    BY <2>1 DEF ExpiredPackage, InstallPackage
  <2>3. QED
    BY <1>1, <2>1, <2>2, DeleteKeepsFiles DEF ExpireOnDownload
<1>2. ASSUME NEW p \in Packages, ConfirmDownload(p)
      PROVE  FilesInv'
  <2>1. package[p] \in InstallPackage /\ PackageExists(p)
    BY <1>2, PackageOwner DEF IndInv, ConfirmDownload, MayConfirm
  <2>2. /\ ConfirmedPackage(package[p]).deleted
        /\ ConfirmedPackage(package[p]).device = package[p].device
        /\ ConfirmedPackage(package[p]).status # "absent"
        /\ ConfirmedPackage(package[p]).window = package[p].window
    BY <2>1 DEF ConfirmedPackage, InstallPackage
  <2>3. QED
    BY <1>2, <2>1, <2>2, DeleteKeepsFiles DEF ConfirmDownload
<1>3. ASSUME NEW p \in Packages, NEW row,
             /\ package' = [package EXCEPT ![p] = row]
             /\ artifact' = artifact
             /\ row.device = package[p].device
             /\ row.deleted = package[p].deleted
             /\ HasArtifactPath(row) = HasArtifactPath(package[p])
             /\ row.status # "absent" /\ PackageExists(p)
      PROVE  FilesInv'
  <2>1. FilesKept
    BY <1>3 DEF FilesKept, PackageExists, IndInv, TypeOK
  <2>2. QED
    BY <2>1, FilesKeptPreserves
<1>4. ASSUME NEW p \in Packages, ServeDownload(p)
      PROVE  FilesInv'
  <2>1. package[p] \in InstallPackage /\ PackageExists(p)
    BY <1>4, PackageOwner DEF IndInv, ServeDownload, ServeGuard, MayDownload
  <2>. DEFINE row == ServedPackage(package[p])
  <2>2. /\ row.device = package[p].device
        /\ row.deleted = package[p].deleted
        /\ HasArtifactPath(row) = HasArtifactPath(package[p])
        /\ row.status # "absent"
    BY <2>1 DEF ServedPackage, InstallPackage, HasArtifactPath
  <2>3. package' = [package EXCEPT ![p] = row] /\ artifact' = artifact
    BY <1>4 DEF ServeDownload
  <2>. HIDE DEF row
  <2>4. QED
    BY <1>3, <2>1, <2>2, <2>3
<1>5. ASSUME NEW p \in Packages, WindowCloses(p)
      PROVE  FilesInv'
  <2>1. package[p] \in InstallPackage /\ PackageExists(p)
    BY <1>5, PackageOwner DEF IndInv, WindowCloses, NoPackage
  <2>. DEFINE row == [package[p] EXCEPT !.window = "closed"]
  <2>2. /\ row.device = package[p].device
        /\ row.deleted = package[p].deleted
        /\ HasArtifactPath(row) = HasArtifactPath(package[p])
        /\ row.status # "absent"
    BY <1>5, <2>1 DEF WindowCloses, InstallPackage, HasArtifactPath, PackageExists
  <2>3. package' = [package EXCEPT ![p] = row] /\ artifact' = artifact
    BY <1>5 DEF WindowCloses
  <2>. HIDE DEF row
  <2>4. QED
    BY <1>3, <2>1, <2>2, <2>3
<1>6. CASE \/ \E d \in Devices : ReportLost(d)
           \/ \E u \in Users, n \in 0..MaxLimit : UpdateUser(u, n)
           \/ WorkerNext
           \/ UNCHANGED vars
  <2>1. package' = package /\ artifact' = artifact
    BY <1>6 DEF ReportLost, UpdateUser, WorkerNext, JobSucceeds, JobFails, vars
  <2>2. QED
    BY <2>1, FilesKeptPreserves DEF FilesKept, PackageExists
<1>7. QED
  BY <1>1, <1>2, <1>4, <1>5, <1>6, CreateKeepsFiles, ResetKeepsFiles,
     RevokeKeepsFiles, LostKeepsFiles DEF Next, PortalNext

-----------------------------------------------------------------------------
(***************************************************************************)
(* Jobs.                                                                   *)
(***************************************************************************)

ConfirmedOf(d) == {p \in PackagesOf(d) : package[p].confirmed}

\* As many jobs as confirmations; stated with the finiteness that makes both
\* numbers, because Packages may be infinite.
JobsCounted ==
  /\ \A d \in Devices : IsFiniteSet(ConfirmedOf(d))
  /\ OneApplyJobPerConfirmation

JobsInv == RemovalIsLast /\ ApplyJobNotLost /\ JobsCounted

\* What every step that inserts no job leaves alone.
JobDuties ==
  \A d \in Devices :
    /\ device'[d].revoked = device[d].revoked
    /\ device'[d].status = "download_confirmed" => device[d].status = "download_confirmed"
    /\ ConfirmedOf(d)' = ConfirmedOf(d)

\* One device row and one package row change, and neither gets anything that
\* would call for a job.
LEMMA RowsWithoutDuties ==
  ASSUME IndInv, NEW d \in Devices, NEW p \in Packages, NEW dev, NEW pkg,
         \/ device' = device
         \/ /\ device' = [device EXCEPT ![d] = dev]
            /\ dev.revoked = device[d].revoked
            /\ dev.status = "download_confirmed" => device[d].status = "download_confirmed",
         \/ package' = package
         \/ /\ package' = [package EXCEPT ![p] = pkg]
            /\ pkg.confirmed = package[p].confirmed
            /\ pkg.confirmed => pkg.device = package[p].device
  PROVE  JobDuties
<1>1. ASSUME NEW e \in Devices, NEW q \in Packages
      PROVE  q \in ConfirmedOf(e)' <=> q \in ConfirmedOf(e)
  <2>1. CASE q = p
    BY <2>1 DEF ConfirmedOf, PackagesOf, IndInv, TypeOK
  <2>2. CASE q # p
    <3>1. package'[q] = package[q]
      BY <2>2 DEF IndInv, TypeOK
    <3>2. QED
      BY <3>1 DEF ConfirmedOf, PackagesOf
  <2>3. QED
    BY <2>1, <2>2
<1>2. \A e \in Devices : ConfirmedOf(e)' = ConfirmedOf(e)
  <2>1. \A e : ConfirmedOf(e) \subseteq Packages /\ ConfirmedOf(e)' \subseteq Packages
    BY DEF ConfirmedOf, PackagesOf
  <2>2. QED
    BY <1>1, <2>1
<1>3. ASSUME NEW e \in Devices
      PROVE  /\ device'[e].revoked = device[e].revoked
             /\ device'[e].status = "download_confirmed" =>
                  device[e].status = "download_confirmed"
  BY DEF IndInv, TypeOK
<1>4. QED
  BY <1>2, <1>3 DEF JobDuties

\* A reset or a revocation marks packages, but confirms none.
LEMMA ResetHasNoDuties ==
  ASSUME IndInv, NEW d \in Devices, NEW p \in Packages,
         NEW outcome \in BuildOutcome, Reset(d, p, outcome)
  PROVE  JobDuties
<1>. DEFINE dev == DeviceAfterBuild(ResetDevice(device[d]), p, outcome)
<1>1. /\ device' = [device EXCEPT ![d] = dev]
      /\ package' = [WithdrawPackages(d) EXCEPT ![p] = PackageAfterBuild(d, outcome)]
      /\ FreshPackage(p)
      /\ device[d] \in Device
  BY DEF Reset, ResetGuard, IndInv, TypeOK
<1>2. dev.revoked = device[d].revoked /\ dev.status # "download_confirmed"
  <2>1. /\ ResetDevice(device[d]) \in Device
        /\ ResetDevice(device[d]).status = "reset_pending"
        /\ ResetDevice(device[d]).revoked = device[d].revoked
    BY <1>1, DeviceRows, FreshRows
  <2>2. QED
    BY <2>1, BuildRows
<1>3. ASSUME NEW q \in Packages, q # p
      PROVE  /\ package'[q].device = package[q].device
             /\ package'[q].confirmed = package[q].confirmed
  <2>1. package[q] \in InstallPackage
    BY DEF IndInv, TypeOK
  <2>2. package'[q] \in {package[q], WithdrawnPackage(package[q])}
    BY <1>1, <1>3 DEF WithdrawPackages
  <2>3. QED
    BY <2>1, <2>2, WithdrawnRow
<1>4. ~package[p].confirmed /\ ~package'[p].confirmed
  BY <1>1, FreshHasNothing, BuiltIsNotDeleted DEF WithdrawPackages, NoPackage
<1>. HIDE DEF dev
<1>5. \A e \in Devices : ConfirmedOf(e)' = ConfirmedOf(e)
  BY <1>3, <1>4 DEF ConfirmedOf, PackagesOf
<1>6. QED
  BY <1>1, <1>2, <1>5 DEF JobDuties, IndInv, TypeOK

\* Only confirm_download and revoke_device make a duty of the worker's.
LEMMA OnlyTwoMakeDuties ==
  ASSUME IndInv, PortalNext
  PROVE  \/ \E p \in Packages : ConfirmDownload(p)
         \/ \E d \in Devices : Revoke(d)
         \/ JobDuties /\ jobs' = jobs
<1>1. ASSUME NEW u \in Users, NEW d \in Devices, NEW p \in Packages,
             NEW outcome \in BuildOutcome, CreateDevice(u, d, p, outcome)
      PROVE  JobDuties /\ jobs' = jobs
  <2>1. PICK ip \in 1..PoolSize :
          /\ CreateGuard(u, d, p, ip)
          /\ device' = [device EXCEPT
                          ![d] = DeviceAfterBuild(CreatedDevice(u, ip), p, outcome)]
    BY <1>1 DEF CreateDevice
  <2>. DEFINE dev == DeviceAfterBuild(CreatedDevice(u, ip), p, outcome)
              pkg == PackageAfterBuild(d, outcome)
  <2>2. device[d] = NoDevice /\ FreshPackage(p)
    BY <2>1 DEF CreateGuard, FreshDevice, DeviceExists, IndInv, TypeOK
  <2>3. ~dev.revoked /\ dev.status # "download_confirmed"
    BY BuildRows, FreshRows
  <2>4. ~NoDevice.revoked
    BY DEF NoDevice
  <2>5. ~pkg.confirmed
    BY BuiltIsNotDeleted
  <2>6. ~package[p].confirmed
    BY <2>2, FreshHasNothing DEF NoPackage
  <2>7. package' = [package EXCEPT ![p] = pkg] /\ jobs' = jobs
    BY <1>1 DEF CreateDevice
  <2>8. device[d].revoked = FALSE /\ dev.revoked = FALSE /\ pkg.confirmed = FALSE
        /\ package[p].confirmed = FALSE
    <3>1. dev \in Device /\ pkg \in InstallPackage /\ package[p] \in InstallPackage
      BY BuildRows, FreshRows DEF IndInv, TypeOK
    <3>. HIDE DEF dev, pkg
    <3>2. QED
      BY <2>2, <2>3, <2>4, <2>5, <2>6, <3>1 DEF Device, InstallPackage, NoDevice
  <2>9. device' = [device EXCEPT ![d] = dev]
    BY <2>1
  <2>. HIDE DEF dev, pkg
  <2>10. QED
    BY <2>3, <2>7, <2>8, <2>9, RowsWithoutDuties
<1>2. ASSUME NEW p \in Packages, ServeDownload(p)
      PROVE  JobDuties /\ jobs' = jobs
  <2>. DEFINE d == package[p].device
              dev == ServedDevice(device[d], package[p])
              pkg == ServedPackage(package[p])
  <2>1. /\ d \in Devices /\ device[d] \in Device /\ package[p] \in InstallPackage
        /\ package[p].download_attempts < MaxAttempts
    BY <1>2, PackageOwner DEF IndInv, TypeOK, ServeDownload, ServeGuard, MayDownload
  <2>2. dev.revoked = device[d].revoked
    BY <2>1, DeviceRows
  <2>3. dev.status = "download_confirmed" => device[d].status = "download_confirmed"
    BY <2>1 DEF ServedDevice, Device
  <2>4. pkg.confirmed = package[p].confirmed /\ pkg.device = package[p].device
    BY <2>1, ServedRow
  <2>5. /\ device' = [device EXCEPT ![d] = dev]
        /\ package' = [package EXCEPT ![p] = pkg]
        /\ jobs' = jobs
    BY <1>2 DEF ServeDownload
  <2>. HIDE DEF d, dev, pkg
  <2>6. QED
    BY <2>1, <2>2, <2>3, <2>4, <2>5, RowsWithoutDuties
<1>3. ASSUME NEW p \in Packages, ExpireOnDownload(p)
      PROVE  JobDuties /\ jobs' = jobs
  <2>1. package[p] \in InstallPackage /\ package[p].device \in Devices
    BY <1>3, PackageOwner DEF IndInv, ExpireOnDownload, MayDownload
  <2>. DEFINE pkg == ExpiredPackage(package[p])
  <2>2. pkg.confirmed = package[p].confirmed /\ pkg.device = package[p].device
    BY <2>1, ExpiredRow
  <2>3. package' = [package EXCEPT ![p] = pkg] /\ device' = device /\ jobs' = jobs
    BY <1>3 DEF ExpireOnDownload
  <2>. HIDE DEF pkg
  <2>4. QED
    BY <2>1, <2>2, <2>3, RowsWithoutDuties
<1>4. ASSUME NEW p \in Packages, WindowCloses(p)
      PROVE  JobDuties /\ jobs' = jobs
  <2>. DEFINE pkg == [package[p] EXCEPT !.window = "closed"]
  <2>1. package[p] \in InstallPackage /\ package[p].device \in Devices
    BY <1>4, PackageOwner DEF IndInv, WindowCloses, NoPackage
  <2>2. pkg.confirmed = package[p].confirmed /\ pkg.device = package[p].device
    BY <2>1 DEF InstallPackage
  <2>3. package' = [package EXCEPT ![p] = pkg] /\ device' = device /\ jobs' = jobs
    BY <1>4 DEF WindowCloses
  <2>. HIDE DEF pkg
  <2>4. QED
    BY <2>1, <2>2, <2>3, RowsWithoutDuties
<1>5. ASSUME NEW d \in Devices, ReportLost(d)
      PROVE  JobDuties /\ jobs' = jobs
  BY <1>5 DEF ReportLost, JobDuties, ConfirmedOf, PackagesOf, IndInv, TypeOK, Device
<1>6. CASE (\E u \in Users, n \in 0..MaxLimit : UpdateUser(u, n)) \/ LostTransaction
  BY <1>6 DEF UpdateUser, LostTransaction, JobDuties, ConfirmedOf, PackagesOf
<1>7. ASSUME NEW d \in Devices, NEW p \in Packages, NEW outcome \in BuildOutcome,
             Reset(d, p, outcome)
      PROVE  JobDuties /\ jobs' = jobs
  BY <1>7, ResetHasNoDuties DEF Reset
<1>8. QED
  BY <1>1, <1>2, <1>3, <1>4, <1>5, <1>6, <1>7 DEF PortalNext

\* With the same jobs, or the same but for their status, the counts agree.
LEMMA CountsKept ==
  ASSUME IndInv, JobsInv, JobDuties,
         \A type \in {"apply_peer", "remove_peer"}, d \in Devices :
           JobsOf(type, d)' = JobsOf(type, d)
  PROVE  JobsCounted'
BY DEF JobsInv, JobsCounted, OneApplyJobPerConfirmation, JobDuties, ConfirmedOf

\* Steps that insert no job and make no duty.
LEMMA QuietKeepsJobs ==
  ASSUME IndInv, JobsInv, JobDuties, jobs' = jobs
  PROVE  JobsInv'
<1>1. JobsCounted'
  BY CountsKept DEF JobsOf
<1>2. QED
  BY <1>1 DEF JobsInv, RemovalIsLast, ApplyJobNotLost, JobDuties, JobsOf

\* An appended job is the newest of its type and device.
LEMMA Appended ==
  ASSUME TypeOK, NEW type \in {"apply_peer", "remove_peer"}, NEW d \in Devices,
         Enqueue(type, d)
  PROVE  /\ \A i \in DOMAIN jobs : i \in DOMAIN jobs' /\ jobs'[i] = jobs[i] /\ i <= Len(jobs)
         /\ DOMAIN jobs' = DOMAIN jobs \cup {Len(jobs) + 1}
         /\ jobs'[Len(jobs) + 1] = [type |-> type, device |-> d, status |-> "pending"]
         /\ Len(jobs) \in Nat /\ Len(jobs) + 1 \notin DOMAIN jobs
         /\ DOMAIN jobs \subseteq Nat
<1>1. jobs \in Seq(Job)
  BY DEF TypeOK
<1>2. jobs' = Append(jobs, [type |-> type, device |-> d, status |-> "pending"])
  BY DEF Enqueue
<1>3. [type |-> type, device |-> d, status |-> "pending"] \in Job
  BY DEF Job
<1>4. QED
  BY <1>1, <1>2, <1>3

\* Appending adds one index to the jobs of that type and device.
LEMMA AppendedJobsOf ==
  ASSUME TypeOK, NEW type \in {"apply_peer", "remove_peer"}, NEW d \in Devices,
         Enqueue(type, d), NEW t \in {"apply_peer", "remove_peer"}, NEW e \in Devices
  PROVE  JobsOf(t, e)' = IF t = type /\ e = d THEN JobsOf(t, e) \cup {Len(jobs) + 1}
                         ELSE JobsOf(t, e)
<1>. DEFINE new == Len(jobs) + 1
<1>1. /\ DOMAIN jobs' = DOMAIN jobs \cup {new}
      /\ new \notin DOMAIN jobs
      /\ \A i \in DOMAIN jobs : jobs'[i] = jobs[i]
  BY Appended
<1>2. jobs'[new] = [type |-> type, device |-> d, status |-> "pending"]
  BY Appended
<1>. HIDE DEF new
<1>3. ASSUME NEW i \in DOMAIN jobs
      PROVE  i \in JobsOf(t, e)' <=> i \in JobsOf(t, e)
  BY <1>1, <1>3 DEF JobsOf
<1>4. new \in JobsOf(t, e)' <=> t = type /\ e = d
  BY <1>1, <1>2 DEF JobsOf
<1>5. JobsOf(t, e) \subseteq DOMAIN jobs /\ JobsOf(t, e)' \subseteq DOMAIN jobs'
  BY DEF JobsOf
<1>6. JobsOf(t, e)' = IF t = type /\ e = d THEN JobsOf(t, e) \cup {new} ELSE JobsOf(t, e)
  <2>1. CASE t = type /\ e = d
    BY <1>1, <1>3, <1>4, <1>5, <2>1
  <2>2. CASE ~(t = type /\ e = d)
    BY <1>1, <1>3, <1>4, <1>5, <2>2
  <2>3. QED
    BY <2>1, <2>2
<1>7. QED
  BY <1>6 DEF new

\* A sequence has finitely many jobs.
LEMMA FiniteJobs ==
  ASSUME TypeOK, NEW type, NEW d
  PROVE  IsFiniteSet(JobsOf(type, d))
<1>1. jobs \in Seq(Job) /\ Len(jobs) \in Nat /\ DOMAIN jobs = 1..Len(jobs)
  BY DEF TypeOK
<1>2. IsFiniteSet(1..Len(jobs))
  BY <1>1, FS_Interval
<1>3. JobsOf(type, d) \subseteq 1..Len(jobs)
  BY <1>1 DEF JobsOf
<1>4. QED
  BY <1>2, <1>3, FS_Subset

\* A confirmation: the package was not confirmed yet, its device is not
\* revoked, and the job is inserted after every other.
LEMMA ConfirmKeepsJobs ==
  ASSUME IndInv, JobsInv, NEW p \in Packages, ConfirmDownload(p)
  PROVE  JobsInv'
<1>a. /\ package[p].status \in Downloadable
      /\ ~package[p].confirmed
      /\ package[p] \in InstallPackage
      /\ package[p].device \in Devices
      /\ package[p].status \in ACTIVE_PACKAGE_STATUSES
      /\ Len(jobs) + 1 \in Nat
  BY PackageOwner, FiniteJobs DEF ConfirmDownload, MayConfirm, IndInv, TypeOK
<1>b. PICK d \in Devices : d = package[p].device
  BY <1>a
<1>c. PICK new \in Nat : new = Len(jobs) + 1
  BY <1>a
<1>1. /\ package[p].status \in Downloadable
      /\ ~package[p].confirmed
      /\ package[p] \in InstallPackage
      /\ package[p].device = d /\ device[d] \in Device
      /\ package[p].status \in ACTIVE_PACKAGE_STATUSES
  BY <1>a, <1>b DEF IndInv, TypeOK
<1>. DEFINE dev == ConfirmedDevice(device[d])
<1>2. ~device[d].revoked
  BY <1>1 DEF IndInv, RevokedIsFinal, PackagesOf
<1>3. /\ device' = [device EXCEPT ![d] = dev]
      /\ package' = [package EXCEPT ![p] = ConfirmedPackage(package[p])]
      /\ Enqueue("apply_peer", d)
  BY <1>b DEF ConfirmDownload
<1>4. /\ dev.revoked = device[d].revoked
      /\ ConfirmedPackage(package[p]).device = d
      /\ ConfirmedPackage(package[p]).confirmed
  BY <1>1, DeviceRows, ConfirmedRow
<1>5. \A e \in Devices : device'[e].revoked = device[e].revoked
  BY <1>1, <1>3, <1>4 DEF IndInv, TypeOK
<1>6. /\ JobsOf("apply_peer", d)' = JobsOf("apply_peer", d) \cup {new}
      /\ \A e \in Devices \ {d} : JobsOf("apply_peer", e)' = JobsOf("apply_peer", e)
      /\ \A e \in Devices : JobsOf("remove_peer", e)' = JobsOf("remove_peer", e)
  <2>. HIDE DEF dev
  <2>1. JobsOf("apply_peer", d)' = JobsOf("apply_peer", d) \cup {new}
    BY <1>3, <1>c, AppendedJobsOf DEF IndInv
  <2>2. ASSUME NEW e \in Devices \ {d}
        PROVE  JobsOf("apply_peer", e)' = JobsOf("apply_peer", e)
    BY <1>3, AppendedJobsOf DEF IndInv
  <2>3. ASSUME NEW e \in Devices
        PROVE  JobsOf("remove_peer", e)' = JobsOf("remove_peer", e)
    BY <1>3, AppendedJobsOf DEF IndInv
  <2>4. QED
    BY <2>1, <2>2, <2>3
<1>7. RemovalIsLast'
  BY <1>2, <1>5, <1>6 DEF JobsInv, RemovalIsLast
<1>8. ApplyJobNotLost'
  <2>. SUFFICES ASSUME NEW e \in Devices, device'[e].status = "download_confirmed"
                PROVE  \E i \in JobsOf("apply_peer", e)' :
                         /\ jobs'[i].status # "succeeded"
                         /\ \A k \in JobsOf("apply_peer", e)' : k <= i
    BY DEF ApplyJobNotLost
  <2>1. CASE e = d
    <3>1. new \in JobsOf("apply_peer", d)' /\ jobs'[new].status # "succeeded"
      <4>1. jobs'[new] = [type |-> "apply_peer", device |-> d, status |-> "pending"]
        BY <1>3, <1>c, Appended DEF IndInv
      <4>2. QED
        BY <1>6, <4>1
    <3>2. \A k \in JobsOf("apply_peer", d) : k <= new
      <4>1. \A i \in DOMAIN jobs : i <= Len(jobs) /\ i \in Nat
        BY <1>3, Appended DEF IndInv
      <4>2. JobsOf("apply_peer", d) \subseteq DOMAIN jobs /\ Len(jobs) \in Nat
        BY <1>3, Appended DEF IndInv, JobsOf
      <4>3. QED
        BY <1>c, <4>1, <4>2
    <3>3. new <= new
      BY <1>c
    <3>4. QED
      BY <1>6, <2>1, <3>1, <3>2, <3>3
  <2>2. CASE e # d
    <3>1. device'[e] = device[e]
      BY <1>3, <2>2 DEF IndInv, TypeOK
    <3>2. PICK i \in JobsOf("apply_peer", e) :
            /\ jobs[i].status # "succeeded"
            /\ \A k \in JobsOf("apply_peer", e) : k <= i
      BY <3>1 DEF JobsInv, ApplyJobNotLost
    <3>3. jobs'[i] = jobs[i]
      BY <1>3, Appended DEF IndInv, JobsOf
    <3>4. QED
      BY <1>6, <2>2, <3>2, <3>3
  <2>3. QED
    BY <2>1, <2>2
<1>9. JobsCounted'
  <2>1. /\ ConfirmedOf(d)' = ConfirmedOf(d) \cup {p}
        /\ p \notin ConfirmedOf(d)
        /\ \A e \in Devices \ {d} : ConfirmedOf(e)' = ConfirmedOf(e)
    <3>1. \A q \in Packages : q # p => package'[q] = package[q]
      BY <1>3 DEF IndInv, TypeOK
    <3>2. package'[p] = ConfirmedPackage(package[p])
      BY <1>3 DEF IndInv, TypeOK
    <3>3. QED
      BY <1>1, <1>4, <3>1, <3>2 DEF ConfirmedOf, PackagesOf
  <2>2. new \notin JobsOf("apply_peer", d)
    BY <1>c, <1>3, Appended DEF IndInv, JobsOf
  <2>3. IsFiniteSet(JobsOf("apply_peer", d))
    BY FiniteJobs DEF IndInv
  <2>4. /\ IsFiniteSet(ConfirmedOf(d))
        /\ Cardinality(JobsOf("apply_peer", d)) = Cardinality(ConfirmedOf(d))
    BY <1>1 DEF JobsInv, JobsCounted, OneApplyJobPerConfirmation, ConfirmedOf
  <2>5. /\ IsFiniteSet(ConfirmedOf(d) \cup {p})
        /\ Cardinality(ConfirmedOf(d) \cup {p}) = Cardinality(ConfirmedOf(d)) + 1
    BY <2>1, <2>4, FS_AddElement, Zenon
  <2>6. Cardinality(JobsOf("apply_peer", d) \cup {new}) =
          Cardinality(JobsOf("apply_peer", d)) + 1
    BY <2>2, <2>3, FS_AddElement, Zenon
  <2>7. Cardinality(JobsOf("apply_peer", d)') = Cardinality(ConfirmedOf(d)')
    BY <1>6, <2>1, <2>4, <2>5, <2>6
  <2>8. QED
    <3>. SUFFICES ASSUME NEW e \in Devices
                  PROVE  /\ IsFiniteSet(ConfirmedOf(e)')
                         /\ Cardinality(JobsOf("apply_peer", e)') =
                              Cardinality(ConfirmedOf(e)')
      BY DEF JobsCounted, OneApplyJobPerConfirmation, ConfirmedOf
    <3>1. CASE e = d
      BY <2>1, <2>5, <2>7, <3>1
    <3>2. CASE e # d
      BY <1>6, <2>1, <3>2
         DEF JobsInv, JobsCounted, OneApplyJobPerConfirmation, ConfirmedOf
    <3>3. QED
      BY <3>1, <3>2
<1>10. QED
  BY <1>7, <1>8, <1>9 DEF JobsInv

\* A revocation inserts its removal behind every job of the device.
LEMMA RevokeKeepsJobs ==
  ASSUME IndInv, JobsInv, NEW d \in Devices, Revoke(d)
  PROVE  JobsInv'
<1>. DEFINE new == Len(jobs) + 1
<1>1. /\ device' = [device EXCEPT ![d] = RevokedDevice(device[d])]
      /\ Enqueue("remove_peer", d)
      /\ RevokedDevice(device[d]).status = "revoked"
  BY DeviceRows, FreshRows DEF Revoke, IndInv, TypeOK
<1>2. \A e \in Devices \ {d} : device'[e] = device[e]
  BY <1>1 DEF IndInv, TypeOK
<1>3. /\ JobsOf("remove_peer", d)' = JobsOf("remove_peer", d) \cup {new}
      /\ \A e \in Devices \ {d} : JobsOf("remove_peer", e)' = JobsOf("remove_peer", e)
      /\ \A e \in Devices : JobsOf("apply_peer", e)' = JobsOf("apply_peer", e)
  BY <1>1, AppendedJobsOf DEF IndInv
<1>4. RemovalIsLast'
  <2>1. \A k \in JobsOf("apply_peer", d) : k < new
    BY <1>1, Appended DEF IndInv, JobsOf
  <2>2. QED
    BY <1>2, <1>3, <2>1 DEF JobsInv, RemovalIsLast
<1>5. ApplyJobNotLost'
  <2>1. device'[d].status # "download_confirmed"
    BY <1>1 DEF IndInv, TypeOK
  <2>2. \A e \in Devices : \A i \in JobsOf("apply_peer", e) : jobs'[i] = jobs[i]
    BY <1>1, Appended DEF IndInv, JobsOf
  <2>3. QED
    BY <1>2, <1>3, <2>1, <2>2 DEF JobsInv, ApplyJobNotLost
<1>6. JobsCounted'
  <2>1. ASSUME NEW e \in Devices
        PROVE  ConfirmedOf(e)' = ConfirmedOf(e)
    <3>1. ASSUME NEW q \in Packages
          PROVE  /\ package'[q].device = package[q].device
                 /\ package'[q].confirmed = package[q].confirmed
      <4>1. package[q] \in InstallPackage
        BY DEF IndInv, TypeOK
      <4>2. package'[q] \in {package[q], RevokedPackage(package[q])}
        BY DEF Revoke
      <4>3. QED
        BY <4>1, <4>2, RevokedRow
    <3>2. QED
      BY <3>1 DEF ConfirmedOf, PackagesOf
  <2>2. QED
    BY <1>3, <2>1 DEF JobsInv, JobsCounted, OneApplyJobPerConfirmation, ConfirmedOf
<1>7. QED
  BY <1>4, <1>5, <1>6 DEF JobsInv

\* The worker changes a job's status, and makes a device active only with the
\* apply job that succeeds: the duty and its job end together.
LEMMA WorkerKeepsJobs ==
  ASSUME IndInv, JobsInv, NEW i \in DOMAIN jobs, JobSucceeds(i) \/ JobFails(i)
  PROVE  JobsInv'
<1>1. jobs \in Seq(Job) /\ jobs[i] \in Job /\ i \in 1..Len(jobs)
  BY DEF IndInv, TypeOK
<1>2. PICK st \in {"succeeded", "failed"} :
        /\ jobs' = [jobs EXCEPT ![i].status = st]
        /\ st = "succeeded" /\ jobs[i].type = "apply_peer" =>
             device' = [device EXCEPT ![jobs[i].device].status = "active"]
        /\ ~(st = "succeeded" /\ jobs[i].type = "apply_peer") => device' = device
        /\ package' = package
  BY DEF JobSucceeds, JobFails
<1>3. /\ DOMAIN jobs' = DOMAIN jobs
      /\ \A k \in DOMAIN jobs : /\ jobs'[k].type = jobs[k].type
                                /\ jobs'[k].device = jobs[k].device
                                /\ k # i => jobs'[k] = jobs[k]
      /\ jobs'[i].status = st
  BY <1>1, <1>2 DEF Job
<1>4. \A type, d : JobsOf(type, d)' = JobsOf(type, d)
  BY <1>3 DEF JobsOf
<1>5. \A d \in Devices :
        /\ device'[d].revoked = device[d].revoked
        /\ device'[d].status = "download_confirmed" =>
             /\ device[d].status = "download_confirmed"
             /\ ~(st = "succeeded" /\ i \in JobsOf("apply_peer", d))
  <2>. DEFINE e == jobs[i].device
              dev == [device[e] EXCEPT !.status = "active"]
  <2>1. e \in Devices /\ device[e] \in Device
    BY <1>1 DEF Job, IndInv, TypeOK
  <2>2. dev.status = "active" /\ dev.revoked = device[e].revoked
    BY <2>1 DEF Device
  <2>3. CASE st = "succeeded" /\ jobs[i].type = "apply_peer"
    <3>1. device' = [device EXCEPT ![e] = dev]
      BY <1>2, <2>3
    <3>. HIDE DEF dev
    <3>2. device'[e] = dev /\ \A d \in Devices \ {e} : device'[d] = device[d]
      BY <2>1, <3>1 DEF IndInv, TypeOK
    <3>3. QED
      BY <2>2, <3>2 DEF JobsOf
  <2>4. CASE ~(st = "succeeded" /\ jobs[i].type = "apply_peer")
    BY <1>2, <2>4 DEF JobsOf
  <2>5. QED
    BY <2>3, <2>4
<1>6. JobsCounted'
  BY <1>2, <1>4 DEF JobsInv, JobsCounted, OneApplyJobPerConfirmation, ConfirmedOf, PackagesOf
<1>7. RemovalIsLast'
  BY <1>4, <1>5 DEF JobsInv, RemovalIsLast
<1>8. ApplyJobNotLost'
  <2>. SUFFICES ASSUME NEW d \in Devices, device'[d].status = "download_confirmed"
                PROVE  \E k \in JobsOf("apply_peer", d) :
                         /\ jobs'[k].status # "succeeded"
                         /\ \A l \in JobsOf("apply_peer", d) : l <= k
    BY <1>4 DEF ApplyJobNotLost
  <2>1. PICK k \in JobsOf("apply_peer", d) :
          /\ jobs[k].status # "succeeded"
          /\ \A l \in JobsOf("apply_peer", d) : l <= k
    BY <1>5 DEF JobsInv, ApplyJobNotLost
  <2>2. jobs'[k].status # "succeeded"
    BY <1>3, <1>5, <2>1 DEF JobsOf
  <2>3. QED
    BY <2>1, <2>2
<1>9. QED
  BY <1>6, <1>7, <1>8 DEF JobsInv

\* Every step preserves the invariant of the jobs.
LEMMA JobsPreserved ==
  ASSUME IndInv, JobsInv, [Next]_vars
  PROVE  JobsInv'
<1>1. CASE UNCHANGED vars
  <2>1. JobDuties /\ jobs' = jobs
    BY <1>1 DEF vars, JobDuties, ConfirmedOf, PackagesOf
  <2>2. QED
    BY <2>1, QuietKeepsJobs
<1>2. CASE PortalNext
  BY <1>2, OnlyTwoMakeDuties, ConfirmKeepsJobs, RevokeKeepsJobs, QuietKeepsJobs
<1>3. CASE WorkerNext
  BY <1>3, WorkerKeepsJobs DEF WorkerNext
<1>4. QED
  BY <1>1, <1>2, <1>3 DEF Next

-----------------------------------------------------------------------------

\* In the empty tables nothing is on disk and nothing is due.
LEMMA EmptyHasNothing == Init => FilesInv /\ JobsInv
<1>. SUFFICES ASSUME Init PROVE FilesInv /\ JobsInv
  OBVIOUS
<1>1. /\ NoDevice.status = "absent" /\ ~NoDevice.revoked
      /\ ~NoPackage.deleted /\ NoPackage.device = None
  BY DEF NoDevice, NoPackage
<1>2. None \notin Devices /\ None \notin Packages
  BY IdentifierAssumption
<1>3. FilesInv
  BY <1>1, <1>2 DEF Init, FilesInv, FilesOwned, DeletedMeansGone
<1>4. RemovalIsLast /\ ApplyJobNotLost
  BY <1>1 DEF Init, RemovalIsLast, ApplyJobNotLost
<1>5. \A d \in Devices : ConfirmedOf(d) = {} /\ JobsOf("apply_peer", d) = {}
  BY <1>1, <1>2 DEF Init, ConfirmedOf, PackagesOf, JobsOf
<1>6. JobsCounted
  BY <1>5, FS_EmptySet DEF JobsCounted, OneApplyJobPerConfirmation, ConfirmedOf
<1>7. QED
  BY <1>3, <1>4, <1>6 DEF JobsInv

\* Both invariants hold of every reachable state.
LEMMA FilesAndJobs == Spec => [](FilesInv /\ JobsInv)
<1>1. IndInv /\ FilesInv /\ JobsInv /\ [Next]_vars => (FilesInv /\ JobsInv)'
  BY FilesPreserved, JobsPreserved
<1>2. QED
  BY <1>1, EmptyHasNothing, Inductive, PTL DEF Spec

\* Whatever is reset, revoked, lost or expired, an installer whose deletion
\* the row of its package records is not on disk.
THEOREM DeletedAreGone == Spec => []DeletedMeansGone
<1>1. FilesInv /\ JobsInv => DeletedMeansGone
  BY DEF FilesInv
<1>2. QED
  BY <1>1, FilesAndJobs, PTL

\* The last job of a revoked device is a removal.
THEOREM RemovalComesLast == Spec => []RemovalIsLast
<1>1. FilesInv /\ JobsInv => RemovalIsLast
  BY DEF JobsInv
<1>2. QED
  BY <1>1, FilesAndJobs, PTL

\* A confirmed device that is not active yet has its job to run, or failed.
THEOREM ApplyJobStays == Spec => []ApplyJobNotLost
<1>1. FilesInv /\ JobsInv => ApplyJobNotLost
  BY DEF JobsInv
<1>2. QED
  BY <1>1, FilesAndJobs, PTL

\* As many apply jobs as confirmed installers, for each device.
THEOREM OneJobEach == Spec => []OneApplyJobPerConfirmation
<1>1. FilesInv /\ JobsInv => OneApplyJobPerConfirmation
  BY DEF JobsInv, JobsCounted
<1>2. QED
  BY <1>1, FilesAndJobs, PTL
=============================================================================
