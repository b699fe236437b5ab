----------------------- MODULE DeviceLifecycleProofs -----------------------
(***************************************************************************)
(* What holds of DeviceLifecycle for any users, devices, packages, address *)
(* pool and bounds, and whichever faults happen.                           *)
(***************************************************************************)
EXTENDS DeviceLifecycle, TLAPS

\* The safety properties support each other: a confirmation activates the key
\* of its own package because the live package owns the device, and a revoked
\* device stays revoked because it has no live package left to confirm.
IndInv ==
  /\ TypeOK
  /\ LivePackageOwnsDevice
  /\ OnePackageInFlight
  /\ PeersHaveConfirmedKeys
  /\ RevokedIsFinal

-----------------------------------------------------------------------------
(***************************************************************************)
(* The rows the handlers write.                                            *)
(***************************************************************************)

\* The rows before a build, and of an identifier not used yet.
LEMMA FreshRows ==
  /\ NoDevice \in Device
  /\ NoPackage \in InstallPackage
  /\ \A u \in Users, ip \in 1..PoolSize :
       /\ CreatedDevice(u, ip) \in Device
       /\ CreatedDevice(u, ip).status = "pending_build"
       /\ ~CreatedDevice(u, ip).revoked
<1>1. NoDevice \in Device
  BY PoolAssumption DEF NoDevice, Device, DeviceStatus, Key
<1>2. NoPackage \in InstallPackage
  BY AttemptsAssumption DEF NoPackage, InstallPackage, InstallPackageStatus
<1>3. ASSUME NEW u \in Users, NEW ip \in 1..PoolSize
      PROVE  /\ CreatedDevice(u, ip) \in Device
             /\ CreatedDevice(u, ip).status = "pending_build"
             /\ ~CreatedDevice(u, ip).revoked
  <2>1. ip \in 0..PoolSize
    BY PoolAssumption
  <2>2. /\ CreatedDevice(u, ip) \in Device
        /\ CreatedDevice(u, ip).status = "pending_build"
        /\ CreatedDevice(u, ip).revoked = NoDevice.revoked
    BY <1>1, <2>1 DEF CreatedDevice, Device, DeviceStatus
  <2>3. NoDevice.revoked = FALSE
    BY DEF NoDevice
  <2>4. QED
    BY <2>2, <2>3
<1>4. QED
  BY <1>1, <1>2, <1>3

\* _build_package leaves typed rows; a package it offers for download owns the
\* device row: same status, its own key.
LEMMA BuildRows ==
  ASSUME NEW row \in Device, NEW d \in Devices, NEW p \in Packages,
         NEW outcome \in BuildOutcome
  PROVE  LET dev == DeviceAfterBuild(row, p, outcome)
             pkg == PackageAfterBuild(d, outcome)
         IN  /\ dev \in Device
             /\ dev.revoked = row.revoked
             /\ dev.status \in {"ready_to_download", "pending_build", row.status}
             /\ pkg \in InstallPackage
             /\ pkg.device = d
             /\ pkg.status \in {"ready_to_download", "failed", "pending_build"}
             /\ pkg.status = "ready_to_download" =>
                  dev.status = "ready_to_download" /\ dev.public_key = p
<1>1. CASE outcome = "built"
  BY <1>1, FreshRows
     DEF DeviceAfterBuild, PackageAfterBuild, Device, InstallPackage,
         DeviceStatus, InstallPackageStatus, Key
<1>2. CASE outcome \in {"failed", "failed_after_write"}
  BY <1>2, FreshRows
     DEF DeviceAfterBuild, PackageAfterBuild, Device, InstallPackage,
         DeviceStatus, InstallPackageStatus, Key
<1>3. CASE outcome = "not_configured"
  BY <1>3, FreshRows
     DEF DeviceAfterBuild, PackageAfterBuild, Device, InstallPackage,
         DeviceStatus, InstallPackageStatus, Key
<1>4. QED
  BY <1>1, <1>2, <1>3 DEF BuildOutcome

\* The package rows the other handlers write.
LEMMA ExpiredRow ==
  ASSUME NEW row \in InstallPackage
  PROVE  /\ ExpiredPackage(row) \in InstallPackage
         /\ ExpiredPackage(row).status = "expired"
         /\ ExpiredPackage(row).device = row.device
         /\ ExpiredPackage(row).confirmed = row.confirmed
BY DEF ExpiredPackage, InstallPackage, InstallPackageStatus

\* confirm_download leaves a package out of flight and confirmed.
LEMMA ConfirmedRow ==
  ASSUME NEW row \in InstallPackage
  PROVE  /\ ConfirmedPackage(row) \in InstallPackage
         /\ ConfirmedPackage(row).status = "artifact_deleted"
         /\ ConfirmedPackage(row).device = row.device
         /\ ConfirmedPackage(row).confirmed
BY DEF ConfirmedPackage, InstallPackage, InstallPackageStatus

\* A granted download counts within the cap and makes the package downloading.
LEMMA ServedRow ==
  ASSUME NEW row \in InstallPackage, row.download_attempts < MaxAttempts
  PROVE  /\ ServedPackage(row) \in InstallPackage
         /\ ServedPackage(row).status = "downloading"
         /\ ServedPackage(row).device = row.device
         /\ ServedPackage(row).confirmed = row.confirmed
<1>1. row.download_attempts + 1 \in 0..MaxAttempts
  BY AttemptsAssumption DEF InstallPackage
<1>2. QED
  BY <1>1 DEF ServedPackage, InstallPackage, InstallPackageStatus

\* reset_device leaves no package in flight and takes no confirmation back.
LEMMA WithdrawnRow ==
  ASSUME NEW row \in InstallPackage
  PROVE  /\ WithdrawnPackage(row) \in InstallPackage
         /\ WithdrawnPackage(row).status \notin ACTIVE_PACKAGE_STATUSES
         /\ WithdrawnPackage(row).device = row.device
         /\ WithdrawnPackage(row).confirmed = row.confirmed
         /\ WithdrawnPackage(row).status = "absent" => row.status = "absent"
BY DEF WithdrawnPackage, InstallPackage, InstallPackageStatus, ACTIVE_PACKAGE_STATUSES

\* revoke_device leaves no package in flight and takes no confirmation back.
LEMMA RevokedRow ==
  ASSUME NEW row \in InstallPackage
  PROVE  /\ RevokedPackage(row) \in InstallPackage
         /\ RevokedPackage(row).status \notin ACTIVE_PACKAGE_STATUSES \cup {"absent"}
         /\ RevokedPackage(row).device = row.device
         /\ RevokedPackage(row).confirmed = row.confirmed
BY DEF RevokedPackage, InstallPackage, InstallPackageStatus, ACTIVE_PACKAGE_STATUSES

\* The device rows they write.
LEMMA DeviceRows ==
  ASSUME NEW row \in Device, NEW pkg \in InstallPackage
  PROVE  /\ ConfirmedDevice(row) \in Device
         /\ ConfirmedDevice(row).status = "download_confirmed"
         /\ ConfirmedDevice(row).public_key = row.public_key
         /\ ConfirmedDevice(row).revoked = row.revoked
         /\ ServedDevice(row, pkg) \in Device
         /\ ServedDevice(row, pkg).public_key = row.public_key
         /\ ServedDevice(row, pkg).revoked = row.revoked
         /\ pkg.status = row.status /\ row.status \in Downloadable =>
              ServedDevice(row, pkg).status = "downloading"
         /\ ResetDevice(row) \in Device
         /\ ResetDevice(row).status = "reset_pending"
         /\ ResetDevice(row).revoked = row.revoked
         /\ RevokedDevice(row) \in Device
         /\ RevokedDevice(row).status = "revoked"
BY DEF ConfirmedDevice, ServedDevice, ResetDevice, RevokedDevice, Device,
       DeviceStatus, Key, Downloadable

-----------------------------------------------------------------------------
(***************************************************************************)
(* One lemma per handler that changes rows: it preserves IndInv.  What the *)
(* handler writes into the rows is enough for it, whenever the files and   *)
(* the jobs change: DeviceRequestsProofs needs that, where a commit is a   *)
(* step of its own.                                                        *)
(***************************************************************************)

\* The step keeps the types of everything but the rows.
OthersTyped ==
  /\ limit' \in [Users -> 0..MaxLimit]
  /\ artifact' \in [Devices -> Packages \cup {None}]
  /\ jobs' \in Seq(Job)

\* What the handlers write into the rows.
WritesCreated(u, ip, d, p, outcome) ==
  /\ ~DeviceExists(d) /\ ~PackageExists(p)
  /\ device' = [device EXCEPT ![d] = DeviceAfterBuild(CreatedDevice(u, ip), p, outcome)]
  /\ package' = [package EXCEPT ![p] = PackageAfterBuild(d, outcome)]

WritesExpired(p) ==
  /\ MayDownload(package[p])
  /\ package' = [package EXCEPT ![p] = ExpiredPackage(@)]
  /\ device' = device

WritesServed(p) ==
  /\ MayDownload(package[p]) /\ package[p].download_attempts < MaxAttempts
  /\ package' = [package EXCEPT ![p] = ServedPackage(@)]
  /\ device' = [device EXCEPT ![package[p].device] = ServedDevice(@, package[p])]

WritesConfirmed(p) ==
  /\ MayConfirm(package[p])
  /\ package' = [package EXCEPT ![p] = ConfirmedPackage(@)]
  /\ device' = [device EXCEPT ![package[p].device] = ConfirmedDevice(@)]

WritesReset(d, p, outcome) ==
  /\ DeviceExists(d) /\ device[d].status # "revoked" /\ ~PackageExists(p)
  /\ device' = [device EXCEPT ![d] = DeviceAfterBuild(ResetDevice(@), p, outcome)]
  /\ package' = [WithdrawPackages(d) EXCEPT ![p] = PackageAfterBuild(d, outcome)]

WritesRevoked(d) ==
  /\ DeviceExists(d)
  /\ device' = [device EXCEPT ![d] = RevokedDevice(@)]
  /\ package' = [q \in Packages |->
                   IF q \in PackagesOf(d) THEN RevokedPackage(package[q])
                   ELSE package[q]]

\* A row that is absent belongs to no device, and one that exists belongs to a
\* device that exists.
LEMMA PackageOwner ==
  ASSUME TypeOK, NEW p \in Packages
  PROVE  /\ package[p] \in InstallPackage
         /\ PackageExists(p) => /\ package[p].device \in Devices
                                /\ DeviceExists(package[p].device)
         /\ ~PackageExists(p) => /\ package[p] = NoPackage
                                 /\ package[p].device \notin Devices
         /\ package[p].status \in ACTIVE_PACKAGE_STATUSES => PackageExists(p)
         /\ package[p].status \in Downloadable =>
              package[p].status \in ACTIVE_PACKAGE_STATUSES
<1>1. NoPackage.device \notin Devices
  BY IdentifierAssumption DEF NoPackage
<1>2. QED
  BY <1>1
     DEF TypeOK, PackageExists, DeviceExists, Downloadable, ACTIVE_PACKAGE_STATUSES

\* create_device adds a device and a package that no other row refers to.
LEMMA CreatePreserves ==
  ASSUME IndInv, NEW u \in Users, NEW d \in Devices, NEW p \in Packages,
         NEW outcome \in BuildOutcome, NEW ip \in 1..PoolSize,
         WritesCreated(u, ip, d, p, outcome), OthersTyped
  PROVE  IndInv'
<1>. DEFINE pkg == PackageAfterBuild(d, outcome)
            dev == DeviceAfterBuild(CreatedDevice(u, ip), p, outcome)
<1>2. /\ device' = [device EXCEPT ![d] = dev]
      /\ package' = [package EXCEPT ![p] = pkg]
      /\ ~DeviceExists(d) /\ ~PackageExists(p)
  BY DEF WritesCreated
<1>3. /\ dev \in Device
      /\ ~dev.revoked
      /\ dev.status \in {"ready_to_download", "pending_build"}
      /\ pkg \in InstallPackage
      /\ pkg.device = d
      /\ pkg.status \in {"ready_to_download", "failed", "pending_build"}
      /\ pkg.status = "ready_to_download" =>
           dev.status = "ready_to_download" /\ dev.public_key = p
  BY BuildRows, FreshRows
<1>. HIDE DEF dev, pkg
<1>4. \A q \in Packages : package[q].device # d
  BY <1>2, PackageOwner DEF IndInv
<1>5. TypeOK'
  BY <1>2, <1>3 DEF IndInv, TypeOK, DeviceExists, OthersTyped
<1>6. LivePackageOwnsDevice'
  BY <1>2, <1>3, <1>4, PackageOwner
     DEF IndInv, TypeOK, LivePackageOwnsDevice, Downloadable
<1>7. OnePackageInFlight'
  BY <1>2, <1>3, <1>4 DEF IndInv, TypeOK, OnePackageInFlight
<1>8. PeersHaveConfirmedKeys'
  <2>. SUFFICES ASSUME NEW e \in Devices,
                       device'[e].status \in RUNTIME_TARGET_DEVICE_STATUSES
                PROVE  /\ device'[e].public_key \in PackagesOf(e)'
                       /\ package'[device'[e].public_key].confirmed
    BY DEF PeersHaveConfirmedKeys
  <2>1. e # d
    BY <1>2, <1>3 DEF IndInv, TypeOK, RUNTIME_TARGET_DEVICE_STATUSES
  <2>2. device'[e] = device[e]
    BY <1>2, <2>1 DEF IndInv, TypeOK
  <2>3. /\ device[e].public_key \in PackagesOf(e)
        /\ package[device[e].public_key].confirmed
    BY <2>2 DEF IndInv, PeersHaveConfirmedKeys
  <2>4. device[e].public_key # p
    BY <1>2, <2>3, PackageOwner DEF IndInv, PackagesOf
  <2>5. QED
    BY <1>2, <2>2, <2>3, <2>4 DEF IndInv, TypeOK, PackagesOf
<1>9. RevokedIsFinal'
  BY <1>2, <1>3, <1>4 DEF IndInv, TypeOK, RevokedIsFinal, PackagesOf
<1>10. QED
  BY <1>5, <1>6, <1>7, <1>8, <1>9 DEF IndInv

\* A package's row changes, and nothing else of the rows, to one that is no
\* longer in flight.
LEMMA ExpirePreserves ==
  ASSUME IndInv, NEW p \in Packages, WritesExpired(p), OthersTyped
  PROVE  IndInv'
<1>. DEFINE pkg == ExpiredPackage(package[p])
<1>1. /\ package' = [package EXCEPT ![p] = pkg]
      /\ device' = device
      /\ PackageExists(p)
  BY PackageOwner DEF WritesExpired, MayDownload, IndInv
<1>2. /\ pkg \in InstallPackage
      /\ pkg.status = "expired"
      /\ pkg.device = package[p].device
      /\ pkg.confirmed = package[p].confirmed
  BY ExpiredRow, PackageOwner DEF IndInv
<1>. HIDE DEF pkg
<1>3. TypeOK'
  BY <1>1, <1>2 DEF IndInv, TypeOK, PackageExists, OthersTyped
<1>4. LivePackageOwnsDevice'
  BY <1>1, <1>2 DEF IndInv, TypeOK, LivePackageOwnsDevice, Downloadable
<1>5. OnePackageInFlight'
  BY <1>1, <1>2 DEF IndInv, TypeOK, OnePackageInFlight, ACTIVE_PACKAGE_STATUSES
<1>6. PeersHaveConfirmedKeys'
  BY <1>1, <1>2 DEF IndInv, TypeOK, PeersHaveConfirmedKeys, PackagesOf
<1>7. RevokedIsFinal'
  BY <1>1, <1>2
     DEF IndInv, TypeOK, RevokedIsFinal, PackagesOf, ACTIVE_PACKAGE_STATUSES
<1>8. QED
  BY <1>3, <1>4, <1>5, <1>6, <1>7 DEF IndInv

\* A granted download moves the package and its device to downloading together.
LEMMA ServePreserves ==
  ASSUME IndInv, NEW p \in Packages, WritesServed(p), OthersTyped
  PROVE  IndInv'
<1>. DEFINE pkg == ServedPackage(package[p])
            d == package[p].device
            dev == ServedDevice(device[d], package[p])
<1>1. /\ package' = [package EXCEPT ![p] = pkg]
      /\ device' = [device EXCEPT ![d] = dev]
      /\ package[p].status \in Downloadable
      /\ package[p].download_attempts < MaxAttempts
  BY DEF WritesServed, MayDownload
<1>2. /\ package[p] \in InstallPackage
      /\ d \in Devices
      /\ PackageExists(p) /\ DeviceExists(d)
      /\ device[d].status = package[p].status
      /\ device[d].public_key = p
  BY <1>1, PackageOwner DEF IndInv, LivePackageOwnsDevice
<1>3. /\ pkg \in InstallPackage
      /\ pkg.status = "downloading"
      /\ pkg.device = d
      /\ dev \in Device
      /\ dev.status = "downloading"
      /\ dev.public_key = p
      /\ dev.revoked = device[d].revoked
  <2>1. device[d] \in Device
    BY <1>2 DEF IndInv, TypeOK
  <2>2. pkg \in InstallPackage /\ pkg.status = "downloading" /\ pkg.device = d
    BY <1>1, <1>2, ServedRow
  <2>3. /\ dev \in Device
        /\ dev.status = "downloading"
        /\ dev.public_key = device[d].public_key
        /\ dev.revoked = device[d].revoked
    BY <1>1, <1>2, <2>1, DeviceRows
  <2>4. QED
    BY <1>2, <2>2, <2>3
<1>. HIDE DEF pkg, d, dev
<1>4. TypeOK'
  BY <1>1, <1>2, <1>3 DEF IndInv, TypeOK, PackageExists, DeviceExists, OthersTyped
<1>5. \A q \in Packages : package[q].status \in Downloadable /\ package[q].device = d => q = p
  BY <1>1, <1>2, PackageOwner DEF IndInv, OnePackageInFlight, d
<1>6. LivePackageOwnsDevice'
  BY <1>1, <1>2, <1>3, <1>5 DEF IndInv, TypeOK, LivePackageOwnsDevice, d
<1>7. OnePackageInFlight'
  BY <1>1, <1>2, <1>3, PackageOwner DEF IndInv, TypeOK, OnePackageInFlight, d
<1>8. PeersHaveConfirmedKeys'
  <2>. SUFFICES ASSUME NEW e \in Devices,
                       device'[e].status \in RUNTIME_TARGET_DEVICE_STATUSES
                PROVE  /\ device'[e].public_key \in PackagesOf(e)'
                       /\ package'[device'[e].public_key].confirmed
    BY DEF PeersHaveConfirmedKeys
  <2>1. e # d /\ device'[e] = device[e]
    BY <1>1, <1>3 DEF IndInv, TypeOK, RUNTIME_TARGET_DEVICE_STATUSES
  <2>2. /\ device[e].public_key \in PackagesOf(e)
        /\ package[device[e].public_key].confirmed
    BY <2>1 DEF IndInv, PeersHaveConfirmedKeys
  <2>3. device[e].public_key # p
    BY <2>1, <2>2 DEF PackagesOf, d
  <2>4. QED
    BY <1>1, <2>1, <2>2, <2>3 DEF IndInv, TypeOK, PackagesOf
<1>9. RevokedIsFinal'
  <2>1. ~device[d].revoked
    BY <1>1, <1>2, PackageOwner DEF IndInv, RevokedIsFinal, PackagesOf, d
  <2>2. QED
    BY <1>1, <1>2, <1>3, <2>1 DEF IndInv, TypeOK, RevokedIsFinal, PackagesOf, d
<1>10. QED
  BY <1>4, <1>6, <1>7, <1>8, <1>9 DEF IndInv

\* The confirmed package was live, so the device that now enters the runtime
\* target state holds its key, and no other package of it is live.
LEMMA ConfirmPreserves ==
  ASSUME IndInv, NEW p \in Packages, WritesConfirmed(p), OthersTyped
  PROVE  IndInv'
<1>. DEFINE pkg == ConfirmedPackage(package[p])
            d == package[p].device
            dev == ConfirmedDevice(device[d])
<1>1. /\ package' = [package EXCEPT ![p] = pkg]
      /\ device' = [device EXCEPT ![d] = dev]
      /\ package[p].status \in Downloadable
  BY DEF WritesConfirmed, MayConfirm
<1>2. /\ package[p] \in InstallPackage
      /\ d \in Devices
      /\ PackageExists(p) /\ DeviceExists(d)
      /\ device[d].public_key = p
  BY <1>1, PackageOwner DEF IndInv, LivePackageOwnsDevice
<1>3. /\ pkg \in InstallPackage
      /\ pkg.status = "artifact_deleted"
      /\ pkg.device = d
      /\ pkg.confirmed
      /\ dev \in Device
      /\ dev.status = "download_confirmed"
      /\ dev.public_key = p
      /\ dev.revoked = device[d].revoked
  <2>1. device[d] \in Device
    BY <1>2 DEF IndInv, TypeOK
  <2>2. /\ pkg \in InstallPackage
        /\ pkg.status = "artifact_deleted"
        /\ pkg.device = d
        /\ pkg.confirmed
    BY <1>2, ConfirmedRow
  <2>3. /\ dev \in Device
        /\ dev.status = "download_confirmed"
        /\ dev.public_key = device[d].public_key
        /\ dev.revoked = device[d].revoked
    BY <1>2, <2>1, DeviceRows
  <2>4. QED
    BY <1>2, <2>2, <2>3
<1>. HIDE DEF pkg, d, dev
<1>5. TypeOK'
  BY <1>1, <1>2, <1>3 DEF IndInv, TypeOK, PackageExists, DeviceExists, OthersTyped
<1>6. \A q \in Packages : package[q].status \in Downloadable /\ package[q].device = d => q = p
  BY <1>1, <1>2, PackageOwner DEF IndInv, OnePackageInFlight, d
<1>7. LivePackageOwnsDevice'
  BY <1>1, <1>2, <1>3, <1>6
     DEF IndInv, TypeOK, LivePackageOwnsDevice, Downloadable, d
<1>8. OnePackageInFlight'
  BY <1>1, <1>2, <1>3 DEF IndInv, TypeOK, OnePackageInFlight, ACTIVE_PACKAGE_STATUSES
<1>9. PeersHaveConfirmedKeys'
  <2>. SUFFICES ASSUME NEW e \in Devices,
                       device'[e].status \in RUNTIME_TARGET_DEVICE_STATUSES
                PROVE  /\ device'[e].public_key \in PackagesOf(e)'
                       /\ package'[device'[e].public_key].confirmed
    BY DEF PeersHaveConfirmedKeys
  <2>1. CASE e = d
    BY <1>1, <1>2, <1>3, <2>1 DEF IndInv, TypeOK, PackagesOf
  <2>2. CASE e # d
    BY <1>1, <1>2, <1>3, <2>2
       DEF IndInv, TypeOK, PeersHaveConfirmedKeys, PackagesOf, d
  <2>3. QED
    BY <2>1, <2>2
<1>10. RevokedIsFinal'
  <2>1. ~device[d].revoked
    BY <1>1, <1>2, PackageOwner DEF IndInv, RevokedIsFinal, PackagesOf, d
  <2>2. QED
    BY <1>1, <1>2, <1>3, <2>1 DEF IndInv, TypeOK, RevokedIsFinal, PackagesOf, d
<1>11. QED
  BY <1>5, <1>7, <1>8, <1>9, <1>10 DEF IndInv

\* A reset withdraws the live packages of the device before it builds the one
\* that may own it next.
LEMMA ResetPreserves ==
  ASSUME IndInv, NEW d \in Devices, NEW p \in Packages,
         NEW outcome \in BuildOutcome, WritesReset(d, p, outcome), OthersTyped
  PROVE  IndInv'
<1>. DEFINE pkg == PackageAfterBuild(d, outcome)
            dev == DeviceAfterBuild(ResetDevice(device[d]), p, outcome)
            withdrawn == WithdrawPackages(d)
<1>1. /\ device' = [device EXCEPT ![d] = dev]
      /\ package' = [withdrawn EXCEPT ![p] = pkg]
      /\ DeviceExists(d) /\ ~PackageExists(p)
      /\ device[d].status # "revoked"
  BY DEF WritesReset
<1>2. device[d] \in Device /\ ~device[d].revoked
  BY <1>1 DEF IndInv, TypeOK, RevokedIsFinal
<1>3. /\ dev \in Device
      /\ dev.revoked = device[d].revoked
      /\ dev.status \in {"ready_to_download", "pending_build", "reset_pending"}
      /\ pkg \in InstallPackage
      /\ pkg.device = d
      /\ pkg.status \in {"ready_to_download", "failed", "pending_build"}
      /\ pkg.status = "ready_to_download" =>
           dev.status = "ready_to_download" /\ dev.public_key = p
  <2>1. /\ ResetDevice(device[d]) \in Device
        /\ ResetDevice(device[d]).status = "reset_pending"
        /\ ResetDevice(device[d]).revoked = device[d].revoked
    BY <1>2, DeviceRows, FreshRows
  <2>2. QED
    BY <2>1, BuildRows
<1>4. /\ withdrawn \in [Packages -> InstallPackage]
      /\ \A q \in Packages :
           /\ withdrawn[q].device = package[q].device
           /\ withdrawn[q].confirmed = package[q].confirmed
           /\ package[q].device # d => withdrawn[q] = package[q]
           /\ package[q].device = d => /\ withdrawn[q].status \notin ACTIVE_PACKAGE_STATUSES
                                       /\ withdrawn[q].status # "absent"
  <2>1. ASSUME NEW q \in Packages, package[q].device = d
        PROVE  /\ PackageExists(q)
               /\ package[q] \in InstallPackage
               /\ withdrawn[q] = WithdrawnPackage(package[q])
    BY <2>1, PackageOwner DEF IndInv, WithdrawPackages, PackagesOf
  <2>2. ASSUME NEW q \in Packages, package[q].device # d
        PROVE  withdrawn[q] = package[q] /\ package[q] \in InstallPackage
    BY <2>2, PackageOwner DEF IndInv, WithdrawPackages, PackagesOf
  <2>3. ASSUME NEW q \in Packages
        PROVE  withdrawn[q] \in InstallPackage
    BY <2>1, <2>2, WithdrawnRow
  <2>4. withdrawn \in [Packages -> InstallPackage]
    BY <2>3 DEF WithdrawPackages
  <2>5. ASSUME NEW q \in Packages, package[q].device = d
        PROVE  /\ withdrawn[q].device = package[q].device
               /\ withdrawn[q].confirmed = package[q].confirmed
               /\ withdrawn[q].status \notin ACTIVE_PACKAGE_STATUSES
               /\ withdrawn[q].status # "absent"
    BY <2>1, <2>5, WithdrawnRow DEF PackageExists
  <2>6. QED
    BY <2>2, <2>4, <2>5
<1>. HIDE DEF pkg, dev, withdrawn
<1>5. package[p].device # d
  BY <1>1, PackageOwner DEF IndInv
<1>6. TypeOK'
  <2>1. ASSUME NEW q \in Packages, q # p
        PROVE  IF package'[q].status = "absent" THEN package'[q] = NoPackage
               ELSE /\ package'[q].device \in Devices
                    /\ device'[package'[q].device].status # "absent"
    BY <1>1, <1>2, <1>3, <1>4, <2>1 DEF IndInv, TypeOK, PackageExists, DeviceExists
  <2>2. QED
    BY <1>1, <1>2, <1>3, <1>4, <2>1
       DEF IndInv, TypeOK, PackageExists, DeviceExists, OthersTyped
<1>7. LivePackageOwnsDevice'
  <2>. SUFFICES ASSUME NEW q \in Packages, package'[q].status \in Downloadable
                PROVE  /\ device'[package'[q].device].status = package'[q].status
                       /\ device'[package'[q].device].public_key = q
    BY DEF LivePackageOwnsDevice
  <2>1. CASE q = p
    BY <1>1, <1>3, <1>4, <2>1 DEF IndInv, TypeOK, Downloadable
  <2>2. CASE q # p
    <3>1. package'[q] = package[q] /\ package[q].device # d
      BY <1>1, <1>4, <2>2 DEF Downloadable, ACTIVE_PACKAGE_STATUSES
    <3>2. QED
      BY <1>1, <3>1 DEF IndInv, TypeOK, LivePackageOwnsDevice
  <2>3. QED
    BY <2>1, <2>2
<1>8. OnePackageInFlight'
  BY <1>1, <1>3, <1>4 DEF IndInv, OnePackageInFlight
<1>9. PeersHaveConfirmedKeys'
  <2>. SUFFICES ASSUME NEW e \in Devices,
                       device'[e].status \in RUNTIME_TARGET_DEVICE_STATUSES
                PROVE  /\ device'[e].public_key \in PackagesOf(e)'
                       /\ package'[device'[e].public_key].confirmed
    BY DEF PeersHaveConfirmedKeys
  <2>1. e # d /\ device'[e] = device[e]
    BY <1>1, <1>3 DEF IndInv, TypeOK, RUNTIME_TARGET_DEVICE_STATUSES
  <2>2. /\ device[e].public_key \in PackagesOf(e)
        /\ package[device[e].public_key].confirmed
    BY <2>1 DEF IndInv, PeersHaveConfirmedKeys
  <2>3. device[e].public_key # p
    BY <1>1, <2>2, PackageOwner DEF IndInv, PackagesOf
  <2>4. QED
    BY <1>1, <1>4, <2>1, <2>2, <2>3 DEF PackagesOf
<1>10. RevokedIsFinal'
  <2>. SUFFICES ASSUME NEW e \in Devices, device'[e].revoked
                PROVE  /\ device'[e].status = "revoked"
                       /\ \A q \in PackagesOf(e)' :
                            package'[q].status \notin ACTIVE_PACKAGE_STATUSES
    BY DEF RevokedIsFinal
  <2>1. e # d /\ device'[e] = device[e]
    BY <1>1, <1>2, <1>3 DEF IndInv, TypeOK
  <2>2. QED
    BY <1>1, <1>3, <1>4, <2>1 DEF IndInv, RevokedIsFinal, PackagesOf
<1>11. QED
  BY <1>6, <1>7, <1>8, <1>9, <1>10 DEF IndInv

\* A revocation leaves no package of the device in flight.
LEMMA RevokePreserves ==
  ASSUME IndInv, NEW d \in Devices, WritesRevoked(d), OthersTyped
  PROVE  IndInv'
<1>. DEFINE dev == RevokedDevice(device[d])
<1>1. /\ device' = [device EXCEPT ![d] = dev]
      /\ DeviceExists(d)
  BY DEF WritesRevoked
<1>2. dev \in Device /\ dev.status = "revoked"
  BY DeviceRows, FreshRows DEF IndInv, TypeOK
<1>3. /\ package' \in [Packages -> InstallPackage]
      /\ \A q \in Packages :
           /\ package'[q].device = package[q].device
           /\ package'[q].confirmed = package[q].confirmed
           /\ package[q].device # d => package'[q] = package[q]
           /\ package[q].device = d =>
                package'[q].status \notin ACTIVE_PACKAGE_STATUSES \cup {"absent"}
  <2>1. ASSUME NEW q \in Packages, package[q].device = d
        PROVE  package'[q] = RevokedPackage(package[q]) /\ package[q] \in InstallPackage
    BY <2>1 DEF WritesRevoked, PackagesOf, IndInv, TypeOK
  <2>2. ASSUME NEW q \in Packages, package[q].device # d
        PROVE  package'[q] = package[q] /\ package[q] \in InstallPackage
    BY <2>2 DEF WritesRevoked, PackagesOf, IndInv, TypeOK
  <2>3. ASSUME NEW q \in Packages
        PROVE  package'[q] \in InstallPackage
    BY <2>1, <2>2, RevokedRow
  <2>4. package' \in [Packages -> InstallPackage]
    BY <2>3 DEF WritesRevoked
  <2>5. ASSUME NEW q \in Packages, package[q].device = d
        PROVE  /\ package'[q].device = package[q].device
               /\ package'[q].confirmed = package[q].confirmed
               /\ package'[q].status \notin ACTIVE_PACKAGE_STATUSES \cup {"absent"}
    BY <2>1, <2>5, RevokedRow
  <2>6. QED
    BY <2>2, <2>4, <2>5
<1>. HIDE DEF dev
<1>4. TypeOK'
  BY <1>1, <1>2, <1>3 DEF IndInv, TypeOK, DeviceExists, OthersTyped
<1>5. LivePackageOwnsDevice'
  <2>. SUFFICES ASSUME NEW q \in Packages, package'[q].status \in Downloadable
                PROVE  /\ device'[package'[q].device].status = package'[q].status
                       /\ device'[package'[q].device].public_key = q
    BY DEF LivePackageOwnsDevice
  <2>1. package'[q] = package[q] /\ package[q].device # d
    BY <1>3 DEF Downloadable, ACTIVE_PACKAGE_STATUSES
  <2>2. QED
    BY <1>1, <2>1 DEF IndInv, TypeOK, LivePackageOwnsDevice
<1>6. OnePackageInFlight'
  BY <1>3 DEF IndInv, OnePackageInFlight
<1>7. PeersHaveConfirmedKeys'
  <2>. SUFFICES ASSUME NEW e \in Devices,
                       device'[e].status \in RUNTIME_TARGET_DEVICE_STATUSES
                PROVE  /\ device'[e].public_key \in PackagesOf(e)'
                       /\ package'[device'[e].public_key].confirmed
    BY DEF PeersHaveConfirmedKeys
  <2>1. e # d /\ device'[e] = device[e]
    BY <1>1, <1>2 DEF IndInv, TypeOK, RUNTIME_TARGET_DEVICE_STATUSES
  <2>2. QED
    BY <1>3, <2>1 DEF IndInv, PeersHaveConfirmedKeys, PackagesOf
<1>8. RevokedIsFinal'
  BY <1>1, <1>2, <1>3 DEF IndInv, TypeOK, RevokedIsFinal, PackagesOf
<1>9. QED
  BY <1>4, <1>5, <1>6, <1>7, <1>8 DEF IndInv

\* The handlers write just that, and keep the types of the rest.
LEMMA HandlersPreserve ==
  ASSUME IndInv,
         \/ \E u \in Users, d \in Devices, p \in Packages, outcome \in BuildOutcome :
              CreateDevice(u, d, p, outcome)
         \/ \E p \in Packages : ExpireOnDownload(p) \/ ServeDownload(p) \/ ConfirmDownload(p)
         \/ \E d \in Devices, p \in Packages, outcome \in BuildOutcome : Reset(d, p, outcome)
         \/ \E d \in Devices : Revoke(d)
  PROVE  IndInv'
<1>1. TypeOK
  BY DEF IndInv
<1>2. ASSUME NEW u \in Users, NEW d \in Devices, NEW p \in Packages,
             NEW outcome \in BuildOutcome, CreateDevice(u, d, p, outcome)
      PROVE  IndInv'
  <2>1. OthersTyped
    BY <1>1, <1>2 DEF CreateDevice, FileAfterBuild, OthersTyped, TypeOK
  <2>2. PICK ip \in 1..PoolSize : WritesCreated(u, ip, d, p, outcome)
    BY <1>2 DEF CreateDevice, CreateGuard, FreshDevice, FreshPackage, WritesCreated
  <2>3. QED
    BY <2>1, <2>2, CreatePreserves
<1>3. ASSUME NEW p \in Packages, ExpireOnDownload(p)
      PROVE  IndInv'
  <2>1. OthersTyped /\ WritesExpired(p)
    BY <1>1, <1>3 DEF ExpireOnDownload, FileAfterDelete, OthersTyped, TypeOK, WritesExpired
  <2>2. QED
    BY <2>1, ExpirePreserves
<1>4. ASSUME NEW p \in Packages, ServeDownload(p)
      PROVE  IndInv'
  <2>1. OthersTyped /\ WritesServed(p)
    BY <1>1, <1>4 DEF ServeDownload, ServeGuard, OthersTyped, TypeOK, WritesServed
  <2>2. QED
    BY <2>1, ServePreserves
<1>5. ASSUME NEW p \in Packages, ConfirmDownload(p)
      PROVE  IndInv'
  <2>1. package[p].device \in Devices
    BY <1>1, <1>5, PackageOwner DEF ConfirmDownload, MayConfirm
  <2>2. OthersTyped /\ WritesConfirmed(p)
    BY <1>1, <1>5, <2>1 DEF ConfirmDownload, FileAfterDelete, Enqueue, Job, OthersTyped,
                            TypeOK, WritesConfirmed
  <2>3. QED
    BY <2>2, ConfirmPreserves
<1>6. ASSUME NEW d \in Devices, NEW p \in Packages, NEW outcome \in BuildOutcome,
             Reset(d, p, outcome)
      PROVE  IndInv'
  <2>1. OthersTyped /\ WritesReset(d, p, outcome)
    BY <1>1, <1>6 DEF Reset, ResetGuard, FreshPackage, FileAfterBuild, FileAfterWithdrawal,
                      OthersTyped, TypeOK, WritesReset
  <2>2. QED
    BY <2>1, ResetPreserves
<1>7. ASSUME NEW d \in Devices, Revoke(d)
      PROVE  IndInv'
  <2>1. OthersTyped /\ WritesRevoked(d)
    BY <1>1, <1>7 DEF Revoke, FileAfterRevoke, Enqueue, Job, OthersTyped, TypeOK,
                      WritesRevoked
  <2>2. QED
    BY <2>1, RevokePreserves
<1>8. QED
  BY <1>2, <1>3, <1>4, <1>5, <1>6, <1>7

\* A device's peer is brought up only from the runtime target statuses, so a
\* job left over from before a revocation changes nothing.
LEMMA JobPreserves ==
  ASSUME IndInv, NEW i \in DOMAIN jobs, JobSucceeds(i) \/ JobFails(i)
  PROVE  IndInv'
<1>1. jobs[i] \in Job /\ i \in 1..Len(jobs)
  BY DEF IndInv, TypeOK
<1>2. jobs' \in Seq(Job) /\ UNCHANGED <<limit, package, artifact>>
  <2>1. ASSUME NEW st \in {"succeeded", "failed"}
        PROVE  [jobs EXCEPT ![i].status = st] \in Seq(Job)
    BY <1>1 DEF IndInv, TypeOK, Job
  <2>2. QED
    BY <2>1 DEF JobSucceeds, JobFails
<1>3. CASE UNCHANGED device
  BY <1>2, <1>3
     DEF IndInv, TypeOK, LivePackageOwnsDevice, OnePackageInFlight,
         PeersHaveConfirmedKeys, RevokedIsFinal, PackagesOf
<1>4. CASE ~UNCHANGED device
  <2>. DEFINE d == jobs[i].device
  <2>1. /\ d \in Devices
        /\ device[d].status \in RUNTIME_TARGET_DEVICE_STATUSES
        /\ device' = [device EXCEPT ![d].status = "active"]
    BY <1>1, <1>4 DEF JobSucceeds, JobFails, JobMaySucceed, Job
  <2>2. /\ device' \in [Devices -> Device]
        /\ device'[d].status = "active"
        /\ \A e \in Devices :
             /\ device'[e].public_key = device[e].public_key
             /\ device'[e].revoked = device[e].revoked
             /\ e # d => device'[e] = device[e]
    BY <2>1 DEF IndInv, TypeOK, Device, DeviceStatus
  <2>. HIDE DEF d
  <2>3. TypeOK'
    BY <1>2, <2>1, <2>2 DEF IndInv, TypeOK, RUNTIME_TARGET_DEVICE_STATUSES
  <2>4. LivePackageOwnsDevice'
    BY <1>2, <2>1, <2>2
       DEF IndInv, LivePackageOwnsDevice, TypeOK, Downloadable,
           RUNTIME_TARGET_DEVICE_STATUSES
  <2>5. OnePackageInFlight'
    BY <1>2 DEF IndInv, OnePackageInFlight
  <2>6. PeersHaveConfirmedKeys'
    BY <1>2, <2>1, <2>2 DEF IndInv, PeersHaveConfirmedKeys, PackagesOf
  <2>7. RevokedIsFinal'
    BY <1>2, <2>1, <2>2
       DEF IndInv, RevokedIsFinal, PackagesOf, RUNTIME_TARGET_DEVICE_STATUSES
  <2>8. QED
    BY <2>3, <2>4, <2>5, <2>6, <2>7 DEF IndInv
<1>5. QED
  BY <1>3, <1>4

\* The steps that leave every status, key and owner alone.
LEMMA QuietPreserves ==
  ASSUME IndInv,
         \/ \E d \in Devices : ReportLost(d)
         \/ \E p \in Packages : WindowCloses(p)
         \/ \E u \in Users, n \in 0..MaxLimit : UpdateUser(u, n)
         \/ LostTransaction
         \/ UNCHANGED vars
  PROVE  IndInv'
<1>1. CASE \E d \in Devices : ReportLost(d)
  <2>1. PICK d \in Devices : ReportLost(d)
    BY <1>1
  <2>2. /\ UNCHANGED <<limit, package, artifact, jobs>>
        /\ DeviceExists(d)
        /\ device' \in [Devices -> Device]
        /\ \A e \in Devices :
             /\ device'[e].status = device[e].status
             /\ device'[e].public_key = device[e].public_key
             /\ device'[e].revoked = device[e].revoked
             /\ e # d => device'[e] = device[e]
    BY <2>1 DEF ReportLost, IndInv, TypeOK, Device
  <2>3. TypeOK'
    BY <2>2 DEF IndInv, TypeOK, DeviceExists
  <2>4. LivePackageOwnsDevice'
    BY <2>2, PackageOwner DEF IndInv, LivePackageOwnsDevice
  <2>5. OnePackageInFlight'
    BY <2>2 DEF IndInv, OnePackageInFlight
  <2>6. PeersHaveConfirmedKeys'
    BY <2>2 DEF IndInv, PeersHaveConfirmedKeys, PackagesOf
  <2>7. RevokedIsFinal'
    BY <2>2 DEF IndInv, RevokedIsFinal, PackagesOf
  <2>8. QED
    BY <2>3, <2>4, <2>5, <2>6, <2>7 DEF IndInv
<1>2. CASE \E p \in Packages : WindowCloses(p)
  <2>1. PICK p \in Packages : WindowCloses(p)
    BY <1>2
  <2>2. /\ UNCHANGED <<limit, device, artifact, jobs>>
        /\ PackageExists(p)
        /\ package' \in [Packages -> InstallPackage]
        /\ \A q \in Packages :
             /\ package'[q].status = package[q].status
             /\ package'[q].device = package[q].device
             /\ package'[q].confirmed = package[q].confirmed
             /\ q # p => package'[q] = package[q]
    <3>1. NoPackage.window = "unset"
      BY DEF NoPackage
    <3>2. QED
      BY <2>1, <3>1, PackageOwner DEF WindowCloses, IndInv, TypeOK, InstallPackage
  <2>3. TypeOK'
    BY <2>2 DEF IndInv, TypeOK, PackageExists
  <2>4. QED
    BY <2>2, <2>3
       DEF IndInv, LivePackageOwnsDevice, OnePackageInFlight,
           PeersHaveConfirmedKeys, RevokedIsFinal, PackagesOf
<1>3. CASE \E u \in Users, n \in 0..MaxLimit : UpdateUser(u, n)
  <2>1. UNCHANGED <<device, package, artifact, jobs>> /\ limit' \in [Users -> 0..MaxLimit]
    BY <1>3 DEF UpdateUser, IndInv, TypeOK
  <2>2. QED
    BY <2>1
       DEF IndInv, TypeOK, LivePackageOwnsDevice, OnePackageInFlight,
           PeersHaveConfirmedKeys, RevokedIsFinal, PackagesOf
<1>4. CASE LostTransaction
  <2>1. /\ UNCHANGED <<limit, device, package, jobs>>
        /\ artifact' \in [Devices -> Packages \cup {None}]
    BY <1>4, PackageOwner
       DEF LostTransaction, FileAfterDelete, FileAfterRevoke, FileAfterWithdrawal,
           PackagesOf, IndInv, TypeOK
  <2>2. QED
    BY <2>1
       DEF IndInv, TypeOK, LivePackageOwnsDevice, OnePackageInFlight,
           PeersHaveConfirmedKeys, RevokedIsFinal, PackagesOf
<1>5. CASE UNCHANGED vars
  BY <1>5
     DEF vars, IndInv, TypeOK, LivePackageOwnsDevice, OnePackageInFlight,
         PeersHaveConfirmedKeys, RevokedIsFinal, PackagesOf
<1>6. QED
  BY <1>1, <1>2, <1>3, <1>4, <1>5

-----------------------------------------------------------------------------

\* The empty tables satisfy the invariant.
LEMMA InitEstablishes == Init => IndInv
<1>. SUFFICES ASSUME Init PROVE IndInv
  OBVIOUS
<1>1. NoDevice.status = "absent" /\ ~NoDevice.revoked /\ NoPackage.status = "absent"
  BY DEF NoDevice, NoPackage
<1>2. TypeOK
  BY <1>1, FreshRows DEF Init, TypeOK
<1>3. QED
  BY <1>1, <1>2
     DEF Init, IndInv, LivePackageOwnsDevice, OnePackageInFlight, PeersHaveConfirmedKeys,
         RevokedIsFinal, Downloadable, ACTIVE_PACKAGE_STATUSES,
         RUNTIME_TARGET_DEVICE_STATUSES

\* Every request, worker result, lost request and tick preserves the invariant.
LEMMA StepPreserves == IndInv /\ [Next]_vars => IndInv'
<1>. SUFFICES ASSUME IndInv, [Next]_vars PROVE IndInv'
  OBVIOUS
<1>1. CASE \/ \E u \in Users, d \in Devices, p \in Packages, outcome \in BuildOutcome :
                CreateDevice(u, d, p, outcome)
           \/ \E p \in Packages : ExpireOnDownload(p) \/ ServeDownload(p) \/ ConfirmDownload(p)
           \/ \E d \in Devices, p \in Packages, outcome \in BuildOutcome : Reset(d, p, outcome)
           \/ \E d \in Devices : Revoke(d)
  BY <1>1, HandlersPreserve
<1>5. CASE \E i \in DOMAIN jobs : JobSucceeds(i) \/ JobFails(i)
  BY <1>5, JobPreserves
<1>6. CASE \/ \E d \in Devices : ReportLost(d)
           \/ \E p \in Packages : WindowCloses(p)
           \/ \E u \in Users, n \in 0..MaxLimit : UpdateUser(u, n)
           \/ LostTransaction
           \/ UNCHANGED vars
  BY <1>6, QuietPreserves
<1>7. QED
  BY <1>1, <1>5, <1>6 DEF Next, PortalNext, WorkerNext

\* The invariant holds of every reachable state of DeviceLifecycle.
LEMMA Inductive == Spec => []IndInv
BY InitEstablishes, StepPreserves, PTL DEF Spec

\* Every reachable state is well typed, and every package row belongs to a
\* device row that exists.
THEOREM TypeCorrect == Spec => []TypeOK
<1>1. IndInv => TypeOK
  BY DEF IndInv
<1>2. QED
  BY <1>1, Inductive, PTL

\* A package that can be downloaded or confirmed owns its device: confirming
\* it can only activate the key of its own installer.
THEOREM LivePackages == Spec => [](LivePackageOwnsDevice /\ OnePackageInFlight)
<1>1. IndInv => LivePackageOwnsDevice /\ OnePackageInFlight
  BY DEF IndInv
<1>2. QED
  BY <1>1, Inductive, PTL

\* The runtime target state names only keys whose installer was confirmed.
THEOREM ConfirmedPeers == Spec => []PeersHaveConfirmedKeys
<1>1. IndInv => PeersHaveConfirmedKeys
  BY DEF IndInv
<1>2. QED
  BY <1>1, Inductive, PTL

\* A revoked device stays revoked, and nothing of it is left to download.
THEOREM RevocationFinal == Spec => []RevokedIsFinal
<1>1. IndInv => RevokedIsFinal
  BY DEF IndInv
<1>2. QED
  BY <1>1, Inductive, PTL
=============================================================================
