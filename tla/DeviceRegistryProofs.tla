------------------------ MODULE DeviceRegistryProofs ------------------------
(***************************************************************************)
(* The promises of create_device that relate a device to all others -      *)
(* addresses are distinct, a user's devices stay within the limit - and    *)
(* the registry of addresses and revocations that DeviceLifecycle          *)
(* implements.  All follow from one fact: create_device is the only step   *)
(* that adds a device or gives one an address, and no step takes a device  *)
(* out of its terminal statuses.                                           *)
(***************************************************************************)
EXTENDS DeviceLifecycleProofs, FiniteSetTheorems

\* What every handler but create_device leaves alone in a device row.
KeepsPlace(before, after) ==
  /\ after.vpn_ip = before.vpn_ip
  /\ after.user = before.user
  /\ after.status = "absent" <=> before.status = "absent"
  /\ before.status \in TERMINAL_DEVICE_STATUSES => after.status \in TERMINAL_DEVICE_STATUSES

DevicesKeepPlace == \A d \in Devices : KeepsPlace(device[d], device'[d])

\* _build_package keeps the address, the user and the existence of the row.
LEMMA BuildKeepsRow ==
  ASSUME NEW row \in Device, NEW p \in Packages, NEW outcome \in BuildOutcome
  PROVE  LET dev == DeviceAfterBuild(row, p, outcome)
         IN  /\ dev.vpn_ip = row.vpn_ip
             /\ dev.user = row.user
             /\ row.status # "absent" => dev.status # "absent"
<1>1. CASE outcome = "built"
  BY <1>1 DEF DeviceAfterBuild, Device
<1>2. CASE outcome \in {"failed", "failed_after_write"}
  BY <1>2 DEF DeviceAfterBuild, Device
<1>3. CASE outcome = "not_configured"
  BY <1>3 DEF DeviceAfterBuild, Device
<1>4. QED
  BY <1>1, <1>2, <1>3 DEF BuildOutcome

\* The rows the handlers write for a device that exists keep its place.
LEMMA RowsKeepPlace ==
  ASSUME NEW row \in Device, row.status # "absent",
         NEW pkg \in InstallPackage, NEW p \in Packages, NEW outcome \in BuildOutcome
  PROVE  /\ KeepsPlace(row, row)
         /\ KeepsPlace(row, ServedDevice(row, pkg))
         /\ KeepsPlace(row, RevokedDevice(row))
         /\ row.status \notin TERMINAL_DEVICE_STATUSES =>
              /\ KeepsPlace(row, ConfirmedDevice(row))
              /\ KeepsPlace(row, [row EXCEPT !.status = "active"])
              /\ KeepsPlace(row, DeviceAfterBuild(ResetDevice(row), p, outcome))
         /\ KeepsPlace(row, [row EXCEPT !.lost = TRUE])
<1>1. /\ KeepsPlace(row, row)
      /\ KeepsPlace(row, ServedDevice(row, pkg))
      /\ KeepsPlace(row, RevokedDevice(row))
      /\ KeepsPlace(row, [row EXCEPT !.lost = TRUE])
  BY DEF KeepsPlace, ServedDevice, RevokedDevice, TERMINAL_DEVICE_STATUSES, Device
<1>2. ASSUME row.status \notin TERMINAL_DEVICE_STATUSES
      PROVE  /\ KeepsPlace(row, ConfirmedDevice(row))
             /\ KeepsPlace(row, [row EXCEPT !.status = "active"])
  BY <1>2 DEF KeepsPlace, ConfirmedDevice, TERMINAL_DEVICE_STATUSES, Device
<1>3. ASSUME row.status \notin TERMINAL_DEVICE_STATUSES
      PROVE  KeepsPlace(row, DeviceAfterBuild(ResetDevice(row), p, outcome))
  <2>1. /\ ResetDevice(row) \in Device
        /\ ResetDevice(row).status = "reset_pending"
    BY DeviceRows
  <2>2. ResetDevice(row).vpn_ip = row.vpn_ip /\ ResetDevice(row).user = row.user
    BY DEF ResetDevice, Device
  <2>3. QED
    BY <1>3, <2>1, <2>2, BuildKeepsRow DEF KeepsPlace
<1>4. QED
  BY <1>1, <1>2, <1>3

\* Only create_device adds devices or gives addresses.
LEMMA OnlyCreateAdds ==
  ASSUME IndInv, [Next]_vars
  PROVE  \/ \E u \in Users, d \in Devices, p \in Packages, outcome \in BuildOutcome :
              CreateDevice(u, d, p, outcome)
         \/ DevicesKeepPlace
<1>1. ASSUME NEW d \in Devices, NEW row \in Device, KeepsPlace(device[d], row),
             device' = [device EXCEPT ![d] = row]
      PROVE  DevicesKeepPlace
  BY <1>1 DEF DevicesKeepPlace, KeepsPlace, IndInv, TypeOK
<1>2. CASE device' = device
  BY <1>2 DEF DevicesKeepPlace, KeepsPlace
<1>3. ASSUME NEW p \in Packages, ServeDownload(p) PROVE DevicesKeepPlace
  <2>. DEFINE d == package[p].device
  <2>1. /\ d \in Devices /\ DeviceExists(d)
        /\ device' = [device EXCEPT ![d] = ServedDevice(@, package[p])]
    BY <1>3, PackageOwner DEF IndInv, ServeDownload, ServeGuard, MayDownload
  <2>2. device[d] \in Device /\ package[p] \in InstallPackage
    BY <2>1, PackageOwner DEF IndInv, TypeOK
  <2>3. "built" \in BuildOutcome
    BY DEF BuildOutcome
  <2>4. /\ KeepsPlace(device[d], ServedDevice(device[d], package[p]))
        /\ ServedDevice(device[d], package[p]) \in Device
    BY <2>1, <2>2, <2>3, RowsKeepPlace, DeviceRows DEF DeviceExists
  <2>5. QED
    BY <1>1, <2>1, <2>4
<1>4. ASSUME NEW p \in Packages, ConfirmDownload(p) PROVE DevicesKeepPlace
  <2>. DEFINE d == package[p].device
  <2>1. /\ d \in Devices /\ DeviceExists(d)
        /\ device[d].status \in Downloadable
        /\ device' = [device EXCEPT ![d] = ConfirmedDevice(@)]
    BY <1>4, PackageOwner
       DEF IndInv, ConfirmDownload, MayConfirm, LivePackageOwnsDevice
  <2>2. device[d] \in Device /\ package[p] \in InstallPackage
    BY <2>1, PackageOwner DEF IndInv, TypeOK
  <2>3. "built" \in BuildOutcome
    BY DEF BuildOutcome
  <2>4. /\ KeepsPlace(device[d], ConfirmedDevice(device[d]))
        /\ ConfirmedDevice(device[d]) \in Device
    BY <2>1, <2>2, <2>3, RowsKeepPlace, DeviceRows
       DEF DeviceExists, Downloadable, TERMINAL_DEVICE_STATUSES
  <2>5. QED
    BY <1>1, <2>1, <2>4
<1>5. ASSUME NEW d \in Devices, NEW p \in Packages, NEW outcome \in BuildOutcome,
             Reset(d, p, outcome)
      PROVE  DevicesKeepPlace
  <2>. DEFINE row == DeviceAfterBuild(ResetDevice(device[d]), p, outcome)
  <2>1. /\ DeviceExists(d)
        /\ device[d].status # "revoked"
        /\ device[d] \in Device
        /\ device' = [device EXCEPT ![d] = row]
    BY <1>5 DEF Reset, ResetGuard, IndInv, TypeOK
  <2>2. device[d].status \notin TERMINAL_DEVICE_STATUSES
    BY <2>1 DEF TERMINAL_DEVICE_STATUSES, Device, DeviceStatus
  <2>3. row \in Device
    BY <2>1, DeviceRows, BuildRows, FreshRows
  <2>4. KeepsPlace(device[d], row)
    BY <2>1, <2>2, RowsKeepPlace, FreshRows DEF DeviceExists
  <2>5. QED
    BY <1>1, <2>1, <2>3, <2>4
<1>6. ASSUME NEW d \in Devices, Revoke(d) \/ ReportLost(d)
      PROVE  DevicesKeepPlace
  <2>1. /\ DeviceExists(d)
        /\ device[d] \in Device
        /\ \/ device' = [device EXCEPT ![d] = RevokedDevice(device[d])]
           \/ device' = [device EXCEPT ![d] = [device[d] EXCEPT !.lost = TRUE]]
    BY <1>6 DEF Revoke, ReportLost, IndInv, TypeOK
  <2>2. /\ RevokedDevice(device[d]) \in Device
        /\ [device[d] EXCEPT !.lost = TRUE] \in Device
    BY <2>1, DeviceRows, FreshRows DEF Device
  <2>3. /\ KeepsPlace(device[d], RevokedDevice(device[d]))
        /\ KeepsPlace(device[d], [device[d] EXCEPT !.lost = TRUE])
    BY <2>1 DEF KeepsPlace, RevokedDevice, TERMINAL_DEVICE_STATUSES, Device, DeviceExists
  <2>4. QED
    BY <1>1, <2>1, <2>2, <2>3
<1>7. ASSUME NEW i \in DOMAIN jobs, JobSucceeds(i) \/ JobFails(i)
      PROVE  DevicesKeepPlace
  <2>. DEFINE d == jobs[i].device
              row == [device[d] EXCEPT !.status = "active"]
  <2>1. jobs[i] \in Job
    BY DEF IndInv, TypeOK
  <2>2. CASE device' = device
    BY <2>2 DEF DevicesKeepPlace, KeepsPlace
  <2>3. CASE /\ device' = [device EXCEPT ![d] = row]
             /\ device[d].status \in RUNTIME_TARGET_DEVICE_STATUSES
    <3>1. d \in Devices /\ device[d] \in Device
      BY <2>1 DEF Job, IndInv, TypeOK
    <3>2. row \in Device /\ KeepsPlace(device[d], row)
      BY <2>3, <3>1
         DEF KeepsPlace, Device, DeviceStatus, TERMINAL_DEVICE_STATUSES,
             RUNTIME_TARGET_DEVICE_STATUSES
    <3>. HIDE DEF row
    <3>3. QED
      BY <1>1, <2>3, <3>1, <3>2
  <2>4. QED
    BY <1>7, <2>1, <2>2, <2>3 DEF JobSucceeds, JobFails, JobMaySucceed
<1>8. CASE \/ \E p \in Packages : ExpireOnDownload(p) \/ WindowCloses(p)
           \/ \E u \in Users, n \in 0..MaxLimit : UpdateUser(u, n)
           \/ LostTransaction
           \/ UNCHANGED vars
  BY <1>2, <1>8
     DEF ExpireOnDownload, WindowCloses, UpdateUser, LostTransaction, vars
<1>9. QED
  BY <1>3, <1>4, <1>5, <1>6, <1>7, <1>8 DEF Next, PortalNext, WorkerNext

-----------------------------------------------------------------------------

\* The device create_device adds: a free address, the user's, not terminal.
LEMMA CreatedRow ==
  ASSUME NEW u \in Users, NEW ip \in 1..PoolSize, NEW p \in Packages,
         NEW outcome \in BuildOutcome
  PROVE  LET row == DeviceAfterBuild(CreatedDevice(u, ip), p, outcome)
         IN  row.vpn_ip = ip /\ row.user = u /\ row.status # "absent"
<1>1. CreatedDevice(u, ip) \in Device /\ CreatedDevice(u, ip).status = "pending_build"
  BY FreshRows
<1>2. CreatedDevice(u, ip).vpn_ip = ip /\ CreatedDevice(u, ip).user = u
  BY DEF CreatedDevice, NoDevice
<1>3. QED
  BY <1>1, <1>2, BuildKeepsRow

\* create_device leaves the addresses distinct, every other step keeps them.
LEMMA AddressesPreserved ==
  ASSUME IndInv, AddressesDistinct, [Next]_vars
  PROVE  AddressesDistinct'
<1>1. CASE DevicesKeepPlace
  BY <1>1 DEF DevicesKeepPlace, KeepsPlace, AddressesDistinct, DeviceExists
<1>2. ASSUME NEW u \in Users, NEW d \in Devices, NEW p \in Packages,
             NEW outcome \in BuildOutcome, CreateDevice(u, d, p, outcome)
      PROVE  AddressesDistinct'
  <2>1. PICK ip \in 1..PoolSize :
          /\ CreateGuard(u, d, p, ip)
          /\ device' = [device EXCEPT
                          ![d] = DeviceAfterBuild(CreatedDevice(u, ip), p, outcome)]
    BY <1>2 DEF CreateDevice
  <2>2. ip \in FreeIps
    BY <2>1 DEF CreateGuard, AllocateForDevice
  <2>3. /\ device'[d].vpn_ip = ip
        /\ \A e \in Devices : e # d => device'[e] = device[e]
    BY <2>1, CreatedRow DEF IndInv, TypeOK
  <2>4. ip # ServerIp /\ \A e \in Devices : DeviceExists(e) => device[e].vpn_ip # ip
    BY <2>2 DEF FreeIps, AllocatedIps
  <2>5. QED
    BY <2>1, <2>3, <2>4 DEF AddressesDistinct, DeviceExists
<1>3. QED
  BY <1>1, <1>2, OnlyCreateAdds

\* No step but create_device makes a user's devices more, and create_device
\* adds one, below the limit.
LEMMA QuotaStepTaken ==
  ASSUME IndInv, [Next]_vars
  PROVE  QuotaStep
<1>. SUFFICES ASSUME NEW v \in Users
              PROVE  \/ CountedDevices(v)' \subseteq CountedDevices(v)
                     \/ Cardinality(CountedDevices(v)') <= limit[v]
  BY DEF QuotaStep
<1>1. CASE DevicesKeepPlace
  BY <1>1 DEF DevicesKeepPlace, KeepsPlace, CountedDevices, DeviceExists
<1>2. ASSUME NEW u \in Users, NEW d \in Devices, NEW p \in Packages,
             NEW outcome \in BuildOutcome, CreateDevice(u, d, p, outcome)
      PROVE  \/ CountedDevices(v)' \subseteq CountedDevices(v)
             \/ Cardinality(CountedDevices(v)') <= limit[v]
  <2>1. PICK ip \in 1..PoolSize :
          /\ CreateGuard(u, d, p, ip)
          /\ device' = [device EXCEPT
                          ![d] = DeviceAfterBuild(CreatedDevice(u, ip), p, outcome)]
    BY <1>2 DEF CreateDevice
  <2>2. /\ device'[d].user = u
        /\ \A e \in Devices : e # d => device'[e] = device[e]
    BY <2>1, CreatedRow DEF IndInv, TypeOK
  <2>3. CASE v # u
    BY <2>2, <2>3 DEF CountedDevices, DeviceExists
  <2>4. CASE v = u
    <3>. DEFINE S == CountedDevices(v)
                T == CountedDevices(v)'
    <3>. SUFFICES Cardinality(T) <= limit[v]
      OBVIOUS
    <3>1. T \subseteq S \cup {d}
      BY <2>2 DEF CountedDevices, DeviceExists
    <3>2. IsFiniteSet(S)
      BY DevicesAssumption, FS_Subset DEF CountedDevices
    <3>3. Cardinality(S) \in Nat /\ Cardinality(S) < limit[v] /\ limit[v] \in Nat
      BY <2>1, <2>4, <3>2, FS_CardinalityType, BoundsAssumption
         DEF CreateGuard, IndInv, TypeOK
    <3>. HIDE DEF S, T
    <3>4. /\ IsFiniteSet(S \cup {d})
          /\ Cardinality(S \cup {d}) <= limit[v]
      <4>1. /\ IsFiniteSet(S \cup {d})
            /\ Cardinality(S \cup {d}) =
                 IF d \in S THEN Cardinality(S) ELSE Cardinality(S) + 1
        BY <3>2, FS_AddElement, Zenon
      <4>2. QED
        BY <3>3, <4>1
    <3>5. /\ IsFiniteSet(T)
          /\ Cardinality(T) <= Cardinality(S \cup {d})
      BY <3>1, <3>4, FS_Subset
    <3>6. Cardinality(T) \in Nat /\ Cardinality(S \cup {d}) \in Nat
      BY <3>4, <3>5, FS_CardinalityType
    <3>7. QED
      BY <3>3, <3>4, <3>5, <3>6
  <2>5. QED
    BY <2>3, <2>4
<1>3. QED
  BY <1>1, <1>2, OnlyCreateAdds

-----------------------------------------------------------------------------

\* No two devices ever share an address, revoked ones included, and none has
\* the server's: a peer's /32 names one device.
THEOREM AddressesStayDistinct == Spec => []AddressesDistinct
<1>1. Init => AddressesDistinct
  BY DEF Init, AddressesDistinct, DeviceExists, NoDevice
<1>2. IndInv /\ AddressesDistinct /\ [Next]_vars => AddressesDistinct'
  BY AddressesPreserved
<1>3. QED
  BY <1>1, <1>2, Inductive, PTL DEF Spec

\* No step takes a user above the limit of that moment.
THEOREM QuotaHolds == Spec => QuotaRespected
<1>1. IndInv /\ [Next]_vars => [QuotaStep]_vars
  BY QuotaStepTaken
<1>2. QED
  BY <1>1, Inductive, PTL DEF Spec, QuotaRespected

-----------------------------------------------------------------------------
(***************************************************************************)
(* DeviceLifecycle implements DeviceRegistry.  Every handler writes one    *)
(* device row, so it is enough to say what the registry keeps of the rows  *)
(* before and after; the invariant of DeviceLifecycle gives the status     *)
(* before a confirmation and before a job, which those handlers do not     *)
(* look at.                                                                *)
(***************************************************************************)

\* What the registry keeps of a row, and of all rows.
Kept(row) ==
  [status |-> RegistryStatusOf(row.status), vpn_ip |-> row.vpn_ip, user |-> row.user]

KeptRows == [d \in Devices |-> Kept(device[d])]

\* The statuses of rows, as the registry sees them.
LEMMA KeptStatuses ==
  /\ RegistryStatusOf("absent") = "absent"
  /\ RegistryStatusOf("revoked") = "revoked"
  /\ RegistryStatusOf("download_confirmed") = "target"
  /\ RegistryStatusOf("active") = "target"
  /\ \A s \in Downloadable \cup {"pending_build", "reset_pending"} :
       RegistryStatusOf(s) = "waiting"
  /\ \A s : RegistryStatusOf(s) = "absent" <=> s = "absent"
  /\ \A s : RegistryStatusOf(s) = "revoked" <=> s = "revoked"
BY DEF RegistryStatusOf, RUNTIME_TARGET_DEVICE_STATUSES, Downloadable

\* A step that writes one row changes the registry at that device only.
LEMMA OneRowKept ==
  ASSUME TypeOK, NEW d \in Devices, NEW row, device' = [device EXCEPT ![d] = row]
  PROVE  KeptRows' = [KeptRows EXCEPT ![d] = Kept(row)]
BY DEF TypeOK, KeptRows

\* What Confirm, Withdraw and RevokeEntry do.
StatusWritten(d, status) == KeptRows' = [KeptRows EXCEPT ![d].status = status]

\* If the row keeps its address and its user, only the status may be another.
LEMMA StatusKept ==
  ASSUME TypeOK, NEW d \in Devices, NEW row, device' = [device EXCEPT ![d] = row],
         row.vpn_ip = device[d].vpn_ip, row.user = device[d].user,
         NEW status, RegistryStatusOf(row.status) = status
  PROVE  /\ StatusWritten(d, status)
         /\ status = RegistryStatusOf(device[d].status) => KeptRows' = KeptRows
<1>1. KeptRows' = [KeptRows EXCEPT ![d] = Kept(row)]
  BY OneRowKept
<1>2. Kept(row) = [KeptRows[d] EXCEPT !.status = status]
  BY DEF KeptRows, Kept
<1>3. status = RegistryStatusOf(device[d].status) => Kept(row) = KeptRows[d]
  BY DEF KeptRows, Kept
<1>4. status = RegistryStatusOf(device[d].status) =>
        [KeptRows EXCEPT ![d] = KeptRows[d]] = KeptRows
  BY DEF KeptRows
<1>5. QED
  BY <1>1, <1>2, <1>3, <1>4 DEF StatusWritten

\* create_device registers an address that is free.
LEMMA RegistryCreates ==
  ASSUME IndInv, NEW u \in Users, NEW d \in Devices, NEW p \in Packages,
         NEW outcome \in BuildOutcome, CreateDevice(u, d, p, outcome)
  PROVE  \E ip \in Registry!FreeAddresses : Registry!Register(u, d, ip)
<1>1. PICK ip \in 1..PoolSize :
        /\ CreateGuard(u, d, p, ip)
        /\ device' = [device EXCEPT
                        ![d] = DeviceAfterBuild(CreatedDevice(u, ip), p, outcome)]
  BY DEF CreateDevice
<1> DEFINE row == DeviceAfterBuild(CreatedDevice(u, ip), p, outcome)
<1>2. row.vpn_ip = ip /\ row.user = u
  BY CreatedRow
<1>3. row.status \in {"ready_to_download", "pending_build"}
  BY FreshRows, BuildRows
<1>4. KeptRows' = [KeptRows EXCEPT
                     ![d] = [status |-> "waiting", vpn_ip |-> ip, user |-> u]]
  <2>1. RegistryStatusOf(row.status) = "waiting"
    BY <1>3, KeptStatuses DEF Downloadable
  <2>2. KeptRows' = [KeptRows EXCEPT ![d] = Kept(row)]
    BY <1>1, OneRowKept DEF IndInv
  <2> HIDE DEF row
  <2>3. QED
    BY <1>2, <2>1, <2>2 DEF Kept
<1>5. Registry!FreeAddresses = FreeIps
  <2>1. Registry!Registered = {e \in Devices : DeviceExists(e)}
    BY KeptStatuses DEF Registry!Registered, DeviceExists
  <2>2. QED
    BY <2>1 DEF Registry!FreeAddresses, FreeIps, AllocatedIps
<1>6. ip \in FreeIps /\ (\A other \in FreeIps : ip <= other) /\ device[d].status = "absent"
  BY <1>1 DEF CreateGuard, AllocateForDevice, FreshDevice, DeviceExists
<1>7. QED
  BY <1>4, <1>5, <1>6, KeptStatuses DEF Registry!Register, KeptRows, Kept
\* A download changes the status within "waiting", or not at all.
LEMMA RegistryServes ==
  ASSUME IndInv, NEW p \in Packages, ServeDownload(p)
  PROVE  KeptRows' = KeptRows
<1> DEFINE d == package[p].device
           row == ServedDevice(device[d], package[p])
<1>1. /\ d \in Devices /\ DeviceExists(d) /\ device[d] \in Device
      /\ device' = [device EXCEPT ![d] = row]
  BY PackageOwner DEF IndInv, TypeOK, ServeDownload, ServeGuard, MayDownload
<1>2. row.vpn_ip = device[d].vpn_ip /\ row.user = device[d].user
  BY <1>1 DEF ServedDevice, Device
<1>3. RegistryStatusOf(row.status) = RegistryStatusOf(device[d].status)
  BY <1>1, KeptStatuses DEF ServedDevice, Device, Downloadable
<1> HIDE DEF d, row
<1>4. QED
  BY <1>1, <1>2, <1>3, StatusKept DEF IndInv

\* confirm_download does not look at the device: it waits, because it owns a
\* package that can be confirmed.
LEMMA RegistryConfirms ==
  ASSUME IndInv, NEW p \in Packages, ConfirmDownload(p)
  PROVE  \E d \in Devices : Registry!Confirm(d)
<1> DEFINE d == package[p].device
           row == ConfirmedDevice(device[d])
<1>1. /\ d \in Devices /\ device[d] \in Device /\ device[d].status \in Downloadable
      /\ device' = [device EXCEPT ![d] = row]
  BY PackageOwner DEF IndInv, TypeOK, ConfirmDownload, MayConfirm, LivePackageOwnsDevice
<1>2. row.vpn_ip = device[d].vpn_ip /\ row.user = device[d].user
  BY <1>1 DEF ConfirmedDevice, Device
<1>3. RegistryStatusOf(row.status) = "target" /\ RegistryStatusOf(device[d].status) = "waiting"
  BY <1>1, KeptStatuses DEF ConfirmedDevice, Device
<1> HIDE DEF d, row
<1>4. StatusWritten(d, "target")
  BY <1>1, <1>2, <1>3, StatusKept DEF IndInv
<1>5. QED
  BY <1>1, <1>3, <1>4 DEF StatusWritten, Registry!Confirm, KeptRows, Kept

\* A reset takes the device of its registration out of use.
LEMMA RegistryWithdraws ==
  ASSUME IndInv, NEW d \in Devices, NEW p \in Packages, NEW outcome \in BuildOutcome,
         Reset(d, p, outcome)
  PROVE  Registry!Withdraw(d)
<1> DEFINE row == DeviceAfterBuild(ResetDevice(device[d]), p, outcome)
<1>1. /\ device[d] \in Device /\ device[d].status \notin {"absent", "revoked"}
      /\ device' = [device EXCEPT ![d] = row]
  BY DEF IndInv, TypeOK, Reset, ResetGuard, DeviceExists
<1>2. /\ ResetDevice(device[d]) \in Device
      /\ ResetDevice(device[d]).status = "reset_pending"
      /\ ResetDevice(device[d]).vpn_ip = device[d].vpn_ip
      /\ ResetDevice(device[d]).user = device[d].user
  BY <1>1, DeviceRows, FreshRows DEF ResetDevice, Device
<1>3. row.vpn_ip = device[d].vpn_ip /\ row.user = device[d].user
  BY <1>2, BuildKeepsRow
<1>4. row.status \in {"ready_to_download", "pending_build", "reset_pending"}
  BY <1>2, BuildRows
<1>5. RegistryStatusOf(row.status) = "waiting"
  BY <1>4, KeptStatuses DEF Downloadable
<1> HIDE DEF row
<1>6. StatusWritten(d, "waiting")
  BY <1>1, <1>3, <1>5, StatusKept DEF IndInv
<1>7. QED
  BY <1>1, <1>6, KeptStatuses
     DEF StatusWritten, Registry!Withdraw, Registry!Registered, KeptRows, Kept

\* A revocation revokes the entry.
LEMMA RegistryRevokes ==
  ASSUME IndInv, NEW d \in Devices, Revoke(d)
  PROVE  Registry!RevokeEntry(d)
<1> DEFINE row == RevokedDevice(device[d])
<1>1. /\ device[d] \in Device /\ device[d].status # "absent"
      /\ device' = [device EXCEPT ![d] = row]
  BY DEF IndInv, TypeOK, Revoke, DeviceExists
<1>2. /\ row.vpn_ip = device[d].vpn_ip /\ row.user = device[d].user
      /\ row.status = "revoked"
  BY <1>1 DEF RevokedDevice, Device
<1> HIDE DEF row
<1>3. StatusWritten(d, "revoked")
  BY <1>1, <1>2, KeptStatuses, StatusKept DEF IndInv
<1>4. QED
  BY <1>1, <1>3, KeptStatuses
     DEF StatusWritten, Registry!RevokeEntry, Registry!Registered, KeptRows, Kept

\* A report of loss changes nothing the registry holds.
LEMMA RegistryKeepsLost ==
  ASSUME IndInv, NEW d \in Devices, ReportLost(d)
  PROVE  KeptRows' = KeptRows
<1> DEFINE row == [device[d] EXCEPT !.lost = TRUE]
<1>1. device[d] \in Device /\ device' = [device EXCEPT ![d] = row]
  BY DEF IndInv, TypeOK, ReportLost
<1>2. /\ row.vpn_ip = device[d].vpn_ip /\ row.user = device[d].user
      /\ row.status = device[d].status
  BY <1>1 DEF Device
<1> HIDE DEF row
<1>3. QED
  BY <1>1, <1>2, StatusKept DEF IndInv

\* A job that succeeds finds its device a target, and leaves it one.
LEMMA RegistryKeepsJobs ==
  ASSUME IndInv, NEW i \in DOMAIN jobs, JobSucceeds(i) \/ JobFails(i)
  PROVE  KeptRows' = KeptRows
<1> DEFINE d == jobs[i].device
           row == [device[d] EXCEPT !.status = "active"]
<1>1. d \in Devices /\ device[d] \in Device
  <2>1. jobs[i] \in Job
    BY DEF IndInv, TypeOK
  <2>2. QED
    BY <2>1 DEF Job, IndInv, TypeOK
<1>2. CASE device' = device
  BY <1>2 DEF KeptRows
<1>3. CASE /\ device' = [device EXCEPT ![d] = row]
           /\ device[d].status \in RUNTIME_TARGET_DEVICE_STATUSES
  <2>1. /\ row.vpn_ip = device[d].vpn_ip /\ row.user = device[d].user
        /\ row.status = "active"
    BY <1>1 DEF Device
  <2>2. RegistryStatusOf(row.status) = RegistryStatusOf(device[d].status)
    BY <1>3, <2>1, KeptStatuses DEF RUNTIME_TARGET_DEVICE_STATUSES
  <2> HIDE DEF d, row
  <2>3. QED
    BY <1>1, <1>3, <2>1, <2>2, StatusKept DEF IndInv
<1>4. QED
  BY <1>2, <1>3 DEF JobSucceeds, JobFails, JobMaySucceed

-----------------------------------------------------------------------------

\* The registry starts empty.
LEMMA RegistryStarts == Init => Registry!RegistryInit
BY KeptStatuses DEF Init, NoDevice, Registry!RegistryInit, Registry!NoEntry

\* Every step is one of the registry's, or changes nothing of it.
LEMMA RegistrySteps ==
  ASSUME IndInv, [Next]_vars
  PROVE  Registry!RegistryNext \/ KeptRows' = KeptRows
<1>1. CASE \E u \in Users, d \in Devices, p \in Packages, outcome \in BuildOutcome :
             CreateDevice(u, d, p, outcome)
  BY <1>1, RegistryCreates DEF Registry!RegistryNext
<1>2. CASE \E p \in Packages : ServeDownload(p)
  BY <1>2, RegistryServes
<1>3. CASE \E p \in Packages : ConfirmDownload(p)
  BY <1>3, RegistryConfirms DEF Registry!RegistryNext
<1>4. CASE \E d \in Devices, p \in Packages, outcome \in BuildOutcome : Reset(d, p, outcome)
  BY <1>4, RegistryWithdraws DEF Registry!RegistryNext
<1>5. CASE \E d \in Devices : Revoke(d)
  BY <1>5, RegistryRevokes DEF Registry!RegistryNext
<1>6. CASE \E d \in Devices : ReportLost(d)
  BY <1>6, RegistryKeepsLost
<1>7. CASE WorkerNext
  BY <1>7, RegistryKeepsJobs DEF WorkerNext
<1>8. CASE \/ \E p \in Packages : ExpireOnDownload(p) \/ WindowCloses(p)
           \/ \E u \in Users, n \in 0..MaxLimit : UpdateUser(u, n)
           \/ LostTransaction
           \/ UNCHANGED vars
  <2>1. device' = device
    BY <1>8 DEF ExpireOnDownload, WindowCloses, UpdateUser, LostTransaction, vars
  <2>2. QED
    BY <2>1 DEF KeptRows
<1>9. QED
  BY <1>1, <1>2, <1>3, <1>4, <1>5, <1>6, <1>7, <1>8 DEF Next, PortalNext

\* DeviceLifecycle implements the registry of devices.
THEOREM RegistryImplemented == Spec => ImplementsRegistry
<1>1. IndInv /\ [Next]_vars => [Registry!RegistryNext]_KeptRows
  BY RegistrySteps
<1>2. QED
  BY <1>1, RegistryStarts, Inductive, PTL
     DEF Spec, ImplementsRegistry, Registry!RegistrySpec, KeptRows, Kept
=============================================================================
