--------------------------- MODULE DeviceRecords ---------------------------
(***************************************************************************)
(* The rows of the tables devices and install_packages, and what each      *)
(* handler of DeviceModule writes into one of them.  The modules that say  *)
(* when and how these writes reach the database extend this one:           *)
(* DeviceLifecycle runs one request at a time, DeviceRequests interleaves  *)
(* requests that read a row and write it later.                            *)
(*                                                                         *)
(* A package stands for the key pair its build generated: the builders     *)
(* generate one pair per build and a package row is built at most once, so *)
(* the identifier of the package also names its public key.                *)
(***************************************************************************)
EXTENDS Naturals

CONSTANTS
  Users,          \* portal users
  Devices,        \* identifiers of device rows (uuid4, never used twice)
  Packages,       \* identifiers of install_packages rows
  None,           \* SQL NULL, and "no such file"
  ResetKey,       \* the placeholder "reset-pending-..." a reset stores as key
  PoolSize,       \* the hosts of vpn_cidr are numbered 1..PoolSize
  ServerIp,       \* vpn_server_ip
  MaxAttempts     \* install_package_max_download_attempts

ASSUME IdentifierAssumption ==
  /\ None \notin Users \cup Devices \cup Packages
  /\ ResetKey \notin Packages \cup {None}

ASSUME PoolAssumption == PoolSize \in Nat /\ ServerIp \in 1..PoolSize

ASSUME AttemptsAssumption == MaxAttempts \in Nat \ {0}

-----------------------------------------------------------------------------

\* The statuses the code writes; the enumeration also declares draft,
\* pending_approval, built, expired and disabled, which nothing ever writes.
DeviceStatus ==
  {"absent", "pending_build", "ready_to_download", "downloading",
   "download_confirmed", "active", "revoked", "reset_pending"}

\* building and download_confirmed are overwritten before any commit.
InstallPackageStatus ==
  {"absent", "pending_build", "ready_to_download", "downloading",
   "artifact_deleted", "expired", "revoked", "failed"}

TERMINAL_DEVICE_STATUSES == {"revoked", "expired"}

ACTIVE_PACKAGE_STATUSES ==
  {"pending_build", "building", "ready_to_download", "downloading"}

RUNTIME_TARGET_DEVICE_STATUSES == {"download_confirmed", "active"}

Downloadable == {"ready_to_download", "downloading"}

Key == Packages \cup {None, ResetKey}

\* revoked and lost say whether revoked_at and lost_reported_at are set.
Device ==
  [status : DeviceStatus, public_key : Key, vpn_ip : 0..PoolSize,
   user : Users \cup {None}, revoked : BOOLEAN, lost : BOOLEAN]

\* confirmed and deleted say whether confirmed_at and artifact_deleted_at are
\* set.  download_expires_at and artifact_path are set together, by the build
\* that succeeds: window is "unset" while they are NULL, then "open" until
\* the clock passes download_expires_at.
InstallPackage ==
  [status : InstallPackageStatus, device : Devices \cup {None},
   download_attempts : 0..MaxAttempts, confirmed : BOOLEAN,
   deleted : BOOLEAN, window : {"unset", "open", "closed"}]

NoDevice ==
  [status |-> "absent", public_key |-> None, vpn_ip |-> 0, user |-> None,
   revoked |-> FALSE, lost |-> FALSE]

NoPackage ==
  [status |-> "absent", device |-> None, download_attempts |-> 0,
   confirmed |-> FALSE, deleted |-> FALSE, window |-> "unset"]

-----------------------------------------------------------------------------

\* What _build_package can do: the builder returns an installer, raises
\* before or after its os.replace has put the file in place, or
\* _select_builder raises before the build is attempted.
BuildOutcome == {"built", "failed", "failed_after_write", "not_configured"}

BuildWritesFile(outcome) == outcome \in {"built", "failed_after_write"}

\* The device row when _build_package returns or raises.
DeviceAfterBuild(row, p, outcome) ==
  CASE outcome = "built" ->
         [row EXCEPT !.status = "ready_to_download", !.public_key = p]
    [] outcome \in {"failed", "failed_after_write"} ->
         [row EXCEPT !.status = "pending_build"]
    [] outcome = "not_configured" -> row

\* The package row, inserted as pending_build, after the same call.
PackageAfterBuild(d, outcome) ==
  [NoPackage EXCEPT
     !.device = d,
     !.status = CASE outcome = "built" -> "ready_to_download"
                  [] outcome \in {"failed", "failed_after_write"} -> "failed"
                  [] outcome = "not_configured" -> "pending_build",
     !.window = IF outcome = "built" THEN "open" ELSE "unset"]

\* create_device: the row before the build.
CreatedDevice(u, ip) ==
  [NoDevice EXCEPT !.status = "pending_build", !.vpn_ip = ip, !.user = u]

\* record_download_attempt once the window is over.
ExpiredPackage(row) == [row EXCEPT !.status = "expired", !.deleted = TRUE]

\* record_download_attempt when the artifact is handed out.
ServedPackage(row) ==
  [row EXCEPT !.download_attempts = @ + 1, !.status = "downloading"]

ServedDevice(row, package) ==
  IF package.status = "ready_to_download" /\ row.status = "ready_to_download"
  THEN [row EXCEPT !.status = "downloading"]
  ELSE row

\* confirm_download.
ConfirmedPackage(row) ==
  [row EXCEPT !.confirmed = TRUE, !.deleted = TRUE,
              !.status = "artifact_deleted"]

ConfirmedDevice(row) == [row EXCEPT !.status = "download_confirmed"]

\* reset_device: the packages it withdraws, and the device before the build.
WithdrawnPackage(row) ==
  IF row.status \in ACTIVE_PACKAGE_STATUSES
  THEN [row EXCEPT !.status = "revoked", !.deleted = TRUE]
  ELSE row

\* Mutant: the reset does not touch the status.
ResetDeviceKeepsStatus(row) == [row EXCEPT !.public_key = ResetKey]

\* Mutant: the reset also gives the address back.
ResetDeviceReleasesIp(row) ==
  [row EXCEPT !.status = "reset_pending", !.public_key = ResetKey, !.vpn_ip = 0]

ResetDevice(row) ==
  [row EXCEPT !.status = "reset_pending", !.public_key = ResetKey]

\* Mutant: the artifact goes, the status stays.
RevokedPackageKeepsStatus(row) == [row EXCEPT !.deleted = TRUE]

\* revoke_device.
RevokedPackage(row) ==
  [row EXCEPT !.deleted = TRUE,
              !.status = IF row.status \in {"artifact_deleted",
                                            "download_confirmed"}
                         THEN row.status ELSE "revoked"]

RevokedDevice(row) == [row EXCEPT !.status = "revoked", !.revoked = TRUE]

-----------------------------------------------------------------------------

\* The guards record_download_attempt and confirm_download evaluate on the
\* package row before they change anything.
MayDownload(row) ==
  ~row.confirmed /\ ~row.deleted /\ row.status \in Downloadable

\* Mutant: confirmed_at is not looked at, and the final status is let through.
MayConfirmAgain(row) == row.status \in Downloadable \cup {"artifact_deleted"}

MayConfirm(row) == ~row.confirmed /\ row.status \in Downloadable

\* _delete_artifact unlinks only a path the row records.
HasArtifactPath(row) == row.window # "unset"
=============================================================================
