--------------------------- MODULE DeviceRegistry ---------------------------
(***************************************************************************)
(* What the rest of the system relies on about devices, whatever happens   *)
(* to their packages, files and jobs: a device keeps the one address it    *)
(* was created with, nobody else ever gets it, only a device that waits    *)
(* for an installer becomes a target of the runtime, and nothing follows a *)
(* revocation.  DeviceLifecycle implements this module; Firewall builds on *)
(* it.                                                                     *)
(***************************************************************************)
EXTENDS Naturals

CONSTANTS Users, Devices, None, PoolSize, ServerIp

VARIABLE registry   \* the columns status, vpn_ip and user_id of devices

\* waiting: every status before the confirmation of an installer; target:
\* download_confirmed and active.
RegistryStatus == {"absent", "waiting", "target", "revoked"}

NoEntry == [status |-> "absent", vpn_ip |-> 0, user |-> None]

Entry ==
  [status : RegistryStatus \ {"absent"}, vpn_ip : 1..PoolSize, user : Users] \cup {NoEntry}

RegistryInit == registry = [d \in Devices |-> NoEntry]

Registered == {d \in Devices : registry[d].status # "absent"}

\* Mutant: the address of a revoked device is free.
FreeOnceRevoked ==
  (1..PoolSize) \
    ({registry[d].vpn_ip : d \in {e \in Registered : registry[e].status # "revoked"}}
       \cup {ServerIp})

\* Mutant: the network's own address is free, too.
FreeFromZero ==
  (0..PoolSize) \ ({registry[d].vpn_ip : d \in Registered} \cup {ServerIp})

\* Every row keeps its address, and the allocator takes the least free one.
FreeAddresses ==
  (1..PoolSize) \ ({registry[d].vpn_ip : d \in Registered} \cup {ServerIp})

Register(u, d, ip) ==
  /\ registry[d].status = "absent"
  /\ ip \in FreeAddresses
  /\ \A other \in FreeAddresses : ip <= other
  /\ registry' = [registry EXCEPT
                    ![d] = [status |-> "waiting", vpn_ip |-> ip, user |-> u]]

Confirm(d) ==
  /\ registry[d].status = "waiting"
  /\ registry' = [registry EXCEPT ![d].status = "target"]

\* A reset.
Withdraw(d) ==
  /\ d \in Registered
  /\ registry[d].status # "revoked"
  /\ registry' = [registry EXCEPT ![d].status = "waiting"]

RevokeEntry(d) ==
  /\ d \in Registered
  /\ registry' = [registry EXCEPT ![d].status = "revoked"]

RegistryNext ==
  \E d \in Devices :
    \/ \E u \in Users, ip \in FreeAddresses : Register(u, d, ip)
    \/ Confirm(d) \/ Withdraw(d) \/ RevokeEntry(d)

RegistrySpec == RegistryInit /\ [][RegistryNext]_registry
=============================================================================
