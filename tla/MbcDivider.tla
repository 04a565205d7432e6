----------------------------- MODULE MbcDivider -----------------------------
(***************************************************************************)
(* mbc_divider_script.py: turns the single "default" backend container of  *)
(* one machine into drives0, compute0 and frontend0, and moves its drives  *)
(* and protocol memberships to them.  The script is a sequence of shell    *)
(* commands without any rollback: each may fail, and the machine may       *)
(* reboot between any two of them.                                         *)
(*                                                                         *)
(* The machine (containers, drives, boot list) and the cluster (host       *)
(* records, protocol clusters, rebuild) are the state the commands change; *)
(* the variables below name that state, and the last four are the script's *)
(* own.  ConvertCluster composes this module with the shell script that    *)
(* runs it on one machine after the other.                                 *)
(***************************************************************************)
EXTENDS Naturals, FiniteSets

CONSTANTS
    Hosts,        \* machines to convert, numbered in the order they are listed
    Extras,       \* other machines that serve protocols
    Frontends,    \* machines whose resources hold a FRONTEND node
    S3Init, SmbInit,  \* machines that serve S3 and SMB at the start
    PortsInit,    \* NFS ports at the start: [ig, host, port] records
    KeepS3Up,     \* --keep-s3-up
    RemoveOld,    \* --remove-old-container
    FaultAt,      \* phases a command may fail in; and three faults of their own
    MaxFaults     \* bound on faults in a behaviour

Containers == {"default", "drives0", "compute0", "frontend0"}
Machines   == Hosts \cup Extras
HostIds    == Machines \X Containers
OldId(m)   == <<m, "default">>
Protocols  == {"S3", "SMB", "NFS"}
Phases == {"check", "prepare", "s3check", "smbcheck", "nfscheck", "s3drain",
           "s3wait", "s3drained", "s3update", "smbremove", "nfsremove", "stop",
           "drives", "move", "compute", "frontend", "s3start", "readd",
           "buckets", "enable", "disable", "deactivate", "remove", "cleanup"}

PortsOf(machines, all) == {p \in all : p.host[1] \in machines}
Ports == [ig : {p.ig : p \in PortsInit}, host : HostIds,
          port : {p.port : p \in PortsInit}]

ASSUME DividerAssumption ==
    /\ Hosts \subseteq Nat
    /\ IsFiniteSet(Machines)
    /\ Frontends \subseteq Hosts
    /\ S3Init \subseteq Machines /\ SmbInit \subseteq Machines
    /\ PortsInit \subseteq Ports
    /\ \A p \in PortsInit : p.host[2] = "default"
    /\ KeepS3Up \in BOOLEAN /\ RemoveOld \in BOOLEAN
    /\ FaultAt \subseteq Phases \cup {"giveup", "reboot", "prechecks"}
    /\ MaxFaults \in Nat

VARIABLES
    up,        \* up[h]: containers of h that are READY
    exist,     \* exist[h]: containers set up on h
    boot,      \* boot[h]: containers the agent starts when h boots
    drives,    \* drives[h]: the container the drives of h belong to
    record,    \* record[h]: the cluster's record of the old host of h
    backup,    \* backup[h]: resources.json.backup is on h
    risk,      \* risk[h]: "unseen" or "rebuilding" while data of h misses a copy
    s3, draining, smb, ports,   \* the protocol clusters
    pc,        \* phase of the running divider, its exit status, or "none"
    name,      \* container_name: the container being divided
    force,     \* --force
    protocols_in_host, s3_status, nfs_ifgs_to_add,
    faults

machineVars  == <<up, exist, boot, drives, record, backup, risk>>
protocolVars == <<s3, draining, smb, ports>>
localVars    == <<name, protocols_in_host, s3_status, nfs_ifgs_to_add>>
dividerVars  == <<machineVars, protocolVars, localVars, pc, force, faults>>

DividerTypeOK ==
    /\ up    \in [Hosts -> SUBSET Containers]
    /\ exist \in [Hosts -> SUBSET Containers]
    /\ boot  \in [Hosts -> SUBSET Containers]
    /\ drives \in [Hosts -> {"default", "drives0"}]
    /\ record \in [Hosts -> {"active", "inactive", "gone"}]
    /\ backup \in [Hosts -> BOOLEAN]
    /\ risk   \in [Hosts -> {"none", "unseen", "rebuilding"}]
    /\ s3 \subseteq HostIds /\ draining \subseteq HostIds /\ smb \subseteq HostIds
    /\ ports \subseteq Ports
    /\ pc \in Phases \cup {"none", "exit0", "exit1"}
    /\ name \in Containers
    /\ force \in BOOLEAN
    /\ protocols_in_host \subseteq Protocols
    /\ s3_status \subseteq HostIds
    /\ nfs_ifgs_to_add \subseteq Ports
    /\ faults \in Nat

DividerInit ==
    /\ up    = [h \in Hosts |-> {"default"}]
    /\ exist = [h \in Hosts |-> {"default"}]
    /\ boot  = [h \in Hosts |-> {"default"}]
    /\ drives = [h \in Hosts |-> "default"]
    /\ record = [h \in Hosts |-> "active"]
    /\ backup = [h \in Hosts |-> FALSE]
    /\ risk   = [h \in Hosts |-> "none"]
    /\ s3  = {OldId(m) : m \in S3Init}
    /\ smb = {OldId(m) : m \in SmbInit}
    /\ draining = {}
    /\ ports = PortsInit
    /\ pc = "none"
    /\ name = "default"
    /\ force = FALSE
    /\ protocols_in_host = {} /\ s3_status = {} /\ nfs_ifgs_to_add = {}
    /\ faults = 0

-----------------------------------------------------------------------------
(* The steps of main(), on machine h.                                      *)

Cur(h) == <<h, name>>               \* current_host_id
Goto(phase) == pc' = phase

\* What a member reports in "weka s3 cluster status" is TRUE unless it drains.
S3Healthy == s3 \cap draining = {}

\* Mutant: --force is not looked at.
LocalCheckNeverForced(h) ==
    /\ pc = "check"
    /\ \/ Cardinality(up[h]) > 1 /\ Goto("exit0") /\ UNCHANGED name
       \/ up[h] = {} /\ Goto("exit1") /\ UNCHANGED name
       \/ \E c \in up[h] :
            /\ up[h] = {c}
            /\ name' = c
            /\ Goto(IF backup[h] THEN "exit1" ELSE "prepare")
    /\ UNCHANGED <<machineVars, protocolVars, protocols_in_host, s3_status,
                   nfs_ifgs_to_add, force, faults>>

\* Mutant: a machine that is already divided counts as a failure.
LocalCheckFailsDivided(h) ==
    /\ pc = "check"
    /\ \/ Cardinality(up[h]) # 1 /\ Goto("exit1") /\ UNCHANGED name
       \/ \E c \in up[h] :
            /\ up[h] = {c}
            /\ name' = c
            /\ Goto(IF backup[h] /\ ~force THEN "exit1" ELSE "prepare")
    /\ UNCHANGED <<machineVars, protocolVars, protocols_in_host, s3_status,
                   nfs_ifgs_to_add, force, faults>>

\* Local containers, mounts and the backup file.  A READY container that is
\* not "default" is taken for the one to divide, as in the code.
LocalCheck(h) ==
    /\ pc = "check"
    /\ \/ Cardinality(up[h]) > 1 /\ Goto("exit0") /\ UNCHANGED name
       \/ up[h] = {} /\ Goto("exit1") /\ UNCHANGED name
       \/ \E c \in up[h] :
            /\ up[h] = {c}
            /\ name' = c
            /\ Goto(IF backup[h] /\ ~force THEN "exit1" ELSE "prepare")
    /\ UNCHANGED <<machineVars, protocolVars, protocols_in_host, s3_status,
                   nfs_ifgs_to_add, force, faults>>

\* Export the backup; read the resources, failure domain, cores and devices.
Prepare(h) ==
    /\ pc = "prepare"
    /\ backup' = [backup EXCEPT ![h] = TRUE]
    /\ Goto("s3check")
    /\ UNCHANGED <<up, exist, boot, drives, record, risk, protocolVars,
                   localVars, force, faults>>

\* Mutant: three members are taken to be enough.
S3CheckOffByOne(h) ==
    /\ pc = "s3check"
    /\ s3_status' = s3
    /\ Goto(IF Cur(h) \in s3 /\ Cardinality(s3) < 3 THEN "exit1" ELSE "smbcheck")
    /\ UNCHANGED <<machineVars, protocolVars, name, protocols_in_host,
                   nfs_ifgs_to_add, force, faults>>

S3Check(h) ==
    /\ pc = "s3check"
    /\ s3_status' = s3
    /\ Goto(IF Cur(h) \in s3 /\ Cardinality(s3) < 4 THEN "exit1" ELSE "smbcheck")
    /\ UNCHANGED <<machineVars, protocolVars, name, protocols_in_host,
                   nfs_ifgs_to_add, force, faults>>
SmbCheck(h) ==
    /\ pc = "smbcheck"
    /\ Goto(IF Cur(h) \in smb /\ Cardinality(smb) < 4 THEN "exit1" ELSE "nfscheck")
    /\ UNCHANGED <<machineVars, protocolVars, localVars, force, faults>>

\* The code counts the ports of an interface group, not the hosts behind them.
NfsCheck(h) ==
    /\ pc = "nfscheck"
    /\ Goto(IF \E p \in ports : /\ p.host = Cur(h)
                                /\ Cardinality({q \in ports : q.ig = p.ig}) < 2
            THEN "exit1" ELSE "s3drain")
    /\ UNCHANGED <<machineVars, protocolVars, localVars, force, faults>>

NoS3(h) ==
    /\ pc = "s3drain"
    /\ Cur(h) \notin s3_status
    /\ Goto("smbremove")
    /\ UNCHANGED <<machineVars, protocolVars, localVars, force, faults>>

\* Mutant: waits for a healthy cluster without ending the drain of this host.
S3UndrainForgotten(h) ==
    /\ pc = "s3drain"
    /\ Cur(h) \in s3_status
    /\ ~S3Healthy
    /\ Goto("s3wait")
    /\ UNCHANGED <<machineVars, protocolVars, localVars, force, faults>>

\* An unhealthy S3 cluster: end a drain of this host, then wait.
S3Undrain(h) ==
    /\ pc = "s3drain"
    /\ Cur(h) \in s3_status
    /\ ~S3Healthy
    /\ draining' = draining \ {Cur(h)}
    /\ Goto("s3wait")
    /\ UNCHANGED <<machineVars, s3, smb, ports, localVars, force, faults>>

\* Mutant: drains without waiting for the others.
S3StartDrainAtOnce(h) ==
    /\ pc \in {"s3drain", "s3wait"}
    /\ Cur(h) \in s3_status
    /\ s3_status' = s3
    /\ draining' = draining \cup {Cur(h)}
    /\ Goto("s3drained")
    /\ UNCHANGED <<machineVars, s3, smb, ports, name, protocols_in_host,
                   nfs_ifgs_to_add, force, faults>>

S3StartDrain(h) ==
    /\ pc \in {"s3drain", "s3wait"}
    /\ Cur(h) \in s3_status
    /\ S3Healthy
    /\ s3_status' = s3
    /\ draining' = draining \cup {Cur(h)}
    /\ Goto("s3drained")
    /\ UNCHANGED <<machineVars, s3, smb, ports, name, protocols_in_host,
                   nfs_ifgs_to_add, force, faults>>

\* Mutant: S3 is not noted in protocols_in_host.
S3DrainedForgets ==
    /\ pc = "s3drained"
    /\ Goto(IF KeepS3Up THEN "smbremove" ELSE "s3update")
    /\ UNCHANGED <<machineVars, protocolVars, localVars, force, faults>>

\* wait_for_s3_drain returned (a timeout raises: a fault of this phase).
S3Drained ==
    /\ pc = "s3drained"
    /\ protocols_in_host' = protocols_in_host \cup {"S3"}
    /\ Goto(IF KeepS3Up THEN "smbremove" ELSE "s3update")
    /\ UNCHANGED <<machineVars, protocolVars, name, s3_status, nfs_ifgs_to_add,
                   force, faults>>

\* "weka s3 cluster update" replaces the member list by the one the script read.
S3Update(h) ==
    /\ pc = "s3update"
    /\ s3' = s3_status \ {Cur(h)}
    /\ draining' = draining \ {Cur(h)}
    /\ s3_status' = s3'
    /\ Goto("smbremove")
    /\ UNCHANGED <<machineVars, smb, ports, name, protocols_in_host,
                   nfs_ifgs_to_add, force, faults>>

SmbRemove(h) ==
    /\ pc = "smbremove"
    /\ smb' = smb \ {Cur(h)}
    /\ protocols_in_host' = IF Cur(h) \in smb THEN protocols_in_host \cup {"SMB"}
                                              ELSE protocols_in_host
    /\ Goto("nfsremove")
    /\ UNCHANGED <<machineVars, s3, draining, ports, name, s3_status,
                   nfs_ifgs_to_add, force, faults>>

\* Mutant: interface group and port are remembered the wrong way round.
NfsRemovePortSwapped(h) ==
    /\ pc = "nfsremove"
    /\ \E p \in ports :
         /\ p.host = Cur(h)
         /\ ports' = ports \ {p}
         /\ nfs_ifgs_to_add' = nfs_ifgs_to_add \cup
                              {[p EXCEPT !.ig = p.port, !.port = p.ig]}
    /\ protocols_in_host' = protocols_in_host \cup {"NFS"}
    /\ UNCHANGED <<machineVars, s3, draining, smb, name, s3_status, pc, force,
                   faults>>

NfsRemovePort(h) ==
    /\ pc = "nfsremove"
    /\ \E p \in ports :
         /\ p.host = Cur(h)
         /\ ports' = ports \ {p}
         /\ nfs_ifgs_to_add' = nfs_ifgs_to_add \cup {p}
    /\ protocols_in_host' = protocols_in_host \cup {"NFS"}
    /\ UNCHANGED <<machineVars, s3, draining, smb, name, s3_status, pc, force,
                   faults>>

\* Mutant: goes on after the first port.
NfsRemovedOne(h) ==
    /\ pc = "nfsremove"
    /\ Goto("stop")
    /\ UNCHANGED <<machineVars, protocolVars, localVars, force, faults>>

NfsRemoved(h) ==
    /\ pc = "nfsremove"
    /\ \A p \in ports : p.host # Cur(h)
    /\ Goto("stop")
    /\ UNCHANGED <<machineVars, protocolVars, localVars, force, faults>>

\* Stopping the container that holds the drives takes the machine down: the
\* cluster has not noticed yet.
StopOld(h) ==
    /\ pc = "stop"
    /\ up' = [up EXCEPT ![h] = @ \ {name}]
    /\ risk' = IF drives[h] = name /\ risk[h] = "none"
               THEN [risk EXCEPT ![h] = "unseen"] ELSE risk
    /\ Goto("drives")
    /\ UNCHANGED <<exist, boot, drives, record, backup, protocolVars, localVars,
                   force, faults>>

\* "weka local setup host --name=c --disable"; refused when c exists already.
SetUp(h, c, next) ==
    /\ IF c \in exist[h]
       THEN Goto("exit1") /\ UNCHANGED <<up, exist>>
       ELSE /\ exist' = [exist EXCEPT ![h] = @ \cup {c}]
            /\ up' = [up EXCEPT ![h] = @ \cup {c}]
            /\ Goto(next)
    /\ UNCHANGED <<boot, drives, record, backup, risk, protocolVars, localVars,
                   force, faults>>

SetUpDrives(h)  == pc = "drives" /\ SetUp(h, "drives0", "move")
SetUpCompute(h) == pc = "compute" /\ SetUp(h, "compute0", "frontend")

\* wait_for_nodes_to_be_down and safe_drive_scan succeeded.
MoveDrives(h) ==
    /\ pc = "move"
    /\ name \notin up[h] /\ risk[h] # "unseen"
    /\ drives' = [drives EXCEPT ![h] = "drives0"]
    /\ Goto("compute")
    /\ UNCHANGED <<up, exist, boot, record, backup, risk, protocolVars,
                   localVars, force, faults>>

\* All 180 rounds raised or found drives0 not READY: the loop just ends.  By
\* then the cluster has noticed that the old nodes are down.
MoveGivesUp(h) ==
    /\ pc = "move"
    /\ "giveup" \in FaultAt /\ faults < MaxFaults
    /\ risk[h] # "unseen"
    /\ faults' = faults + 1
    /\ Goto("compute")
    /\ UNCHANGED <<machineVars, protocolVars, localVars, force>>

NoFrontend(h) ==
    /\ pc = "frontend"
    /\ h \notin Frontends
    /\ Goto("readd")
    /\ UNCHANGED <<machineVars, protocolVars, localVars, force, faults>>

SetUpFrontend(h) ==
    /\ pc = "frontend"
    /\ h \in Frontends /\ ~KeepS3Up
    /\ SetUp(h, "frontend0", "readd")

\* --keep-s3-up: the old container comes back with the frontend's resources.
RestartAsFrontend(h) ==
    /\ pc = "frontend"
    /\ h \in Frontends /\ KeepS3Up
    /\ up' = [up EXCEPT ![h] = @ \cup {name}]
    /\ Goto(IF "S3" \in protocols_in_host THEN "s3start" ELSE "readd")
    /\ UNCHANGED <<exist, boot, drives, record, backup, risk, protocolVars,
                   localVars, force, faults>>

StartS3(h) ==
    /\ pc = "s3start"
    /\ draining' = draining \ {Cur(h)}
    /\ Goto("readd")
    /\ UNCHANGED <<machineVars, s3, smb, ports, localVars, force, faults>>

-----------------------------------------------------------------------------
(* Protocols go back in the order they were taken: S3, SMB, NFS.           *)

FrontendId(h) == <<h, IF KeepS3Up THEN name ELSE "frontend0">>

\* wait_for_container_to_be_ready asks for frontend0, under --keep-s3-up too:
\* where there is none, the script dies of a KeyError.
ReaddFails(h) ==
    /\ pc = "readd"
    /\ protocols_in_host # {}
    /\ "frontend0" \notin up[h]
    /\ Goto("exit1")
    /\ UNCHANGED <<machineVars, protocolVars, localVars, force, faults>>

Readding(h) == pc = "readd" /\ "frontend0" \in up[h]

ReaddS3(h) ==
    /\ Readding(h)
    /\ "S3" \in protocols_in_host
    /\ s3' = IF KeepS3Up THEN s3 ELSE (s3_status \ {Cur(h)}) \cup {FrontendId(h)}
    /\ protocols_in_host' = protocols_in_host \ {"S3"}
    /\ UNCHANGED <<machineVars, draining, smb, ports, name, s3_status,
                   nfs_ifgs_to_add, pc, force, faults>>

ReaddSmb(h) ==
    /\ Readding(h)
    /\ "S3" \notin protocols_in_host /\ "SMB" \in protocols_in_host
    /\ smb' = smb \cup {FrontendId(h)}
    /\ protocols_in_host' = protocols_in_host \ {"SMB"}
    /\ UNCHANGED <<machineVars, s3, draining, ports, name, s3_status,
                   nfs_ifgs_to_add, pc, force, faults>>

ReaddNfs(h) ==
    /\ Readding(h)
    /\ protocols_in_host = {"NFS"}
    /\ \E p \in nfs_ifgs_to_add :
         /\ ports' = ports \cup {[p EXCEPT !.host = FrontendId(h)]}
         /\ nfs_ifgs_to_add' = nfs_ifgs_to_add \ {p}
    /\ protocols_in_host' = IF nfs_ifgs_to_add' = {} THEN {} ELSE {"NFS"}
    /\ UNCHANGED <<machineVars, s3, draining, smb, name, s3_status, pc, force,
                   faults>>

Readded ==
    /\ pc = "readd"
    /\ protocols_in_host = {}
    /\ Goto("buckets")
    /\ UNCHANGED <<machineVars, protocolVars, localVars, force, faults>>

-----------------------------------------------------------------------------
(* The switch of the boot list and the removal of the old host.            *)

\* Mutant: the new containers are not enabled.
BucketsActiveNoEnable ==
    /\ pc = "buckets"
    /\ Goto("disable")
    /\ UNCHANGED <<machineVars, protocolVars, localVars, force, faults>>

BucketsActive ==
    /\ pc = "buckets"
    /\ Goto("enable")
    /\ UNCHANGED <<machineVars, protocolVars, localVars, force, faults>>

\* "weka local enable" without a name: every container of the machine.
Enable(h) ==
    /\ pc = "enable"
    /\ boot' = [boot EXCEPT ![h] = exist[h]]
    /\ Goto(IF KeepS3Up THEN "cleanup" ELSE "disable")
    /\ UNCHANGED <<up, exist, drives, record, backup, risk, protocolVars,
                   localVars, force, faults>>

Disable(h) ==
    /\ pc = "disable"
    /\ boot' = [boot EXCEPT ![h] = @ \ {name}]
    /\ Goto("deactivate")
    /\ UNCHANGED <<up, exist, drives, record, backup, risk, protocolVars,
                   localVars, force, faults>>

Deactivate(h) ==
    /\ pc = "deactivate"
    /\ record' = [record EXCEPT ![h] = "inactive"]
    /\ Goto("remove")
    /\ UNCHANGED <<up, exist, boot, drives, backup, risk, protocolVars,
                   localVars, force, faults>>

RemoveHost(h) ==
    /\ pc = "remove"
    /\ record' = [record EXCEPT ![h] = "gone"]
    /\ exist' = IF RemoveOld THEN [exist EXCEPT ![h] = @ \ {name}] ELSE exist
    /\ Goto("cleanup")
    /\ UNCHANGED <<up, boot, drives, backup, risk, protocolVars, localVars,
                   force, faults>>

Cleanup(h) ==
    /\ pc = "cleanup"
    /\ backup' = [backup EXCEPT ![h] = FALSE]
    /\ Goto("exit0")
    /\ UNCHANGED <<up, exist, boot, drives, record, risk, protocolVars,
                   localVars, force, faults>>

-----------------------------------------------------------------------------
(* Faults, and the cluster around the script.                              *)

\* run_shell_command raises, or a bounded wait runs out and exits: what the
\* script did so far stays.
CommandFails ==
    /\ pc \in FaultAt
    /\ faults < MaxFaults
    /\ faults' = faults + 1
    /\ Goto("exit1")
    /\ UNCHANGED <<machineVars, protocolVars, localVars, force>>

\* The machine being divided reboots: the enabled containers come back.  A boot
\* takes longer than the cluster takes to notice that nodes are down.
Reboot(h) ==
    /\ pc \in Phases \ {"check"}
    /\ "reboot" \in FaultAt /\ faults < MaxFaults
    /\ faults' = faults + 1
    /\ up' = [up EXCEPT ![h] = boot[h] \cap exist[h]]
    /\ risk' = IF drives[h] \in up[h] \/ risk[h] = "unseen"
               THEN [risk EXCEPT ![h] = "rebuilding"] ELSE risk
    /\ Goto("exit1")
    /\ UNCHANGED <<exist, boot, drives, record, backup, protocolVars, localVars,
                   force>>

DividerStep(h) ==
    \/ LocalCheck(h) \/ Prepare(h)
    \/ S3Check(h) \/ SmbCheck(h) \/ NfsCheck(h)
    \/ NoS3(h) \/ S3Undrain(h) \/ S3StartDrain(h) \/ S3Drained \/ S3Update(h)
    \/ SmbRemove(h) \/ NfsRemovePort(h) \/ NfsRemoved(h)
    \/ StopOld(h) \/ SetUpDrives(h) \/ MoveDrives(h)
    \/ SetUpCompute(h) \/ NoFrontend(h) \/ SetUpFrontend(h)
    \/ RestartAsFrontend(h) \/ StartS3(h)
    \/ ReaddFails(h) \/ ReaddS3(h) \/ ReaddSmb(h) \/ ReaddNfs(h) \/ Readded
    \/ BucketsActive \/ Enable(h) \/ Disable(h) \/ Deactivate(h)
    \/ RemoveHost(h) \/ Cleanup(h)

DividerFault(h) == MoveGivesUp(h) \/ CommandFails \/ Reboot(h)

\* The leader notices that nodes of h went down and rebuilds what they held.
Notice(h) ==
    /\ risk[h] = "unseen"
    /\ risk' = [risk EXCEPT ![h] = "rebuilding"]
    /\ UNCHANGED <<up, exist, boot, drives, record, backup, protocolVars,
                   localVars, pc, force, faults>>

RebuildDone(h) ==
    /\ risk[h] = "rebuilding"
    /\ risk' = [risk EXCEPT ![h] = "none"]
    /\ UNCHANGED <<up, exist, boot, drives, record, backup, protocolVars,
                   localVars, pc, force, faults>>

RebuildVisible == \E h \in Hosts : risk[h] = "rebuilding"
=============================================================================
