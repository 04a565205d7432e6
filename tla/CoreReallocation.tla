-------------------------- MODULE CoreReallocation --------------------------
(***************************************************************************)
(* core_reallocation.sh: gives every backend its new numbers of cores, one *)
(* after the other, with the update_core_config.py it copies there, then   *)
(* blacklists and readmits the nodes of each.  The grim reaper is off      *)
(* meanwhile, and the cluster is told to allow changes of active hosts.    *)
(* The blacklisting of clients is left out.                                *)
(***************************************************************************)
EXTENDS Cluster

CONSTANTS
    Blacklisting,    \* -l 0 was not given
    Matches          \* Matches[m]: machines with the name or the address of m in
                     \* their line of "weka cluster nodes", as weka10 has weka1

VARIABLES
    cores,        \* cores[m]: "old" or "new"
    shown,        \* shown[m]: those "weka local resources" lists, applied or not
    backup,       \* machines that hold a resources.json.backup
    blacklisted,  \* machines whose nodes are on the blacklist
    reaper,       \* the grim reaper is on
    changeable,   \* allowChangingActiveHostNodes
    wasDisabled,  \* GRIM_REAPER_WAS_DISABLED
    hosts,        \* backends that were UP when the script began
    unwatched     \* history: machines with cores staged whose restart the script
                  \* did not cause, or not wait for, because a command failed

coreVars == <<cores, shown, backup, blacklisted, reaper, changeable, wasDisabled, hosts,
              unwatched>>

CoreTypeOK ==
    /\ cores \in [Machines -> {"old", "new"}]
    /\ shown \in [Machines -> {"old", "new"}]
    /\ backup \subseteq Machines
    /\ blacklisted \subseteq Machines
    /\ reaper \in BOOLEAN /\ changeable \in BOOLEAN /\ wasDisabled \in BOOLEAN
    /\ hosts \subseteq Machines
    /\ unwatched \subseteq Machines

CoreInit ==
    /\ cores = [m \in Machines |-> "old"]
    /\ shown = cores
    /\ backup = {} /\ blacklisted = {}
    /\ reaper = TRUE
    /\ changeable = FALSE /\ wasDisabled = FALSE
    /\ hosts = {} /\ unwatched = {}

\* Machines that take other cores when their container starts next.
Pending == {m \in Machines : cores[m] # shown[m]}

\* Machines that are not UP are left out, of both rounds.
Run ==
    /\ \E up \in {{m \in Machines : Up(m)}} : Begin("cores", "core check", up) /\ hosts' = up
    /\ UNCHANGED <<machineVars, faults, cores, shown, backup, blacklisted, reaper, changeable,
                   wasDisabled, unwatched>>

\* Failed hosts, clients and nodes are reported, but only a rebuild is waited
\* for.
CheckRebuild ==
    /\ At("cores", "core check")
    /\ FullyProtected
    /\ Goto("core reaper")
    /\ UNCHANGED <<machineVars, faults, coreVars>>

\* What is off already is left off in the end.
DisableGrimReaper ==
    /\ At("cores", "core reaper")
    /\ wasDisabled' = ~reaper
    /\ reaper' = FALSE
    /\ Goto("core allow")
    /\ UNCHANGED <<machineVars, faults, cores, shown, backup, blacklisted, changeable, hosts,
                   unwatched>>

\* The test of an empty answer fails, and so the grim reaper passes for enabled.
CfgdumpFails ==
    /\ At("cores", "core reaper")
    /\ Fails("core cfgdump")
    /\ wasDisabled' = FALSE
    /\ reaper' = FALSE
    /\ unwatched' = unwatched \cup Pending
    /\ Goto("core allow")
    /\ UNCHANGED <<machineVars, cores, shown, backup, blacklisted, changeable, hosts>>

AllowChange ==
    /\ At("cores", "core allow")
    /\ changeable' = TRUE
    /\ Goto("core next")
    /\ UNCHANGED <<machineVars, faults, cores, shown, backup, blacklisted, reaper, wasDisabled,
                   hosts, unwatched>>

\* No SSH to a host, or "Unable to modify ...": the setting or the look at it
\* failed.
SettingFails ==
    /\ \/ Fault("cores", "core check") /\ UNCHANGED <<reaper, changeable>>
       \/ Fault("cores", "core reaper") /\ reaper' \in {reaper, FALSE} /\ UNCHANGED changeable
       \/ Fault("cores", "core allow") /\ changeable' \in {changeable, TRUE} /\ UNCHANGED reaper
    /\ End
    /\ UNCHANGED <<machineVars, cores, shown, backup, blacklisted, wasDisabled, hosts, unwatched>>

Unneeded(m) ==
    /\ At("cores", "core next") /\ First(m)
    /\ shown[m] = "new"
    /\ PassOver(m)
    /\ UNCHANGED <<machineVars, faults, coreVars>>

\* "Skipping": the script cannot be copied there.
CopyFails(m) ==
    /\ Fault("cores", "core next") /\ First(m)
    /\ shown[m] # "new"
    /\ PassOver(m)
    /\ UNCHANGED <<machineVars, coreVars>>

\* "Unable to download file": the script exits, and resets nothing.
DownloadFails ==
    /\ At("cores", "core next") /\ \E m \in todo : First(m) /\ shown[m] # "new"
    /\ Fails("core download")
    /\ End
    /\ UNCHANGED <<machineVars, coreVars>>

\* The resources as they were are kept once and never overridden; nothing in
\* the scripts removes the file.
Backup(m) == m \notin backup /\ backup' = backup \cup {m}

\* A second update of the machine gives up.
BackupExists(m) == m \in backup /\ UNCHANGED <<faults, shown, backup, unwatched>>

StagingFails(m) == Backup(m) /\ Fails("core next") /\ UNCHANGED <<shown, unwatched>>

\* The new numbers are staged, and stay so until something restarts the container:
\* a node they add has no port to preserve (KeyError), or the import or the apply
\* fails.
ApplyFails(m) ==
    /\ Backup(m)
    /\ Fails("core next")
    /\ shown' = [shown EXCEPT ![m] = "new"]
    /\ unwatched' = unwatched \cup {m}

\* update_core_config.py ends well: its apply restarts the container.
Distribute(m) ==
    /\ At("cores", "core next") /\ First(m)
    /\ shown[m] # "new"
    /\ TakeUp(m, "core rebuild")
    /\ Backup(m)
    /\ Restarts(m)
    /\ shown' = [shown EXCEPT ![m] = "new"]
    /\ UNCHANGED <<faults, cores, blacklisted, reaper, changeable, wasDisabled, hosts, unwatched>>

SshFails == Fails("core next") /\ UNCHANGED <<shown, backup, unwatched>>

\* What ssh returns is not looked at.
DistributeFails(m) ==
    /\ At("cores", "core next") /\ First(m)
    /\ shown[m] # "new"
    /\ TakeUp(m, "core rebuild")
    /\ SshFails \/ BackupExists(m) \/ StagingFails(m) \/ ApplyFails(m)
    /\ UNCHANGED <<machineVars, cores, blacklisted, reaper, changeable, wasDisabled, hosts>>

\* A sleep comes first, which is to outlast the detection of the restart.
WaitForRebuild(step, next) ==
    /\ At("cores", step)
    /\ LateDetection \/ risk[machine] # "unseen"
    /\ FullyProtected
    /\ Goto(next)
    /\ UNCHANGED <<machineVars, faults, coreVars>>

\* Mutant: nodes that are starting count as UP.
WaitForAnyNodes(step, next) ==
    /\ At("cores", step)
    /\ \A m \in Matches[machine] : container[m] # "down"
    /\ Goto(next)
    /\ UNCHANGED <<machineVars, faults, coreVars>>

WaitForNodes(step, next) ==
    /\ At("cores", step)
    /\ \A m \in Matches[machine] : Up(m)
    /\ Goto(next)
    /\ UNCHANGED <<machineVars, faults, coreVars>>

\* A query that fails lists no node that is not UP.
NodeQueryFails(step, next) ==
    /\ Fault("cores", step)
    /\ Goto(next)
    /\ unwatched' = unwatched \cup (Pending \cap {machine})
    /\ UNCHANGED <<machineVars, cores, shown, backup, blacklisted, reaper, changeable,
                   wasDisabled, hosts>>

\* Numbers that are staged but not applied pass for new ones.  "Failed applying
\* new core allocations": the setting is taken back, the grim reaper gets its
\* grace back but stays off.
Validate ==
    /\ At("cores", "core validate")
    /\ IF shown[machine] = "new" THEN Goto("core next") /\ UNCHANGED changeable
       ELSE End /\ changeable' = FALSE
    /\ UNCHANGED <<machineVars, faults, cores, shown, backup, blacklisted, reaper, wasDisabled,
                   hosts, unwatched>>

\* Mutant: one past the last host.
DistributedPastEnd ==
    /\ At("cores", "core next") /\ todo = {}
    /\ pc' = (IF Blacklisting THEN "core black" ELSE "core enable")
    /\ todo' = Machines \cup {Cardinality(Machines) + 1}
    /\ UNCHANGED <<machineVars, faults, coreVars, tool, machine, all>>

Distributed ==
    /\ At("cores", "core next") /\ todo = {}
    /\ pc' = (IF Blacklisting THEN "core black" ELSE "core enable")
    /\ todo' = hosts
    /\ UNCHANGED <<machineVars, faults, coreVars, tool, machine, all>>

\* The nodes are picked with grep by the hostname.
Blacklist(m) ==
    /\ At("cores", "core black") /\ First(m)
    /\ TakeUp(m, "core readmit")
    /\ container' = [k \in Machines |-> IF k \in Matches[m] /\ Up(k) THEN "fenced" ELSE container[k]]
    /\ Exposes(Matches[m])
    /\ blacklisted' = blacklisted \cup Matches[m]
    /\ UNCHANGED <<s3, faults, cores, shown, backup, reaper, changeable, wasDisabled, hosts,
                   unwatched>>

\* "Unable to add node", or no list of nodes to add.
BlacklistFails(m) ==
    /\ Fault("cores", "core black") /\ First(m)
    /\ TakeUp(m, "core rebuilt")
    /\ UNCHANGED <<machineVars, coreVars>>

Readmit ==
    /\ At("cores", "core readmit")
    /\ blacklisted' = blacklisted \ Matches[machine]
    /\ Goto("core rebuilt")
    /\ UNCHANGED <<machineVars, faults, cores, shown, backup, reaper, changeable, wasDisabled,
                   hosts, unwatched>>

\* "Unable to remove node": the script goes on to wait for it.
ReadmitFails ==
    /\ Fault("cores", "core readmit")
    /\ Goto("core rebuilt")
    /\ UNCHANGED <<machineVars, coreVars>>

Blacklisted ==
    /\ At("cores", "core black") /\ todo = {}
    /\ Goto("core enable")
    /\ UNCHANGED <<machineVars, faults, coreVars>>

EnableGrimReaper ==
    /\ At("cores", "core enable")
    /\ reaper' = (reaper \/ ~wasDisabled)
    /\ Goto("core forbid")
    /\ UNCHANGED <<machineVars, faults, cores, shown, backup, blacklisted, changeable, wasDisabled,
                   hosts, unwatched>>

ForbidChange ==
    /\ At("cores", "core forbid")
    /\ changeable' = FALSE
    /\ End
    /\ UNCHANGED <<machineVars, faults, cores, shown, backup, blacklisted, reaper, wasDisabled,
                   hosts, unwatched>>

\* The grim reaper cannot be enabled, or the setting not be taken back.
ResetFails ==
    /\ \/ Fault("cores", "core enable") /\ Goto("core forbid")
       \/ Fault("cores", "core forbid") /\ End
    /\ UNCHANGED <<machineVars, coreVars>>

Script ==
    \/ CheckRebuild \/ DisableGrimReaper \/ CfgdumpFails \/ AllowChange \/ SettingFails
    \/ \E m \in Machines : Unneeded(m) \/ CopyFails(m) \/ Distribute(m) \/ DistributeFails(m)
    \/ DownloadFails
    \/ WaitForRebuild("core rebuild", "core nodes")
    \/ WaitForNodes("core nodes", "core validate")
    \/ NodeQueryFails("core nodes", "core validate")
    \/ Validate \/ Distributed
    \/ \E m \in Machines : Blacklist(m) \/ BlacklistFails(m)
    \/ Readmit \/ ReadmitFails
    \/ WaitForRebuild("core rebuilt", "core back")
    \/ WaitForNodes("core back", "core black")
    \/ NodeQueryFails("core back", "core black")
    \/ Blacklisted \/ EnableGrimReaper \/ ForbidChange \/ ResetFails

\* Between runs the operator takes nodes off the blacklist.
Unblacklist(m) ==
    /\ tool = "none"
    /\ m \in blacklisted
    /\ blacklisted' = blacklisted \ {m}
    /\ UNCHANGED <<clusterVars, cores, shown, backup, reaper, changeable, wasDisabled, hosts,
                   unwatched>>

Step == Run \/ Script \/ \E m \in Machines : Unblacklist(m)

\* Nodes that were on the blacklist join again, but nothing is restarted.
ContainerReady(m) ==
    /\ Comes(m)
    /\ m \notin blacklisted
    /\ IF container[m] = "starting"
       THEN cores' = [cores EXCEPT ![m] = shown[m]] /\ unwatched' = unwatched \ {m}
       ELSE UNCHANGED <<cores, unwatched>>
    /\ UNCHANGED <<scriptVars, faults, shown, backup, blacklisted, reaper, changeable, wasDisabled,
                   hosts>>

-----------------------------------------------------------------------------
\* A host takes new cores only while the grim reaper is off, even when a run was
\* interrupted and the restart outlasts it: what the grim reaper was before is
\* restored by a run that saw all hosts back, or not at all (lines 484-498, 601).
\* Excepted are the hosts on which the apply failed, or whose restart a failing
\* query hid from the script: there the grim reaper may be on again.
CoresChangeWithoutReaper ==
    [][\A m \in Machines : cores'[m] # cores[m] => ~reaper \/ m \in unwatched]_coreVars
=============================================================================
