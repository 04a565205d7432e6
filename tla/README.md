# A TLA+ model of the Weka deployment tools

The repository holds an Ansible playbook that deploys Weka storage clusters and
the tools that service a running one: the converter from one container per
backend (SBC) to several (MBC), two rolling upgrades, the change of failure
domains, the reallocation of cores, the migration of S3 from etcd to KWAS, the
NVKV watchdog, the summary of placements that says which drives to revive, and the
generator of resources files they rest on. This project
models the tools that change a *live* cluster or tell somebody how to, checks the models with TLC on small
instances, and proves their main safety properties with TLAPS for any number of
machines, faults and runs.

Paths below are relative to `src/scripts/mcb-converter/tools-master/` unless they
start with `src/`; `divider` is
`topics/MBC_cluster_conversion/mbc_divider_script.py`, `convert` is
`topics/MBC_cluster_conversion/convert_cluster_to_mbc.sh`, `um` is
`postinstall/upgrade_many.py`, `fd` is
`postinstall/change_failure_domains_to_manual.py`, `ru` is
`postinstall/rolling_upgrade.sh`, `cr` is `postinstall/core_reallocation.sh`,
`etcd` is `topics/S3/etcd-migration/src`, `rg` is `install/resources_generator.py`,
`nvkv` is `postinstall/nvkv_exhaustion.py`, `ps` is
`postinstall/placement_summary.py`.

## 1. The system

| Component | State it keeps | Operations | Interacts with | Hard behaviour | What makes it correct |
|---|---|---|---|---|---|
| MBC divider (`divider`) | phase, `container_name`, `protocols_in_host`, `s3_status`, `nfs_ifgs_to_add`, backup file | one command after the other: checks, protocol removal, stop, set-up, drive move, protocol re-adding, boot list, removal | the machine's agent, the cluster | any command may fail, no rollback, the machine may reboot | protocols keep a quorum, nothing stopped serves, the machine stays bootable, what was served is served again |
| MBC conversion (`convert`) | the list of machines, `$HOST`, stop file, override key | checks, loop over the machines, waits for rebuild and nodes | runs the divider over ssh | reruns after failures, `-s`, stop file at any moment | one machine at a time; every run ends; all machines end up converted |
| Rolling upgrade (`um`) | list of hosts, `source_version`, `upgrade_all_already_checked` | health wait, prompt, stop, data directory move, version set, start, rollback | the cluster, each host over ssh | failed starts, unchecked calls, a wait for a rebuild to start | one machine at a time; a rollback restores; all hosts end up upgraded |
| Failure domain change (`fd`) | list of hosts with their failure domain type | prompt, S3 drain and stop, new name, restart, S3 start and undrain, waits | the cluster, each host over ssh | timeouts of the waits, runs that die with S3 away | one machine at a time; S3 drained and stopped on one host |
| Rolling upgrade driver (`ru`) | list of machines, version | health wait, prompt, stop, rename of the data directories, version set, start, health wait | the cluster, each machine over ssh | `set -e` suspended in conditions, leftovers of earlier attempts | one machine at a time; success means upgraded |
| Core reallocation (`cr`) | the backends that were UP, grim reaper and permission flags of the cluster, blacklist | disable reaper, allow changes, distribute, validate, blacklist, readmit, restore | runs `update_core_config.py` on each backend, which stages and applies | early exits leave global settings behind; queries that fail pass for good news; names matched in part; a backup that is never removed; staged numbers pass for applied ones | cores change only with the reaper off |
| etcd migration (`etcd`, `main.py`) | the step, the hosts of a step, the prompt's answer | enter read-only mode, copy, validate, drain and restart each host, leave the mode, disable etcd, revert | the S3 cluster, MinIO of each host | commands whose failure is not seen, restarts of MinIO between steps, clients that write meanwhile, a point of no return | no acknowledged write is lost, no split brain, the cluster becomes writable again |
| Resources generator (`rg`) | devices, drives, allocated cores, nodes, containers | one method after the other, with refusals and prompts | called by the divider | arithmetic at boundaries, loops that need a node to end | nothing is given twice, everything asked for is placed, memory suffices, it ends |
| NVKV exhaustion (`nvkv`) | stall file | set a drive Unwritable, or reset a drive node: all drives, drain, delay, restart | the cluster; cron or a loop | killed and restarted at any point, failures noticed late | restarts within the failures allowed, drained first, no more nodes written off than allowed, every full drive is handled |
| Placement summary (`ps`) | none: it reads and prints | keep the last report of a placement, needed drives of each, drop what follows from others | asks every compute node | the order of reports and of a list sorted by size only | the drives it names are exactly those that make all buckets available |
| Weka role (`src/roles/weka`), Make dispatch (`src/Makefile`) | none of their own | deploy, destroy, start and stop IO, change password: lists of shell commands | every host, through Ansible | | |
| Filesystem and protocol roles (`src/roles/{wekafs,s3,nfs,smb,obs}`) | none of their own | one or two `weka` commands each | the Weka role's cluster | | |
| Host, MinIO, HAProxy, keepalived roles; Kickstart; admin scripts; upgrade checker; prodiags; install scripts; reports; locator-info | none over several steps | configuration files, read-only checks | | | |

`PROJECT.json` lists every component with the reason where one is not modelled,
and under "hazards" the places of the code the properties are aimed at.

## 2. Plan

1. *(done)* `RollingMaintenance`: the promise every rolling tool makes.
2. *(done)* `MbcDivider` and `ConvertCluster`, which composes it: the most
   dangerous program of the repository, a rollback-free conversion of live data.
3. *(done)* `UpgradeMany`: the second rolling tool, under the same abstract
   specification.
4. *(done)* `FailureDomains`, `RollingUpgrade`, `CoreReallocation`, and
   `Maintenance`, which composes them on one cluster, again as a refinement.
5. *(done)* `EtcdMigration`: the steps, the writers, the point of no return.
6. *(done)* `NvkvExhaustion` and `ResourcesGenerator`.
7. *(done)* `PlacementSummary`: advice that nobody can try out beforehand.
8. *(done)* Proofs: every invariant that a run checks, the refinements and the
   action properties.

What could follow: the blacklisting of clients in `cr` and `-b` of `cr` and
`convert`; the skipping flags of `um` and `fd`.

**Not modelled.** The upgrade checker (`weka_upgrade_checker.py`, the
longest program), `prodiags`, `locator_info.py`, the `scripts.d` checks and
the other reports of `postinstall/` read a cluster and print a verdict: no step of them
changes anything, and no property relates two of their checks. The Ansible roles,
the makefile, `install/*.sh` and the scripts under `src/scripts/` are straight
lists of commands without waits, retries or state of their own: a model would be
one of Ansible and of the `weka` command line, not of this code. Kickstart and
network files are static.

## 3. Modules

### RollingMaintenance

The abstract specification. Its only variable is the set of machines whose share
of the data misses a copy (`exposed`). `TakeDown(m)` is allowed when no machine
other than `m` is in the set, `Reprotected(m)` removes `m`. The rolling tools are
shown to implement it: `OneMachineAtATime == Rolling!Spec` in `ConvertCluster`,
`UpgradeMany` and `Maintenance`, with `exposed` mapped to the machines whose `risk`
is not `"none"`.

### MbcDivider

One action per command, or per group of commands between which nothing the
properties can tell apart happens, of `main()` in `divider`, for one machine `h`. Three groups of
variables:

- *the machine*: `up`, `exist`, `boot` (containers that run, are set up, start at
  boot), `drives` (which container holds the drives), `backup`
  (`resources.json.backup` exists), `risk`. `risk[h]` is `"unseen"` from the stop
  of the container that holds the drives until the cluster notices (`Notice`),
  then `"rebuilding"` until the data is protected again (`RebuildDone`);
- *the cluster*: `record` (the old host is active, inactive or gone), `s3`,
  `draining`, `smb`, `ports`. Host ids are pairs of machine and container;
- *the script*: `pc` (its phase, exit status, or `"none"`), `name`, `force`,
  `protocols_in_host`, `s3_status`, `nfs_ifgs_to_add`.

`LocalCheck`, `Prepare`, `S3Check`, `SmbCheck`, `NfsCheck` are the checks;
`S3Undrain`, `S3StartDrain`, `S3Drained`, `S3Update`, `SmbRemove`,
`NfsRemovePort`, `NfsRemoved` take the protocols off; `StopOld`, `SetUpDrives`,
`MoveDrives`, `SetUpCompute`, `SetUpFrontend` (or `RestartAsFrontend` and
`StartS3` with `--keep-s3-up`) replace the container; `ReaddS3`, `ReaddSmb`,
`ReaddNfs` put the protocols back; `BucketsActive`, `Enable`, `Disable`,
`Deactivate`, `RemoveHost`, `Cleanup` finish.

Faults: `CommandFails` (any command of a phase raises, or its bounded wait runs
out), `MoveGivesUp` (the 180 rounds of the drive loop pass without success),
`Reboot` (of the machine being divided). `FaultAt` says where they may happen and
`MaxFaults` how many there are. A command that both takes effect and reports a
failure is not distinguished from one that fails before taking effect in the next
phase, except that the last phase's effect is then complete.

Assumptions about what is outside the code, all in the actions' comments: a host that drains
is what makes `weka s3 cluster status` report a member that is not ready (the
message at divider:534); `weka local setup` refuses the name of a container
that exists; a boot takes longer than the cluster takes to notice that nodes are
down, and so do the 180 rounds of the drive loop; nobody else edits the protocol
clusters. Each removal from a protocol cluster is one atomic step, and so are `weka
cluster host remove` and the removal of the local container after it; what the cluster
does while a removal is under way is not told apart. Not modelled: dry run, interactive mode, mounts and ssh checks (they are
failures of their phase), `check_etcd_health` (divider:133; its loop has no bound and no
error when etcdctl returns an empty list, and etcd's state is not modelled), the stop of S3 that `-O` forces
after a drain check that failed (divider:329-331, convert:119-121), the
resources themselves.

### ConvertCluster

EXTENDS `MbcDivider` and adds the shell script: `Start(f)` (with or without `-f`)
reads the machines that are listed UP, `Prechecked`/`PrechecksFail` are the
checks before the loop, `Distribute` takes the next machine and starts the
divider on it, `Divide` is a step of it, `HostSucceeded`/`HostFailed` look at its
exit status, `RebuildWaited` and `NodesWaited` are the two waits, `Answer` the
question asked under `-s`, `StopFileSeen` and `TouchStopFile` the stop file,
`Finish` the end of `main()`. Any run may be followed by another. `reported` and
`failed` are history: the machines logged as converted and as not converted.
Machines are taken in the order of their numbers, as `weka cluster host` lists
them in the same order every time. `-b` (a single machine) is not modelled.
The wait for the rebuild reads `progressPercent` 0 (convert:426-434), which is what a
rebuild shows that has only just begun, too; the model, here and for the like waits of `cr` and
`ru`, reads whether data misses a copy.

### UpgradeMany

One action per step of `upgrade_flow()`. State: per host `up`, `version` (set by
`weka version set`), `datadir` (the version its data directory is named after),
`release` (what the cluster knows), `agent`, `risk` as above; the script's `pc`,
`host`, `todo`, `known` (the version the list of hosts gave for a host that was
down; the others are asked in their turn), `all`. `Repair` and `Interrupt` are the operator, who makes a
container run that was left down and stops a script that waits in vain.
`SlowRebuild` says that a rebuild outlasts the restart that caused it, `LateDetection`
that a run may begin before the cluster noticed what a run that died had stopped: nothing
in the script waits for that. Not
modelled: `-s`, `--skip-prepare-upgrade`, `--skip-local-start`.

### Cluster, FailureDomains, RollingUpgrade, CoreReallocation, Maintenance

`Cluster` is what the scripts of `postinstall/` share. Per machine `container`
(up, starting, fenced by the blacklist, down), `risk` as above and `s3` (ready,
draining, stopped in drain mode, or off, stopped without a drain); of the script that
runs, `tool`, `pc`, `machine`, `todo` and `all` (the operator answered "all"). `Begin`,
`TakeUp`, `PassOver`, `Goto`, `End` are the steps of any of their loops. `Restarts`
restarts the one container, `StopsAll` and `StartsAll` all containers of a machine with that of
S3; `Notice`, `RebuildDone` and `Comes` are the cluster's. `LateDetection` says
whether a machine may be back, or a run begin, before the cluster noticed its absence.

- `FailureDomains` (`fd`): `fd`, `staged` (what the resources on disk ask for)
  and the list `listed` made at the start. `WaitForActive`,
  `WaitForHealthy`, `Prompt`, the checks of etcd and of the S3 cluster (which undrains
  the host itself: `UndrainOwn`), `Drain`, `Drained`, `DrainTimesOut`, `StopS3`,
  `SetName`, `Apply`, `WaitForContainerReadiness`, `StartS3AndUndrain`,
  `WaitForUnhealthyCluster`, then the health wait again.
- `RollingUpgrade` (`ru`): `version`, `datadir` per container, `leftover`
  directories of earlier attempts, `renamed`, `skipped`. `Stop` takes S3 down with the
  machine, undrained, whatever S3 does elsewhere; `StopUnlisted` is a list of containers that is
  empty or could not be had, so that nothing is renamed. `RenameDataDir` backs up
  and renames; `BackupFails` is the failure that `||` hides from `set -e`;
  `DataDirMissing` compares version strings as the code does: `SortsAsOld` are the
  machines where "3.5" is not less, which may be all, as the version is read without `jq -r`
  and begins with a quote (309). Clients take the
  same path as backends and are not told apart.
- `CoreReallocation` (`cr` and `update_core_config.py`, which it runs on each
  machine): `cores`, `shown` (what the cluster shows of a machine, staged
  numbers included, by which `cr` takes a machine for done), `hosts` (the backends that
  were UP at the start: others are neither changed nor waited for), `backup` (machines whose
  resources were saved: a second update of these gives up), `blacklisted`, `reaper`,
  `changeable`, `wasDisabled`, and the history `unwatched`. `CheckRebuild`,
  `DisableGrimReaper`, `AllowChange`, `Distribute`, and
  `CopyFails` and `DistributeFails`, the ways in which it does not come to a restart,
  the waits, `Validate` (whose failure takes the permission away but leaves the
  reaper off), `Blacklist`, `Readmit`, `EnableGrimReaper`, `ForbidChange`. What may fail:
  `CfgdumpFails` (the reaper passes for enabled), `SettingFails`, `DownloadFails` (the run
  exits and resets nothing), `NodeQueryFails` (no answer passes for all nodes UP),
  `BlacklistFails`, `ReadmitFails`, `ResetFails`. `Matches[m]` are the machines whose
  lines of `weka cluster nodes` the unanchored `grep` for `m` picks: all of them are blacklisted.

`Maintenance` INSTANCEs the three on the same cluster: the operator runs them
one after the other, in any order and any number of times, each finds what
the last left, and `Interrupt` ends one that waits in vain. A restarted container
takes up the new name and the new cores staged for it, whichever script staged them and
whichever restarts it (`weka local resources apply -f` of fd:418 applies what `cr` staged), and
needs the data directory of its version (`ContainerReady` composes the three). Cores that an
apply which failed has left staged are `Pending` until then. Between runs the operator may
repair what a failure left: `RestoreS3`, `Repair`, `Unblacklist`. Assumed of what is
outside the code: no machine fails by itself, the three scripts do not run at the
same time, and `weka` commands that succeed do what they report.

### EtcdMigration

`main.py` and its `src/`: one action per step, prompt, wait and validation. Per S3
host `client` (the store its MinIO runs with), `readonly`, `force`, `draining`;
the cluster's `enabled`; the `copy`; the contents of the two stores and `acked`,
the writes whose clients were told they are done; the script's `pc`, `todo`, `cur`,
`reverting`, `checked`, `warned`; and the history `stray` and `mixed`. `send_bash_command` drops stderr (helpers.py:107),
so a failing command is a step without effect, and only the validations notice.
`Write`, `CopyEnds` (complete, or not; it may put values of etcd over newer ones that clients
wrote to KWAS alone, which are then lost), `Crash` (MinIO of a host is restarted by its supervisor, at
any time) and the operator's `Cancel`, `Undrain`, `Start`,
`Revert` and `ExitAtPrompt` interleave with it. Modelled from how the code uses
it: the store MinIO starts with (`Boot`), the entries a copy adds, and that a
read-only host refuses writes. A subset of the hosts (`--hosts`) is not modelled:
it leaves two stores in use.

Between the exit of a host from the read-only mode (steps.py:165) and `--etcd-enable=off`
(175), MinIO that restarts comes up with etcd: `force` is reset by the exit, etcd is still
enabled. Such a host is a `stray`; the prompt before the last step and a run that was
aborted there leave the gap open for long. `mixed` records that this happened, or that a run
began to copy etcd over KWAS again when hosts had already left the mode with KWAS.

### NvkvExhaustion

One check of `nvkv` from its start to its end, one action per command or wait;
`full`, `state` (a drive is asked to become Unwritable before it is), `node`,
`risk`, the check's `fullest`, `seen`, `target`, `todo`, the stall file
`stalled`. `Killed` ends it anywhere, and the next check begins from the
cluster's state. The delay before a restart is a sleep: `missed` are the nodes whose earlier
restart was still unnoticed when the script looked for failures a last time. With `StallFile`
a critical error keeps the script from checking until somebody removes the file; without, the default,
it does not, and `stalled` is the event alone. The percentages are abstracted to "at the threshold or not",
which is all `drives.sort` and the comparisons use; drives are filled one by one
(`Fill`), nodes fail (`Fails`), come back, are noticed.

### ResourcesGenerator

The run of `rg` on one machine, one action per method or per round of its loops.
`Arguments` is a set of command lines, the machine is given by constants
(`AllCpus`, `FirstSibling`, `NumaOf`, `Memory`, `Disks`, `Nics`, `Master`). Memory is
counted in hundredths of a GiB, as the program rounds. A warning may be
overridden (`asked`, or `force` on the command line), a refusal ends the program, an
exception of the code ends it in `"raised"`. In a cloud (`metadata`) every device is
exclusive to its node or is dropped. The formatting of addresses, MACs and
sizes and the JSON written are abstracted to what they name; a size that does not
parse or an address that is not one is a command line of its own.

### PlacementSummary

What `ps` computes from the reports of the nodes, as operators without a state: the last
report of each placement (`Latest`), those whose stripe could be probed
(`Examined`), what a placement with too many failures needs (`NeededRecovery`), the drives
that must be revived (`MustRevive`), what is left of the others (`Reduced`) and which of
these are printed (`Printed`, over any list that the sort may leave, as it looks at
sizes only). `FailedSlots`, `Available` and `Follows` are what the advice
is about: a slot that is dirty stays lost, one that is down comes back with its
drive. `AdviceExact` and `CanBeRevived` say that the advice is right and that the
assertion of ps:172 holds. TLC evaluates both on all reports of
two small stripes, as assumptions of `MCNvkv`.

### MC modules

`MCConvertCluster`, `MCUpgradeMany`, `MCMaintenance`, `MCEtcdMigration`, `MCNvkv`
and `MCResources` hold the instances for TLC; `MCConvertCluster` also has TLC
evaluate that its instances meet the requirements of `OnlyFaultsFail` (section 7).
Machines are taken in a fixed order,
so they are numbers and no symmetry is declared. Definitions commented
"Mutant" in the modules are variants of one action with a plausible bug; each
property is known to fail on one of them.

### Proof modules

`ConvertClusterProofs`, `ProtocolQuorumProofs` (on top of it),
`UpgradeManyProofs`, `MaintenanceProofs`, `EtcdMigrationProofs`, `NvkvProofs`,
`ResourcesProofs`, `PlacementProofs`: section 7.

## 4. Runs

| Run | Instance | Shows |
|---|---|---|
| `MCConvertFaults` | 2+2 machines, S3, SMB and one NFS group, 2 faults of any kind, reruns, 1 stop file, old containers removed | `ProtocolQuorum`, `StoppedServesNothing`, `RebootServiceable`, `ReportedServesAsBefore`, `FailsOnlyByFault`; `OneMachineAtATime` (refinement); types |
| `MCConvertKeepS3` | 3+2 machines, one without a frontend, `--keep-s3-up` and `-s`, 2 faults | `OneDraining` where S3 members are drained and not removed and failures are skipped |
| `MCConvertLiveness` | as the first, faults up to the removal from S3 | `EventuallyConverted`, `RunEnds`; no deadlock |
| `MCConvertGiveUp` | no protocols, the drive loop gives up once | **fails** `ReportedIsConverted` |
| `MCUpgradeFaults` | 3 hosts, 2 with drives, 2 faults, rebuilds of any speed, runs that begin after the cluster noticed what the last one stopped | `OneMachineAtATime` (refinement), `UpgradedStayUp`; types |
| `MCUpgradeLiveness` | 2 hosts, 2 faults outside the rollback, slow rebuilds, runs that begin at any time | `RollbackStartsBackUp`, `EventuallyUpgraded`; no deadlock |
| `MCMaintenance` | 2 machines with 2 containers, a leftover directory and a version that sorts before 3.5 on the first, all three scripts, 2 faults of any kind, no name part of another (`Matches <- Apart`) | `OneMachineAtATime` (refinement), `OneS3Away`, `CompletedIsUpgraded`, `CoresChangeWithoutReaper`; types; no deadlock |
| `MCMaintenanceRace` | the failure domain change alone, no fault, restarts noticed late | **fails** `OneMachineAtATime` |
| `MCEtcdFaults` | 3 hosts, 2 writes, prompts, 2 faults of any kind, restarts of MinIO at any time among them | `AckedReadable`, `NoSplitBrain`, `OneHostDrained`; types; no deadlock |
| `MCEtcdLiveness` | 2 hosts, 1 write, automatic mode, 2 faults | `AlwaysWritableAgain`, `EventuallyOnKwas` |
| `MCNvkv` | 3 nodes with 2, 1 and 1 drives, one Unwritable and no failure allowed, no stall file (a superset of what one allows), 2 fills, 2 faults; all reports about two stripes of four drives | `RestartsWithinAllowed`, `UnwritableBounded`, `RestartsDrained`, `FullIsHandled`; types; no deadlock |
| `MCResources` | some 1300 command lines on 12 cores, 14 CPUs, 2 unequal NUMA nodes, 3 drives, 6 interfaces | `CoresExclusive`, `NumaBalanced`, `NodesPlaced`, `PortsDisjoint`, `DrivesPlaced`, `DevicesSuffice`, `MemoryFits`, `Terminates`; types |

The bounds. *Conversion*: two machines to convert and two that only serve
protocols are the smallest cluster in which the checks for four members let a
conversion start, one machine's failure can meet the conversion of another, and a
rerun meets both a converted and a failed machine. *Upgrades and maintenance*: two
machines are enough for one to be taken down while another is away; a third
(`MCUpgradeFaults`) lets one that failed lie before and behind the one in work.
Two containers let a rename fail half-way through a machine. *Migration*: three hosts
are the first, which makes the copy, the one in work and one that still waits; two
writes let a copy hold one and not the other. *NVKV*: two drives on one node are
what a reset sets Unwritable together, a second node is what must not restart
then, and with a third two faults can leave half of one node Unwritable and another
away while the script turns to the last. *Placements*: two stripes that share three of
their drives are the least in which one case follows from another; slots are dirty, down, or
both. Two faults everywhere: the smallest number that lets the rerun after a
failure fail again. *Resources*: the command lines reach the refusals and
warnings, enough containers to run over the ports of the agent and the talker,
NUMA nodes of unequal size, named cores with siblings and CPU 0 among them, shared
and exclusive devices by name and by MAC, a cloud, and amounts of memory that fit
and that do not.

Deadlock checking is off where the system really stops: a conversion whose faults
left a half-divided machine waits for its nodes for ever (convert:440-446), the
wait for a rebuild to start (um:61-85) never ends when the rebuild is over before
the first look, and the resources generator is a program that ends.

## 5. What the runs and the models say about the code

Two runs refute what the repository says of itself:

- `MCConvertGiveUp`: `for i in range(retries)` at divider:795 has no `else`. A
  move that never succeeds is followed by the removal of the host that holds the
  drives, and the machine is logged as successfully converted (convert:420).
- `MCMaintenanceRace`: fd:514 passes the timeouts to `upgrade()` by position, so
  that the one meant for the wait of fd:461 arrives as `skip_prepare_upgrade` and the
  wait, "wait for cluster to become unhealthy, in case hosts hasn't updated yet"
  (fd:459), lasts one second. A cluster that still looks healthy then passes the
  second check, and the next machine is restarted before the rebuild of the first began.

The models show more, where a property holds under a condition only. Each can be
seen by changing one constant of a cfg:

| What | Where | To see it |
|---|---|---|
| a group of NFS ports loses its last port when one host has two of them: ports are counted, the message at divider:523 speaks of hosts | divider:521 | `MCConvertFaults` with `PortsInit` of two ports on one machine: `ProtocolQuorum` |
| the wait for `frontend0` with `--keep-s3-up`, which creates none, raises a `KeyError` | divider:815 | `KeepS3Up = TRUE`: `FailsOnlyByFault` |
| after `-s` skipped a host whose drain timed out, S3 never becomes ready: the undrain names the current host | divider:535 | `SkipFailed = TRUE`: `RunEnds` |
| without `-c` the rollback dies of a `TypeError` with the container down | um:322 | `DefaultContainer = TRUE`: `RollbackStartsBackUp` |
| after a failed query of the drives the wait for the rebuild is skipped | um:242 | `FaultAt` with `"drivecheck"`: `OneMachineAtATime` |
| a host repaired during the health wait is stopped although it was upgraded: its version is from the list made at the start | um:172 | `RepairsInRun = TRUE`: `UpgradedStayUp` |
| a run of `um` that begins before the cluster noticed what the last one had stopped sees a healthy cluster and stops another host | um:100 | `MCUpgradeFaults` with `LateDetection = TRUE`: `OneMachineAtATime` |
| a rebuild that is over before the script first looks is waited for for ever | um:67 | `MCUpgradeLiveness` with `SlowRebuild = FALSE`: a deadlock, or `EventuallyUpgraded` |
| `cr` blacklists every machine whose name or address contains that of the one meant: with `weka1`, `weka10` too | cr:249 | `MCMaintenance` with `Matches <- Prefixed`: `OneMachineAtATime` |
| the health wait of `ru` times out and the next machine is upgraded all the same: its value is lost where `set -e` is off | ru:222 | `HealthTimeouts = TRUE`: `OneMachineAtATime` |
| the prompt offers a revert after the message that it is no longer supported; it loses the writes made since | steps.py:158, helpers.py:135 | `HeedsWarning = FALSE`: `AckedReadable` |

Others show in a property that is stated for all but the executions they are about; without
the exception TLC refutes it on the instance of the run:

| What | Where | To see it |
|---|---|---|
| a MinIO that restarts after its host left the read-only mode and before etcd is disabled serves from etcd beside hosts on KWAS, and lacks what was written to KWAS; the step's own text says that only the last step makes KWAS the default (steps.py:172) while the message before says that the cluster already runs with it for good (158) | steps.py:165-175 | `MCEtcdFaults`: `NoSplitBrain` over all `Hosts`, `AckedReadable` without `~mixed` |
| a copy that a later run makes when clients already write to KWAS puts old values of etcd over theirs | steps.py:97 | the same with `FaultAt` without `"crash"`: `AckedReadable` without `~mixed` |
| a restart that is still unnoticed after `--delay-before-restart` is followed by another beyond `--allowed-failures` | nvkv:161 | `MCNvkv`: `RestartsWithinAllowed` over all `Nodes` instead of `Nodes \ missed` |
| cores that a failed apply left staged are taken with the grim reaper on, when `fd`, `ru` or the operator restarts the container; so are those of a host whose restart a failing query hid | fd:418, cr:171 | `MCMaintenance`: `CoresChangeWithoutReaper` without `unwatched` |
| new cores are taken after the permission to change them was taken back | cr:186 | `MCMaintenance`: `[][cores' # cores => changeable]_coreVars` |
| `ru` stops S3 of its machine while `fd` left that of another stopped: no check of `ru` sees S3, and the cluster is healthy without it | ru:208 | `MCMaintenance`: `\E m \in S3Hosts : s3[m] = "ready"` |
| a failed backup moves the data into the old directory; the container comes up without them and the upgrade is reported completed | ru:242 | `MCMaintenance`: `CompletedIsUpgraded` with `datadir[m][c] = "target"` for all containers |

Observed while modelling, without a property:

- `divider`: after a failure that follows the removal of a protocol, the next
  run does not know of the membership and does not restore it, which is why
  `ReportedServesAsBefore` excepts machines that ever failed. The override of
  convert:289 is reset only at the end of `main()` (516): every exit in between leaves it
  set, in the code and in the model (`override`); no document says it must not.
- `fd`: S3 left stopped on a host whose failure domain is USER already is not started
  by the next run, which skips the host (369); the readiness check looks at
  `default` whatever `--container` says (337).
- `ru`: versions are compared as strings (249), so that 3.14 passes for older
  than 3.5; `Aborting` is called as a command (194).
- `cr`: exits 125-127, 183-187 and 485-489 leave the grim reaper off; a failing `cfgdump`
  reads a reaper that was off as on, and turns it on in the end (485); a machine that is down at
  the start is passed over in silence (18, 369); the usage (37) says that the blacklisting comes before the
  reallocation, and it comes after.
- `rg`: a bond given by two of its slaves is used twice (607); drives named with no
  drive node are handed out for ever (543), which `Terminates` excepts; drives named
  twice are not noticed (1009); core ids by role with exclusive devices run out
  of devices in the middle of a container (525), which `DevicesSuffice` excepts; drives
  found by itself beyond the number of drive nodes are not placed (541-542), so that
  `DrivesPlaced` speaks of named ones; where the least amount of memory does not fit it is
  written all the same, with a line in the log (868-870), which `MemoryFits` states as a case of its own; an
  answer "n" leaves the files written before it (1028).
- `nvkv`: an assertion (122) stalls the script when all drives are Unwritable,
  a case the comment at 96-99 expects; a reset that dies half-way leaves drives
  Unwritable, and the next check may turn to another node, so that
  `--max-unwritable` bounds the nodes with such drives only up to one more for each
  fault (`UnwritableBounded`).
- `etcd`: `--hosts` with some of the hosts leaves two stores in use.

## 6. Fairness

`FairSpec` of `ConvertCluster`: the two scripts run on (weak fairness of `Shell`
and of the divider's steps: they are sequential programs and every command
returns, its failure being a fault that is not required), the cluster notices and
rebuilds (weak fairness per machine), and the operator who wants the cluster
converted starts the script again with `-f` each time it stopped (strong fairness
of `Start(TRUE)`, since a run without `-f` may come between). Nothing is assumed
of stop files, failed prechecks or faults, which are bounded by `MaxStops` and
`MaxFaults`: with unboundedly many, nothing would ever be converted.

`FairSpec` of `UpgradeMany`: the script and the cluster go on; the operator
answers the prompt, with yes in the end (strong fairness of that answer, as "skip"
and "quit" are always possible), interrupts a script that waits for a container
that is down, repairs that container (strong fairness: the repair is possible
between runs only) and runs the script again.

`FairSpec` of `EtcdMigration`: the script goes on and is started again after it
exited (weak fairness of `Script` and `Start`), a copy ends, a wait in vain is
cancelled, and the operator undrains a host that stays drained (strong
fairness: the script undrains and drains hosts too). Crashes, failing
commands and reverts are faults or choices and are not required; automatic mode is what
lets the run be without them, as an operator who reverts for ever never migrates.

`FairSpec` of `NvkvExhaustion`: the check is run again and again and its waits time
out, a drive asked to becomes Unwritable, a node restarted comes back, a
rebuild ends. Nobody is obliged to remove the stall file: a drive that is full
is emptied or has been reported by it.

`FairSpec` of `ResourcesGenerator`: the program runs. `Maintenance` has safety and
refinement only, and no fairness: its waits are without bound or for an operator.

## 7. Proofs

What TLAPS proves, for every value of the constants that satisfies the named
assumptions (`DividerAssumption`, `ConvertAssumption`, `UpgradeAssumption`,
`ClusterAssumption`, `MaintenanceAssumption`, `MigrationAssumption`,
`NvkvAssumption`, `MachineAssumption`, `PlacementAssumption`: the typing of what
is given, finiteness and numbering of machines, and for `rg` what a
command line and a machine are) and what the last column adds:

| Module | Theorem | Property | Assumes |
|---|---|---|---|
| `ConvertClusterProofs` | `TypeCorrect` | `[]TypeOK` | |
| | `AtMostOneDrains` | `[]OneDraining` | |
| | `AlwaysRebootServiceable` | `[]RebootServiceable` | |
| | `NothingStoppedServes` | `[]StoppedServesNothing` | |
| | `ImplementsRolling` | `OneMachineAtATime` | `~SkipFailed` |
| `ProtocolQuorumProofs` | `ProtocolsKeepQuorum` | `[]ProtocolQuorum` | `OnePortPerHost(PortsInit)` |
| | `ReportedServe` | `[]ReportedServesAsBefore` | |
| | `OnlyFaultsFail` | `[]FailsOnlyByFault` | `Requirements` |
| `UpgradeManyProofs` | `TypeCorrect` | `[]TypeOK` | |
| | `ImplementsRolling` | `OneMachineAtATime` | `~LateDetection`, `~SkipWait`, `"drivecheck"` not in `FaultAt` |
| | `UpgradedAreLeftAlone` | `UpgradedStayUp` | `~RepairsInRun` |
| | `RollbackIsComplete` | `[]RollbackStartsBackUp` | `~DefaultContainer`, no fault of the rollback's own commands |
| `MaintenanceProofs` | `TypeCorrect` | `[]TypeOK` | |
| | `NeverTwoS3Away` | `[]OneS3Away` | |
| | `NeverCoresWithReaper` | `CoresChangeWithoutReaper` | |
| | `ImplementsRolling` | `OneMachineAtATime` | `~LateDetection`, `~HealthTimeouts`, `NamesApart` |
| | `ReportsUpgraded` | `[]CompletedIsUpgraded` | `~LateDetection`, `~HealthTimeouts` |
| `EtcdMigrationProofs` | `TypeCorrect` | `[]TypeOK` | |
| | `AlwaysReadable` | `[]AckedReadable` | `HeedsWarning` |
| | `NeverSplit` | `[]NoSplitBrain` | |
| | `NeverTwoDrained` | `[]OneHostDrained` | |
| `NvkvProofs` | `TypeCorrect` | `[]TypeOK` | |
| | `NeverTooManyRestarts` | `[]RestartsWithinAllowed` | |
| | `NeverRestartsUndrained` | `RestartsDrained` | |
| | `NeverSpreads` | `[]UnwritableBounded` | |
| `ResourcesProofs` | `Types` | `[]TypeOK` | |
| | `CoresAreExclusive` | `[]CoresExclusive` | |
| | `NumasAreBalanced` | `[]NumaBalanced` | |
| | `NodesArePlaced` | `[]NodesPlaced` | |
| | `PortsAreDisjoint` | `[]PortsDisjoint` | |
| | `DrivesArePlaced` | `[]DrivesPlaced` | |
| | `DevicesAlwaysSuffice` | `[]DevicesSuffice` | |
| | `MemoryAlwaysFits` | `[]MemoryFits` | |
| `PlacementProofs` | `AdviceHolds` | `AdviceExact` for all reports | every placement examined is `Probed`, the list is `Sorted` |
| | `RevivalSuffices` | `CanBeRevived` | `Probed`, no more dirty slots than the stripe survives |

`Requirements` (in `ConvertCluster`) is what the README of the conversion asks of a cluster: one host
more than each protocol's minimum, a frontend node on every machine that serves
one, and no `--keep-s3-up`.

None of the assumptions of the last column about the live tools can be dropped, but for
the finiteness of the ports in `Requirements`: TLC refutes the property
without it (most are in the table of section 5; the others are `SkipWait`, a
rollback whose own commands fail, `SkipFailed` with three machines,
`CompletedIsUpgraded` with `LateDetection`, and each part of `Requirements`: three members of S3
or of SMB, a single port, or a machine without a frontend make the divider fail with
no fault).

Each invariant is proved with a lemma for the initial states and one for the
steps, which has a case per action; the theorem combines them by PTL. The
invariants were checked by TLC, on the instances of section 4, before they
were proved. The arguments:

**Conversion, safety of a machine** (`ConvertClusterProofs`). None of the three
properties is inductive, as each depends on what the divider did in earlier phases.
`IInv` adds that:

- `DrainInv`: the divider's copy of the S3 membership is the cluster's, from the
  moment it is read to the update, and, when S3 was removed, again from the
  update until it is written back (`SnapshotInv`); what drains is a member. With
  this, the check of the copy for readiness is a check of the cluster, and the
  membership written by `S3Update` and `ReaddS3` loses nobody who drains.
- `BootInv`: what runs is set up; the container being divided is set up, and,
  since setting up an existing name is refused, is neither `drives0` nor
  `compute0` once these are set up; it is down from the stop on unless it became
  the frontend. With this, "disable the old container" leaves both new ones in the
  boot list.
- `ServeInv`: a `default` container that runs would run after a reboot, so a
  reboot never stops one that serves; up to the stop the container being divided
  runs, is drained or out of S3 after that removal, out of SMB and NFS after
  those; with `--keep-s3-up` no `frontend0` exists, so nothing is re-added to the
  stopped container.

**Conversion, quorum** (`ProtocolQuorumProofs`). Between the check for four
members and the removal of one nothing else removes (`MembersInv`), so three
remain: an argument on cardinalities. For NFS, the members of a group are counted by
ports; if no host has two ports of a group, which re-adding to the new frontend
preserves because the new name was not there before (`FrontendInv`), the check
found a port of the group on another host, and it stays until the removal (`PortsInv`).

**Conversion, what is served** (`ProtocolQuorumProofs`). Every machine that never
failed is untouched and serves from its old container (`Fresh`), or is converted
and serves from a new one that starts at boot (`Converted`), or is in work
(`HostsInv`). Of the one in work `ContainersInv` says phase by phase which containers exist, and
`ServiceInv` that each membership is still there, or noted in
`protocols_in_host` and `nfs_ifgs_to_add`, or given to a `frontend0` that runs;
after the re-adding nothing is noted, so that only the last is left. A machine
is in work once: if it did not fail, the divider ends at once on it the next time.
`DividerElsewhere` says that work on one machine leaves what others serve alone,
which for S3 holds because the list of members written is still the cluster's.
Without a fault no machine failed so far, so each protocol still has a member, or
a port, for each machine it had one on: an injection shows that the checks count as many as there
were at the start, the set-ups find their names free, and the frontend that the
re-adding waits for is there.

**Conversion, one machine at a time** (`ConvertClusterProofs`). The script never asks
whether another machine is exposed. After a machine that succeeded it waits for the
rebuild; after one that failed the argument is about the order of the list.
`RiskInv`: a machine before the exposed one either has several containers, on which
the divider exits at once, or none, and then `weka cluster host` does not list it
as UP; the exposed one is listed until the cluster notices, and then the wait for the
rebuild comes first. `UpInv` says what runs in each phase, `PassedInv` what is
known of the machines the loop is through with.

**Rolling upgrade** (`UpgradeManyProofs`). `RiskInv`: data miss a copy on the host
in work only, before a stop the health wait saw that none do, and after it the
wait for the rebuild to start saw that the cluster knows. A run that begins finds nothing
unnoticed, which is what `~LateDetection` is for. `VersionInv`: the version
a host was listed with is still the one it runs, if nobody repairs it meanwhile.
`RollbackInv`: what the rollback has put back so far.

**Maintenance** (`MaintenanceProofs`). One invariant per property, each saying what a
script knows at its steps: `S3Inv` that at the drain all of S3 was seen ready, that one host
at most is in drain mode, and that the rolling upgrade, which stops and starts S3 with its
machine, leaves a drain mode as it is; `ReaperInv` that a machine which has still to take up new cores is not
up, unless it is `unwatched`, and that the reaper stays off until the run which turns it on waited for all the others, also
over interrupted runs, since one that finds the reaper on finds none of them; `RiskInv` at which steps all data are
protected, and that the one machine blacklisted is the one meant (`NamesApart`); `UpgradeInv`
that machines passed run the target version and none but the one in work is away, for
which the health wait is needed: a start that returns says nothing of the nodes. A script keeps the invariants of
the others because `tool` says that it is not they that run, and because no script
brings a machine up by itself.

**Migration** (`EtcdMigrationProofs`). Up to the warning etcd is the store of the
writes and every host that is not read-only runs with it; after it, unless stores were `mixed`, KWAS is, every host
runs with it, and one that is read-only would come up with it again (`DataInv`).
What makes the switch possible is `HostInv`: between the check that all hosts are
read-only and their exit from the mode nothing is written, so that the validated copy stays
complete, and the hosts restarted so far were each seen with the store wanted. `CopyInv`
says that no copy runs once one was found complete, and that one made after the warning, as long as nothing is
mixed, is made with all hosts still read-only and etcd still complete, so that it changes nothing.
`RunInv` ties reverting to the warning. The other two theorems do without it:
`StoreInv` says that the mode is left with all hosts on one store, which a crash
until then would bring up again and one after it makes a `stray` of the host; and `DrainInv` which host a run that passed the
health check has drained.

**NVKV** (`NvkvProofs`). A restart is decided on when all nodes under restart were
seen to miss copies and were no more than the failures allowed; from then on that set
does not grow until the restart adds one node, but for those `missed`: a node restarts unnoticed only if
a run was cut short, which was a fault, and it stays the only node paid for by that one (`MissedInv`). The node's drives were each
seen Unwritable, and only a node that fails and returns undoes that, for all its drives
at once. For `NeverSpreads` the faults pay for what the check cannot see: one is owed for each
node that is away, as it comes back with its drives Writable, and for each of which drives
were asked and none is Unwritable yet (`OwedInv`). So what a check does not see is
within the faults (`SeenInv`), and it sets one drive more only if it saw fewer than
allowed; a node is reset only if it was counted (`TargetInv`).

**Resources** (`ResourcesProofs`). The properties speak of what the loops end with; the
invariant states each for the middle of its loop. `CoreInv`: the CPUs still free are
those of their NUMA node that were not picked. `LevelInv`: no NUMA node has given more
than one that has CPUs left, if the turn still to take in this round counts as
taken.
`NodesInv`: the nodes of a role in containers and those that are left make up the
role, and no role is begun before the one before it is done. `DevicesInv`: the devices
left are enough for the nodes left. `PortInv`: ports are multiples of a hundred below
the next one, those of the agent and the talker are passed over, and 14000 is used once;
twenty ports from each then cannot meet. `DrivesInv`: drives are handed out from the end
of the list, and each drive container has got as many as its nodes in each finished round
(`Share`). No induction over rounds is needed: a round is a step.

**Placements** (`PlacementProofs`). A placement is available when as many of its
revivable drives come back as it needs, since its failed slots and their drives correspond one
to one (`Probed`: a drive occurs once in a stripe, and failed slots have drives).
Where it needs all of them they must be revived; the need of the others is less by
those; and a case that is not printed follows from an earlier one, by
the least element of the indices. Reports of which a failed slot has no drive are
outside the theorem, as the code cannot revive what it has no id of.

**Only model-checked**: the liveness properties `EventuallyConverted`, `RunEnds`,
`EventuallyUpgraded`, `AlwaysWritableAgain`, `EventuallyOnKwas`, `FullIsHandled` and
`Terminates`, as fairness and ENABLED are beyond the prover; and
`ReportedIsConverted` and the race of `MCMaintenanceRace`, which TLC refutes. Every invariant
and every action property that a passing run checks is proved, under the assumptions of the table.
