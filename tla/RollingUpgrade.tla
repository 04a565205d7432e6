--------------------------- MODULE RollingUpgrade ---------------------------
(***************************************************************************)
(* rolling_upgrade.sh: stops all containers of a machine, that of S3 too,  *)
(* renames the data directories after the target version, sets that        *)
(* version, starts them and waits for a healthy cluster, one backend after *)
(* the other.                                                              *)
(***************************************************************************)
EXTENDS Cluster

CONSTANTS
    Containers,      \* containers of a machine, numbered in the order listed
    Leftovers,       \* <<m, c>> with a directory of the target version, left by
                     \* an earlier attempt
    SortsAsOld,      \* machines whose version sorts before "3.5" as a string: as
                     \* 3.14 does, or any where the quote it begins with (jq
                     \* without -r) sorts before a digit
    HealthTimeouts   \* a rebuild may outlast --cluster-healthy-timeout

VARIABLES
    version,     \* version[m]: what "weka version set" chose
    datadir,     \* datadir[m][c]: where the data of c are: in the directory of
                 \* the "source" or "target" version, or "inside" an old
                 \* directory of that name
    leftover,    \* Leftovers still in place
    renamed,     \* containers of the machine the loop is through with
    skipped      \* machines the operator had passed over in this run

upgradeVars == <<version, datadir, leftover, renamed, skipped>>

UpgradeTypeOK ==
    /\ version \in [Machines -> {"source", "target"}]
    /\ datadir \in [Machines -> [Containers -> {"source", "target", "inside"}]]
    /\ leftover \subseteq Leftovers
    /\ renamed \subseteq Containers
    /\ skipped \subseteq Machines

UpgradeInit ==
    /\ version = [m \in Machines |-> "source"]
    /\ datadir = [m \in Machines |-> [c \in Containers |-> "source"]]
    /\ leftover = Leftovers
    /\ renamed = {} /\ skipped = {}

Healthy == FullyProtected /\ AllActive

\* Mutant: an unhealthy cluster is upgraded as well.
RunUnchecked ==
    /\ Begin("upgrade", "up next", Machines)
    /\ skipped' = {}
    /\ UNCHANGED <<machineVars, faults, version, datadir, leftover, renamed>>

\* "Cluster not healthy, cannot upgrade!", or the version is prepared on every
\* machine; a failure of that ends the script before anything is stopped.
Run ==
    /\ Begin("upgrade", "up next", Machines)
    /\ Healthy
    /\ skipped' = {}
    /\ UNCHANGED <<machineVars, faults, version, datadir, leftover, renamed>>

OnTarget(m) ==
    /\ At("upgrade", "up next") /\ First(m)
    /\ version[m] = "target"
    /\ PassOver(m)
    /\ UNCHANGED <<machineVars, faults, upgradeVars>>

Take(m) ==
    /\ At("upgrade", "up next") /\ First(m)
    /\ version[m] # "target"
    /\ TakeUp(m, "up prompt")
    /\ UNCHANGED <<machineVars, faults, upgradeVars>>

\* y(es), a(llow all), s(kip machine), n(o).
Prompt ==
    /\ At("upgrade", "up prompt")
    /\ \/ Goto("up stop") /\ UNCHANGED skipped
       \/ ~all /\ all' = TRUE /\ pc' = "up stop" /\ UNCHANGED <<tool, machine, todo, skipped>>
       \/ ~all /\ Goto("up next") /\ skipped' = skipped \cup {machine}
       \/ ~all /\ End /\ UNCHANGED skipped
    /\ UNCHANGED <<machineVars, faults, version, datadir, leftover, renamed>>

\* Nobody looks at S3 before.
Stop ==
    /\ At("upgrade", "up stop")
    /\ StopsAll(machine)
    /\ renamed' = {}
    /\ Goto("up move")
    /\ UNCHANGED <<faults, version, datadir, leftover, skipped>>

\* The list of containers could not be had, or names none under the hostname
\* asked for: there is nothing to rename, and no error.
StopUnlisted ==
    /\ At("upgrade", "up stop")
    /\ Fails("up containers")
    /\ StopsAll(machine)
    /\ renamed' = Containers
    /\ Goto("up move")
    /\ UNCHANGED <<version, datadir, leftover, skipped>>

FirstContainer(c) ==
    /\ c \in Containers \ renamed
    /\ \A other \in Containers \ renamed : c <= other

\* ensure_container_data_dir_on_machine, source directory found: a directory of
\* the target name is backed up first.
RenameDataDir(c) ==
    /\ At("upgrade", "up move") /\ FirstContainer(c)
    /\ datadir[machine][c] = "source"
    /\ datadir' = [datadir EXCEPT ![machine][c] = "target"]
    /\ leftover' = leftover \ {<<machine, c>>}
    /\ renamed' = renamed \cup {c}
    /\ UNCHANGED <<clusterVars, version, skipped>>

\* The mv of the backup fails unseen: called before ||, the function runs
\* without set -e.  The second mv then moves the data into the old directory.
BackupFails(c) ==
    /\ At("upgrade", "up move") /\ FirstContainer(c)
    /\ Fails("up backup")
    /\ datadir[machine][c] = "source" /\ <<machine, c>> \in leftover
    /\ datadir' = [datadir EXCEPT ![machine][c] = "inside"]
    /\ renamed' = renamed \cup {c}
    /\ UNCHANGED <<machineVars, scriptVars, version, leftover, skipped>>

\* No source directory: "it must exist", unless the version passes for an old
\* one.  Versions are compared as strings.
DataDirMissing(c) ==
    /\ At("upgrade", "up move") /\ FirstContainer(c)
    /\ datadir[machine][c] # "source"
    /\ IF machine \in SortsAsOld THEN renamed' = renamed \cup {c} /\ UNCHANGED scriptVars
       ELSE End /\ UNCHANGED renamed
    /\ UNCHANGED <<machineVars, faults, version, datadir, leftover, skipped>>

SetVersion ==
    /\ At("upgrade", "up move") /\ renamed = Containers
    /\ version' = [version EXCEPT ![machine] = "target"]
    /\ Goto("up start")
    /\ UNCHANGED <<machineVars, faults, datadir, leftover, renamed, skipped>>

Start ==
    /\ At("upgrade", "up start")
    /\ StartsAll(machine)
    /\ Goto("up started")
    /\ UNCHANGED <<faults, upgradeVars>>

\* The command returns when the containers run, which is to outlast the detection
\* of the stop; whether they have joined is left to the wait for health.
Started ==
    /\ At("upgrade", "up started")
    /\ LateDetection \/ risk[machine] # "unseen"
    /\ Goto("up healthy")
    /\ UNCHANGED <<machineVars, faults, upgradeVars>>

\* The return value of wait_cluster_healthy is lost, as set -e is off here: when
\* the wait times out, the next machine has its turn as well.
WaitClusterHealthy ==
    /\ At("upgrade", "up healthy")
    /\ Healthy \/ HealthTimeouts
    /\ Goto("up next")
    /\ UNCHANGED <<machineVars, faults, upgradeVars>>

\* "do_machine_upgrade on machine ... FAILED, stopping here..."
CommandFails ==
    /\ \E step \in {"up stop", "up move", "up start", "up started"} : Fault("upgrade", step)
    /\ End
    /\ UNCHANGED <<machineVars, upgradeVars>>

\* "UPGRADE COMPLETED SUCCESSFULLY!"
Completed ==
    /\ At("upgrade", "up next") /\ todo = {}
    /\ Goto("up completed")
    /\ UNCHANGED <<machineVars, faults, upgradeVars>>

Exit ==
    /\ At("upgrade", "up completed")
    /\ End
    /\ UNCHANGED <<machineVars, faults, upgradeVars>>

Script ==
    \/ \E m \in Machines : OnTarget(m) \/ Take(m)
    \/ Stop \/ StopUnlisted
    \/ \E c \in Containers : RenameDataDir(c) \/ BackupFails(c) \/ DataDirMissing(c)
    \/ SetVersion \/ Start \/ Started \/ WaitClusterHealthy
    \/ CommandFails
    \/ Completed \/ Exit

\* A container comes up if it finds a directory of the version, with its own data
\* or not.
Startable(m) ==
    \A c \in Containers :
       datadir[m][c] = (IF datadir[m][c] = "inside" /\ version[m] = "target" THEN "inside"
                                                                          ELSE version[m])

\* Between runs the operator starts a machine that stayed down.
Repair(m) ==
    /\ tool = "none"
    /\ container[m] = "down" /\ Startable(m)
    /\ StartsAll(m)
    /\ UNCHANGED <<scriptVars, faults, upgradeVars>>

Step == Run \/ Script \/ Prompt \/ \E m \in Machines : Repair(m)

-----------------------------------------------------------------------------
\* "UPGRADE COMPLETED SUCCESSFULLY!" (rolling_upgrade.sh:476): every machine the
\* operator did not have skipped runs the target version, whatever earlier runs
\* left behind.
CompletedIsUpgraded ==
    At("upgrade", "up completed") =>
        \A m \in Machines \ skipped : Up(m) /\ version[m] = "target"
=============================================================================
