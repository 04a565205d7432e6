--------------------------- MODULE FailureDomains ---------------------------
(***************************************************************************)
(* change_failure_domains_to_manual.py: gives every backend a failure      *)
(* domain of its own name, one container after the other.  The S3          *)
(* container of the machine is drained and stopped first, started and      *)
(* undrained last; health checks surround the restart.                     *)
(***************************************************************************)
EXTENDS Cluster

VARIABLES
    fd,          \* fd[m]: "AUTO" or "USER", the type of its failure domain
    staged,      \* staged[m]: the name is in the resources of m
    listed       \* what fd was in the list of hosts the script began with

fdVars == <<fd, staged, listed>>

FDTypeOK ==
    /\ fd \in [Machines -> {"AUTO", "USER"}]
    /\ staged \in [Machines -> BOOLEAN]
    /\ listed \in [Machines -> {"AUTO", "USER"}]

FDInit ==
    /\ fd = [m \in Machines |-> "AUTO"]
    /\ staged = [m \in Machines |-> FALSE]
    /\ listed = fd

Run ==
    /\ Begin("fd", "fd next", Machines)
    /\ listed' = fd
    /\ UNCHANGED <<machineVars, faults, fd, staged>>

AlreadyManual(m) ==
    /\ At("fd", "fd next") /\ First(m)
    /\ listed[m] = "USER"
    /\ PassOver(m)
    /\ UNCHANGED <<machineVars, faults, fdVars>>

Take(m) ==
    /\ At("fd", "fd next") /\ First(m)
    /\ listed[m] # "USER"
    /\ TakeUp(m, "fd health")
    /\ UNCHANGED <<machineVars, faults, fdVars>>

Finished ==
    /\ At("fd", "fd next") /\ todo = {}
    /\ End
    /\ UNCHANGED <<machineVars, faults, fdVars>>

\* Mutant: the check looks at the backends only, not at the rebuild.
WaitForActive(step, next) ==
    /\ At("fd", step)
    /\ AllActive
    /\ Goto(next)
    /\ UNCHANGED <<machineVars, faults, fdVars>>

WaitForHealthy(step, next) ==
    /\ At("fd", step)
    /\ FullyProtected /\ AllActive
    /\ Goto(next)
    /\ UNCHANGED <<machineVars, faults, fdVars>>

\* [y]es, all, [s]kip, or anything else, which quits.
Prompt ==
    /\ At("fd", "fd prompt")
    /\ \/ Goto("fd etcd")
       \/ ~all /\ all' = TRUE /\ pc' = "fd etcd" /\ UNCHANGED <<tool, machine, todo>>
       \/ ~all /\ Goto("fd next")
       \/ ~all /\ End
    /\ UNCHANGED <<machineVars, faults, fdVars>>

HasS3 == machine \in S3Hosts

\* Every member of etcd runs in an S3 container.
CheckEtcd ==
    /\ At("fd", "fd etcd")
    /\ IF ~HasS3 THEN Goto("fd name")
       ELSE IF \A m \in S3Hosts : s3[m] \notin {"stopped", "off"} THEN Goto("fd ready") ELSE End
    /\ UNCHANGED <<machineVars, faults, fdVars>>

\* Mutant: looks at the host to be drained only.
WaitForS3HostToBeReady ==
    /\ At("fd", "fd ready")
    /\ s3[machine] = "ready"
    /\ Goto("fd drain")
    /\ UNCHANGED <<machineVars, faults, fdVars>>

WaitForS3ClusterToBeReady ==
    /\ At("fd", "fd ready")
    /\ \A m \in S3Hosts : s3[m] = "ready"
    /\ Goto("fd drain")
    /\ UNCHANGED <<machineVars, faults, fdVars>>

\* A drain left over on this host is undone; those on others are waited for.
UndrainOwn ==
    /\ At("fd", "fd ready")
    /\ s3[machine] = "draining"
    /\ s3' = [s3 EXCEPT ![machine] = "ready"]
    /\ UNCHANGED <<container, risk, scriptVars, faults, fdVars>>

Drain ==
    /\ At("fd", "fd drain")
    /\ s3' = [s3 EXCEPT ![machine] = "draining"]
    /\ Goto("fd drained")
    /\ UNCHANGED <<container, risk, faults, fdVars>>

\* Enough checks in a row found no IO, or the drain timed out and the operator
\* (or a flag) has S3 stopped all the same.
Drained ==
    /\ At("fd", "fd drained")
    /\ Goto("fd stop")
    /\ UNCHANGED <<machineVars, faults, fdVars>>

\* The drain timed out and the operator types no: "S3 ... will still be in drain
\* mode".
DrainTimesOut ==
    /\ At("fd", "fd drained")
    /\ End
    /\ UNCHANGED <<machineVars, faults, fdVars>>

StopS3 ==
    /\ At("fd", "fd stop")
    /\ s3' = [s3 EXCEPT ![machine] = "stopped"]
    /\ Goto("fd name")
    /\ UNCHANGED <<container, risk, faults, fdVars>>

SetName ==
    /\ At("fd", "fd name")
    /\ staged' = [staged EXCEPT ![machine] = TRUE]
    /\ Goto("fd apply")
    /\ UNCHANGED <<machineVars, faults, fd, listed>>

\* resources apply -f restarts the container, with all that is staged for it.
Apply ==
    /\ At("fd", "fd apply")
    /\ Restarts(machine)
    /\ Goto("fd container")
    /\ UNCHANGED <<faults, fdVars>>

\* The container is READY, the host UP, and the name is the one in both the
\* list of hosts and the stable resources; or else an exception.
WaitForContainerReadiness ==
    /\ At("fd", "fd container")
    /\ Up(machine)
    /\ IF fd[machine] # "USER" THEN End
       ELSE Goto(IF HasS3 THEN "fd start" ELSE "fd unhealthy")
    /\ UNCHANGED <<machineVars, faults, fdVars>>

\* Undraining is retried until it succeeds.
StartS3AndUndrain ==
    /\ At("fd", "fd start")
    /\ s3' = [s3 EXCEPT ![machine] = "ready"]
    /\ Goto("fd unhealthy")
    /\ UNCHANGED <<container, risk, faults, fdVars>>

\* The timeout does not reach the loop: upgrade() passes it by position, as
\* skip_prepare_upgrade, and it is 0.  After a second the cluster is assumed to
\* be healthy.
WaitForUnhealthyCluster ==
    /\ At("fd", "fd unhealthy")
    /\ Goto("fd healthy")
    /\ UNCHANGED <<machineVars, faults, fdVars>>

\* A command of the script raises; S3 is not started again.
CommandFails ==
    /\ \E step \in {"fd health", "fd etcd", "fd drain", "fd stop", "fd name",
                    "fd apply", "fd container", "fd start", "fd healthy"} : Fault("fd", step)
    /\ End
    /\ UNCHANGED <<machineVars, fdVars>>

Script ==
    \/ \E m \in Machines : AlreadyManual(m) \/ Take(m)
    \/ Finished
    \/ WaitForHealthy("fd health", "fd prompt")
    \/ CheckEtcd \/ WaitForS3ClusterToBeReady \/ UndrainOwn
    \/ Drain \/ Drained \/ DrainTimesOut \/ StopS3
    \/ SetName \/ Apply \/ WaitForContainerReadiness \/ StartS3AndUndrain
    \/ WaitForUnhealthyCluster \/ WaitForHealthy("fd healthy", "fd next")
    \/ CommandFails

\* Between runs the operator sees to an S3 container a run left behind.
RestoreS3(m) ==
    /\ tool = "none"
    /\ s3[m] # "ready"
    /\ s3' = [s3 EXCEPT ![m] = "ready"]
    /\ UNCHANGED <<container, risk, scriptVars, faults, fdVars>>

Step == Run \/ Script \/ Prompt \/ \E m \in S3Hosts : RestoreS3(m)

\* A container starts with the resources staged for it, whoever restarts it.
ContainerReady(m) ==
    /\ Comes(m)
    /\ fd' = IF staged[m] /\ container[m] = "starting" THEN [fd EXCEPT ![m] = "USER"] ELSE fd
    /\ UNCHANGED <<scriptVars, faults, staged, listed>>

-----------------------------------------------------------------------------
S3Steps == {"fd drain", "fd drained", "fd stop", "fd name", "fd apply", "fd container",
            "fd start"}

\* The script takes S3 away from one machine at a time: from the drain to the
\* undrain the S3 of all other machines serves, and however runs end and begin
\* again, a drain or a stop one of them left behind keeps the next from draining
\* another host (wait_for_s3_cluster_to_be_ready, is_etcd_up).
OneS3Away ==
    /\ \A m, n \in S3Hosts : InDrainMode(m) /\ InDrainMode(n) => m = n
    /\ tool = "fd" /\ pc \in S3Steps /\ HasS3 =>
         \A m \in S3Hosts \ {machine} : s3[m] = "ready"
=============================================================================
