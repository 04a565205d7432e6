---------------------------- MODULE Maintenance ----------------------------
(***************************************************************************)
(* The maintenance scripts on one cluster: the operator runs them one      *)
(* after the other, in any order and any number of times, and each finds   *)
(* the machines as the runs before left them.                              *)
(***************************************************************************)
EXTENDS Cluster

CONSTANTS Containers, Leftovers, SortsAsOld, HealthTimeouts, Blacklisting, Matches

ASSUME MaintenanceAssumption ==
    /\ Containers \subseteq Nat /\ IsFiniteSet(Containers)
    /\ Leftovers \subseteq Machines \X Containers
    /\ SortsAsOld \subseteq Machines
    /\ HealthTimeouts \in BOOLEAN /\ Blacklisting \in BOOLEAN
    /\ Matches \in [Machines -> SUBSET Machines]
    /\ \A m \in Machines : m \in Matches[m]

VARIABLES
    fd, staged, listed,                                               \* FailureDomains
    version, datadir, leftover, renamed, skipped,                     \* RollingUpgrade
    cores, shown, backup, blacklisted, reaper, changeable,            \* CoreReallocation
    wasDisabled, hosts, unwatched

FD == INSTANCE FailureDomains
Upgrade == INSTANCE RollingUpgrade
Core == INSTANCE CoreReallocation

fdVars == <<fd, staged, listed>>
upgradeVars == <<version, datadir, leftover, renamed, skipped>>
coreVars == <<cores, shown, backup, blacklisted, reaper, changeable, wasDisabled, hosts,
              unwatched>>
vars == <<clusterVars, fdVars, upgradeVars, coreVars>>

TypeOK ==
    /\ ClusterTypeOK
    /\ FD!FDTypeOK /\ Upgrade!UpgradeTypeOK /\ Core!CoreTypeOK

Init == ClusterInit /\ FD!FDInit /\ Upgrade!UpgradeInit /\ Core!CoreInit

\* A restarted container comes up with the resources and cores staged for it, by
\* whichever script, from the data directory of its version, unless its nodes are
\* blacklisted.
ContainerReady(m) ==
    /\ Upgrade!Startable(m)
    /\ FD!ContainerReady(m)
    /\ Core!ContainerReady(m)
    /\ UNCHANGED upgradeVars

ClusterStep(m) ==
    /\ Notice(m) \/ RebuildDone(m)
    /\ UNCHANGED <<fdVars, upgradeVars, coreVars>>

StaysDown(m) ==
    ~Up(m) /\ (container[m] = "down" \/ m \in blacklisted \/ ~Upgrade!Startable(m))

\* A script that waits for an S3 container in drain mode, for a machine that
\* stays down, or for the health of a cluster with such a machine, is interrupted.
Interrupt ==
    /\ \/ pc = "fd ready"
       \/ pc = "fd container" /\ StaysDown(machine)
       \/ /\ pc \in {"core nodes", "core back"}
          /\ \E m \in Matches[machine] : StaysDown(m)
       \/ /\ pc \in {"fd health", "fd healthy", "up healthy"}
          /\ \E m \in Machines : StaysDown(m)
    /\ End
    /\ UNCHANGED <<machineVars, faults, fdVars, upgradeVars, coreVars>>

Next ==
    \/ FD!Step /\ UNCHANGED <<upgradeVars, coreVars>>
    \/ Upgrade!Step /\ UNCHANGED <<fdVars, coreVars>>
    \/ Core!Step /\ UNCHANGED <<fdVars, upgradeVars>>
    \/ Interrupt
    \/ \E m \in Machines : ContainerReady(m) \/ ClusterStep(m)

Spec == Init /\ [][Next]_vars

-----------------------------------------------------------------------------
\* The scripts together take down one machine at a time: none is stopped,
\* restarted or blacklisted while data of another misses a copy.
Exposed == {m \in Machines : risk[m] # "none"}
Rolling == INSTANCE RollingMaintenance WITH exposed <- Exposed
OneMachineAtATime == Rolling!Spec

\* See FailureDomains.
OneS3Away == FD!OneS3Away

\* See RollingUpgrade.
CompletedIsUpgraded == Upgrade!CompletedIsUpgraded

\* See CoreReallocation.
CoresChangeWithoutReaper == Core!CoresChangeWithoutReaper
=============================================================================
