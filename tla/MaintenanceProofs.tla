------------------------- MODULE MaintenanceProofs -------------------------
(***************************************************************************)
(* Proofs about Maintenance, for any number of machines and containers,    *)
(* any S3 hosts and leftovers, any faults, interrupts and reruns, and any  *)
(* order the three scripts are run in.                                     *)
(*                                                                         *)
(* Each property has an invariant of its own that says what a script knows *)
(* in its steps; a script keeps the invariants of the others because it is *)
(* not they that run, and because no script brings a machine up.           *)
(***************************************************************************)
EXTENDS Maintenance, TLAPS

\* What the failure domain change knows of S3 when it drains and stops it.
S3Type == s3 \in [S3Hosts -> {"ready", "draining", "stopped", "off"}]
S3Inv ==
    /\ S3Type
    /\ tool = "fd" /\ pc = "fd drain" => \A m \in S3Hosts : s3[m] = "ready"
    /\ tool = "fd" /\ pc \in {"fd drained", "fd stop"} =>
         \A m \in S3Hosts : s3[m] # "ready" => m = machine
    /\ OneS3Away

\* A machine whose restart the script is to see has still to take up new cores,
\* and is not up.  The grim reaper is off then, and the run of
\* core_reallocation.sh that turns it on again began with no such machine and
\* waited for all it made.
Watched == {m \in Machines : cores[m] # shown[m] /\ m \notin unwatched}
ReaperInv ==
    /\ cores \in [Machines -> {"old", "new"}] /\ shown \in [Machines -> {"old", "new"}]
    /\ unwatched \subseteq Machines
    /\ \A m \in Watched : container[m] \in {"starting", "down"}
    /\ Watched # {} => ~reaper
    /\ tool = "cores" /\ pc \notin {"core check", "core reaper", "core forbid"} => ~reaper
    /\ tool = "cores" /\ pc \notin {"core check", "core reaper"} /\ ~wasDisabled =>
         \A m \in Watched : pc \in {"core rebuild", "core nodes"} /\ m = machine

\* Steps at which a script has made sure that all data are protected, steps
\* between a stop of its machine and the return, and whom that exposes, when no
\* name of a machine is part of that of another.
Clear == {"fd prompt", "fd etcd", "fd ready", "fd drain", "fd drained", "fd stop", "fd name",
          "fd apply", "up next", "up prompt", "up stop", "up completed", "core reaper",
          "core allow", "core next", "core nodes", "core validate", "core black",
          "core back", "core enable", "core forbid"}
Away == {"fd container", "up move", "up start", "up started", "core rebuild",
         "core readmit", "core rebuilt"}
NamesApart == \A m \in Machines : Matches[m] = {m}
RiskInv ==
    /\ risk \in [Machines -> {"none", "unseen", "rebuilding"}]
    /\ container \in [Machines -> {"up", "starting", "fenced", "down"}]
    /\ \A m \in Machines : risk[m] = "unseen" => container[m] # "up"
    /\ tool # "none" => \A m \in Machines : risk[m] = "unseen" => pc \in Away /\ m = machine
    /\ tool # "none" /\ pc \in Clear => \A m \in Machines : risk[m] = "none"
    /\ tool # "none" /\ pc \in Away \cup {"up healthy"} =>
         \A m \in Machines : risk[m] # "none" => m = machine
    /\ \A m, n \in Exposed : m = n

\* Machines the upgrade is through with run the target version, and none but the
\* one in work is away.
UpgradeInv ==
    tool = "upgrade" =>
      /\ \A m \in Machines :
           \/ container[m] = "up"
           \/ m = machine /\ pc \in {"up move", "up start", "up started", "up healthy"}
      /\ pc \in {"up start", "up started", "up healthy"} => version[machine] = "target"
      /\ pc = "up healthy" => risk[machine] # "unseen"
      /\ pc = "up completed" => todo = {}
      /\ \A m \in Machines \ (todo \cup skipped) :
           version[m] = "target" \/ (m = machine /\ pc \in {"up prompt", "up stop", "up move"})

IInv == TypeOK /\ S3Inv /\ ReaperInv /\ RiskInv /\ UpgradeInv
-----------------------------------------------------------------------------
(* What a step of a script leaves alone.                                   *)

\* The script that runs is this one, until it ends; it brings no machine up, turns
\* no restart into anything else, and protects no data.
Only(script) ==
    /\ tool' \in {script, "none"}
    /\ \A k \in Machines : container'[k] = "up" => container[k] = "up"
    /\ \A k \in Machines : container[k] \in {"starting", "down"} =>
                             container'[k] \in {"starting", "down"}
    /\ \A k \in Machines : risk[k] # "none" => risk'[k] # "none"

MachineTypes ==
    /\ container \in [Machines -> {"up", "starting", "fenced", "down"}]
    /\ risk \in [Machines -> {"none", "unseen", "rebuilding"}]

\* The failure domain change.
LEMMA FDOnly ==
    ASSUME MachineTypes, FD!Step
    PROVE  Only("fd")
  <1> USE DEF FD!At, FD!machineVars, FD!scriptVars, FD!clusterVars, FD!fdVars,
     Only, MachineTypes
  <1>1. CASE FD!Run
    BY <1>1 DEF FD!Run, FD!Begin
  <1>2. ASSUME NEW m \in Machines, FD!AlreadyManual(m) PROVE Only("fd")
    BY <1>2 DEF FD!AlreadyManual, FD!PassOver, FD!First
  <1>3. ASSUME NEW m \in Machines, FD!Take(m) PROVE Only("fd")
    BY <1>3 DEF FD!Take, FD!TakeUp, FD!First
  <1>4. CASE FD!Finished
    BY <1>4 DEF FD!Finished, FD!End
  <1>5. CASE FD!WaitForHealthy("fd health", "fd prompt")
    BY <1>5 DEF FD!WaitForHealthy, FD!Goto
  <1>6. CASE FD!CheckEtcd
    BY <1>6 DEF FD!CheckEtcd, FD!HasS3, FD!Goto, FD!End
  <1>7. CASE FD!WaitForS3ClusterToBeReady
    BY <1>7 DEF FD!WaitForS3ClusterToBeReady, FD!Goto
  <1>8. CASE FD!UndrainOwn
    BY <1>8 DEF FD!UndrainOwn
  <1>9. CASE FD!Drain
    BY <1>9 DEF FD!Drain, FD!Goto
  <1>10. CASE FD!Drained
    BY <1>10 DEF FD!Drained, FD!Goto
  <1>11. CASE FD!DrainTimesOut
    BY <1>11 DEF FD!DrainTimesOut, FD!End
  <1>12. CASE FD!StopS3
    BY <1>12 DEF FD!StopS3, FD!Goto
  <1>13. CASE FD!SetName
    BY <1>13 DEF FD!SetName, FD!Goto
  <1>14. CASE FD!Apply
    BY <1>14 DEF FD!Apply, FD!Goto, FD!Restarts, FD!Exposes,
       FD!Up
  <1>15. CASE FD!WaitForContainerReadiness
    BY <1>15 DEF FD!WaitForContainerReadiness, FD!Up, FD!HasS3, FD!Goto,
       FD!End
  <1>16. CASE FD!StartS3AndUndrain
    BY <1>16 DEF FD!StartS3AndUndrain, FD!Goto
  <1>17. CASE FD!WaitForUnhealthyCluster
    BY <1>17 DEF FD!WaitForUnhealthyCluster, FD!Goto
  <1>18. CASE FD!WaitForHealthy("fd healthy", "fd next")
    BY <1>18 DEF FD!WaitForHealthy, FD!Goto
  <1>19. CASE FD!CommandFails
    BY <1>19 DEF FD!CommandFails, FD!Fault, FD!Fails, FD!End
  <1>20. CASE FD!Prompt
    BY <1>20 DEF FD!Prompt, FD!Goto, FD!End
  <1>21. ASSUME NEW s \in S3Hosts, FD!RestoreS3(s) PROVE Only("fd")
    BY <1>21 DEF FD!RestoreS3
  <1>22. QED
    BY <1>1, <1>2, <1>3, <1>4, <1>5, <1>6, <1>7, <1>8, <1>9, <1>10, <1>11,
       <1>12, <1>13, <1>14, <1>15, <1>16, <1>17, <1>18, <1>19, <1>20, <1>21
       DEF FD!Step, FD!Script

\* The rolling upgrade.
LEMMA UpgradeOnly ==
    ASSUME MachineTypes, Upgrade!Step
    PROVE  Only("upgrade")
  <1> USE DEF Upgrade!At, Upgrade!machineVars, Upgrade!scriptVars,
     Upgrade!clusterVars, Upgrade!upgradeVars, Only, MachineTypes
  <1>1. CASE Upgrade!Run
    BY <1>1 DEF Upgrade!Run, Upgrade!Begin
  <1>2. ASSUME NEW m \in Machines, Upgrade!OnTarget(m) PROVE Only("upgrade")
    BY <1>2 DEF Upgrade!OnTarget, Upgrade!PassOver, Upgrade!First
  <1>3. ASSUME NEW m \in Machines, Upgrade!Take(m) PROVE Only("upgrade")
    BY <1>3 DEF Upgrade!Take, Upgrade!TakeUp, Upgrade!First
  <1>4. CASE Upgrade!Prompt
    BY <1>4 DEF Upgrade!Prompt, Upgrade!Goto, Upgrade!End
  <1>5. CASE Upgrade!Stop
    BY <1>5 DEF Upgrade!Stop, Upgrade!StopsAll, Upgrade!Exposes,
       Upgrade!Up, Upgrade!Goto
  <1>6. CASE Upgrade!StopUnlisted
    BY <1>6 DEF Upgrade!StopUnlisted, Upgrade!StopsAll, Upgrade!Exposes,
       Upgrade!Up, Upgrade!Goto, Upgrade!Fails
  <1>7. ASSUME NEW c \in Containers, Upgrade!RenameDataDir(c) PROVE Only("upgrade")
    BY <1>7 DEF Upgrade!RenameDataDir, Upgrade!FirstContainer
  <1>8. ASSUME NEW c \in Containers, Upgrade!BackupFails(c) PROVE Only("upgrade")
    BY <1>8 DEF Upgrade!BackupFails, Upgrade!Fails, Upgrade!FirstContainer
  <1>9. ASSUME NEW c \in Containers, Upgrade!DataDirMissing(c) PROVE Only("upgrade")
    BY <1>9 DEF Upgrade!DataDirMissing, Upgrade!End, Upgrade!FirstContainer
  <1>10. CASE Upgrade!SetVersion
    BY <1>10 DEF Upgrade!SetVersion, Upgrade!Goto
  <1>11. CASE Upgrade!Start
    BY <1>11 DEF Upgrade!Start, Upgrade!StartsAll, Upgrade!Goto
  <1>12. CASE Upgrade!Started
    BY <1>12 DEF Upgrade!Started, Upgrade!Up, Upgrade!Goto
  <1>13. CASE Upgrade!WaitClusterHealthy
    BY <1>13 DEF Upgrade!WaitClusterHealthy, Upgrade!Goto
  <1>14. CASE Upgrade!CommandFails
    BY <1>14 DEF Upgrade!CommandFails, Upgrade!Fault, Upgrade!Fails,
       Upgrade!End
  <1>15. CASE Upgrade!Completed
    BY <1>15 DEF Upgrade!Completed, Upgrade!Goto
  <1>16. CASE Upgrade!Exit
    BY <1>16 DEF Upgrade!Exit, Upgrade!End
  <1>17. ASSUME NEW m \in Machines, Upgrade!Repair(m) PROVE Only("upgrade")
    BY <1>17 DEF Upgrade!Repair, Upgrade!StartsAll
  <1>18. QED
    BY <1>1, <1>2, <1>3, <1>4, <1>5, <1>6, <1>7, <1>8, <1>9, <1>10, <1>11,
       <1>12, <1>13, <1>14, <1>15, <1>16, <1>17
       DEF Upgrade!Step, Upgrade!Script

\* The core reallocation.
LEMMA CoreOnly ==
    ASSUME MachineTypes, Core!Step
    PROVE  Only("cores")
  <1> USE DEF Core!At, Core!machineVars, Core!scriptVars, Core!clusterVars,
     Core!coreVars, Only, MachineTypes
  <1>1. CASE Core!Run
    BY <1>1 DEF Core!Run, Core!Begin
  <1>2. CASE Core!CheckRebuild
    BY <1>2 DEF Core!CheckRebuild, Core!Goto
  <1>3. CASE Core!DisableGrimReaper
    BY <1>3 DEF Core!DisableGrimReaper, Core!Goto
  <1>4. CASE Core!CfgdumpFails
    BY <1>4 DEF Core!CfgdumpFails, Core!Fails, Core!Goto
  <1>5. CASE Core!AllowChange
    BY <1>5 DEF Core!AllowChange, Core!Goto
  <1>6. CASE Core!SettingFails
    BY <1>6 DEF Core!SettingFails, Core!Fault, Core!Fails, Core!End
  <1>7. ASSUME NEW m \in Machines, Core!Unneeded(m) PROVE Only("cores")
    BY <1>7 DEF Core!Unneeded, Core!PassOver, Core!First
  <1>8. ASSUME NEW m \in Machines, Core!CopyFails(m) PROVE Only("cores")
    BY <1>8 DEF Core!CopyFails, Core!Fault, Core!Fails, Core!PassOver,
       Core!First
  <1>9. ASSUME NEW m \in Machines, Core!Distribute(m) PROVE Only("cores")
    BY <1>9 DEF Core!Distribute, Core!Backup, Core!TakeUp, Core!Restarts,
       Core!Exposes, Core!Up, Core!First
  <1>10. ASSUME NEW m \in Machines, Core!DistributeFails(m) PROVE Only("cores")
    BY <1>10 DEF Core!DistributeFails, Core!SshFails, Core!BackupExists,
       Core!StagingFails, Core!ApplyFails, Core!Backup, Core!Fails, Core!TakeUp,
       Core!First
  <1>11. CASE Core!DownloadFails
    BY <1>11 DEF Core!DownloadFails, Core!Fails, Core!End
  <1>12. CASE Core!WaitForRebuild("core rebuild", "core nodes")
    BY <1>12 DEF Core!WaitForRebuild, Core!Goto
  <1>13. CASE Core!WaitForNodes("core nodes", "core validate")
    BY <1>13 DEF Core!WaitForNodes, Core!Up, Core!Goto
  <1>14. CASE Core!NodeQueryFails("core nodes", "core validate")
    BY <1>14 DEF Core!NodeQueryFails, Core!Fault, Core!Fails, Core!Goto
  <1>15. CASE Core!Validate
    BY <1>15 DEF Core!Validate, Core!Goto, Core!End
  <1>16. CASE Core!Distributed
    BY <1>16 DEF Core!Distributed
  <1>17. ASSUME NEW m \in Machines, Core!Blacklist(m) PROVE Only("cores")
    BY <1>17 DEF Core!Blacklist, Core!TakeUp,
       Core!Exposes, Core!Up, Core!First
  <1>18. ASSUME NEW m \in Machines, Core!BlacklistFails(m) PROVE Only("cores")
    BY <1>18 DEF Core!BlacklistFails, Core!Fault, Core!Fails, Core!TakeUp,
       Core!First
  <1>19. CASE Core!Readmit
    BY <1>19 DEF Core!Readmit, Core!Goto
  <1>20. CASE Core!ReadmitFails
    BY <1>20 DEF Core!ReadmitFails, Core!Fault, Core!Fails, Core!Goto
  <1>21. CASE Core!WaitForRebuild("core rebuilt", "core back")
    BY <1>21 DEF Core!WaitForRebuild, Core!Goto
  <1>22. CASE Core!WaitForNodes("core back", "core black")
    BY <1>22 DEF Core!WaitForNodes, Core!Up, Core!Goto
  <1>23. CASE Core!NodeQueryFails("core back", "core black")
    BY <1>23 DEF Core!NodeQueryFails, Core!Fault, Core!Fails, Core!Goto
  <1>24. CASE Core!Blacklisted
    BY <1>24 DEF Core!Blacklisted, Core!Goto
  <1>25. CASE Core!EnableGrimReaper
    BY <1>25 DEF Core!EnableGrimReaper, Core!Goto
  <1>26. CASE Core!ForbidChange
    BY <1>26 DEF Core!ForbidChange, Core!End
  <1>27. CASE Core!ResetFails
    BY <1>27 DEF Core!ResetFails, Core!Fault, Core!Fails, Core!Goto, Core!End
  <1>28. ASSUME NEW m \in Machines, Core!Unblacklist(m) PROVE Only("cores")
    BY <1>28 DEF Core!Unblacklist
  <1>29. QED
    BY <1>1, <1>2, <1>3, <1>4, <1>5, <1>6, <1>7, <1>8, <1>9, <1>10, <1>11,
       <1>12, <1>13, <1>14, <1>15, <1>16, <1>17, <1>18, <1>19, <1>20, <1>21, <1>22,
       <1>23, <1>24, <1>25, <1>26, <1>27, <1>28
       DEF Core!Step, Core!Script

\* The cores of a host change when its container starts only, and its S3 does not
\* change at all.
LEMMA CoreLeavesCores ==
    ASSUME Core!Step
    PROVE  UNCHANGED <<cores, s3>>
  <1> USE DEF Core!At, Core!machineVars, Core!scriptVars, Core!clusterVars,
     Core!coreVars
  <1>1. CASE Core!Run
    BY <1>1 DEF Core!Run, Core!Begin
  <1>2. CASE Core!CheckRebuild
    BY <1>2 DEF Core!CheckRebuild, Core!Goto
  <1>3. CASE Core!DisableGrimReaper
    BY <1>3 DEF Core!DisableGrimReaper, Core!Goto
  <1>4. CASE Core!CfgdumpFails
    BY <1>4 DEF Core!CfgdumpFails, Core!Fails, Core!Goto
  <1>5. CASE Core!AllowChange
    BY <1>5 DEF Core!AllowChange, Core!Goto
  <1>6. CASE Core!SettingFails
    BY <1>6 DEF Core!SettingFails, Core!Fault, Core!Fails, Core!End
  <1>7. ASSUME NEW m \in Machines, Core!Unneeded(m) PROVE UNCHANGED <<cores, s3>>
    BY <1>7 DEF Core!Unneeded, Core!PassOver, Core!First
  <1>8. ASSUME NEW m \in Machines, Core!CopyFails(m) PROVE UNCHANGED <<cores, s3>>
    BY <1>8 DEF Core!CopyFails, Core!Fault, Core!Fails, Core!PassOver,
       Core!First
  <1>9. ASSUME NEW m \in Machines, Core!Distribute(m) PROVE UNCHANGED <<cores, s3>>
    BY <1>9 DEF Core!Distribute, Core!Backup, Core!TakeUp, Core!Restarts,
       Core!Exposes, Core!Up, Core!First
  <1>10. ASSUME NEW m \in Machines, Core!DistributeFails(m) PROVE UNCHANGED <<cores, s3>>
    BY <1>10 DEF Core!DistributeFails, Core!SshFails, Core!BackupExists,
       Core!StagingFails, Core!ApplyFails, Core!Backup, Core!Fails, Core!TakeUp,
       Core!First
  <1>11. CASE Core!DownloadFails
    BY <1>11 DEF Core!DownloadFails, Core!Fails, Core!End
  <1>12. CASE Core!WaitForRebuild("core rebuild", "core nodes")
    BY <1>12 DEF Core!WaitForRebuild, Core!Goto
  <1>13. CASE Core!WaitForNodes("core nodes", "core validate")
    BY <1>13 DEF Core!WaitForNodes, Core!Up, Core!Goto
  <1>14. CASE Core!NodeQueryFails("core nodes", "core validate")
    BY <1>14 DEF Core!NodeQueryFails, Core!Fault, Core!Fails, Core!Goto
  <1>15. CASE Core!Validate
    BY <1>15 DEF Core!Validate, Core!Goto, Core!End
  <1>16. CASE Core!Distributed
    BY <1>16 DEF Core!Distributed
  <1>17. ASSUME NEW m \in Machines, Core!Blacklist(m) PROVE UNCHANGED <<cores, s3>>
    BY <1>17 DEF Core!Blacklist, Core!TakeUp,
       Core!Exposes, Core!Up, Core!First
  <1>18. ASSUME NEW m \in Machines, Core!BlacklistFails(m) PROVE UNCHANGED <<cores, s3>>
    BY <1>18 DEF Core!BlacklistFails, Core!Fault, Core!Fails, Core!TakeUp,
       Core!First
  <1>19. CASE Core!Readmit
    BY <1>19 DEF Core!Readmit, Core!Goto
  <1>20. CASE Core!ReadmitFails
    BY <1>20 DEF Core!ReadmitFails, Core!Fault, Core!Fails, Core!Goto
  <1>21. CASE Core!WaitForRebuild("core rebuilt", "core back")
    BY <1>21 DEF Core!WaitForRebuild, Core!Goto
  <1>22. CASE Core!WaitForNodes("core back", "core black")
    BY <1>22 DEF Core!WaitForNodes, Core!Up, Core!Goto
  <1>23. CASE Core!NodeQueryFails("core back", "core black")
    BY <1>23 DEF Core!NodeQueryFails, Core!Fault, Core!Fails, Core!Goto
  <1>24. CASE Core!Blacklisted
    BY <1>24 DEF Core!Blacklisted, Core!Goto
  <1>25. CASE Core!EnableGrimReaper
    BY <1>25 DEF Core!EnableGrimReaper, Core!Goto
  <1>26. CASE Core!ForbidChange
    BY <1>26 DEF Core!ForbidChange, Core!End
  <1>27. CASE Core!ResetFails
    BY <1>27 DEF Core!ResetFails, Core!Fault, Core!Fails, Core!Goto, Core!End
  <1>28. ASSUME NEW m \in Machines, Core!Unblacklist(m) PROVE UNCHANGED <<cores, s3>>
    BY <1>28 DEF Core!Unblacklist
  <1>29. QED
    BY <1>1, <1>2, <1>3, <1>4, <1>5, <1>6, <1>7, <1>8, <1>9, <1>10, <1>11,
       <1>12, <1>13, <1>14, <1>15, <1>16, <1>17, <1>18, <1>19, <1>20, <1>21, <1>22,
       <1>23, <1>24, <1>25, <1>26, <1>27, <1>28
       DEF Core!Step, Core!Script
-----------------------------------------------------------------------------
(* S3.                                                                     *)

\* Steps of the failure domain change.
LEMMA FDKeepsS3 ==
    ASSUME S3Inv, FD!Step
    PROVE  S3Inv'
  <1> USE DEF FD!At, FD!machineVars, FD!scriptVars, FD!clusterVars, FD!fdVars,
     S3Inv, S3Type, OneS3Away, FD!OneS3Away, FD!InDrainMode, FD!S3Steps, FD!HasS3
  <1>1. CASE FD!Run
    BY <1>1 DEF FD!Run, FD!Begin
  <1>2. ASSUME NEW m \in Machines, FD!AlreadyManual(m) PROVE S3Inv'
    BY <1>2 DEF FD!AlreadyManual, FD!PassOver, FD!First
  <1>3. ASSUME NEW m \in Machines, FD!Take(m) PROVE S3Inv'
    BY <1>3 DEF FD!Take, FD!TakeUp, FD!First
  <1>4. CASE FD!Finished
    BY <1>4 DEF FD!Finished, FD!End
  <1>5. CASE FD!WaitForHealthy("fd health", "fd prompt")
    BY <1>5 DEF FD!WaitForHealthy, FD!Goto
  <1>6. CASE FD!CheckEtcd
    BY <1>6 DEF FD!CheckEtcd, FD!HasS3, FD!Goto, FD!End
  <1>7. CASE FD!WaitForS3ClusterToBeReady
    BY <1>7 DEF FD!WaitForS3ClusterToBeReady, FD!Goto
  <1>8. CASE FD!UndrainOwn
    BY <1>8 DEF FD!UndrainOwn
  <1>9. CASE FD!Drain
    BY <1>9 DEF FD!Drain, FD!Goto
  <1>10. CASE FD!Drained
    BY <1>10 DEF FD!Drained, FD!Goto
  <1>11. CASE FD!DrainTimesOut
    BY <1>11 DEF FD!DrainTimesOut, FD!End
  <1>12. CASE FD!StopS3
    BY <1>12 DEF FD!StopS3, FD!Goto
  <1>13. CASE FD!SetName
    BY <1>13 DEF FD!SetName, FD!Goto
  <1>14. CASE FD!Apply
    BY <1>14 DEF FD!Apply, FD!Goto, FD!Restarts, FD!Exposes,
       FD!Up
  <1>15. CASE FD!WaitForContainerReadiness
    BY <1>15 DEF FD!WaitForContainerReadiness, FD!Up, FD!HasS3, FD!Goto,
       FD!End
  <1>16. CASE FD!StartS3AndUndrain
    BY <1>16 DEF FD!StartS3AndUndrain, FD!Goto
  <1>17. CASE FD!WaitForUnhealthyCluster
    BY <1>17 DEF FD!WaitForUnhealthyCluster, FD!Goto
  <1>18. CASE FD!WaitForHealthy("fd healthy", "fd next")
    BY <1>18 DEF FD!WaitForHealthy, FD!Goto
  <1>19. CASE FD!CommandFails
    BY <1>19 DEF FD!CommandFails, FD!Fault, FD!Fails, FD!End
  <1>20. CASE FD!Prompt
    BY <1>20 DEF FD!Prompt, FD!Goto, FD!End
  <1>21. ASSUME NEW s \in S3Hosts, FD!RestoreS3(s) PROVE S3Inv'
    BY <1>21 DEF FD!RestoreS3
  <1>22. QED
    BY <1>1, <1>2, <1>3, <1>4, <1>5, <1>6, <1>7, <1>8, <1>9, <1>10, <1>11,
       <1>12, <1>13, <1>14, <1>15, <1>16, <1>17, <1>18, <1>19, <1>20, <1>21
       DEF FD!Step, FD!Script

\* Stopping or starting all containers leaves an S3 container in drain mode, or out
\* of it.
DrainKept == S3Type' /\ \A m \in S3Hosts : InDrainMode(m)' = InDrainMode(m)
LEMMA AllKeepDrain ==
    ASSUME NEW m, S3Type, Upgrade!StopsAll(m) \/ Upgrade!StartsAll(m)
    PROVE  DrainKept
  BY DEF DrainKept, S3Type, InDrainMode, Upgrade!InDrainMode, Upgrade!StopsAll,
     Upgrade!StartsAll

\* Steps of the rolling upgrade.
LEMMA UpgradeKeepsDrain ==
    ASSUME S3Type, Upgrade!Step
    PROVE  DrainKept
  <1>0. UNCHANGED s3 => DrainKept
    BY DEF DrainKept, S3Type, InDrainMode
  <1> USE DEF Upgrade!At, Upgrade!machineVars, Upgrade!scriptVars,
     Upgrade!clusterVars, Upgrade!upgradeVars
  <1>1. CASE Upgrade!Run
    BY <1>0, <1>1 DEF Upgrade!Run, Upgrade!Begin
  <1>2. ASSUME NEW m \in Machines, Upgrade!OnTarget(m) PROVE DrainKept
    BY <1>0, <1>2 DEF Upgrade!OnTarget, Upgrade!PassOver, Upgrade!First
  <1>3. ASSUME NEW m \in Machines, Upgrade!Take(m) PROVE DrainKept
    BY <1>0, <1>3 DEF Upgrade!Take, Upgrade!TakeUp, Upgrade!First
  <1>4. CASE Upgrade!Prompt
    BY <1>0, <1>4 DEF Upgrade!Prompt, Upgrade!Goto, Upgrade!End
  <1>5. CASE Upgrade!Stop
    BY <1>5, AllKeepDrain DEF Upgrade!Stop
  <1>6. CASE Upgrade!StopUnlisted
    BY <1>6, AllKeepDrain DEF Upgrade!StopUnlisted
  <1>7. ASSUME NEW c \in Containers, Upgrade!RenameDataDir(c) PROVE DrainKept
    BY <1>0, <1>7 DEF Upgrade!RenameDataDir, Upgrade!FirstContainer
  <1>8. ASSUME NEW c \in Containers, Upgrade!BackupFails(c) PROVE DrainKept
    BY <1>0, <1>8 DEF Upgrade!BackupFails, Upgrade!Fails, Upgrade!FirstContainer
  <1>9. ASSUME NEW c \in Containers, Upgrade!DataDirMissing(c) PROVE DrainKept
    BY <1>0, <1>9 DEF Upgrade!DataDirMissing, Upgrade!End, Upgrade!FirstContainer
  <1>10. CASE Upgrade!SetVersion
    BY <1>0, <1>10 DEF Upgrade!SetVersion, Upgrade!Goto
  <1>11. CASE Upgrade!Start
    BY <1>11, AllKeepDrain DEF Upgrade!Start
  <1>12. CASE Upgrade!Started
    BY <1>0, <1>12 DEF Upgrade!Started, Upgrade!Up, Upgrade!Goto
  <1>13. CASE Upgrade!WaitClusterHealthy
    BY <1>0, <1>13 DEF Upgrade!WaitClusterHealthy, Upgrade!Goto
  <1>14. CASE Upgrade!CommandFails
    BY <1>0, <1>14 DEF Upgrade!CommandFails, Upgrade!Fault, Upgrade!Fails,
       Upgrade!End
  <1>15. CASE Upgrade!Completed
    BY <1>0, <1>15 DEF Upgrade!Completed, Upgrade!Goto
  <1>16. CASE Upgrade!Exit
    BY <1>0, <1>16 DEF Upgrade!Exit, Upgrade!End
  <1>17. ASSUME NEW m \in Machines, Upgrade!Repair(m) PROVE DrainKept
    BY <1>17, AllKeepDrain DEF Upgrade!Repair
  <1>18. QED
    BY <1>1, <1>2, <1>3, <1>4, <1>5, <1>6, <1>7, <1>8, <1>9, <1>10, <1>11,
       <1>12, <1>13, <1>14, <1>15, <1>16, <1>17
       DEF Upgrade!Step, Upgrade!Script

\* The other scripts are not in steps that drain or stop S3.
LEMMA StepKeepsS3 ==
    ASSUME TypeOK, S3Inv, [Next]_vars
    PROVE  S3Inv'
  <1> USE DEF fdVars
  <1>1. MachineTypes
    BY DEF TypeOK, ClusterTypeOK, MachineTypes
  <1>2. tool' # "fd" /\ DrainKept => S3Inv'
    BY DEF S3Inv, DrainKept, OneS3Away, FD!OneS3Away, InDrainMode, FD!InDrainMode
  <1>0. UNCHANGED s3 => DrainKept
    BY DEF S3Inv, S3Type, DrainKept, InDrainMode
  <1>3. CASE FD!Step
    BY <1>3, FDKeepsS3
  <1>4. CASE Upgrade!Step /\ UNCHANGED <<fdVars, coreVars>>
    BY <1>1, <1>2, <1>4, UpgradeOnly, UpgradeKeepsDrain DEF Only, S3Inv
  <1>5. CASE Core!Step /\ UNCHANGED <<fdVars, upgradeVars>>
    BY <1>0, <1>1, <1>2, <1>5, CoreOnly, CoreLeavesCores DEF Only
  <1>6. CASE Interrupt
    BY <1>0, <1>2, <1>6 DEF Interrupt, End, machineVars
  <1>7. ASSUME NEW m \in Machines, ContainerReady(m) \/ ClusterStep(m) PROVE S3Inv'
    <2>1. UNCHANGED <<tool, pc, machine, s3>>
      BY <1>7 DEF ContainerReady, FD!ContainerReady, FD!Comes, FD!scriptVars, ClusterStep,
         Notice, RebuildDone, scriptVars
    <2>2. QED
      BY <2>1 DEF S3Inv, S3Type, OneS3Away, FD!OneS3Away, FD!InDrainMode, FD!HasS3
  <1>8. CASE UNCHANGED vars
    BY <1>8 DEF vars, clusterVars, machineVars, scriptVars, S3Inv, S3Type, OneS3Away,
       FD!OneS3Away, FD!InDrainMode, FD!HasS3
  <1>9. QED
    BY <1>3, <1>4, <1>5, <1>6, <1>7, <1>8 DEF Next
-----------------------------------------------------------------------------
(* The grim reaper.                                                        *)

\* Steps of the core reallocation.
LEMMA CoreKeepsReaper ==
    ASSUME MachineTypes, ReaperInv, Core!Step
    PROVE  ReaperInv'
  <1> USE DEF Core!At, Core!machineVars, Core!scriptVars, Core!clusterVars,
     Core!coreVars, ReaperInv, Watched, MachineTypes
  <1>1. CASE Core!Run
    BY <1>1 DEF Core!Run, Core!Begin
  <1>2. CASE Core!CheckRebuild
    BY <1>2 DEF Core!CheckRebuild, Core!Goto
  <1>3. CASE Core!DisableGrimReaper
    BY <1>3 DEF Core!DisableGrimReaper, Core!Goto
  <1>4. CASE Core!CfgdumpFails
    BY <1>4 DEF Core!CfgdumpFails, Core!Pending, Core!Fails, Core!Goto
  <1>5. CASE Core!AllowChange
    BY <1>5 DEF Core!AllowChange, Core!Goto
  <1>6. CASE Core!SettingFails
    <2>1. tool' = "none" /\ UNCHANGED <<container, cores, shown, unwatched>>
      BY <1>6 DEF Core!SettingFails, Core!End
    <2>2. UNCHANGED reaper \/ reaper' = FALSE
      BY <1>6 DEF Core!SettingFails
    <2>3. ~reaper => ~reaper'
      BY <2>2
    <2>4. UNCHANGED Watched
      BY <2>1
    <2>5. Watched # {} => ~reaper'
      BY <2>3
    <2>6. QED
      BY <2>1, <2>4, <2>5
  <1>7. ASSUME NEW m \in Machines, Core!Unneeded(m) PROVE ReaperInv'
    BY <1>7 DEF Core!Unneeded, Core!PassOver, Core!First
  <1>8. ASSUME NEW m \in Machines, Core!CopyFails(m) PROVE ReaperInv'
    BY <1>8 DEF Core!CopyFails, Core!Fault, Core!Fails, Core!PassOver,
       Core!First
  <1>9. ASSUME NEW m \in Machines, Core!Distribute(m) PROVE ReaperInv'
    BY <1>9 DEF Core!Distribute, Core!Backup, Core!TakeUp, Core!Restarts,
       Core!Exposes, Core!Up, Core!First
  <1>10. ASSUME NEW m \in Machines, Core!DistributeFails(m) PROVE ReaperInv'
    BY <1>10 DEF Core!DistributeFails, Core!SshFails, Core!BackupExists,
       Core!StagingFails, Core!ApplyFails, Core!Backup, Core!Fails, Core!TakeUp,
       Core!First
  <1>11. CASE Core!DownloadFails
    BY <1>11 DEF Core!DownloadFails, Core!Fails, Core!End
  <1>12. CASE Core!WaitForRebuild("core rebuild", "core nodes")
    BY <1>12 DEF Core!WaitForRebuild, Core!Goto
  <1>13. CASE Core!WaitForNodes("core nodes", "core validate")
    BY <1>13, MaintenanceAssumption DEF Core!WaitForNodes, Core!Up, Core!Goto
  <1>14. CASE Core!NodeQueryFails("core nodes", "core validate")
    BY <1>14 DEF Core!NodeQueryFails, Core!Pending, Core!Fault, Core!Fails,
       Core!Goto
  <1>15. CASE Core!Validate
    BY <1>15 DEF Core!Validate, Core!Goto, Core!End
  <1>16. CASE Core!Distributed
    BY <1>16 DEF Core!Distributed
  <1>17. ASSUME NEW m \in Machines, Core!Blacklist(m) PROVE ReaperInv'
    BY <1>17 DEF Core!Blacklist, Core!TakeUp,
       Core!Exposes, Core!Up, Core!First
  <1>18. ASSUME NEW m \in Machines, Core!BlacklistFails(m) PROVE ReaperInv'
    BY <1>18 DEF Core!BlacklistFails, Core!Fault, Core!Fails, Core!TakeUp,
       Core!First
  <1>19. CASE Core!Readmit
    BY <1>19 DEF Core!Readmit, Core!Goto
  <1>20. CASE Core!ReadmitFails
    BY <1>20 DEF Core!ReadmitFails, Core!Fault, Core!Fails, Core!Goto
  <1>21. CASE Core!WaitForRebuild("core rebuilt", "core back")
    BY <1>21 DEF Core!WaitForRebuild, Core!Goto
  <1>22. CASE Core!WaitForNodes("core back", "core black")
    BY <1>22, MaintenanceAssumption DEF Core!WaitForNodes, Core!Up, Core!Goto
  <1>23. CASE Core!NodeQueryFails("core back", "core black")
    BY <1>23 DEF Core!NodeQueryFails, Core!Pending, Core!Fault, Core!Fails,
       Core!Goto
  <1>24. CASE Core!Blacklisted
    BY <1>24 DEF Core!Blacklisted, Core!Goto
  <1>25. CASE Core!EnableGrimReaper
    BY <1>25 DEF Core!EnableGrimReaper, Core!Goto
  <1>26. CASE Core!ForbidChange
    BY <1>26 DEF Core!ForbidChange, Core!End
  <1>27. CASE Core!ResetFails
    BY <1>27 DEF Core!ResetFails, Core!Fault, Core!Fails, Core!Goto, Core!End
  <1>28. ASSUME NEW m \in Machines, Core!Unblacklist(m) PROVE ReaperInv'
    BY <1>28 DEF Core!Unblacklist
  <1>29. QED
    BY <1>1, <1>2, <1>3, <1>4, <1>5, <1>6, <1>7, <1>8, <1>9, <1>10, <1>11,
       <1>12, <1>13, <1>14, <1>15, <1>16, <1>17, <1>18, <1>19, <1>20, <1>21, <1>22,
       <1>23, <1>24, <1>25, <1>26, <1>27, <1>28
       DEF Core!Step, Core!Script

\* The other scripts leave cores and the grim reaper alone; a container that comes
\* up has the cores wanted.
LEMMA StepKeepsReaper ==
    ASSUME TypeOK, ReaperInv, [Next]_vars
    PROVE  ReaperInv'
  <1> USE DEF coreVars
  <1>1. MachineTypes
    BY DEF TypeOK, ClusterTypeOK, MachineTypes
  <1>2. ASSUME tool' # "cores", UNCHANGED coreVars,
               \A k \in Machines : container[k] \in {"starting", "down"} =>
                                       container'[k] \in {"starting", "down"}
        PROVE  ReaperInv'
    BY <1>2 DEF ReaperInv, Watched
  <1>3. CASE FD!Step /\ UNCHANGED <<upgradeVars, coreVars>>
    BY <1>1, <1>2, <1>3, FDOnly DEF Only
  <1>4. CASE Upgrade!Step /\ UNCHANGED <<fdVars, coreVars>>
    BY <1>1, <1>2, <1>4, UpgradeOnly DEF Only
  <1>5. CASE Core!Step
    BY <1>1, <1>5, CoreKeepsReaper
  <1>6. CASE Interrupt
    BY <1>2, <1>6 DEF Interrupt, End, machineVars
  <1>7. ASSUME NEW m \in Machines, ContainerReady(m) PROVE ReaperInv'
    <2>1. /\ Core!Comes(m)
          /\ UNCHANGED <<tool, pc, machine, shown, reaper, wasDisabled>>
          /\ IF container[m] = "starting"
             THEN cores' = [cores EXCEPT ![m] = shown[m]] /\ unwatched' = unwatched \ {m}
             ELSE UNCHANGED <<cores, unwatched>>
      BY <1>7 DEF ContainerReady, Core!ContainerReady, Core!scriptVars
    <2>2. /\ container[m] \in {"starting", "fenced"}
          /\ \A k \in Machines \ {m} : container'[k] = container[k]
      BY <1>1, <2>1 DEF Core!Comes, MachineTypes
    <2>3. Watched' \subseteq Watched \ {m}
      <3>1. CASE container[m] = "starting"
        <4>1. cores'[m] = shown'[m] /\ \A k \in Machines \ {m} : cores'[k] = cores[k]
          BY <2>1, <3>1 DEF ReaperInv
        <4>2. QED
          BY <2>1, <3>1, <4>1 DEF Watched
      <3>2. CASE container[m] # "starting"
        <4>1. m \notin Watched
          BY <2>2, <3>2 DEF ReaperInv
        <4>2. Watched' = Watched
          BY <2>1, <3>2 DEF Watched
        <4>3. QED
          BY <4>1, <4>2
      <3>3. QED
        BY <3>1, <3>2
    <2>4. /\ cores' \in [Machines -> {"old", "new"}] /\ shown' \in [Machines -> {"old", "new"}]
          /\ unwatched' \subseteq Machines
      BY <2>1 DEF ReaperInv
    <2>5. \A k \in Watched' : k \in Watched /\ container'[k] = container[k]
      BY <2>2, <2>3 DEF Watched
    <2>6. \A k \in Watched' : container'[k] \in {"starting", "down"}
      BY <2>5 DEF ReaperInv
    <2>7. Watched' # {} => ~reaper'
      BY <2>1, <2>5 DEF ReaperInv
    <2>8. tool' = "cores" /\ pc' \notin {"core check", "core reaper", "core forbid"} => ~reaper'
      BY <2>1 DEF ReaperInv
    <2>9. tool' = "cores" /\ pc' \notin {"core check", "core reaper"} /\ ~wasDisabled' =>
            \A k \in Watched' : pc' \in {"core rebuild", "core nodes"} /\ k = machine'
      BY <2>1, <2>5 DEF ReaperInv
    <2>10. QED
      BY <2>4, <2>6, <2>7, <2>8, <2>9 DEF ReaperInv
  <1>8. ASSUME NEW m \in Machines, ClusterStep(m) PROVE ReaperInv'
    <2>1. UNCHANGED <<tool, pc, machine, container, coreVars>>
      BY <1>8 DEF ClusterStep, Notice, RebuildDone, scriptVars
    <2>2. QED
      BY <2>1 DEF ReaperInv, Watched
  <1>9. CASE UNCHANGED vars
    BY <1>9 DEF vars, clusterVars, machineVars, scriptVars, ReaperInv, Watched
  <1>10. QED
    BY <1>3, <1>4, <1>5, <1>6, <1>7, <1>8, <1>9 DEF Next
-----------------------------------------------------------------------------
(* Data that miss a copy.                                                  *)

\* Steps of the failure domain change.
LEMMA FDKeepsRisk ==
    ASSUME ~LateDetection, RiskInv, FD!Step
    PROVE  RiskInv'
  <1> USE DEF FD!At, FD!machineVars, FD!scriptVars, FD!clusterVars, FD!fdVars,
     RiskInv, Clear, Away, Exposed
  <1>1. CASE FD!Run
    BY <1>1 DEF FD!Run, FD!Begin
  <1>2. ASSUME NEW m \in Machines, FD!AlreadyManual(m) PROVE RiskInv'
    BY <1>2 DEF FD!AlreadyManual, FD!PassOver, FD!First
  <1>3. ASSUME NEW m \in Machines, FD!Take(m) PROVE RiskInv'
    BY <1>3 DEF FD!Take, FD!TakeUp, FD!First
  <1>4. CASE FD!Finished
    BY <1>4 DEF FD!Finished, FD!End
  <1>5. CASE FD!WaitForHealthy("fd health", "fd prompt")
    BY <1>5 DEF FD!WaitForHealthy, FD!Goto, FD!FullyProtected, FD!AllActive,
       FD!Up
  <1>6. CASE FD!CheckEtcd
    BY <1>6 DEF FD!CheckEtcd, FD!HasS3, FD!Goto, FD!End
  <1>7. CASE FD!WaitForS3ClusterToBeReady
    BY <1>7 DEF FD!WaitForS3ClusterToBeReady, FD!Goto
  <1>8. CASE FD!UndrainOwn
    BY <1>8 DEF FD!UndrainOwn
  <1>9. CASE FD!Drain
    BY <1>9 DEF FD!Drain, FD!Goto
  <1>10. CASE FD!Drained
    BY <1>10 DEF FD!Drained, FD!Goto
  <1>11. CASE FD!DrainTimesOut
    BY <1>11 DEF FD!DrainTimesOut, FD!End
  <1>12. CASE FD!StopS3
    BY <1>12 DEF FD!StopS3, FD!Goto
  <1>13. CASE FD!SetName
    BY <1>13 DEF FD!SetName, FD!Goto
  <1>14. CASE FD!Apply
    BY <1>14 DEF FD!Apply, FD!Goto, FD!Restarts, FD!Exposes,
       FD!Up
  <1>15. CASE FD!WaitForContainerReadiness
    BY <1>15 DEF FD!WaitForContainerReadiness, FD!Up, FD!HasS3, FD!Goto,
       FD!End
  <1>16. CASE FD!StartS3AndUndrain
    BY <1>16 DEF FD!StartS3AndUndrain, FD!Goto
  <1>17. CASE FD!WaitForUnhealthyCluster
    BY <1>17 DEF FD!WaitForUnhealthyCluster, FD!Goto
  <1>18. CASE FD!WaitForHealthy("fd healthy", "fd next")
    BY <1>18 DEF FD!WaitForHealthy, FD!Goto, FD!FullyProtected, FD!AllActive,
       FD!Up
  <1>19. CASE FD!CommandFails
    BY <1>19 DEF FD!CommandFails, FD!Fault, FD!Fails, FD!End
  <1>20. CASE FD!Prompt
    BY <1>20 DEF FD!Prompt, FD!Goto, FD!End
  <1>21. ASSUME NEW s \in S3Hosts, FD!RestoreS3(s) PROVE RiskInv'
    BY <1>21 DEF FD!RestoreS3
  <1>22. QED
    BY <1>1, <1>2, <1>3, <1>4, <1>5, <1>6, <1>7, <1>8, <1>9, <1>10, <1>11,
       <1>12, <1>13, <1>14, <1>15, <1>16, <1>17, <1>18, <1>19, <1>20, <1>21
       DEF FD!Step, FD!Script

\* Steps of the rolling upgrade.
LEMMA UpgradeKeepsRisk ==
    ASSUME ~LateDetection, ~HealthTimeouts, RiskInv, Upgrade!Step
    PROVE  RiskInv'
  <1> USE DEF Upgrade!At, Upgrade!machineVars, Upgrade!scriptVars,
     Upgrade!clusterVars, Upgrade!upgradeVars, RiskInv, Clear, Away, Exposed
  <1>1. CASE Upgrade!Run
    BY <1>1 DEF Upgrade!Run, Upgrade!Begin, Upgrade!Healthy,
       Upgrade!FullyProtected, Upgrade!AllActive, Upgrade!Up
  <1>2. ASSUME NEW m \in Machines, Upgrade!OnTarget(m) PROVE RiskInv'
    BY <1>2 DEF Upgrade!OnTarget, Upgrade!PassOver, Upgrade!First
  <1>3. ASSUME NEW m \in Machines, Upgrade!Take(m) PROVE RiskInv'
    BY <1>3 DEF Upgrade!Take, Upgrade!TakeUp, Upgrade!First
  <1>4. CASE Upgrade!Prompt
    BY <1>4 DEF Upgrade!Prompt, Upgrade!Goto, Upgrade!End
  <1>5. CASE Upgrade!Stop
    BY <1>5 DEF Upgrade!Stop, Upgrade!StopsAll, Upgrade!Exposes,
       Upgrade!Up, Upgrade!Goto
  <1>6. CASE Upgrade!StopUnlisted
    BY <1>6 DEF Upgrade!StopUnlisted, Upgrade!StopsAll, Upgrade!Exposes,
       Upgrade!Up, Upgrade!Goto, Upgrade!Fails
  <1>7. ASSUME NEW c \in Containers, Upgrade!RenameDataDir(c) PROVE RiskInv'
    BY <1>7 DEF Upgrade!RenameDataDir, Upgrade!FirstContainer
  <1>8. ASSUME NEW c \in Containers, Upgrade!BackupFails(c) PROVE RiskInv'
    BY <1>8 DEF Upgrade!BackupFails, Upgrade!Fails, Upgrade!FirstContainer
  <1>9. ASSUME NEW c \in Containers, Upgrade!DataDirMissing(c) PROVE RiskInv'
    BY <1>9 DEF Upgrade!DataDirMissing, Upgrade!End, Upgrade!FirstContainer
  <1>10. CASE Upgrade!SetVersion
    BY <1>10 DEF Upgrade!SetVersion, Upgrade!Goto
  <1>11. CASE Upgrade!Start
    BY <1>11 DEF Upgrade!Start, Upgrade!StartsAll, Upgrade!Goto
  <1>12. CASE Upgrade!Started
    BY <1>12 DEF Upgrade!Started, Upgrade!Up, Upgrade!Goto
  <1>13. CASE Upgrade!WaitClusterHealthy
    BY <1>13 DEF Upgrade!WaitClusterHealthy, Upgrade!Goto, Upgrade!Healthy,
       Upgrade!FullyProtected, Upgrade!AllActive, Upgrade!Up
  <1>14. CASE Upgrade!CommandFails
    BY <1>14 DEF Upgrade!CommandFails, Upgrade!Fault, Upgrade!Fails,
       Upgrade!End
  <1>15. CASE Upgrade!Completed
    BY <1>15 DEF Upgrade!Completed, Upgrade!Goto
  <1>16. CASE Upgrade!Exit
    BY <1>16 DEF Upgrade!Exit, Upgrade!End
  <1>17. ASSUME NEW m \in Machines, Upgrade!Repair(m) PROVE RiskInv'
    BY <1>17 DEF Upgrade!Repair, Upgrade!StartsAll
  <1>18. QED
    BY <1>1, <1>2, <1>3, <1>4, <1>5, <1>6, <1>7, <1>8, <1>9, <1>10, <1>11,
       <1>12, <1>13, <1>14, <1>15, <1>16, <1>17
       DEF Upgrade!Step, Upgrade!Script

\* Steps of the core reallocation.
LEMMA CoreKeepsRisk ==
    ASSUME ~LateDetection, NamesApart, RiskInv, Core!Step
    PROVE  RiskInv'
  <1> USE DEF Core!At, Core!machineVars, Core!scriptVars, Core!clusterVars,
     Core!coreVars, RiskInv, Clear, Away, Exposed
  <1>1. CASE Core!Run
    BY <1>1 DEF Core!Run, Core!Begin, Core!FullyProtected
  <1>2. CASE Core!CheckRebuild
    BY <1>2 DEF Core!CheckRebuild, Core!FullyProtected, Core!Goto
  <1>3. CASE Core!DisableGrimReaper
    BY <1>3 DEF Core!DisableGrimReaper, Core!Goto
  <1>4. CASE Core!CfgdumpFails
    BY <1>4 DEF Core!CfgdumpFails, Core!Fails, Core!Goto
  <1>5. CASE Core!AllowChange
    BY <1>5 DEF Core!AllowChange, Core!Goto
  <1>6. CASE Core!SettingFails
    BY <1>6 DEF Core!SettingFails, Core!Fault, Core!Fails, Core!End
  <1>7. ASSUME NEW m \in Machines, Core!Unneeded(m) PROVE RiskInv'
    BY <1>7 DEF Core!Unneeded, Core!PassOver, Core!First
  <1>8. ASSUME NEW m \in Machines, Core!CopyFails(m) PROVE RiskInv'
    BY <1>8 DEF Core!CopyFails, Core!Fault, Core!Fails, Core!PassOver,
       Core!First
  <1>9. ASSUME NEW m \in Machines, Core!Distribute(m) PROVE RiskInv'
    BY <1>9 DEF Core!Distribute, Core!Backup, Core!TakeUp, Core!Restarts,
       Core!Exposes, Core!Up, Core!First
  <1>10. ASSUME NEW m \in Machines, Core!DistributeFails(m) PROVE RiskInv'
    BY <1>10 DEF Core!DistributeFails, Core!SshFails, Core!BackupExists,
       Core!StagingFails, Core!ApplyFails, Core!Backup, Core!Fails, Core!TakeUp,
       Core!First
  <1>11. CASE Core!DownloadFails
    BY <1>11 DEF Core!DownloadFails, Core!Fails, Core!End
  <1>12. CASE Core!WaitForRebuild("core rebuild", "core nodes")
    <2>1. /\ tool = "cores" /\ risk[machine] # "unseen"
          /\ \A m \in Machines : risk[m] # "rebuilding"
          /\ \A m \in Machines : risk[m] # "none" => m = machine
      BY <1>12 DEF Core!WaitForRebuild, Core!FullyProtected
    <2>2. \A m \in Machines : risk[m] = "none"
      <3>1. SUFFICES ASSUME NEW m \in Machines, risk[m] # "none" PROVE FALSE
        OBVIOUS
      <3>2. m = machine /\ risk[m] # "unseen" /\ risk[m] # "rebuilding"
        BY <2>1, <3>1
      <3>3. risk[m] \in {"none", "unseen", "rebuilding"}
        OBVIOUS
      <3>4. QED
        BY <3>1, <3>2, <3>3
    <2>3. /\ tool' = "cores" /\ UNCHANGED <<risk, container, machine>>
          /\ pc' \notin Away \cup {"up healthy"}
      BY <1>12 DEF Core!WaitForRebuild, Core!Goto
    <2>4. QED
      BY <2>2, <2>3
  <1>13. CASE Core!WaitForNodes("core nodes", "core validate")
    BY <1>13 DEF Core!WaitForNodes, Core!Up, Core!Goto
  <1>14. CASE Core!NodeQueryFails("core nodes", "core validate")
    BY <1>14 DEF Core!NodeQueryFails, Core!Fault, Core!Fails, Core!Goto
  <1>15. CASE Core!Validate
    BY <1>15 DEF Core!Validate, Core!Goto, Core!End
  <1>16. CASE Core!Distributed
    BY <1>16 DEF Core!Distributed
  <1>17. ASSUME NEW m \in Machines, Core!Blacklist(m) PROVE RiskInv'
    <2>1. Matches[m] = {m}
      BY DEF NamesApart
    <2>2. /\ container' = [k \in Machines |-> IF k = m /\ container[k] = "up" THEN "fenced"
                                              ELSE container[k]]
          /\ risk' = [k \in Machines |-> IF k = m /\ container[k] = "up" /\ risk[k] = "none"
                                         THEN "unseen" ELSE risk[k]]
      BY <1>17, <2>1 DEF Core!Blacklist, Core!Exposes, Core!Up
    <2>3. /\ tool = "cores" /\ pc = "core black"
          /\ tool' = "cores" /\ pc' = "core readmit" /\ machine' = m
      BY <1>17 DEF Core!Blacklist, Core!TakeUp
    <2>4. QED
      BY <2>2, <2>3
  <1>18. ASSUME NEW m \in Machines, Core!BlacklistFails(m) PROVE RiskInv'
    BY <1>18 DEF Core!BlacklistFails, Core!Fault, Core!Fails, Core!TakeUp,
       Core!First
  <1>19. CASE Core!Readmit
    BY <1>19 DEF Core!Readmit, Core!Goto
  <1>20. CASE Core!ReadmitFails
    BY <1>20 DEF Core!ReadmitFails, Core!Fault, Core!Fails, Core!Goto
  <1>21. CASE Core!WaitForRebuild("core rebuilt", "core back")
    <2>1. /\ tool = "cores" /\ risk[machine] # "unseen"
          /\ \A m \in Machines : risk[m] # "rebuilding"
          /\ \A m \in Machines : risk[m] # "none" => m = machine
      BY <1>21 DEF Core!WaitForRebuild, Core!FullyProtected
    <2>2. \A m \in Machines : risk[m] = "none"
      <3>1. SUFFICES ASSUME NEW m \in Machines, risk[m] # "none" PROVE FALSE
        OBVIOUS
      <3>2. m = machine /\ risk[m] # "unseen" /\ risk[m] # "rebuilding"
        BY <2>1, <3>1
      <3>3. risk[m] \in {"none", "unseen", "rebuilding"}
        OBVIOUS
      <3>4. QED
        BY <3>1, <3>2, <3>3
    <2>3. /\ tool' = "cores" /\ UNCHANGED <<risk, container, machine>>
          /\ pc' \notin Away \cup {"up healthy"}
      BY <1>21 DEF Core!WaitForRebuild, Core!Goto
    <2>4. QED
      BY <2>2, <2>3
  <1>22. CASE Core!WaitForNodes("core back", "core black")
    BY <1>22 DEF Core!WaitForNodes, Core!Up, Core!Goto
  <1>23. CASE Core!NodeQueryFails("core back", "core black")
    BY <1>23 DEF Core!NodeQueryFails, Core!Fault, Core!Fails, Core!Goto
  <1>24. CASE Core!Blacklisted
    BY <1>24 DEF Core!Blacklisted, Core!Goto
  <1>25. CASE Core!EnableGrimReaper
    BY <1>25 DEF Core!EnableGrimReaper, Core!Goto
  <1>26. CASE Core!ForbidChange
    BY <1>26 DEF Core!ForbidChange, Core!End
  <1>27. CASE Core!ResetFails
    BY <1>27 DEF Core!ResetFails, Core!Fault, Core!Fails, Core!Goto, Core!End
  <1>28. ASSUME NEW m \in Machines, Core!Unblacklist(m) PROVE RiskInv'
    BY <1>28 DEF Core!Unblacklist
  <1>29. QED
    BY <1>1, <1>2, <1>3, <1>4, <1>5, <1>6, <1>7, <1>8, <1>9, <1>10, <1>11,
       <1>12, <1>13, <1>14, <1>15, <1>16, <1>17, <1>18, <1>19, <1>20, <1>21, <1>22,
       <1>23, <1>24, <1>25, <1>26, <1>27, <1>28
       DEF Core!Step, Core!Script

\* Without late detection a machine that comes up was seen to be away before.
LEMMA StepKeepsRisk ==
    ASSUME ~LateDetection, ~HealthTimeouts, NamesApart, RiskInv, [Next]_vars
    PROVE  RiskInv'
  <1>1. CASE FD!Step
    BY <1>1, FDKeepsRisk
  <1>2. CASE Upgrade!Step
    BY <1>2, UpgradeKeepsRisk
  <1>3. CASE Core!Step
    BY <1>3, CoreKeepsRisk
  <1>4. CASE Interrupt
    BY <1>4 DEF Interrupt, End, machineVars, RiskInv, Exposed
  <1>5. ASSUME NEW m \in Machines, ContainerReady(m) PROVE RiskInv'
    BY <1>5 DEF ContainerReady, FD!ContainerReady, FD!Comes, FD!scriptVars, RiskInv, Exposed
  <1>6. ASSUME NEW m \in Machines, ClusterStep(m) PROVE RiskInv'
    <2>1. risk \in [Machines -> {"none", "unseen", "rebuilding"}]
      BY DEF RiskInv
    <2>2. PICK r \in {"none", "rebuilding"} :
            /\ risk' = [risk EXCEPT ![m] = r]
            /\ risk[m] # "none"
            /\ UNCHANGED <<container, scriptVars>>
      BY <1>6 DEF ClusterStep, Notice, RebuildDone
    <2>3. /\ risk' \in [Machines -> {"none", "unseen", "rebuilding"}]
          /\ \A k \in Machines : risk'[k] # "none" => risk[k] # "none"
          /\ \A k \in Machines : risk'[k] = "unseen" => risk[k] = "unseen"
      BY <2>1, <2>2
    <2>4. UNCHANGED <<container, tool, pc, machine>>
      BY <2>2 DEF scriptVars
    <2>5. Exposed' \subseteq Exposed
      BY <2>3 DEF Exposed
    <2>6. QED
      BY <2>3, <2>4, <2>5 DEF RiskInv
  <1>7. CASE UNCHANGED vars
    BY <1>7 DEF vars, clusterVars, machineVars, scriptVars, RiskInv, Exposed
  <1>8. QED
    BY <1>1, <1>2, <1>3, <1>4, <1>5, <1>6, <1>7 DEF Next
-----------------------------------------------------------------------------
(* The upgrade.                                                            *)

\* Steps of the rolling upgrade.
LEMMA UpgradeKeepsUpgrade ==
    ASSUME ~LateDetection, ~HealthTimeouts, TypeOK, UpgradeInv, Upgrade!Step
    PROVE  UpgradeInv'
  <1> USE DEF Upgrade!At, Upgrade!machineVars, Upgrade!scriptVars,
     Upgrade!clusterVars, Upgrade!upgradeVars, UpgradeInv
  <1>0. container \in [Machines -> {"up", "starting", "fenced", "down"}] /\ machine \in Machines
    BY DEF TypeOK, ClusterTypeOK
  <1>1. CASE Upgrade!Run
    BY <1>1 DEF Upgrade!Run, Upgrade!Begin, Upgrade!Healthy,
       Upgrade!AllActive, Upgrade!Up
  <1>2. ASSUME NEW m \in Machines, Upgrade!OnTarget(m) PROVE UpgradeInv'
    BY <1>2 DEF Upgrade!OnTarget, Upgrade!PassOver, Upgrade!First
  <1>3. ASSUME NEW m \in Machines, Upgrade!Take(m) PROVE UpgradeInv'
    BY <1>3 DEF Upgrade!Take, Upgrade!TakeUp, Upgrade!First
  <1>4. CASE Upgrade!Prompt
    BY <1>4 DEF Upgrade!Prompt, Upgrade!Goto, Upgrade!End
  <1>5. CASE Upgrade!Stop
    BY <1>0, <1>5 DEF Upgrade!Stop, Upgrade!StopsAll, Upgrade!Exposes,
       Upgrade!Up, Upgrade!Goto
  <1>6. CASE Upgrade!StopUnlisted
    BY <1>0, <1>6 DEF Upgrade!StopUnlisted, Upgrade!StopsAll, Upgrade!Exposes,
       Upgrade!Up, Upgrade!Goto, Upgrade!Fails
  <1>7. ASSUME NEW c \in Containers, Upgrade!RenameDataDir(c) PROVE UpgradeInv'
    BY <1>7 DEF Upgrade!RenameDataDir, Upgrade!FirstContainer
  <1>8. ASSUME NEW c \in Containers, Upgrade!BackupFails(c) PROVE UpgradeInv'
    BY <1>8 DEF Upgrade!BackupFails, Upgrade!Fails, Upgrade!FirstContainer
  <1>9. ASSUME NEW c \in Containers, Upgrade!DataDirMissing(c) PROVE UpgradeInv'
    BY <1>9 DEF Upgrade!DataDirMissing, Upgrade!End, Upgrade!FirstContainer
  <1>10. CASE Upgrade!SetVersion
    <2>1. version \in [Machines -> {"source", "target"}] /\ machine \in Machines
      BY DEF TypeOK, ClusterTypeOK, Upgrade!UpgradeTypeOK
    <2>2. QED
      BY <1>10, <2>1 DEF Upgrade!SetVersion, Upgrade!Goto
  <1>11. CASE Upgrade!Start
    BY <1>0, <1>11 DEF Upgrade!Start, Upgrade!StartsAll, Upgrade!Goto
  <1>12. CASE Upgrade!Started
    BY <1>12 DEF Upgrade!Started, Upgrade!Up, Upgrade!Goto
  <1>13. CASE Upgrade!WaitClusterHealthy
    BY <1>13 DEF Upgrade!WaitClusterHealthy, Upgrade!Goto, Upgrade!Healthy,
       Upgrade!AllActive, Upgrade!Up
  <1>14. CASE Upgrade!CommandFails
    BY <1>14 DEF Upgrade!CommandFails, Upgrade!Fault, Upgrade!Fails,
       Upgrade!End
  <1>15. CASE Upgrade!Completed
    BY <1>15 DEF Upgrade!Completed, Upgrade!Goto
  <1>16. CASE Upgrade!Exit
    BY <1>16 DEF Upgrade!Exit, Upgrade!End
  <1>17. ASSUME NEW m \in Machines, Upgrade!Repair(m) PROVE UpgradeInv'
    BY <1>17 DEF Upgrade!Repair, Upgrade!StartsAll
  <1>18. QED
    BY <1>1, <1>2, <1>3, <1>4, <1>5, <1>6, <1>7, <1>8, <1>9, <1>10, <1>11,
       <1>12, <1>13, <1>14, <1>15, <1>16, <1>17
       DEF Upgrade!Step, Upgrade!Script

\* The other scripts do not run then, and no version changes without one.
LEMMA StepKeepsUpgrade ==
    ASSUME ~LateDetection, ~HealthTimeouts, TypeOK, UpgradeInv, [Next]_vars
    PROVE  UpgradeInv'
  <1>1. MachineTypes
    BY DEF TypeOK, ClusterTypeOK, MachineTypes
  <1>2. tool' # "upgrade" => UpgradeInv'
    BY DEF UpgradeInv
  <1>3. CASE FD!Step
    BY <1>1, <1>2, <1>3, FDOnly DEF Only
  <1>4. CASE Upgrade!Step
    BY <1>4, UpgradeKeepsUpgrade
  <1>5. CASE Core!Step
    BY <1>1, <1>2, <1>5, CoreOnly DEF Only
  <1>6. CASE Interrupt
    BY <1>2, <1>6 DEF Interrupt, End
  <1>7. ASSUME NEW m \in Machines, ContainerReady(m) PROVE UpgradeInv'
    <2>1. /\ UNCHANGED <<tool, pc, machine, todo, version, skipped, risk>>
          /\ container' = [container EXCEPT ![m] = "up"]
      BY <1>7 DEF ContainerReady, FD!ContainerReady, FD!Comes, FD!scriptVars, upgradeVars
    <2>2. QED
      BY <1>1, <2>1 DEF UpgradeInv, MachineTypes
  <1>8. ASSUME NEW m \in Machines, ClusterStep(m) PROVE UpgradeInv'
    <2>1. UNCHANGED <<tool, pc, machine, todo, version, skipped, container>>
      BY <1>8 DEF ClusterStep, Notice, RebuildDone, scriptVars, upgradeVars
    <2>2. machine \in Machines /\ (risk'[machine] = "unseen" => risk[machine] = "unseen")
      BY <1>1, <1>8 DEF ClusterStep, Notice, RebuildDone, MachineTypes, TypeOK, ClusterTypeOK
    <2>3. QED
      BY <2>1, <2>2 DEF UpgradeInv
  <1>9. CASE UNCHANGED vars
    BY <1>9 DEF vars, clusterVars, machineVars, scriptVars, upgradeVars, UpgradeInv
  <1>10. QED
    BY <1>3, <1>4, <1>5, <1>6, <1>7, <1>8, <1>9 DEF Next
-----------------------------------------------------------------------------
(* Types.                                                                  *)

\* A fault is counted, at whichever step, and there are not too many.
LEMMA FaultIsCounted ==
    ASSUME NEW step, faults \in 0..MaxFaults,
           FD!Fails(step) \/ Upgrade!Fails(step) \/ Core!Fails(step)
    PROVE  faults' \in 0..MaxFaults
  BY ClusterAssumption DEF FD!Fails, Upgrade!Fails, Core!Fails

\* Steps of the failure domain change.
LEMMA FDKeepsType ==
    ASSUME ClusterTypeOK, FD!FDTypeOK, FD!Step
    PROVE  ClusterTypeOK' /\ FD!FDTypeOK'
  <1> USE DEF FD!At, FD!machineVars, FD!scriptVars, FD!clusterVars, FD!fdVars,
     ClusterTypeOK, FD!FDTypeOK
  <1>1. CASE FD!Run
    BY <1>1 DEF FD!Run, FD!Begin
  <1>2. ASSUME NEW m \in Machines, FD!AlreadyManual(m) PROVE ClusterTypeOK' /\ FD!FDTypeOK'
    BY <1>2 DEF FD!AlreadyManual, FD!PassOver, FD!First
  <1>3. ASSUME NEW m \in Machines, FD!Take(m) PROVE ClusterTypeOK' /\ FD!FDTypeOK'
    BY <1>3 DEF FD!Take, FD!TakeUp, FD!First
  <1>4. CASE FD!Finished
    BY <1>4 DEF FD!Finished, FD!End
  <1>5. CASE FD!WaitForHealthy("fd health", "fd prompt")
    BY <1>5 DEF FD!WaitForHealthy, FD!Goto
  <1>6. CASE FD!CheckEtcd
    BY <1>6 DEF FD!CheckEtcd, FD!HasS3, FD!Goto, FD!End
  <1>7. CASE FD!WaitForS3ClusterToBeReady
    BY <1>7 DEF FD!WaitForS3ClusterToBeReady, FD!Goto
  <1>8. CASE FD!UndrainOwn
    BY <1>8 DEF FD!UndrainOwn
  <1>9. CASE FD!Drain
    BY <1>9 DEF FD!Drain, FD!Goto
  <1>10. CASE FD!Drained
    BY <1>10 DEF FD!Drained, FD!Goto
  <1>11. CASE FD!DrainTimesOut
    BY <1>11 DEF FD!DrainTimesOut, FD!End
  <1>12. CASE FD!StopS3
    BY <1>12 DEF FD!StopS3, FD!Goto
  <1>13. CASE FD!SetName
    BY <1>13 DEF FD!SetName, FD!Goto
  <1>14. CASE FD!Apply
    BY <1>14 DEF FD!Apply, FD!Goto, FD!Restarts, FD!Exposes,
       FD!Up
  <1>15. CASE FD!WaitForContainerReadiness
    BY <1>15 DEF FD!WaitForContainerReadiness, FD!Up, FD!HasS3, FD!Goto,
       FD!End
  <1>16. CASE FD!StartS3AndUndrain
    BY <1>16 DEF FD!StartS3AndUndrain, FD!Goto
  <1>17. CASE FD!WaitForUnhealthyCluster
    BY <1>17 DEF FD!WaitForUnhealthyCluster, FD!Goto
  <1>18. CASE FD!WaitForHealthy("fd healthy", "fd next")
    BY <1>18 DEF FD!WaitForHealthy, FD!Goto
  <1>19. CASE FD!CommandFails
    BY <1>19, FaultIsCounted DEF FD!CommandFails, FD!Fault, FD!End
  <1>20. CASE FD!Prompt
    BY <1>20 DEF FD!Prompt, FD!Goto, FD!End
  <1>21. ASSUME NEW s \in S3Hosts, FD!RestoreS3(s) PROVE ClusterTypeOK' /\ FD!FDTypeOK'
    BY <1>21 DEF FD!RestoreS3
  <1>22. QED
    BY <1>1, <1>2, <1>3, <1>4, <1>5, <1>6, <1>7, <1>8, <1>9, <1>10, <1>11,
       <1>12, <1>13, <1>14, <1>15, <1>16, <1>17, <1>18, <1>19, <1>20, <1>21
       DEF FD!Step, FD!Script

\* Steps of the rolling upgrade.
LEMMA UpgradeKeepsType ==
    ASSUME ClusterTypeOK, Upgrade!UpgradeTypeOK, Upgrade!Step
    PROVE  ClusterTypeOK' /\ Upgrade!UpgradeTypeOK'
  <1> USE DEF Upgrade!At, Upgrade!machineVars, Upgrade!scriptVars,
     Upgrade!clusterVars, Upgrade!upgradeVars, ClusterTypeOK,
     Upgrade!UpgradeTypeOK
  <1>1. CASE Upgrade!Run
    BY <1>1 DEF Upgrade!Run, Upgrade!Begin
  <1>2. ASSUME NEW m \in Machines, Upgrade!OnTarget(m) PROVE ClusterTypeOK' /\ Upgrade!UpgradeTypeOK'
    BY <1>2 DEF Upgrade!OnTarget, Upgrade!PassOver, Upgrade!First
  <1>3. ASSUME NEW m \in Machines, Upgrade!Take(m) PROVE ClusterTypeOK' /\ Upgrade!UpgradeTypeOK'
    BY <1>3 DEF Upgrade!Take, Upgrade!TakeUp, Upgrade!First
  <1>4. CASE Upgrade!Prompt
    BY <1>4 DEF Upgrade!Prompt, Upgrade!Goto, Upgrade!End
  <1>5. CASE Upgrade!Stop
    BY <1>5 DEF Upgrade!Stop, Upgrade!StopsAll, Upgrade!Exposes,
       Upgrade!Up, Upgrade!Goto
  <1>6. CASE Upgrade!StopUnlisted
    BY <1>6, FaultIsCounted DEF Upgrade!StopUnlisted, Upgrade!StopsAll, Upgrade!Exposes,
       Upgrade!Up, Upgrade!Goto
  <1>7. ASSUME NEW c \in Containers, Upgrade!RenameDataDir(c) PROVE ClusterTypeOK' /\ Upgrade!UpgradeTypeOK'
    BY <1>7 DEF Upgrade!RenameDataDir, Upgrade!FirstContainer
  <1>8. ASSUME NEW c \in Containers, Upgrade!BackupFails(c) PROVE ClusterTypeOK' /\ Upgrade!UpgradeTypeOK'
    BY <1>8, FaultIsCounted DEF Upgrade!BackupFails, Upgrade!FirstContainer
  <1>9. ASSUME NEW c \in Containers, Upgrade!DataDirMissing(c) PROVE ClusterTypeOK' /\ Upgrade!UpgradeTypeOK'
    BY <1>9 DEF Upgrade!DataDirMissing, Upgrade!End, Upgrade!FirstContainer
  <1>10. CASE Upgrade!SetVersion
    BY <1>10 DEF Upgrade!SetVersion, Upgrade!Goto
  <1>11. CASE Upgrade!Start
    BY <1>11 DEF Upgrade!Start, Upgrade!StartsAll, Upgrade!Goto
  <1>12. CASE Upgrade!Started
    BY <1>12 DEF Upgrade!Started, Upgrade!Up, Upgrade!Goto
  <1>13. CASE Upgrade!WaitClusterHealthy
    BY <1>13 DEF Upgrade!WaitClusterHealthy, Upgrade!Goto
  <1>14. CASE Upgrade!CommandFails
    BY <1>14, FaultIsCounted DEF Upgrade!CommandFails, Upgrade!Fault,
       Upgrade!End
  <1>15. CASE Upgrade!Completed
    BY <1>15 DEF Upgrade!Completed, Upgrade!Goto
  <1>16. CASE Upgrade!Exit
    BY <1>16 DEF Upgrade!Exit, Upgrade!End
  <1>17. ASSUME NEW m \in Machines, Upgrade!Repair(m) PROVE ClusterTypeOK' /\ Upgrade!UpgradeTypeOK'
    BY <1>17 DEF Upgrade!Repair, Upgrade!StartsAll
  <1>18. QED
    BY <1>1, <1>2, <1>3, <1>4, <1>5, <1>6, <1>7, <1>8, <1>9, <1>10, <1>11,
       <1>12, <1>13, <1>14, <1>15, <1>16, <1>17
       DEF Upgrade!Step, Upgrade!Script

\* Steps of the core reallocation.
LEMMA CoreKeepsType ==
    ASSUME ClusterTypeOK, Core!CoreTypeOK, Core!Step
    PROVE  ClusterTypeOK' /\ Core!CoreTypeOK'
  <1> USE DEF Core!At, Core!machineVars, Core!scriptVars, Core!clusterVars,
     Core!coreVars, ClusterTypeOK, Core!CoreTypeOK
  <1>1. CASE Core!Run
    BY <1>1 DEF Core!Run, Core!Begin
  <1>2. CASE Core!CheckRebuild
    BY <1>2 DEF Core!CheckRebuild, Core!Goto
  <1>3. CASE Core!DisableGrimReaper
    BY <1>3 DEF Core!DisableGrimReaper, Core!Goto
  <1>4. CASE Core!CfgdumpFails
    BY <1>4, FaultIsCounted DEF Core!CfgdumpFails, Core!Pending, Core!Goto
  <1>5. CASE Core!AllowChange
    BY <1>5 DEF Core!AllowChange, Core!Goto
  <1>6. CASE Core!SettingFails
    BY <1>6, FaultIsCounted DEF Core!SettingFails, Core!Fault, Core!End
  <1>7. ASSUME NEW m \in Machines, Core!Unneeded(m) PROVE ClusterTypeOK' /\ Core!CoreTypeOK'
    BY <1>7 DEF Core!Unneeded, Core!PassOver, Core!First
  <1>8. ASSUME NEW m \in Machines, Core!CopyFails(m) PROVE ClusterTypeOK' /\ Core!CoreTypeOK'
    BY <1>8, FaultIsCounted DEF Core!CopyFails, Core!Fault, Core!PassOver,
       Core!First
  <1>9. ASSUME NEW m \in Machines, Core!Distribute(m) PROVE ClusterTypeOK' /\ Core!CoreTypeOK'
    BY <1>9 DEF Core!Distribute, Core!Backup, Core!TakeUp, Core!Restarts,
       Core!Exposes, Core!Up, Core!First
  <1>10. ASSUME NEW m \in Machines, Core!DistributeFails(m) PROVE ClusterTypeOK' /\ Core!CoreTypeOK'
    BY <1>10, FaultIsCounted DEF Core!DistributeFails, Core!SshFails, Core!BackupExists,
       Core!StagingFails, Core!ApplyFails, Core!Backup, Core!TakeUp,
       Core!First
  <1>11. CASE Core!DownloadFails
    BY <1>11, FaultIsCounted DEF Core!DownloadFails, Core!End
  <1>12. CASE Core!WaitForRebuild("core rebuild", "core nodes")
    BY <1>12 DEF Core!WaitForRebuild, Core!Goto
  <1>13. CASE Core!WaitForNodes("core nodes", "core validate")
    BY <1>13 DEF Core!WaitForNodes, Core!Up, Core!Goto
  <1>14. CASE Core!NodeQueryFails("core nodes", "core validate")
    BY <1>14, FaultIsCounted DEF Core!NodeQueryFails, Core!Fault, Core!Goto
  <1>15. CASE Core!Validate
    BY <1>15 DEF Core!Validate, Core!Goto, Core!End
  <1>16. CASE Core!Distributed
    BY <1>16 DEF Core!Distributed
  <1>17. ASSUME NEW m \in Machines, Core!Blacklist(m) PROVE ClusterTypeOK' /\ Core!CoreTypeOK'
    BY <1>17, MaintenanceAssumption DEF Core!Blacklist, Core!TakeUp,
       Core!Exposes, Core!Up, Core!First
  <1>18. ASSUME NEW m \in Machines, Core!BlacklistFails(m) PROVE ClusterTypeOK' /\ Core!CoreTypeOK'
    BY <1>18, FaultIsCounted DEF Core!BlacklistFails, Core!Fault, Core!TakeUp,
       Core!First
  <1>19. CASE Core!Readmit
    BY <1>19 DEF Core!Readmit, Core!Goto
  <1>20. CASE Core!ReadmitFails
    BY <1>20, FaultIsCounted DEF Core!ReadmitFails, Core!Fault, Core!Goto
  <1>21. CASE Core!WaitForRebuild("core rebuilt", "core back")
    BY <1>21 DEF Core!WaitForRebuild, Core!Goto
  <1>22. CASE Core!WaitForNodes("core back", "core black")
    BY <1>22 DEF Core!WaitForNodes, Core!Up, Core!Goto
  <1>23. CASE Core!NodeQueryFails("core back", "core black")
    BY <1>23, FaultIsCounted DEF Core!NodeQueryFails, Core!Fault, Core!Goto
  <1>24. CASE Core!Blacklisted
    BY <1>24 DEF Core!Blacklisted, Core!Goto
  <1>25. CASE Core!EnableGrimReaper
    BY <1>25 DEF Core!EnableGrimReaper, Core!Goto
  <1>26. CASE Core!ForbidChange
    BY <1>26 DEF Core!ForbidChange, Core!End
  <1>27. CASE Core!ResetFails
    BY <1>27, FaultIsCounted DEF Core!ResetFails, Core!Fault, Core!Goto, Core!End
  <1>28. ASSUME NEW m \in Machines, Core!Unblacklist(m) PROVE ClusterTypeOK' /\ Core!CoreTypeOK'
    BY <1>28 DEF Core!Unblacklist
  <1>29. QED
    BY <1>1, <1>2, <1>3, <1>4, <1>5, <1>6, <1>7, <1>8, <1>9, <1>10, <1>11,
       <1>12, <1>13, <1>14, <1>15, <1>16, <1>17, <1>18, <1>19, <1>20, <1>21, <1>22,
       <1>23, <1>24, <1>25, <1>26, <1>27, <1>28
       DEF Core!Step, Core!Script

\* Every step keeps the types.
LEMMA StepKeepsType ==
    ASSUME TypeOK, [Next]_vars
    PROVE  TypeOK'
  <1>1. CASE FD!Step /\ UNCHANGED <<upgradeVars, coreVars>>
    BY <1>1, FDKeepsType DEF TypeOK, Upgrade!UpgradeTypeOK, Core!CoreTypeOK, upgradeVars, coreVars
  <1>2. CASE Upgrade!Step /\ UNCHANGED <<fdVars, coreVars>>
    BY <1>2, UpgradeKeepsType DEF TypeOK, FD!FDTypeOK, Core!CoreTypeOK, fdVars, coreVars
  <1>3. CASE Core!Step /\ UNCHANGED <<fdVars, upgradeVars>>
    BY <1>3, CoreKeepsType DEF TypeOK, FD!FDTypeOK, Upgrade!UpgradeTypeOK, fdVars, upgradeVars
  <1>4. CASE Interrupt
    BY <1>4 DEF Interrupt, End, TypeOK, ClusterTypeOK, FD!FDTypeOK, Upgrade!UpgradeTypeOK,
       Core!CoreTypeOK, machineVars, fdVars, upgradeVars, coreVars
  <1>5. ASSUME NEW m \in Machines, ContainerReady(m) PROVE TypeOK'
    <2>1. UNCHANGED <<tool, machine, todo, all, faults, risk, s3, staged, listed, upgradeVars,
                      shown, backup, blacklisted, reaper, changeable, wasDisabled, hosts>>
      BY <1>5 DEF ContainerReady, FD!ContainerReady, FD!Comes, FD!scriptVars, Core!ContainerReady
    <2>2. /\ container' = [container EXCEPT ![m] = "up"]
          /\ fd' \in {[fd EXCEPT ![m] = "USER"], fd}
          /\ cores' \in {[cores EXCEPT ![m] = shown[m]], cores}
          /\ unwatched' \subseteq unwatched
      BY <1>5 DEF ContainerReady, FD!ContainerReady, FD!Comes, Core!ContainerReady
    <2>3. ClusterTypeOK'
      BY <2>1, <2>2 DEF TypeOK, ClusterTypeOK
    <2>4. FD!FDTypeOK' /\ Core!CoreTypeOK'
      BY <2>1, <2>2 DEF TypeOK, FD!FDTypeOK, Core!CoreTypeOK
    <2>5. QED
      BY <2>1, <2>3, <2>4 DEF TypeOK, Upgrade!UpgradeTypeOK, upgradeVars
  <1>6. ASSUME NEW m \in Machines, ClusterStep(m) PROVE TypeOK'
    <2>1. UNCHANGED <<container, s3, scriptVars, faults, fdVars, upgradeVars, coreVars>>
      BY <1>6 DEF ClusterStep, Notice, RebuildDone
    <2>2. risk' \in [Machines -> {"none", "unseen", "rebuilding"}]
      BY <1>6 DEF ClusterStep, Notice, RebuildDone, TypeOK, ClusterTypeOK
    <2>3. ClusterTypeOK'
      BY <2>1, <2>2 DEF TypeOK, ClusterTypeOK, scriptVars
    <2>4. FD!FDTypeOK' /\ Upgrade!UpgradeTypeOK'
      BY <2>1 DEF TypeOK, FD!FDTypeOK, Upgrade!UpgradeTypeOK, fdVars, upgradeVars
    <2>5. Core!CoreTypeOK'
      BY <2>1 DEF TypeOK, Core!CoreTypeOK, coreVars
    <2>6. QED
      BY <2>3, <2>4, <2>5 DEF TypeOK
  <1>7. CASE UNCHANGED vars
    BY <1>7 DEF vars, clusterVars, machineVars, scriptVars, fdVars, upgradeVars, coreVars,
       TypeOK, ClusterTypeOK, FD!FDTypeOK, Upgrade!UpgradeTypeOK, Core!CoreTypeOK
  <1>8. QED
    BY <1>1, <1>2, <1>3, <1>4, <1>5, <1>6, <1>7 DEF Next
-----------------------------------------------------------------------------
(* The theorems.                                                           *)

LEMMA InitInv == Init => IInv
  <1> SUFFICES ASSUME Init PROVE IInv
    OBVIOUS
  <1> USE DEF Init, ClusterInit, FD!FDInit, Upgrade!UpgradeInit, Core!CoreInit
  <1>1. TypeOK
    <2>1. machine \in Machines /\ faults \in 0..MaxFaults
      BY ClusterAssumption
    <2>2. ClusterTypeOK
      BY <2>1 DEF ClusterTypeOK
    <2>3. FD!FDTypeOK /\ Upgrade!UpgradeTypeOK /\ Core!CoreTypeOK
      BY DEF FD!FDTypeOK, Upgrade!UpgradeTypeOK, Core!CoreTypeOK
    <2>4. QED
      BY <2>2, <2>3 DEF TypeOK
  <1>2. S3Inv
    BY DEF S3Inv, S3Type, OneS3Away, FD!OneS3Away, FD!InDrainMode, FD!S3Steps
  <1>3. ReaperInv
    BY DEF ReaperInv, Watched
  <1>4. RiskInv
    BY DEF RiskInv, Exposed
  <1>5. UpgradeInv
    BY DEF UpgradeInv
  <1>6. QED
    BY <1>1, <1>2, <1>3, <1>4, <1>5 DEF IInv

\* The types of all variables of the three scripts and the cluster.
THEOREM TypeCorrect == Spec => []TypeOK
  <1>1. Init => TypeOK
    BY InitInv DEF IInv
  <1>2. QED
    BY <1>1, StepKeepsType, PTL DEF Spec

\* change_failure_domains_to_manual.py takes S3 away from one machine at a time,
\* however its runs end and begin again (lines 319-382), and whatever
\* rolling_upgrade.sh, which looks at no S3, stopped and started in between.
THEOREM NeverTwoS3Away == Spec => []OneS3Away
  <1>1. Init => TypeOK /\ S3Inv
    BY InitInv DEF IInv
  <1>2. TypeOK /\ S3Inv /\ [Next]_vars => (TypeOK /\ S3Inv)'
    BY StepKeepsType, StepKeepsS3
  <1>3. S3Inv => OneS3Away
    BY DEF S3Inv
  <1>4. QED
    BY <1>1, <1>2, <1>3, PTL DEF Spec

\* No host takes new cores while the grim reaper is on (core_reallocation.sh:484-498
\* and 601), whichever script restarts it, with late detection or without, but for
\* the hosts on which the apply failed, or whose restart a failing query hid.
THEOREM NeverCoresWithReaper == Spec => CoresChangeWithoutReaper
  <1>1. Init => TypeOK /\ ReaperInv
    BY InitInv DEF IInv
  <1>2. TypeOK /\ ReaperInv /\ [Next]_vars => (TypeOK /\ ReaperInv)'
    BY StepKeepsType, StepKeepsReaper
  <1> DEFINE Watch == \A m \in Machines : cores'[m] # cores[m] => ~reaper \/ m \in unwatched
  <1>3. ReaperInv /\ [Next]_vars => [Watch]_(Core!coreVars)
    <2> SUFFICES ASSUME ReaperInv, [Next]_vars,
                        NEW m \in Machines, cores'[m] # cores[m], m \notin unwatched
                 PROVE  ~reaper
      BY DEF Core!coreVars
    <2>1. \E k \in Machines : Core!ContainerReady(k)
      BY CoreLeavesCores DEF Next, vars, coreVars, ContainerReady, ClusterStep, Interrupt
    <2>2. cores[m] # shown[m]
      BY <2>1 DEF Core!ContainerReady, ReaperInv
    <2>3. QED
      BY <2>2 DEF ReaperInv, Watched
  <1>4. QED
    BY <1>1, <1>2, <1>3, PTL DEF Spec, CoresChangeWithoutReaper, Core!CoresChangeWithoutReaper

\* The three scripts together service one machine after the other, as
\* RollingMaintenance promises, when the failure detector is faster than a restart,
\* no rebuild outlasts --cluster-healthy-timeout, and no name of a machine is part
\* of that of another (core_reallocation.sh:247-251 would take both down).
THEOREM ImplementsRolling ==
    ASSUME ~LateDetection, ~HealthTimeouts, NamesApart
    PROVE  Spec => OneMachineAtATime
  <1>1. Init => RiskInv /\ Rolling!Init
    BY InitInv DEF IInv, Init, ClusterInit, Rolling!Init, Exposed
  <1>2. RiskInv /\ [Next]_vars => RiskInv'
    BY StepKeepsRisk
  <1>3. RiskInv /\ RiskInv' /\ [Next]_vars => [Rolling!Next]_Exposed
    <2> SUFFICES ASSUME RiskInv, RiskInv', [Next]_vars, Exposed' # Exposed PROVE Rolling!Next
      OBVIOUS
    <2> DEFINE Kept == \A k \in Machines : risk[k] # "none" => risk'[k] # "none"
    <2>1. Kept \/ \E m \in Machines : RebuildDone(m)
      <3>1. MachineTypes
        BY DEF RiskInv, MachineTypes
      <3>2. FD!Step \/ Upgrade!Step \/ Core!Step => Kept
        BY <3>1, FDOnly, UpgradeOnly, CoreOnly DEF Only
      <3>3. Interrupt \/ UNCHANGED vars => Kept
        BY DEF Interrupt, machineVars, vars, clusterVars
      <3>4. ASSUME NEW m \in Machines, ContainerReady(m) \/ Notice(m) PROVE Kept
        BY <3>4 DEF ContainerReady, FD!ContainerReady, FD!Comes, Notice, RiskInv
      <3>5. QED
        BY <3>2, <3>3, <3>4 DEF Next, ClusterStep
    <2>2. CASE Kept
      <3>1. PICK m \in Machines : m \in Exposed' /\ m \notin Exposed
        BY <2>2 DEF Exposed
      <3>2. \A k \in Exposed' : k = m
        BY <3>1 DEF RiskInv
      <3>3. Exposed \subseteq Exposed'
        BY <2>2 DEF Exposed
      <3>4. Exposed' = {m} /\ Exposed \subseteq {m} /\ m \in Machines
        BY <3>1, <3>2, <3>3 DEF Exposed
      <3>5. QED
        BY <3>4 DEF Rolling!Next, Rolling!TakeDown
    <2>3. ASSUME NEW m \in Machines, RebuildDone(m) PROVE Rolling!Next
      <3>1. risk \in [Machines -> {"none", "unseen", "rebuilding"}]
        BY DEF RiskInv
      <3>2. risk[m] = "rebuilding" /\ risk' = [risk EXCEPT ![m] = "none"]
        BY <2>3 DEF RebuildDone
      <3>3. risk'[m] = "none" /\ \A k \in Machines \ {m} : risk'[k] = risk[k]
        BY <3>1, <3>2
      <3>4. m \in Exposed
        BY <3>2 DEF Exposed
      <3>5. Exposed' = Exposed \ {m}
        BY <3>3 DEF Exposed
      <3>6. QED
        BY <3>4, <3>5 DEF Rolling!Next, Rolling!Reprotected
    <2>4. QED
      BY <2>1, <2>2, <2>3
  <1>4. QED
    BY <1>1, <1>2, <1>3, PTL DEF Spec, OneMachineAtATime, Rolling!Spec

\* "UPGRADE COMPLETED SUCCESSFULLY!" (rolling_upgrade.sh:476) is true, unless a
\* health wait timed out.
THEOREM ReportsUpgraded ==
    ASSUME ~LateDetection, ~HealthTimeouts
    PROVE  Spec => []CompletedIsUpgraded
  <1>1. Init => TypeOK /\ UpgradeInv
    BY InitInv DEF IInv
  <1>2. TypeOK /\ UpgradeInv /\ [Next]_vars => (TypeOK /\ UpgradeInv)'
    BY StepKeepsType, StepKeepsUpgrade
  <1>3. UpgradeInv => CompletedIsUpgraded
    BY DEF UpgradeInv, CompletedIsUpgraded, Upgrade!CompletedIsUpgraded,
       Upgrade!At, Upgrade!Up
  <1>4. QED
    BY <1>1, <1>2, <1>3, PTL DEF Spec
=============================================================================
