------------------------ MODULE ConvertClusterProofs ------------------------
(***************************************************************************)
(* Proofs about ConvertCluster, for any number of machines, any protocol   *)
(* membership, any faults and any number of runs of the script.            *)
(*                                                                         *)
(* The properties proved are TypeOK, OneDraining, RebootServiceable,       *)
(* StoppedServesNothing and, at the end, OneMachineAtATime.  None but the  *)
(* first is inductive: each rests on what the divider knows of its machine *)
(* in the phase it is in.  IInv states that, and each conjunct is          *)
(* preserved by every step.                                                *)
(***************************************************************************)
EXTENDS ConvertCluster, FiniteSetTheorems, TLAPS

\* Phases by what the divider has done when it is in them.
BeforeDrain == {"check", "prepare", "s3check", "smbcheck", "nfscheck", "s3drain",
                "s3wait", "s3drained"}
S3Read      == {"smbcheck", "nfscheck", "s3drain", "s3wait", "s3drained", "s3update"}
S3Removed   == {"smbremove", "nfsremove", "stop", "drives", "move", "compute",
                "frontend", "s3start", "readd"}
SmbRemoved  == {"nfsremove", "stop"}
Removing    == {"prepare", "s3check", "smbcheck", "nfscheck", "s3drain", "s3wait",
                "s3drained", "s3update", "smbremove", "nfsremove", "stop"}
Stopped     == {"drives", "move", "compute", "frontend", "s3start", "readd",
                "buckets", "enable", "disable", "deactivate", "remove"}
DrivesSetUp == Stopped \ {"drives"}
ComputeSetUp == DrivesSetUp \ {"move", "compute"}

\* The S3 membership the divider holds is the one the cluster has, up to the
\* removal of its host and, if that was removed, until it is added again.
SnapshotInv ==
    /\ pc \in BeforeDrain => protocols_in_host = {}
    /\ pc \in S3Read => s3_status = s3
    /\ pc \in S3Removed /\ "S3" \in protocols_in_host /\ ~KeepS3Up =>
         s3_status = s3 /\ Cur(host) \notin s3
    /\ pc = "s3update" => ~KeepS3Up

DrainInv ==
    /\ SnapshotInv
    /\ draining \subseteq s3
    /\ OneDraining

\* The container being divided exists, and is neither of the two it is
\* replaced by once these are set up; it is down unless it became a frontend.
BootInv ==
    /\ \A h \in Hosts : up[h] \subseteq exist[h]
    /\ pc \in Removing \cup Stopped => name \in exist[host]
    /\ pc \in DrivesSetUp => "drives0" \in exist[host] /\ name # "drives0"
    /\ pc \in ComputeSetUp => "compute0" \in exist[host] /\ name # "compute0"
    /\ pc \in Stopped /\ ~KeepS3Up => name \notin up[host]
    /\ pc \in {"disable", "deactivate", "remove"} => ~KeepS3Up
    /\ pc = "disable" => {"drives0", "compute0"} \subseteq boot[host]
    /\ RebootServiceable

\* A "default" container that runs would run after a reboot; it is the one
\* being divided up to the stop, and by then it serves nothing.
ServeInv ==
    /\ \A h \in Hosts : "default" \in up[h] => "default" \in boot[h]
    /\ KeepS3Up => \A h \in Hosts : /\ "frontend0" \notin exist[h]
                                    /\ "default" \in exist[h] \cap boot[h]
    /\ pc \in Removing \cup {"s3start"} => name \in up[host]
    /\ pc \in {"s3drained", "smbremove", "nfsremove", "stop"} =>
         (Cur(host) \in s3 => Cur(host) \in draining)
    /\ pc \in SmbRemoved => Cur(host) \notin smb
    /\ pc = "stop" => \A p \in ports : p.host # Cur(host)
    /\ StoppedServesNothing

IInv == TypeOK /\ DrainInv /\ BootInv /\ ServeInv
-----------------------------------------------------------------------------
(* Types.                                                                  *)

\* A step of the divider on any machine keeps the types of what it changes.
LEMMA DividerKeepsType ==
    ASSUME DividerTypeOK, NEW h \in Hosts, DividerStep(h) \/ DividerFault(h)
    PROVE  DividerTypeOK'
  <1> USE DEF DividerTypeOK, Goto, Phases
  <1>1. CASE LocalCheck(h)
    BY <1>1 DEF LocalCheck, machineVars, protocolVars, Containers, Protocols
  <1>2. CASE Prepare(h)
    BY <1>2 DEF Prepare, protocolVars, localVars
  <1>3. CASE S3Check(h)
    BY <1>3 DEF S3Check, machineVars, protocolVars, Protocols
  <1>4. CASE SmbCheck(h)
    BY <1>4 DEF SmbCheck, machineVars, protocolVars, localVars
  <1>5. CASE NfsCheck(h)
    BY <1>5 DEF NfsCheck, machineVars, protocolVars, localVars
  <1>6. CASE NoS3(h)
    BY <1>6 DEF NoS3, machineVars, protocolVars, localVars
  <1>7. CASE S3Undrain(h)
    BY <1>7 DEF S3Undrain, machineVars, localVars
  <1>8. CASE S3StartDrain(h)
    BY <1>8 DEF S3StartDrain, Cur, machineVars, HostIds, Machines, Containers,
       Protocols
  <1>9. CASE S3Drained
    BY <1>9 DEF S3Drained, machineVars, protocolVars, Protocols
  <1>10. CASE S3Update(h)
    BY <1>10 DEF S3Update, machineVars, Protocols
  <1>11. CASE SmbRemove(h)
    BY <1>11 DEF SmbRemove, machineVars, Protocols
  <1>12. CASE NfsRemovePort(h)
    BY <1>12 DEF NfsRemovePort, machineVars, Protocols
  <1>13. CASE NfsRemoved(h)
    BY <1>13 DEF NfsRemoved, machineVars, protocolVars, localVars
  <1>14. CASE StopOld(h)
    BY <1>14 DEF StopOld, protocolVars, localVars
  <1>15. CASE SetUpDrives(h)
    BY <1>15 DEF SetUpDrives, SetUp, protocolVars, localVars, Containers
  <1>16. CASE MoveDrives(h)
    BY <1>16 DEF MoveDrives, protocolVars, localVars
  <1>17. CASE SetUpCompute(h)
    BY <1>17 DEF SetUpCompute, SetUp, protocolVars, localVars, Containers
  <1>18. CASE NoFrontend(h)
    BY <1>18 DEF NoFrontend, machineVars, protocolVars, localVars
  <1>19. CASE SetUpFrontend(h)
    BY <1>19 DEF SetUpFrontend, SetUp, protocolVars, localVars, Containers
  <1>20. CASE RestartAsFrontend(h)
    BY <1>20 DEF RestartAsFrontend, protocolVars, localVars, Containers,
       Protocols
  <1>21. CASE StartS3(h)
    BY <1>21 DEF StartS3, machineVars, localVars
  <1>22. CASE ReaddFails(h)
    BY <1>22 DEF ReaddFails, machineVars, protocolVars, localVars, Protocols
  <1>23. CASE ReaddS3(h)
    BY <1>23 DEF ReaddS3, Readding, Cur, FrontendId, machineVars, HostIds,
       Machines, Containers, Protocols
  <1>24. CASE ReaddSmb(h)
    BY <1>24 DEF ReaddSmb, Readding, FrontendId, machineVars, HostIds,
       Machines, Containers, Protocols
  <1>25. CASE ReaddNfs(h)
    BY <1>25 DEF ReaddNfs, Readding, FrontendId, machineVars, HostIds,
       Machines, Containers, Ports, Protocols
  <1>26. CASE Readded
    BY <1>26 DEF Readded, machineVars, protocolVars, localVars, Protocols
  <1>27. CASE BucketsActive
    BY <1>27 DEF BucketsActive, machineVars, protocolVars, localVars
  <1>28. CASE Enable(h)
    BY <1>28 DEF Enable, protocolVars, localVars
  <1>29. CASE Disable(h)
    BY <1>29 DEF Disable, protocolVars, localVars
  <1>30. CASE Deactivate(h)
    BY <1>30 DEF Deactivate, protocolVars, localVars
  <1>31. CASE RemoveHost(h)
    BY <1>31 DEF RemoveHost, protocolVars, localVars
  <1>32. CASE Cleanup(h)
    BY <1>32 DEF Cleanup, protocolVars, localVars
  <1>33. CASE MoveGivesUp(h)
    BY <1>33 DEF MoveGivesUp, machineVars, protocolVars, localVars
  <1>34. CASE CommandFails
    BY <1>34 DEF CommandFails, machineVars, protocolVars, localVars
  <1>35. CASE Reboot(h)
    BY <1>35 DEF Reboot, protocolVars, localVars
  <1> QED
    BY <1>1, <1>2, <1>3, <1>4, <1>5, <1>6, <1>7, <1>8, <1>9, <1>10, <1>11,
       <1>12, <1>13, <1>14, <1>15, <1>16, <1>17, <1>18, <1>19, <1>20, <1>21,
       <1>22, <1>23, <1>24, <1>25, <1>26, <1>27, <1>28, <1>29, <1>30, <1>31,
       <1>32, <1>33, <1>34, <1>35 DEF DividerStep, DividerFault

\* The initial states are typed: DividerAssumption types what is given.
LEMMA InitType == Init => TypeOK
  <1> SUFFICES ASSUME Init PROVE TypeOK
    OBVIOUS
  <1>1. \A m \in Machines : OldId(m) \in HostIds
    BY DEF OldId, HostIds, Containers
  <1>2. DividerTypeOK
    BY <1>1, DividerAssumption DEF Init, DividerInit, DividerTypeOK, Containers
  <1> QED
    BY <1>2 DEF Init, TypeOK, Stages

\* Every step of the composition is typed.
LEMMA NextType == TypeOK /\ [Next]_vars => TypeOK'
  <1> SUFFICES ASSUME TypeOK, [Next]_vars PROVE TypeOK'
    OBVIOUS
  <1> USE DEF TypeOK, Stages
  <1>1. ASSUME NEW f \in BOOLEAN, Start(f) PROVE TypeOK'
    BY <1>1 DEF Start, machineVars, protocolVars, localVars, dividerVars,
       DividerTypeOK
  <1>2. CASE Prechecked
    BY <1>2 DEF Prechecked, dividerVars, machineVars, protocolVars, localVars,
       DividerTypeOK
  <1>3. CASE PrechecksFail
    BY <1>3 DEF PrechecksFail, machineVars, protocolVars, localVars,
       dividerVars, DividerTypeOK
  <1>4. CASE StopFileSeen
    BY <1>4 DEF StopFileSeen, dividerVars, machineVars, protocolVars,
       localVars, DividerTypeOK
  <1>5. ASSUME NEW h \in Hosts, Distribute(h) PROVE TypeOK'
    BY <1>5 DEF Distribute, machineVars, protocolVars, dividerVars,
       DividerTypeOK, Phases, Containers
  <1>6. CASE HostSucceeded
    BY <1>6 DEF HostSucceeded, machineVars, protocolVars, localVars,
       dividerVars, DividerTypeOK, Phases, Containers
  <1>7. CASE HostFailed
    BY <1>7 DEF HostFailed, machineVars, protocolVars, localVars, dividerVars,
       DividerTypeOK, Phases, Containers
  <1>8. CASE Answer
    BY <1>8 DEF Answer, dividerVars, machineVars, protocolVars, localVars,
       DividerTypeOK
  <1>9. CASE RebuildWaited
    BY <1>9 DEF RebuildWaited, dividerVars, machineVars, protocolVars,
       localVars, DividerTypeOK
  <1>10. CASE NodesWaited
    BY <1>10 DEF NodesWaited, dividerVars, machineVars, protocolVars,
       localVars, DividerTypeOK
  <1>11. CASE Finish
    BY <1>11 DEF Finish, dividerVars, machineVars, protocolVars, localVars,
       DividerTypeOK
  <1>12. CASE TouchStopFile
    BY <1>12 DEF TouchStopFile, dividerVars, machineVars, protocolVars,
       localVars, DividerTypeOK
  <1>13. CASE Divide
    <2>1. DividerTypeOK'
      BY <1>13, DividerKeepsType DEF Divide
    <2> QED
      BY <1>13, <2>1 DEF Divide, shellVars
  <1>14. CASE ClusterReacts
    BY <1>14 DEF ClusterReacts, Notice, RebuildDone, shellVars, DividerTypeOK,
       protocolVars, localVars
  <1>15. CASE UNCHANGED vars
    BY <1>15 DEF vars, dividerVars, shellVars, machineVars, protocolVars,
       localVars, DividerTypeOK
  <1> QED
    BY <1>1, <1>2, <1>3, <1>4, <1>5, <1>6, <1>7, <1>8, <1>9, <1>10, <1>11,
       <1>12, <1>13, <1>14, <1>15 DEF Next, Shell

\* Every variable keeps its type, over any number of runs: what the divider puts
\* back of the S3, SMB and NFS memberships are hosts and ports of the cluster.
THEOREM TypeCorrect == Spec => []TypeOK
  <1> QED
    BY InitType, NextType, PTL DEF Spec

-----------------------------------------------------------------------------
(* The S3 drain.                                                           *)

\* Nothing drains at the start.
LEMMA InitDrain == Init => DrainInv
  BY DividerAssumption DEF Init, DividerInit, DrainInv, SnapshotInv,
     OneDraining, BeforeDrain, S3Read, S3Removed, OldId, Containers

\* The drain comes after the check for a healthy cluster, on the member list read
\* with it; "weka s3 cluster update" writes a list that was current.
LEMMA DividerDrain ==
    ASSUME TypeOK, DrainInv, DividerStep(host) \/ DividerFault(host),
           UNCHANGED shellVars
    PROVE  DrainInv'
  <1> USE DEF DrainInv, SnapshotInv, OneDraining, BeforeDrain, S3Read,
              S3Removed, Goto, Cur, shellVars, TypeOK, DividerTypeOK
  <1>1. CASE LocalCheck(host)
    BY <1>1 DEF LocalCheck, machineVars, protocolVars
  <1>2. CASE Prepare(host)
    BY <1>2 DEF Prepare, protocolVars, localVars
  <1>3. CASE S3Check(host)
    BY <1>3 DEF S3Check, machineVars, protocolVars
  <1>4. CASE SmbCheck(host)
    BY <1>4 DEF SmbCheck, machineVars, protocolVars, localVars
  <1>5. CASE NfsCheck(host)
    BY <1>5 DEF NfsCheck, machineVars, protocolVars, localVars
  <1>6. CASE NoS3(host)
    BY <1>6 DEF NoS3, machineVars, protocolVars, localVars
  <1>7. CASE S3Undrain(host)
    BY <1>7 DEF S3Undrain, S3Healthy, machineVars, localVars
  <1>8. CASE S3StartDrain(host)
    BY <1>8 DEF S3StartDrain, S3Healthy, machineVars
  <1>9. CASE S3Drained
    BY <1>9 DEF S3Drained, machineVars, protocolVars
  <1>10. CASE S3Update(host)
    BY <1>10 DEF S3Update, machineVars
  <1>11. CASE SmbRemove(host)
    BY <1>11 DEF SmbRemove, machineVars
  <1>12. CASE NfsRemovePort(host)
    BY <1>12 DEF NfsRemovePort, machineVars
  <1>13. CASE NfsRemoved(host)
    BY <1>13 DEF NfsRemoved, machineVars, protocolVars, localVars
  <1>14. CASE StopOld(host)
    BY <1>14 DEF StopOld, protocolVars, localVars
  <1>15. CASE SetUpDrives(host)
    BY <1>15 DEF SetUpDrives, SetUp, protocolVars, localVars
  <1>16. CASE MoveDrives(host)
    BY <1>16 DEF MoveDrives, protocolVars, localVars
  <1>17. CASE SetUpCompute(host)
    BY <1>17 DEF SetUpCompute, SetUp, protocolVars, localVars
  <1>18. CASE NoFrontend(host)
    BY <1>18 DEF NoFrontend, machineVars, protocolVars, localVars
  <1>19. CASE SetUpFrontend(host)
    BY <1>19 DEF SetUpFrontend, SetUp, protocolVars, localVars
  <1>20. CASE RestartAsFrontend(host)
    BY <1>20 DEF RestartAsFrontend, protocolVars, localVars
  <1>21. CASE StartS3(host)
    BY <1>21 DEF StartS3, machineVars, localVars
  <1>22. CASE ReaddFails(host)
    BY <1>22 DEF ReaddFails, machineVars, protocolVars, localVars
  <1>23. CASE ReaddS3(host)
    BY <1>23 DEF ReaddS3, Readding, FrontendId, machineVars, OldId
  <1>24. CASE ReaddSmb(host)
    BY <1>24 DEF ReaddSmb, Readding, FrontendId, machineVars
  <1>25. CASE ReaddNfs(host)
    BY <1>25 DEF ReaddNfs, Readding, FrontendId, machineVars
  <1>26. CASE Readded
    BY <1>26 DEF Readded, machineVars, protocolVars, localVars
  <1>27. CASE BucketsActive
    BY <1>27 DEF BucketsActive, machineVars, protocolVars, localVars
  <1>28. CASE Enable(host)
    BY <1>28 DEF Enable, protocolVars, localVars
  <1>29. CASE Disable(host)
    BY <1>29 DEF Disable, protocolVars, localVars
  <1>30. CASE Deactivate(host)
    BY <1>30 DEF Deactivate, protocolVars, localVars
  <1>31. CASE RemoveHost(host)
    BY <1>31 DEF RemoveHost, protocolVars, localVars
  <1>32. CASE Cleanup(host)
    BY <1>32 DEF Cleanup, protocolVars, localVars
  <1>33. CASE MoveGivesUp(host)
    BY <1>33 DEF MoveGivesUp, machineVars, protocolVars, localVars
  <1>34. CASE CommandFails
    BY <1>34 DEF CommandFails, machineVars, protocolVars, localVars, OldId,
       Phases
  <1>35. CASE Reboot(host)
    BY <1>35 DEF Reboot, protocolVars, localVars, OldId, Phases
  <1> QED
    BY <1>1, <1>2, <1>3, <1>4, <1>5, <1>6, <1>7, <1>8, <1>9, <1>10, <1>11,
       <1>12, <1>13, <1>14, <1>15, <1>16, <1>17, <1>18, <1>19, <1>20, <1>21,
       <1>22, <1>23, <1>24, <1>25, <1>26, <1>27, <1>28, <1>29, <1>30, <1>31,
       <1>32, <1>33, <1>34, <1>35 DEF DividerStep, DividerFault

\* The shell script touches neither memberships nor what the divider knows.
LEMMA NextDrain == TypeOK /\ DrainInv /\ [Next]_vars => DrainInv'
  <1> SUFFICES ASSUME TypeOK, DrainInv, [Next]_vars PROVE DrainInv'
    OBVIOUS
  <1> USE DEF DrainInv, SnapshotInv, OneDraining, BeforeDrain, S3Read,
              S3Removed, Cur
  <1>1. ASSUME NEW f \in BOOLEAN, Start(f) PROVE DrainInv'
    BY <1>1 DEF Start, machineVars, protocolVars, localVars, dividerVars
  <1>2. CASE Prechecked
    BY <1>2 DEF Prechecked, dividerVars, machineVars, protocolVars, localVars
  <1>3. CASE PrechecksFail
    BY <1>3 DEF PrechecksFail, machineVars, protocolVars, localVars,
       dividerVars
  <1>4. CASE StopFileSeen
    BY <1>4 DEF StopFileSeen, dividerVars, machineVars, protocolVars, localVars
  <1>5. ASSUME NEW h \in Hosts, Distribute(h) PROVE DrainInv'
    BY <1>5 DEF Distribute, machineVars, protocolVars, dividerVars
  <1>6. CASE HostSucceeded
    BY <1>6 DEF HostSucceeded, machineVars, protocolVars, localVars,
       dividerVars
  <1>7. CASE HostFailed
    BY <1>7 DEF HostFailed, machineVars, protocolVars, localVars, dividerVars
  <1>8. CASE Answer
    BY <1>8 DEF Answer, dividerVars, machineVars, protocolVars, localVars
  <1>9. CASE RebuildWaited
    BY <1>9 DEF RebuildWaited, dividerVars, machineVars, protocolVars,
       localVars
  <1>10. CASE NodesWaited
    BY <1>10 DEF NodesWaited, dividerVars, machineVars, protocolVars, localVars
  <1>11. CASE Finish
    BY <1>11 DEF Finish, dividerVars, machineVars, protocolVars, localVars
  <1>12. CASE TouchStopFile
    BY <1>12 DEF TouchStopFile, dividerVars, machineVars, protocolVars,
       localVars
  <1>13. CASE Divide
    BY <1>13, DividerDrain DEF Divide
  <1>14. CASE ClusterReacts
    BY <1>14 DEF ClusterReacts, Notice, RebuildDone, shellVars, protocolVars,
       localVars
  <1>15. CASE UNCHANGED vars
    BY <1>15 DEF vars, dividerVars, shellVars, machineVars, protocolVars,
       localVars
  <1> QED
    BY <1>1, <1>2, <1>3, <1>4, <1>5, <1>6, <1>7, <1>8, <1>9, <1>10, <1>11,
       <1>12, <1>13, <1>14, <1>15 DEF Next, Shell

-----------------------------------------------------------------------------
(* The boot list.                                                          *)

\* Every machine starts with "default" set up, enabled and running.
LEMMA InitBoot == Init => BootInv
  BY DividerAssumption DEF Init, DividerInit, BootInv, RebootServiceable,
     Removing, Stopped, DrivesSetUp, ComputeSetUp, OldId, Containers

\* "weka local enable" comes after both set-ups and before "weka local disable",
\* and the containers set up are not the one being divided.
LEMMA DividerBoot ==
    ASSUME TypeOK, BootInv, DividerStep(host) \/ DividerFault(host),
           UNCHANGED shellVars
    PROVE  BootInv'
  <1> USE DEF BootInv, RebootServiceable, Removing, Stopped, DrivesSetUp,
              ComputeSetUp, Goto, Cur, shellVars, TypeOK, DividerTypeOK
  <1>1. CASE LocalCheck(host)
    BY <1>1 DEF LocalCheck, machineVars, protocolVars
  <1>2. CASE Prepare(host)
    BY <1>2 DEF Prepare, protocolVars, localVars
  <1>3. CASE S3Check(host)
    BY <1>3 DEF S3Check, machineVars, protocolVars
  <1>4. CASE SmbCheck(host)
    BY <1>4 DEF SmbCheck, machineVars, protocolVars, localVars
  <1>5. CASE NfsCheck(host)
    BY <1>5 DEF NfsCheck, machineVars, protocolVars, localVars
  <1>6. CASE NoS3(host)
    BY <1>6 DEF NoS3, machineVars, protocolVars, localVars
  <1>7. CASE S3Undrain(host)
    BY <1>7 DEF S3Undrain, S3Healthy, machineVars, localVars
  <1>8. CASE S3StartDrain(host)
    BY <1>8 DEF S3StartDrain, S3Healthy, machineVars
  <1>9. CASE S3Drained
    BY <1>9 DEF S3Drained, machineVars, protocolVars
  <1>10. CASE S3Update(host)
    BY <1>10 DEF S3Update, machineVars
  <1>11. CASE SmbRemove(host)
    BY <1>11 DEF SmbRemove, machineVars
  <1>12. CASE NfsRemovePort(host)
    BY <1>12 DEF NfsRemovePort, machineVars
  <1>13. CASE NfsRemoved(host)
    BY <1>13 DEF NfsRemoved, machineVars, protocolVars, localVars
  <1>14. CASE StopOld(host)
    BY <1>14 DEF StopOld, protocolVars, localVars
  <1>15. CASE SetUpDrives(host)
    BY <1>15 DEF SetUpDrives, SetUp, protocolVars, localVars
  <1>16. CASE MoveDrives(host)
    BY <1>16 DEF MoveDrives, protocolVars, localVars
  <1>17. CASE SetUpCompute(host)
    BY <1>17 DEF SetUpCompute, SetUp, protocolVars, localVars
  <1>18. CASE NoFrontend(host)
    BY <1>18 DEF NoFrontend, machineVars, protocolVars, localVars
  <1>19. CASE SetUpFrontend(host)
    BY <1>19 DEF SetUpFrontend, SetUp, protocolVars, localVars
  <1>20. CASE RestartAsFrontend(host)
    BY <1>20 DEF RestartAsFrontend, protocolVars, localVars
  <1>21. CASE StartS3(host)
    BY <1>21 DEF StartS3, machineVars, localVars
  <1>22. CASE ReaddFails(host)
    BY <1>22 DEF ReaddFails, machineVars, protocolVars, localVars
  <1>23. CASE ReaddS3(host)
    BY <1>23 DEF ReaddS3, Readding, FrontendId, machineVars
  <1>24. CASE ReaddSmb(host)
    BY <1>24 DEF ReaddSmb, Readding, FrontendId, machineVars
  <1>25. CASE ReaddNfs(host)
    BY <1>25 DEF ReaddNfs, Readding, FrontendId, machineVars
  <1>26. CASE Readded
    BY <1>26 DEF Readded, machineVars, protocolVars, localVars
  <1>27. CASE BucketsActive
    BY <1>27 DEF BucketsActive, machineVars, protocolVars, localVars
  <1>28. CASE Enable(host)
    BY <1>28 DEF Enable, protocolVars, localVars
  <1>29. CASE Disable(host)
    BY <1>29 DEF Disable, protocolVars, localVars
  <1>30. CASE Deactivate(host)
    BY <1>30 DEF Deactivate, protocolVars, localVars
  <1>31. CASE RemoveHost(host)
    BY <1>31 DEF RemoveHost, protocolVars, localVars
  <1>32. CASE Cleanup(host)
    BY <1>32 DEF Cleanup, protocolVars, localVars
  <1>33. CASE MoveGivesUp(host)
    BY <1>33 DEF MoveGivesUp, machineVars, protocolVars, localVars
  <1>34. CASE CommandFails
    BY <1>34 DEF CommandFails, machineVars, protocolVars, localVars, Phases
  <1>35. CASE Reboot(host)
    BY <1>35 DEF Reboot, protocolVars, localVars, Phases
  <1> QED
    BY <1>1, <1>2, <1>3, <1>4, <1>5, <1>6, <1>7, <1>8, <1>9, <1>10, <1>11,
       <1>12, <1>13, <1>14, <1>15, <1>16, <1>17, <1>18, <1>19, <1>20, <1>21,
       <1>22, <1>23, <1>24, <1>25, <1>26, <1>27, <1>28, <1>29, <1>30, <1>31,
       <1>32, <1>33, <1>34, <1>35 DEF DividerStep, DividerFault

\* The shell script touches no container.
LEMMA NextBoot == TypeOK /\ BootInv /\ [Next]_vars => BootInv'
  <1> SUFFICES ASSUME TypeOK, BootInv, [Next]_vars PROVE BootInv'
    OBVIOUS
  <1> USE DEF BootInv, RebootServiceable, Removing, Stopped, DrivesSetUp,
              ComputeSetUp, Cur
  <1>1. ASSUME NEW f \in BOOLEAN, Start(f) PROVE BootInv'
    BY <1>1 DEF Start, machineVars, protocolVars, localVars, dividerVars
  <1>2. CASE Prechecked
    BY <1>2 DEF Prechecked, dividerVars, machineVars, protocolVars, localVars
  <1>3. CASE PrechecksFail
    BY <1>3 DEF PrechecksFail, machineVars, protocolVars, localVars,
       dividerVars
  <1>4. CASE StopFileSeen
    BY <1>4 DEF StopFileSeen, dividerVars, machineVars, protocolVars, localVars
  <1>5. ASSUME NEW h \in Hosts, Distribute(h) PROVE BootInv'
    BY <1>5 DEF Distribute, machineVars, protocolVars, dividerVars
  <1>6. CASE HostSucceeded
    BY <1>6 DEF HostSucceeded, machineVars, protocolVars, localVars,
       dividerVars
  <1>7. CASE HostFailed
    BY <1>7 DEF HostFailed, machineVars, protocolVars, localVars, dividerVars
  <1>8. CASE Answer
    BY <1>8 DEF Answer, dividerVars, machineVars, protocolVars, localVars
  <1>9. CASE RebuildWaited
    BY <1>9 DEF RebuildWaited, dividerVars, machineVars, protocolVars,
       localVars
  <1>10. CASE NodesWaited
    BY <1>10 DEF NodesWaited, dividerVars, machineVars, protocolVars, localVars
  <1>11. CASE Finish
    BY <1>11 DEF Finish, dividerVars, machineVars, protocolVars, localVars
  <1>12. CASE TouchStopFile
    BY <1>12 DEF TouchStopFile, dividerVars, machineVars, protocolVars,
       localVars
  <1>13. CASE Divide
    BY <1>13, DividerBoot DEF Divide
  <1>14. CASE ClusterReacts
    BY <1>14 DEF ClusterReacts, Notice, RebuildDone, shellVars, protocolVars,
       localVars
  <1>15. CASE UNCHANGED vars
    BY <1>15 DEF vars, dividerVars, shellVars, machineVars, protocolVars,
       localVars
  <1> QED
    BY <1>1, <1>2, <1>3, <1>4, <1>5, <1>6, <1>7, <1>8, <1>9, <1>10, <1>11,
       <1>12, <1>13, <1>14, <1>15 DEF Next, Shell

-----------------------------------------------------------------------------
(* Stopped containers.                                                     *)

\* Every old container runs at the start.
LEMMA InitServe == Init => ServeInv
  BY DividerAssumption DEF Init, DividerInit, ServeInv, StoppedServesNothing,
     Removing, SmbRemoved, OldId, Containers

\* The stop comes after the drain or removal from S3 and the removals from SMB
\* and NFS; what is added back later is the new frontend.
LEMMA DividerServe ==
    ASSUME TypeOK, DrainInv, BootInv, ServeInv,
           DividerStep(host) \/ DividerFault(host),
           UNCHANGED shellVars
    PROVE  ServeInv'
  <1> USE DEF ServeInv, StoppedServesNothing, Removing, SmbRemoved, Goto, Cur,
              shellVars, TypeOK, DividerTypeOK
  <1>1. CASE LocalCheck(host)
    BY <1>1 DEF LocalCheck, machineVars, protocolVars, OldId, Containers
  <1>2. CASE Prepare(host)
    BY <1>2 DEF Prepare, protocolVars, localVars, OldId, Containers
  <1>3. CASE S3Check(host)
    BY <1>3 DEF S3Check, machineVars, protocolVars, OldId, Containers
  <1>4. CASE SmbCheck(host)
    BY <1>4 DEF SmbCheck, machineVars, protocolVars, localVars, OldId,
       Containers
  <1>5. CASE NfsCheck(host)
    BY <1>5 DEF NfsCheck, machineVars, protocolVars, localVars, OldId,
       Containers
  <1>6. CASE NoS3(host)
    <2>1. Cur(host) \notin s3
      BY <1>6 DEF NoS3, DrainInv, SnapshotInv, S3Read
    <2> QED
      BY <1>6, <2>1 DEF NoS3, machineVars, protocolVars, localVars
  <1>7. CASE S3Undrain(host)
    BY <1>7 DEF S3Undrain, S3Healthy, machineVars, localVars, OldId, Containers
  <1>8. CASE S3StartDrain(host)
    BY <1>8 DEF S3StartDrain, S3Healthy, machineVars, OldId, Containers
  <1>9. CASE S3Drained
    BY <1>9 DEF S3Drained, machineVars, protocolVars, OldId, Containers
  <1>10. CASE S3Update(host)
    <2>1. s3_status = s3
      BY <1>10 DEF S3Update, DrainInv, SnapshotInv, S3Read
    <2> QED
      BY <1>10, <2>1 DEF S3Update, machineVars, OldId
  <1>11. CASE SmbRemove(host)
    BY <1>11 DEF SmbRemove, machineVars, OldId, Containers
  <1>12. CASE NfsRemovePort(host)
    BY <1>12 DEF NfsRemovePort, machineVars, OldId, Containers
  <1>13. CASE NfsRemoved(host)
    BY <1>13 DEF NfsRemoved, machineVars, protocolVars, localVars, OldId,
       Containers
  <1>14. CASE StopOld(host)
    BY <1>14 DEF StopOld, protocolVars, localVars, OldId, Containers
  <1>15. CASE SetUpDrives(host)
    BY <1>15 DEF SetUpDrives, SetUp, protocolVars, localVars, OldId, Containers
  <1>16. CASE MoveDrives(host)
    BY <1>16 DEF MoveDrives, protocolVars, localVars, OldId, Containers
  <1>17. CASE SetUpCompute(host)
    BY <1>17 DEF SetUpCompute, SetUp, protocolVars, localVars, OldId,
       Containers
  <1>18. CASE NoFrontend(host)
    BY <1>18 DEF NoFrontend, machineVars, protocolVars, localVars, OldId,
       Containers
  <1>19. CASE SetUpFrontend(host)
    BY <1>19 DEF SetUpFrontend, SetUp, protocolVars, localVars, OldId,
       Containers
  <1>20. CASE RestartAsFrontend(host)
    BY <1>20 DEF RestartAsFrontend, protocolVars, localVars, OldId, Containers
  <1>21. CASE StartS3(host)
    BY <1>21 DEF StartS3, machineVars, localVars, OldId, Containers
  <1>22. CASE ReaddFails(host)
    BY <1>22 DEF ReaddFails, machineVars, protocolVars, localVars, OldId,
       Containers
  <1>23. CASE ReaddS3(host)
    <2>1. CASE KeepS3Up
      BY <1>23, <2>1 DEF ReaddS3, Readding, machineVars
    <2>2. CASE ~KeepS3Up
      <3>1. \A h \in Hosts : OldId(h) \in s3' => OldId(h) \in s3
        <4>1. s3_status = s3
          BY <1>23, <2>2 DEF ReaddS3, Readding, DrainInv, SnapshotInv, S3Removed
        <4>2. \A h \in Hosts : OldId(h) # FrontendId(host)
          BY <2>2 DEF OldId, FrontendId
        <4> QED
          BY <1>23, <2>2, <4>1, <4>2 DEF ReaddS3
      <3> QED
        BY <1>23, <2>2, <3>1 DEF ReaddS3, Readding, machineVars
    <2> QED
      BY <2>1, <2>2
  <1>24. CASE ReaddSmb(host)
    <2>1. ~KeepS3Up
      BY <1>24 DEF ReaddSmb, Readding, BootInv
    <2>2. \A h \in Hosts : OldId(h) # FrontendId(host)
      BY <2>1 DEF OldId, FrontendId
    <2> QED
      BY <1>24, <2>1, <2>2 DEF ReaddSmb, Readding, machineVars
  <1>25. CASE ReaddNfs(host)
    <2>1. ~KeepS3Up
      BY <1>25 DEF ReaddNfs, Readding, BootInv
    <2>2. \A h \in Hosts : OldId(h) # FrontendId(host)
      BY <2>1 DEF OldId, FrontendId
    <2>3. \A p \in nfs_ifgs_to_add :
            [p EXCEPT !.host = FrontendId(host)].host = FrontendId(host)
      BY DEF Ports
    <2>4. \A q \in ports' : q \in ports \/ q.host = FrontendId(host)
      BY <1>25, <2>3 DEF ReaddNfs
    <2>5. /\ pc = "readd"
          /\ UNCHANGED <<up, exist, boot, s3, draining, smb, name, pc>>
      BY <1>25 DEF ReaddNfs, Readding, machineVars
    <2> QED
      BY <2>1, <2>2, <2>4, <2>5
  <1>26. CASE Readded
    BY <1>26 DEF Readded, machineVars, protocolVars, localVars, OldId,
       Containers
  <1>27. CASE BucketsActive
    BY <1>27 DEF BucketsActive, machineVars, protocolVars, localVars, OldId,
       Containers
  <1>28. CASE Enable(host)
    <2>1. \A h \in Hosts : up[h] \subseteq exist[h]
      BY DEF BootInv
    <2> QED
      BY <1>28, <2>1 DEF Enable, protocolVars, localVars
  <1>29. CASE Disable(host)
    <2>1. ~KeepS3Up /\ name \notin up[host]
      BY <1>29 DEF Disable, BootInv, Stopped
    <2> QED
      BY <1>29, <2>1 DEF Disable, protocolVars, localVars
  <1>30. CASE Deactivate(host)
    BY <1>30 DEF Deactivate, protocolVars, localVars, OldId, Containers
  <1>31. CASE RemoveHost(host)
    <2>1. ~KeepS3Up
      BY <1>31 DEF RemoveHost, BootInv
    <2> QED
      BY <1>31, <2>1 DEF RemoveHost, protocolVars, localVars
  <1>32. CASE Cleanup(host)
    BY <1>32 DEF Cleanup, protocolVars, localVars, OldId, Containers
  <1>33. CASE MoveGivesUp(host)
    BY <1>33 DEF MoveGivesUp, machineVars, protocolVars, localVars, OldId,
       Containers
  <1>34. CASE CommandFails
    BY <1>34 DEF CommandFails, machineVars, protocolVars, localVars, OldId,
       Containers, Phases
  <1>35. CASE Reboot(host)
    <2>1. \A h \in Hosts \ {host} : up'[h] = up[h]
      BY <1>35 DEF Reboot
    <2>2. up'[host] = boot[host] \cap exist[host]
      BY <1>35 DEF Reboot
    <2>3. up[host] \subseteq exist[host]
      BY DEF BootInv
    <2>4. /\ pc' = "exit1"
          /\ UNCHANGED <<host, name, exist, boot, s3, draining, smb, ports>>
      BY <1>35 DEF Reboot, protocolVars, localVars
    <2> QED
      BY <2>1, <2>2, <2>3, <2>4
  <1> QED
    BY <1>1, <1>2, <1>3, <1>4, <1>5, <1>6, <1>7, <1>8, <1>9, <1>10, <1>11,
       <1>12, <1>13, <1>14, <1>15, <1>16, <1>17, <1>18, <1>19, <1>20, <1>21,
       <1>22, <1>23, <1>24, <1>25, <1>26, <1>27, <1>28, <1>29, <1>30, <1>31,
       <1>32, <1>33, <1>34, <1>35 DEF DividerStep, DividerFault

\* The shell script touches neither containers nor memberships.
LEMMA NextServe ==
  TypeOK /\ DrainInv /\ BootInv /\ ServeInv /\ [Next]_vars => ServeInv'
  <1> SUFFICES ASSUME TypeOK, DrainInv, BootInv, ServeInv, [Next]_vars
               PROVE  ServeInv'
    OBVIOUS
  <1> USE DEF ServeInv, StoppedServesNothing, Removing, SmbRemoved, Cur
  <1>1. ASSUME NEW f \in BOOLEAN, Start(f) PROVE ServeInv'
    BY <1>1 DEF Start, machineVars, protocolVars, localVars, dividerVars
  <1>2. CASE Prechecked
    BY <1>2 DEF Prechecked, dividerVars, machineVars, protocolVars, localVars
  <1>3. CASE PrechecksFail
    BY <1>3 DEF PrechecksFail, machineVars, protocolVars, localVars,
       dividerVars
  <1>4. CASE StopFileSeen
    BY <1>4 DEF StopFileSeen, dividerVars, machineVars, protocolVars, localVars
  <1>5. ASSUME NEW h \in Hosts, Distribute(h) PROVE ServeInv'
    BY <1>5 DEF Distribute, machineVars, protocolVars, dividerVars
  <1>6. CASE HostSucceeded
    BY <1>6 DEF HostSucceeded, machineVars, protocolVars, localVars,
       dividerVars
  <1>7. CASE HostFailed
    BY <1>7 DEF HostFailed, machineVars, protocolVars, localVars, dividerVars
  <1>8. CASE Answer
    BY <1>8 DEF Answer, dividerVars, machineVars, protocolVars, localVars
  <1>9. CASE RebuildWaited
    BY <1>9 DEF RebuildWaited, dividerVars, machineVars, protocolVars,
       localVars
  <1>10. CASE NodesWaited
    BY <1>10 DEF NodesWaited, dividerVars, machineVars, protocolVars, localVars
  <1>11. CASE Finish
    BY <1>11 DEF Finish, dividerVars, machineVars, protocolVars, localVars
  <1>12. CASE TouchStopFile
    BY <1>12 DEF TouchStopFile, dividerVars, machineVars, protocolVars,
       localVars
  <1>13. CASE Divide
    BY <1>13, DividerServe DEF Divide
  <1>14. CASE ClusterReacts
    BY <1>14 DEF ClusterReacts, Notice, RebuildDone, shellVars, protocolVars,
       localVars
  <1>15. CASE UNCHANGED vars
    BY <1>15 DEF vars, dividerVars, shellVars, machineVars, protocolVars,
       localVars
  <1> QED
    BY <1>1, <1>2, <1>3, <1>4, <1>5, <1>6, <1>7, <1>8, <1>9, <1>10, <1>11,
       <1>12, <1>13, <1>14, <1>15 DEF Next, Shell

-----------------------------------------------------------------------------
(* The properties.                                                         *)

\* The inductive invariant holds of every behaviour.
LEMMA Invariance == Spec => []IInv
  <1>1. Init => IInv
    BY InitType, InitDrain, InitBoot, InitServe DEF IInv
  <1>2. IInv /\ [Next]_vars => IInv'
    BY NextType, NextDrain, NextBoot, NextServe DEF IInv
  <1> QED
    BY <1>1, <1>2, PTL DEF Spec

\* At most one host of the S3 cluster drains, whatever failed before: the check
\* for a healthy cluster comes before every "weka s3 cluster drain".
THEOREM AtMostOneDrains == Spec => []OneDraining
  <1>1. IInv => OneDraining
    BY DEF IInv, DrainInv
  <1> QED
    BY <1>1, Invariance, PTL

\* A reboot at any point brings up the old container or both of the new ones.
THEOREM AlwaysRebootServiceable == Spec => []RebootServiceable
  <1>1. IInv => RebootServiceable
    BY DEF IInv, BootInv
  <1> QED
    BY <1>1, Invariance, PTL

\* A stopped old container is no member of SMB or NFS, and is out of S3 or
\* drained, in every run, after every failure and with --keep-s3-up too.
THEOREM NothingStoppedServes == Spec => []StoppedServesNothing
  <1>1. IInv => StoppedServesNothing
    BY DEF IInv, ServeInv
  <1> QED
    BY <1>1, Invariance, PTL

-----------------------------------------------------------------------------
(* Without -s the conversion is a rolling maintenance: over all its runs   *)
(* and failures one machine at a time misses copies of its data.           *)
(*                                                                         *)
(* The script never asks whether another machine is exposed: it waits for  *)
(* the rebuild after a machine that succeeded, and after one that failed   *)
(* it relies on the order of the list and on the divider's own check.  A   *)
(* machine before the failed one has several containers, on which the      *)
(* divider exits at once, or none, and is then not listed; and the failed  *)
(* one is listed as UP until the cluster notices and rebuilds.             *)

\* Phases with both new backend containers.
Divided == {"frontend", "s3start", "readd", "buckets", "enable", "disable",
            "deactivate", "remove", "cleanup"}
Ended   == {"none", "check", "exit0", "exit1"}

\* A machine the divider does not touch.
NotSingle(h) == \A c \in Containers : up[h] # {c}
Plural(h) == NotSingle(h) /\ up[h] # {}

\* What runs on the machine, phase by phase.
UpInv ==
    /\ stage # "ask"
    /\ pc # "none" <=> stage = "divide"
    /\ pc \in Removing => up[host] = {name}
    /\ pc \in {"move", "compute"} => "drives0" \in up[host]
    /\ pc \in Divided => {"drives0", "compute0"} \subseteq up[host]
    /\ pc = "exit0" \/ stage = "rebuild" => Plural(host)

\* Machines the run is through with, or that it never listed.
Passed(m) == NotSingle(m) /\ risk[m] = "none"

PassedInv ==
    /\ stage = "prechecks" => \A m \in Hosts \ todo : up[m] = {} /\ risk[m] # "unseen"
    /\ stage \in {"next", "nodes"} => \A m \in Hosts \ todo : Passed(m)
    /\ stage \in {"divide", "rebuild"} => \A m \in Hosts \ (todo \cup {host}) : Passed(m)
    /\ stage = "divide" => host \notin todo /\ \A m \in todo : host < m

\* An exposed machine is alone, none before it will be divided, and it has no more
\* than its new drives container until the cluster notices.
RiskInv ==
    /\ \A h \in Hosts : risk[h] = "unseen" => up[h] \subseteq {"drives0"}
    /\ pc \in Divided \cup {"compute"} => risk[host] # "unseen"
    /\ \A m, e \in Hosts : risk[e] # "none" /\ m < e => NotSingle(m)
    /\ \A m, e \in Hosts : risk[e] # "none" /\ risk[m] # "none" => m = e
    /\ pc \notin Ended => \A m \in Hosts \ {host} : risk[m] = "none"

ExposureInv == UpInv /\ PassedInv /\ RiskInv

\* What a step of the divider does to its machine, if not one of the few that take
\* a container up or down: go on with its work, or end it.
Quiet ==
    /\ UNCHANGED <<up, risk, name>>
    /\ \/ pc \in Removing /\ pc' \in Removing
       \/ pc \in Divided /\ pc' \in Divided
       \/ pc = "cleanup" /\ pc' = "exit0"
       \/ pc' = "exit1"

Moved == pc = "move" /\ pc' = "compute" /\ risk[host] # "unseen" /\ UNCHANGED <<up, risk, name>>
-----------------------------------------------------------------------------
\* Cardinality(...) > 1 in the code's check of the local containers.
LEMMA ManyArePlural ==
    ASSUME NEW S, Cardinality(S) > 1
    PROVE  S # {} /\ \A c : S # {c}
  <1>1. Cardinality({}) = 0
    BY FS_EmptySet
  <1>2. \A c : Cardinality({c}) = 1
    BY FS_Singleton, Zenon
  <1>3. S # {}
    BY <1>1
  <1>4. ASSUME NEW c, S = {c} PROVE FALSE
    BY <1>2, <1>4
  <1>5. QED
    BY <1>3, <1>4

\* A step that touches the divided machine only, while no other is exposed.
LEMMA AloneKeepsRisk ==
    ASSUME PassedInv, stage = "divide", host' = host, host \in Hosts,
           \A m \in Hosts \ {host} : risk'[m] = "none" /\ up'[m] = up[m],
           risk'[host] = "unseen" => up'[host] \subseteq {"drives0"},
           pc' \in Divided \cup {"compute"} => risk'[host] # "unseen"
    PROVE  RiskInv'
  <1>1. \A m \in Hosts : m < host => NotSingle(m)'
    <2> SUFFICES ASSUME NEW m \in Hosts, m < host PROVE NotSingle(m)'
      OBVIOUS
    <2>1. m # host /\ m \notin todo
      BY DividerAssumption DEF PassedInv
    <2>2. QED
      BY <2>1 DEF PassedInv, Passed, NotSingle
  <1>2. \A m, e \in Hosts : risk'[e] # "none" /\ m < e => NotSingle(m)'
    BY <1>1
  <1>3. QED
    BY <1>2 DEF RiskInv

LEMMA InitExposure == Init => ExposureInv
  BY DEF Init, DividerInit, ExposureInv, UpInv, PassedInv, RiskInv, Removing, Divided,
     Ended

\* Most commands of the divider leave the containers of the machine alone.
LEMMA DividerEffect ==
    ASSUME DividerStep(host) \/ DividerFault(host)
    PROVE  \/ Quiet \/ Moved \/ LocalCheck(host) \/ StopOld(host) \/ SetUpDrives(host)
           \/ SetUpCompute(host) \/ SetUpFrontend(host) \/ RestartAsFrontend(host)
           \/ Reboot(host)
  <1> USE DEF Quiet, Removing, Divided, Goto, machineVars, localVars
  <1>1. CASE Prepare(host)
    BY <1>1 DEF Prepare
  <1>2. CASE S3Check(host)
    BY <1>2 DEF S3Check
  <1>3. CASE SmbCheck(host)
    BY <1>3 DEF SmbCheck
  <1>4. CASE NfsCheck(host)
    BY <1>4 DEF NfsCheck
  <1>5. CASE NoS3(host)
    BY <1>5 DEF NoS3
  <1>6. CASE S3Undrain(host)
    BY <1>6 DEF S3Undrain
  <1>7. CASE S3StartDrain(host)
    BY <1>7 DEF S3StartDrain
  <1>8. CASE S3Drained
    BY <1>8 DEF S3Drained
  <1>9. CASE S3Update(host)
    BY <1>9 DEF S3Update
  <1>10. CASE SmbRemove(host)
    BY <1>10 DEF SmbRemove
  <1>11. CASE NfsRemovePort(host)
    BY <1>11 DEF NfsRemovePort
  <1>12. CASE NfsRemoved(host)
    BY <1>12 DEF NfsRemoved
  <1>13. CASE MoveDrives(host)
    BY <1>13 DEF MoveDrives, Moved
  <1>14. CASE NoFrontend(host)
    BY <1>14 DEF NoFrontend
  <1>15. CASE StartS3(host)
    BY <1>15 DEF StartS3
  <1>16. CASE ReaddFails(host)
    BY <1>16 DEF ReaddFails
  <1>17. CASE ReaddS3(host)
    BY <1>17 DEF ReaddS3, Readding
  <1>18. CASE ReaddSmb(host)
    BY <1>18 DEF ReaddSmb, Readding
  <1>19. CASE ReaddNfs(host)
    BY <1>19 DEF ReaddNfs, Readding
  <1>20. CASE Readded
    BY <1>20 DEF Readded
  <1>21. CASE BucketsActive
    BY <1>21 DEF BucketsActive
  <1>22. CASE Enable(host)
    BY <1>22 DEF Enable
  <1>23. CASE Disable(host)
    BY <1>23 DEF Disable
  <1>24. CASE Deactivate(host)
    BY <1>24 DEF Deactivate
  <1>25. CASE RemoveHost(host)
    BY <1>25 DEF RemoveHost
  <1>26. CASE Cleanup(host)
    BY <1>26 DEF Cleanup
  <1>27. CASE MoveGivesUp(host)
    BY <1>27 DEF MoveGivesUp, Moved
  <1>28. CASE CommandFails
    BY <1>28 DEF CommandFails
  <1> QED
    BY <1>1, <1>2, <1>3, <1>4, <1>5, <1>6, <1>7, <1>8, <1>9, <1>10, <1>11,
       <1>12, <1>13, <1>14, <1>15, <1>16, <1>17, <1>18, <1>19, <1>20, <1>21,
       <1>22, <1>23, <1>24, <1>25, <1>26, <1>27, <1>28 DEF DividerStep, DividerFault

\* The new containers are set up one by one, after the old one is down.
LEMMA DividerUp ==
    ASSUME IInv, UpInv, stage = "divide",
           DividerStep(host) \/ DividerFault(host), UNCHANGED shellVars
    PROVE  UpInv'
  <1> USE DEF UpInv, Plural, NotSingle, Removing, Divided, Goto, shellVars
  <1>1. CASE Quiet
    BY <1>1 DEF Quiet
  <1>2. CASE Moved
    BY <1>2 DEF Moved
  <1>3. CASE LocalCheck(host)
    BY <1>3, ManyArePlural DEF LocalCheck, machineVars, IInv, TypeOK, DividerTypeOK, Containers
  <1>4. CASE StopOld(host)
    BY <1>4 DEF StopOld, IInv, TypeOK, DividerTypeOK, localVars
  <1>5. CASE SetUpDrives(host)
    BY <1>5 DEF SetUpDrives, IInv, TypeOK, DividerTypeOK, SetUp, localVars
  <1>6. CASE SetUpCompute(host)
    BY <1>6 DEF SetUpCompute, IInv, TypeOK, DividerTypeOK, SetUp, localVars
  <1>7. CASE SetUpFrontend(host)
    BY <1>7 DEF SetUpFrontend, IInv, TypeOK, DividerTypeOK, SetUp, localVars
  <1>8. CASE RestartAsFrontend(host)
    BY <1>8 DEF RestartAsFrontend, IInv, TypeOK, DividerTypeOK, localVars
  <1>9. CASE Reboot(host)
    BY <1>9 DEF Reboot, IInv, TypeOK, DividerTypeOK, localVars, Phases
  <1> QED
    BY DividerEffect, <1>1, <1>2, <1>3, <1>4, <1>5, <1>6, <1>7, <1>8, <1>9

\* The divider changes its own machine only.
LEMMA DividerPassed ==
    ASSUME IInv, PassedInv, stage = "divide",
           DividerStep(host) \/ DividerFault(host), UNCHANGED shellVars
    PROVE  PassedInv'
  <1> USE DEF PassedInv, Passed, NotSingle, Goto, shellVars
  <1>1. CASE Quiet
    BY <1>1 DEF Quiet
  <1>2. CASE Moved
    BY <1>2 DEF Moved
  <1>3. CASE LocalCheck(host)
    BY <1>3 DEF LocalCheck, machineVars
  <1>4. CASE StopOld(host)
    BY <1>4 DEF StopOld, IInv, TypeOK, DividerTypeOK, localVars
  <1>5. CASE SetUpDrives(host)
    BY <1>5 DEF SetUpDrives, IInv, TypeOK, DividerTypeOK, SetUp, localVars
  <1>6. CASE SetUpCompute(host)
    BY <1>6 DEF SetUpCompute, IInv, TypeOK, DividerTypeOK, SetUp, localVars
  <1>7. CASE SetUpFrontend(host)
    BY <1>7 DEF SetUpFrontend, IInv, TypeOK, DividerTypeOK, SetUp, localVars
  <1>8. CASE RestartAsFrontend(host)
    BY <1>8 DEF RestartAsFrontend, IInv, TypeOK, DividerTypeOK, localVars
  <1>9. CASE Reboot(host)
    BY <1>9 DEF Reboot, IInv, TypeOK, DividerTypeOK, localVars
  <1> QED
    BY DividerEffect, <1>1, <1>2, <1>3, <1>4, <1>5, <1>6, <1>7, <1>8, <1>9

\* The machine that is stopped is the only one exposed: none before it is, as the
\* run is through with those, and none after it, as it has a single container.
LEMMA DividerRisk ==
    ASSUME IInv, ExposureInv, stage = "divide",
           DividerStep(host) \/ DividerFault(host), UNCHANGED shellVars
    PROVE  RiskInv'
  <1> USE DEF ExposureInv
  <1>1. CASE Quiet
    BY <1>1 DEF Quiet, shellVars, RiskInv, Divided, Ended, Removing, UpInv,
       NotSingle
  <1>2. CASE Moved
    BY <1>2 DEF Moved, shellVars, RiskInv, Divided, Ended, NotSingle
  <1>3. CASE LocalCheck(host)
    BY <1>3 DEF LocalCheck, Goto, shellVars, RiskInv, Divided, Ended,
       machineVars, PassedInv, Passed, NotSingle, IInv, TypeOK, DividerTypeOK
  <1>4. CASE StopOld(host)
    <2>1. /\ host \in Hosts /\ host' = host /\ pc \notin Ended
          /\ \A m \in Hosts \ {host} : risk'[m] = "none" /\ up'[m] = up[m]
      BY <1>4 DEF StopOld, RiskInv, Ended, IInv, TypeOK, DividerTypeOK, shellVars
    <2>2. risk'[host] = "unseen" => up'[host] \subseteq {"drives0"}
      BY <1>4 DEF StopOld, RiskInv, UpInv, Removing, Divided, Goto, IInv, TypeOK, DividerTypeOK
    <2>3. pc' \in Divided \cup {"compute"} => risk'[host] # "unseen"
      BY <1>4 DEF StopOld, RiskInv, Divided, Goto, shellVars
    <2>4. QED
      BY <2>1, <2>2, <2>3, AloneKeepsRisk
  <1>5. CASE SetUpDrives(host)
    <2>1. /\ host \in Hosts /\ host' = host /\ pc \notin Ended
          /\ \A m \in Hosts \ {host} : risk'[m] = "none" /\ up'[m] = up[m]
      BY <1>5 DEF SetUpDrives, RiskInv, Ended, SetUp, IInv, TypeOK, DividerTypeOK, shellVars
    <2>2. risk'[host] = "unseen" => up'[host] \subseteq {"drives0"}
      BY <1>5 DEF SetUpDrives, RiskInv, UpInv, Removing, Divided, Goto, SetUp, IInv, TypeOK, DividerTypeOK
    <2>3. pc' \in Divided \cup {"compute"} => risk'[host] # "unseen"
      BY <1>5 DEF SetUpDrives, RiskInv, Divided, Goto, SetUp, shellVars
    <2>4. QED
      BY <2>1, <2>2, <2>3, AloneKeepsRisk
  <1>6. CASE SetUpCompute(host)
    <2>1. /\ host \in Hosts /\ host' = host /\ pc \notin Ended
          /\ \A m \in Hosts \ {host} : risk'[m] = "none" /\ up'[m] = up[m]
      BY <1>6 DEF SetUpCompute, RiskInv, Ended, SetUp, IInv, TypeOK, DividerTypeOK, shellVars
    <2>2. risk'[host] = "unseen" => up'[host] \subseteq {"drives0"}
      BY <1>6 DEF SetUpCompute, RiskInv, UpInv, Removing, Divided, Goto, SetUp, IInv, TypeOK, DividerTypeOK
    <2>3. pc' \in Divided \cup {"compute"} => risk'[host] # "unseen"
      BY <1>6 DEF SetUpCompute, RiskInv, Divided, Goto, SetUp, shellVars
    <2>4. QED
      BY <2>1, <2>2, <2>3, AloneKeepsRisk
  <1>7. CASE SetUpFrontend(host)
    <2>1. /\ host \in Hosts /\ host' = host /\ pc \notin Ended
          /\ \A m \in Hosts \ {host} : risk'[m] = "none" /\ up'[m] = up[m]
      BY <1>7 DEF SetUpFrontend, RiskInv, Ended, SetUp, IInv, TypeOK, DividerTypeOK, shellVars
    <2>2. risk'[host] = "unseen" => up'[host] \subseteq {"drives0"}
      BY <1>7 DEF SetUpFrontend, RiskInv, UpInv, Removing, Divided, Goto, SetUp, IInv, TypeOK, DividerTypeOK
    <2>3. pc' \in Divided \cup {"compute"} => risk'[host] # "unseen"
      BY <1>7 DEF SetUpFrontend, RiskInv, Divided, Goto, SetUp, shellVars
    <2>4. QED
      BY <2>1, <2>2, <2>3, AloneKeepsRisk
  <1>8. CASE RestartAsFrontend(host)
    <2>1. /\ host \in Hosts /\ host' = host /\ pc \notin Ended
          /\ \A m \in Hosts \ {host} : risk'[m] = "none" /\ up'[m] = up[m]
      BY <1>8 DEF RestartAsFrontend, RiskInv, Ended, IInv, TypeOK, DividerTypeOK, shellVars
    <2>2. risk'[host] = "unseen" => up'[host] \subseteq {"drives0"}
      BY <1>8 DEF RestartAsFrontend, RiskInv, UpInv, Removing, Divided, Goto, IInv, TypeOK, DividerTypeOK
    <2>3. pc' \in Divided \cup {"compute"} => risk'[host] # "unseen"
      BY <1>8 DEF RestartAsFrontend, RiskInv, Divided, Goto, shellVars
    <2>4. QED
      BY <2>1, <2>2, <2>3, AloneKeepsRisk
  <1>9. CASE Reboot(host)
    <2>1. /\ host \in Hosts /\ host' = host /\ pc \notin Ended
          /\ \A m \in Hosts \ {host} : risk'[m] = "none" /\ up'[m] = up[m]
      BY <1>9 DEF Reboot, RiskInv, Ended, Phases, IInv, TypeOK, DividerTypeOK, shellVars
    <2>2. risk'[host] = "unseen" => up'[host] \subseteq {"drives0"}
      BY <1>9 DEF Reboot, RiskInv, UpInv, Removing, Divided, Goto, Phases, IInv, TypeOK, DividerTypeOK
    <2>3. pc' \in Divided \cup {"compute"} => risk'[host] # "unseen"
      BY <1>9 DEF Reboot, RiskInv, Divided, Goto, Phases, shellVars
    <2>4. QED
      BY <2>1, <2>2, <2>3, AloneKeepsRisk
  <1> QED
    BY DividerEffect, <1>1, <1>2, <1>3, <1>4, <1>5, <1>6, <1>7, <1>8, <1>9

\* The shell script goes on when nothing is rebuilt, in the order of the list.
LEMMA NextExposure ==
    ASSUME ~SkipFailed, IInv, ExposureInv, [Next]_vars
    PROVE  ExposureInv'
  <1> USE DEF ExposureInv, UpInv, PassedInv, RiskInv, Plural, NotSingle,
       Passed, Removing, Divided, Ended
  <1>1. ASSUME NEW f \in BOOLEAN, Start(f) PROVE ExposureInv'
    <2>1. UpInv'
      BY <1>1 DEF Start, UpInv, Plural, NotSingle, Removing, Divided, dividerVars, machineVars, localVars, protocolVars
    <2>2. PassedInv'
      BY <1>1 DEF Start, PassedInv, Passed, NotSingle, dividerVars, machineVars, localVars, protocolVars, Listed, IInv, TypeOK, DividerTypeOK
    <2>3. RiskInv'
      BY <1>1 DEF Start, RiskInv, NotSingle, Divided, Ended, dividerVars, machineVars, localVars, protocolVars, UpInv
    <2>4. QED
      BY <2>1, <2>2, <2>3
  <1>2. CASE Prechecked
    <2>1. UpInv'
      BY <1>2 DEF Prechecked, UpInv, Plural, NotSingle, Removing, Divided, dividerVars, machineVars, localVars, protocolVars
    <2>2. PassedInv'
      BY <1>2 DEF Prechecked, PassedInv, Passed, NotSingle, dividerVars, machineVars, localVars, protocolVars, RebuildVisible, IInv, TypeOK, DividerTypeOK
    <2>3. RiskInv'
      BY <1>2 DEF Prechecked, RiskInv, NotSingle, Divided, Ended, dividerVars, machineVars, localVars, protocolVars
    <2>4. QED
      BY <2>1, <2>2, <2>3
  <1>3. CASE PrechecksFail
    BY <1>3 DEF PrechecksFail, machineVars, protocolVars, localVars,
       dividerVars, shellVars
  <1>4. CASE StopFileSeen
    BY <1>4 DEF StopFileSeen, dividerVars, machineVars, protocolVars,
       localVars, shellVars
  <1>5. ASSUME NEW h \in Hosts, Distribute(h) PROVE ExposureInv'
    <2>1. UpInv'
      BY <1>5 DEF Distribute, UpInv, Plural, NotSingle, Removing, Divided, dividerVars, machineVars, localVars, protocolVars
    <2>2. PassedInv'
      BY <1>5, DividerAssumption DEF Distribute, PassedInv, Passed, NotSingle, dividerVars, machineVars, localVars, protocolVars, IInv, TypeOK, DividerTypeOK
    <2>3. RiskInv'
      BY <1>5 DEF Distribute, RiskInv, NotSingle, Divided, Ended, dividerVars, machineVars, localVars, protocolVars, UpInv
    <2>4. QED
      BY <2>1, <2>2, <2>3
  <1>6. CASE HostSucceeded
    BY <1>6 DEF HostSucceeded, machineVars, protocolVars, localVars,
       dividerVars, shellVars
  <1>7. CASE HostFailed
    BY <1>7 DEF HostFailed, machineVars, protocolVars, localVars, dividerVars,
       shellVars
  <1>8. CASE Answer
    BY <1>8 DEF Answer, dividerVars, machineVars, protocolVars, localVars,
       shellVars
  <1>9. CASE RebuildWaited
    <2>1. UpInv'
      BY <1>9 DEF RebuildWaited, UpInv, Plural, NotSingle, Removing, Divided, dividerVars, machineVars, localVars, protocolVars
    <2>2. PassedInv'
      BY <1>9 DEF RebuildWaited, PassedInv, Passed, NotSingle, dividerVars, machineVars, localVars, protocolVars, UpInv, Plural, RebuildVisible, IInv, TypeOK, DividerTypeOK
    <2>3. RiskInv'
      BY <1>9 DEF RebuildWaited, RiskInv, NotSingle, Divided, Ended, dividerVars, machineVars, localVars, protocolVars
    <2>4. QED
      BY <2>1, <2>2, <2>3
  <1>10. CASE NodesWaited
    BY <1>10 DEF NodesWaited, dividerVars, machineVars, protocolVars,
       localVars, shellVars
  <1>11. CASE Finish
    BY <1>11 DEF Finish, dividerVars, machineVars, protocolVars, localVars,
       shellVars
  <1>12. CASE TouchStopFile
    BY <1>12 DEF TouchStopFile, dividerVars, machineVars, protocolVars,
       localVars, shellVars
  <1>13. CASE Divide
    BY <1>13, DividerUp, DividerPassed, DividerRisk DEF Divide
  <1>14. CASE ClusterReacts
    <2>1. PICK h \in Hosts : Notice(h) \/ RebuildDone(h)
      BY <1>14 DEF ClusterReacts
    <2>2. /\ UNCHANGED <<up, pc, name, stage, host, todo>>
          /\ risk[h] # "none" /\ risk'[h] # "unseen"
          /\ \A m \in Hosts \ {h} : risk'[m] = risk[m]
      BY <1>14, <2>1 DEF ClusterReacts, Notice, RebuildDone, shellVars, localVars, IInv, TypeOK,
         DividerTypeOK
    <2>3. UpInv'
      BY <2>2 DEF UpInv, Plural, NotSingle, Removing, Divided
    <2>4. PassedInv'
      BY <2>2 DEF PassedInv, Passed, NotSingle
    <2>5. RiskInv'
      BY <2>2 DEF RiskInv, NotSingle, Divided, Ended
    <2>6. QED
      BY <2>3, <2>4, <2>5
  <1>15. CASE UNCHANGED vars
    BY <1>15 DEF vars, dividerVars, shellVars, machineVars, protocolVars,
       localVars
  <1> QED
    BY <1>1, <1>2, <1>3, <1>4, <1>5, <1>6, <1>7, <1>8, <1>9, <1>10, <1>11,
       <1>12, <1>13, <1>14, <1>15 DEF Next, Shell
-----------------------------------------------------------------------------
\* Without -s, the conversion implements RollingMaintenance for any number of
\* machines, faults, reruns and stop files (convert_cluster_to_mbc.sh:425-446).
THEOREM ImplementsRolling ==
    ASSUME ~SkipFailed
    PROVE  Spec => OneMachineAtATime
  <1>1. Init => ExposureInv /\ Rolling!Init
    BY InitExposure DEF Init, DividerInit, Rolling!Init, Exposed
  <1>2. IInv /\ ExposureInv /\ [Next]_vars => ExposureInv'
    BY NextExposure
  <1>3. IInv /\ ExposureInv /\ ExposureInv' /\ [Next]_vars => [Rolling!Next]_Exposed
    <2> SUFFICES ASSUME IInv, ExposureInv, ExposureInv', [Next]_vars, Exposed' # Exposed
                 PROVE  Rolling!Next
      OBVIOUS
    <2> DEFINE Kept == \A h \in Hosts : risk[h] # "none" => risk'[h] # "none"
    <2>1. Kept \/ \E h \in Hosts : RebuildDone(h)
      <3>1. CASE Divide
        <4>1. risk' = risk \/ StopOld(host) \/ Reboot(host)
          BY <3>1, DividerEffect DEF Divide, Quiet, Moved, LocalCheck, SetUpDrives, SetUpCompute,
             SetUpFrontend, SetUp, RestartAsFrontend, machineVars
        <4>2. QED
          BY <4>1 DEF StopOld, Reboot, IInv, TypeOK, DividerTypeOK
      <3>2. ASSUME NEW h \in Hosts, Notice(h) PROVE Kept
        BY <3>2 DEF Notice, IInv, TypeOK, DividerTypeOK
      <3>3. CASE Shell
        BY <3>3 DEF Shell, Prechecked, StopFileSeen, Distribute, HostSucceeded, HostFailed,
           Answer, RebuildWaited, NodesWaited, Finish, dividerVars, machineVars
      <3>4. CASE (\E f \in BOOLEAN : Start(f)) \/ PrechecksFail \/ TouchStopFile \/ UNCHANGED vars
        BY <3>4 DEF Start, PrechecksFail, TouchStopFile, vars, dividerVars, machineVars
      <3>5. QED
        BY <3>1, <3>2, <3>3, <3>4 DEF Next, ClusterReacts
    <2>2. CASE Kept
      <3>1. PICK h \in Hosts : h \in Exposed' /\ h \notin Exposed
        BY <2>2 DEF Exposed
      <3>2. \A m \in Exposed' : m = h
        BY <3>1 DEF ExposureInv, RiskInv, Exposed
      <3>3. Exposed \subseteq Exposed'
        BY <2>2 DEF Exposed
      <3>4. Exposed' = {h} /\ Exposed \subseteq {h}
        BY <3>1, <3>2, <3>3
      <3>5. QED
        BY <3>4 DEF Rolling!Next, Rolling!TakeDown
    <2>3. ASSUME NEW h \in Hosts, RebuildDone(h) PROVE Rolling!Next
      <3>1. h \in Exposed /\ Exposed' = Exposed \ {h}
        BY <2>3 DEF RebuildDone, Exposed, IInv, TypeOK, DividerTypeOK
      <3>2. QED
        BY <3>1 DEF Rolling!Next, Rolling!Reprotected
    <2>4. QED
      BY <2>1, <2>2, <2>3
  <1>4. QED
    BY <1>1, <1>2, <1>3, Invariance, PTL DEF Spec, OneMachineAtATime, Rolling!Spec
=============================================================================
