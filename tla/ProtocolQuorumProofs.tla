------------------------ MODULE ProtocolQuorumProofs ------------------------
(***************************************************************************)
(* Proofs about the protocols in a conversion, for any number of machines, *)
(* faults and runs.                                                        *)
(*                                                                         *)
(* First, that every protocol keeps enough members.  S3 and SMB keep three *)
(* members because a removal comes after a check for four, and nothing     *)
(* between them removes another.  NFS keeps a port of every interface      *)
(* group if no host has two ports of a group: the check at                 *)
(* mbc_divider_script.py:521 counts ports, where its message speaks of     *)
(* hosts.                                                                  *)
(*                                                                         *)
(* Then, what each machine serves: a machine reported converted serves     *)
(* what it served before, and without a fault none fails.  Both rest on    *)
(* an invariant that follows the machine in work phase by phase, and says  *)
(* of every other that it is untouched, converted, or failed.              *)
(***************************************************************************)
EXTENDS ConvertClusterProofs

\* Phases between the check of SMB and the removal from it.
SmbRead == {"nfscheck", "s3drain", "s3wait", "s3drained", "s3update", "smbremove"}

MembersInv ==
    /\ IsFiniteSet(s3) /\ IsFiniteSet(smb)
    /\ Cardinality(S3Init) >= 3 => Cardinality(s3) >= 3
    /\ Cardinality(SmbInit) >= 3 => Cardinality(smb) >= 3
    /\ pc \in S3Read /\ Cur(host) \in s3 => Cardinality(s3) >= 4
    /\ pc \in SmbRead /\ Cur(host) \in smb => Cardinality(smb) >= 4

\* Phases between the check of NFS and the end of its removal, from there to
\* the re-adding, and after a frontend was set up.
NfsRead    == {"s3drain", "s3wait", "s3drained", "s3update", "smbremove", "nfsremove"}
NfsRemoves == {"nfsremove", "stop", "drives", "move", "compute", "frontend",
               "s3start", "readd"}
BeforeNfs  == {"check", "prepare", "s3check", "smbcheck", "nfscheck", "s3drain",
               "s3wait", "s3drained", "s3update", "smbremove"}
FrontendUp == {"s3start", "readd", "buckets", "enable", "disable", "deactivate",
               "remove"}

OnePortPerHost(all) == \A p, q \in all : p.ig = q.ig /\ p.host = q.host => p = q
NewFrontend == <<host, "frontend0">>

\* A frontend0 serves NFS only where it was set up, and is set up only where it
\* was not there before; it never is the container being divided.
FrontendInv ==
    /\ \A h \in Hosts : "frontend0" \in exist[h] => h \in Frontends
    /\ pc \in FrontendUp => name # "frontend0"
    /\ pc = "s3start" => KeepS3Up

PortsInv ==
    /\ \A h \in Hosts : "frontend0" \notin exist[h] =>
          \A p \in ports : p.host # <<h, "frontend0">>
    /\ OnePortPerHost(ports \cup nfs_ifgs_to_add)
    /\ pc \in BeforeNfs => nfs_ifgs_to_add = {}
    /\ pc \in NfsRemoves => \A p \in nfs_ifgs_to_add : p.host = Cur(host)
    /\ pc = "readd" => \A p \in ports, q \in nfs_ifgs_to_add :
                          p.host = NewFrontend => p.ig # q.ig
    /\ pc \in NfsRead => \A p \in ports : p.host = Cur(host) =>
                          \E q \in ports : q.ig = p.ig /\ q.host # Cur(host)
    /\ NfsServed
-----------------------------------------------------------------------------
(* S3 and SMB.                                                             *)

\* A list that loses one of four members keeps three.
LEMMA OneLess ==
    ASSUME NEW S, IsFiniteSet(S), NEW x,
           Cardinality(S) >= 3, x \in S => Cardinality(S) >= 4
    PROVE  IsFiniteSet(S \ {x}) /\ Cardinality(S \ {x}) >= 3
  <1>1. CASE x \in S
    <2>1. Cardinality(S) \in Nat
      BY FS_CardinalityType
    <2>2. IsFiniteSet(S \ {x}) /\ Cardinality(S \ {x}) = Cardinality(S) - 1
      BY <1>1, FS_RemoveElement, Zenon
    <2>3. QED
      BY <1>1, <2>1, <2>2
  <1>2. CASE x \notin S
    <2>1. S \ {x} = S
      BY <1>2
    <2>2. QED
      BY <2>1
  <1>3. QED
    BY <1>1, <1>2

LEMMA OneMore ==
    ASSUME NEW S, IsFiniteSet(S), NEW x
    PROVE  IsFiniteSet(S \cup {x}) /\ Cardinality(S \cup {x}) >= Cardinality(S)
  <1>1. Cardinality(S) \in Nat
    BY FS_CardinalityType
  <1>2. /\ IsFiniteSet(S \cup {x})
        /\ Cardinality(S \cup {x}) = IF x \in S THEN Cardinality(S) ELSE Cardinality(S) + 1
    BY FS_AddElement, Zenon
  <1>3. QED
    BY <1>1, <1>2

\* The members at the start are as many as the machines that have one.
LEMMA MembersAtStart ==
    ASSUME NEW M \in SUBSET Machines
    PROVE  LET S == {OldId(m) : m \in M}
           IN IsFiniteSet(S) /\ Cardinality(S) = Cardinality(M)
  <1> DEFINE S == {OldId(m) : m \in M}
             f == [m \in M |-> OldId(m)]
  <1>1. IsFiniteSet(M)
    BY DividerAssumption, FS_Subset
  <1>2. f \in Bijection(M, S)
    <2>1. f \in [M -> S]
      OBVIOUS
    <2>2. \A a, b \in M : f[a] = f[b] => a = b
      BY DEF OldId
    <2>3. \A t \in S : \E a \in M : f[a] = t
      OBVIOUS
    <2>4. QED
      BY <2>1, <2>2, <2>3 DEF Bijection, Injection, Surjection, IsInjective
  <1>3. QED
    BY <1>1, <1>2, FS_Bijection DEF ExistsBijection

LEMMA InitMembers == Init => MembersInv
  <1> SUFFICES ASSUME Init PROVE MembersInv
    OBVIOUS
  <1>1. S3Init \in SUBSET Machines /\ SmbInit \in SUBSET Machines
    BY DividerAssumption
  <1>2. pc = "none" /\ s3 = {OldId(m) : m \in S3Init} /\ smb = {OldId(m) : m \in SmbInit}
    BY DEF Init, DividerInit
  <1>3. IsFiniteSet(s3) /\ Cardinality(s3) = Cardinality(S3Init)
    BY <1>1, <1>2, MembersAtStart
  <1>4. IsFiniteSet(smb) /\ Cardinality(smb) = Cardinality(SmbInit)
    BY <1>1, <1>2, MembersAtStart
  <1>5. QED
    BY <1>2, <1>3, <1>4 DEF MembersInv, S3Read, SmbRead

\* Each removal finds the members the check before it counted.
LEMMA DividerMembers ==
    ASSUME IInv, MembersInv, DividerStep(host) \/ DividerFault(host),
           UNCHANGED shellVars
    PROVE  MembersInv'
  <1> USE DEF MembersInv, S3Read, SmbRead, Goto, Cur, shellVars
  <1>1. CASE LocalCheck(host)
    BY <1>1 DEF LocalCheck, machineVars, protocolVars
  <1>2. CASE Prepare(host)
    BY <1>2 DEF Prepare, protocolVars, localVars
  <1>3. CASE S3Check(host)
    <2>1. Cardinality(s3) \in Nat
      BY FS_CardinalityType
    <2>2. QED
      BY <1>3, <2>1 DEF S3Check, machineVars, protocolVars
  <1>4. CASE SmbCheck(host)
    <2>1. Cardinality(smb) \in Nat
      BY FS_CardinalityType
    <2>2. QED
      BY <1>4, <2>1 DEF SmbCheck, machineVars, protocolVars, localVars
  <1>5. CASE NfsCheck(host)
    BY <1>5 DEF NfsCheck, machineVars, protocolVars, localVars
  <1>6. CASE NoS3(host)
    BY <1>6 DEF NoS3, machineVars, protocolVars, localVars
  <1>7. CASE S3Undrain(host)
    BY <1>7 DEF S3Undrain, machineVars, localVars
  <1>8. CASE S3StartDrain(host)
    BY <1>8 DEF S3StartDrain, machineVars
  <1>9. CASE S3Drained
    BY <1>9 DEF S3Drained, machineVars, protocolVars
  <1>10. CASE S3Update(host)
    <2>1. s3_status = s3
      BY <1>10 DEF S3Update, IInv, DrainInv, SnapshotInv, S3Read
    <2>2. s3' = s3 \ {Cur(host)} /\ smb' = smb /\ pc' = "smbremove" /\ Cur(host)' = Cur(host)
      BY <1>10, <2>1 DEF S3Update
    <2>3. IsFiniteSet(s3') /\ (Cardinality(S3Init) >= 3 => Cardinality(s3') >= 3)
      <3>1. IsFiniteSet(s3) /\ (Cur(host) \in s3 => Cardinality(s3) >= 4)
        BY <1>10 DEF S3Update
      <3>2. IsFiniteSet(s3 \ {Cur(host)})
        BY <3>1, FS_RemoveElement, Zenon
      <3>3. ASSUME Cardinality(S3Init) >= 3 PROVE Cardinality(s3 \ {Cur(host)}) >= 3
        <4>1. Cardinality(s3) >= 3
          BY <3>3
        <4> HIDE DEF MembersInv
        <4>2. QED
          BY <3>1, <4>1, OneLess
      <3>4. QED
        BY <2>2, <3>2, <3>3
    <2>4. QED
      BY <1>10, <2>2, <2>3 DEF S3Update
  <1>11. CASE SmbRemove(host)
    <2>1. smb' = smb \ {Cur(host)} /\ s3' = s3 /\ pc' = "nfsremove"
      BY <1>11 DEF SmbRemove
    <2>2. IsFiniteSet(smb') /\ (Cardinality(SmbInit) >= 3 => Cardinality(smb') >= 3)
      <3>1. IsFiniteSet(smb) /\ (Cur(host) \in smb => Cardinality(smb) >= 4)
        BY <1>11 DEF SmbRemove
      <3>2. IsFiniteSet(smb \ {Cur(host)})
        BY <3>1, FS_RemoveElement, Zenon
      <3>3. ASSUME Cardinality(SmbInit) >= 3 PROVE Cardinality(smb \ {Cur(host)}) >= 3
        <4>1. Cardinality(smb) >= 3
          BY <3>3
        <4> HIDE DEF MembersInv
        <4>2. QED
          BY <3>1, <4>1, OneLess
      <3>4. QED
        BY <2>1, <3>2, <3>3
    <2>3. QED
      BY <2>1, <2>2
  <1>12. CASE NfsRemovePort(host)
    BY <1>12 DEF NfsRemovePort, machineVars
  <1>13. CASE NfsRemoved(host)
    BY <1>13 DEF NfsRemoved, machineVars, protocolVars, localVars
  <1>14. CASE StopOld(host)
    BY <1>14 DEF StopOld, protocolVars, localVars
  <1>15. CASE SetUpDrives(host)
    BY <1>15 DEF SetUpDrives, SetUp, protocolVars, localVars
  <1>16. CASE MoveDrives(host)
    BY <1>16 DEF MoveDrives, protocolVars, localVars
  <1>17. CASE SetUpCompute(host)
    BY <1>17 DEF SetUpCompute, SetUp, protocolVars, localVars
  <1>18. CASE NoFrontend(host)
    BY <1>18 DEF NoFrontend, machineVars, protocolVars, localVars
  <1>19. CASE SetUpFrontend(host)
    BY <1>19 DEF SetUpFrontend, SetUp, protocolVars, localVars
  <1>20. CASE RestartAsFrontend(host)
    BY <1>20 DEF RestartAsFrontend, protocolVars, localVars
  <1>21. CASE StartS3(host)
    BY <1>21 DEF StartS3, machineVars, localVars
  <1>22. CASE ReaddFails(host)
    BY <1>22 DEF ReaddFails, machineVars, protocolVars, localVars
  <1>23. CASE ReaddS3(host)
    <2>1. s3' = s3 \/ s3' = s3 \cup {FrontendId(host)}
      BY <1>23 DEF ReaddS3, Readding, IInv, DrainInv, SnapshotInv, S3Removed
    <2>2. IsFiniteSet(s3') /\ (Cardinality(S3Init) >= 3 => Cardinality(s3') >= 3)
      <3>1. IsFiniteSet(s3) /\ IsFiniteSet(s3 \cup {FrontendId(host)})
        BY OneMore
      <3>2. Cardinality(s3 \cup {FrontendId(host)}) >= Cardinality(s3)
        BY <3>1, OneMore, Zenon
      <3>3. Cardinality(s3) \in Nat /\ Cardinality(s3 \cup {FrontendId(host)}) \in Nat
        BY <3>1, FS_CardinalityType
      <3>4. QED
        BY <2>1, <3>1, <3>2, <3>3
    <2>3. QED
      BY <1>23, <2>2 DEF ReaddS3, Readding
  <1>24. CASE ReaddSmb(host)
    <2>1. smb' = smb \cup {FrontendId(host)}
      BY <1>24 DEF ReaddSmb
    <2>2. IsFiniteSet(smb') /\ (Cardinality(SmbInit) >= 3 => Cardinality(smb') >= 3)
      <3>1. IsFiniteSet(smb) /\ IsFiniteSet(smb \cup {FrontendId(host)})
        BY OneMore
      <3>2. Cardinality(smb \cup {FrontendId(host)}) >= Cardinality(smb)
        BY <3>1, OneMore, Zenon
      <3>3. Cardinality(smb) \in Nat /\ Cardinality(smb \cup {FrontendId(host)}) \in Nat
        BY <3>1, FS_CardinalityType
      <3>4. QED
        BY <2>1, <3>1, <3>2, <3>3
    <2>3. QED
      BY <1>24, <2>2 DEF ReaddSmb, Readding
  <1>25. CASE ReaddNfs(host)
    BY <1>25 DEF ReaddNfs, Readding, FrontendId, machineVars
  <1>26. CASE Readded
    BY <1>26 DEF Readded, machineVars, protocolVars, localVars
  <1>27. CASE BucketsActive
    BY <1>27 DEF BucketsActive, machineVars, protocolVars, localVars
  <1>28. CASE Enable(host)
    BY <1>28 DEF Enable, protocolVars, localVars
  <1>29. CASE Disable(host)
    BY <1>29 DEF Disable, protocolVars, localVars
  <1>30. CASE Deactivate(host)
    BY <1>30 DEF Deactivate, protocolVars, localVars
  <1>31. CASE RemoveHost(host)
    BY <1>31 DEF RemoveHost, protocolVars, localVars
  <1>32. CASE Cleanup(host)
    BY <1>32 DEF Cleanup, protocolVars, localVars
  <1>33. CASE MoveGivesUp(host)
    BY <1>33 DEF MoveGivesUp, machineVars, protocolVars, localVars
  <1>34. CASE CommandFails
    BY <1>34 DEF CommandFails, machineVars, protocolVars, localVars
  <1>35. CASE Reboot(host)
    BY <1>35 DEF Reboot, protocolVars, localVars
  <1> QED
    BY <1>1, <1>2, <1>3, <1>4, <1>5, <1>6, <1>7, <1>8, <1>9, <1>10, <1>11,
       <1>12, <1>13, <1>14, <1>15, <1>16, <1>17, <1>18, <1>19, <1>20, <1>21,
       <1>22, <1>23, <1>24, <1>25, <1>26, <1>27, <1>28, <1>29, <1>30, <1>31,
       <1>32, <1>33, <1>34, <1>35 DEF DividerStep, DividerFault

\* The shell script removes nobody.
LEMMA NextMembers == IInv /\ MembersInv /\ [Next]_vars => MembersInv'
  <1> SUFFICES ASSUME IInv, MembersInv, [Next]_vars PROVE MembersInv'
    OBVIOUS
  <1> USE DEF MembersInv, S3Read, SmbRead, Goto, Cur, shellVars
  <1>1. ASSUME NEW f \in BOOLEAN, Start(f) PROVE MembersInv'
    BY <1>1 DEF Start, machineVars, protocolVars, localVars, dividerVars,
       shellVars
  <1>2. CASE Prechecked
    BY <1>2 DEF Prechecked, dividerVars, machineVars, protocolVars, localVars,
       shellVars
  <1>3. CASE PrechecksFail
    BY <1>3 DEF PrechecksFail, machineVars, protocolVars, localVars,
       dividerVars, shellVars
  <1>4. CASE StopFileSeen
    BY <1>4 DEF StopFileSeen, dividerVars, machineVars, protocolVars,
       localVars, shellVars
  <1>5. ASSUME NEW h \in Hosts, Distribute(h) PROVE MembersInv'
    BY <1>5 DEF Distribute, machineVars, protocolVars, dividerVars, localVars,
       shellVars
  <1>6. CASE HostSucceeded
    BY <1>6 DEF HostSucceeded, machineVars, protocolVars, localVars,
       dividerVars, shellVars
  <1>7. CASE HostFailed
    BY <1>7 DEF HostFailed, machineVars, protocolVars, localVars, dividerVars,
       shellVars
  <1>8. CASE Answer
    BY <1>8 DEF Answer, dividerVars, machineVars, protocolVars, localVars,
       shellVars
  <1>9. CASE RebuildWaited
    BY <1>9 DEF RebuildWaited, dividerVars, machineVars, protocolVars,
       localVars, shellVars
  <1>10. CASE NodesWaited
    BY <1>10 DEF NodesWaited, dividerVars, machineVars, protocolVars,
       localVars, shellVars
  <1>11. CASE Finish
    BY <1>11 DEF Finish, dividerVars, machineVars, protocolVars, localVars,
       shellVars
  <1>12. CASE TouchStopFile
    BY <1>12 DEF TouchStopFile, dividerVars, machineVars, protocolVars,
       localVars, shellVars
  <1>13. CASE Divide
    BY <1>13, DividerMembers DEF Divide
  <1>14. CASE ClusterReacts
    BY <1>14 DEF ClusterReacts, Notice, RebuildDone, shellVars, protocolVars,
       localVars, machineVars, dividerVars
  <1>15. CASE UNCHANGED vars
    BY <1>15 DEF vars, dividerVars, shellVars, machineVars, protocolVars,
       localVars
  <1> QED
    BY <1>1, <1>2, <1>3, <1>4, <1>5, <1>6, <1>7, <1>8, <1>9, <1>10, <1>11,
       <1>12, <1>13, <1>14, <1>15 DEF Next, Shell

-----------------------------------------------------------------------------
(* NFS.                                                                    *)

\* Every machine starts with "default" only, and all ports are there.
LEMMA InitPorts ==
    ASSUME OnePortPerHost(PortsInit), Init
    PROVE  FrontendInv /\ PortsInv
  <1>1. /\ pc = "none" /\ ports = PortsInit /\ nfs_ifgs_to_add = {}
        /\ exist = [h \in Hosts |-> {"default"}]
    BY DEF Init, DividerInit
  <1>2. FrontendInv
    BY <1>1 DEF FrontendInv, FrontendUp
  <1>3. \A h \in Hosts : \A p \in ports : p.host # <<h, "frontend0">>
    BY <1>1, DividerAssumption
  <1>4. OnePortPerHost(ports \cup nfs_ifgs_to_add)
    BY <1>1
  <1>5. QED
    BY <1>1, <1>2, <1>3, <1>4 DEF PortsInv, NfsRead, NfsRemoves, BeforeNfs, NfsServed

\* Setting up a name that exists is refused.
LEMMA DividerFrontend ==
    ASSUME IInv, FrontendInv, DividerStep(host) \/ DividerFault(host),
           UNCHANGED shellVars
    PROVE  FrontendInv'
  <1> USE DEF FrontendInv, FrontendUp, Goto, shellVars
  <1>1. CASE LocalCheck(host)
    BY <1>1 DEF LocalCheck, machineVars, protocolVars
  <1>2. CASE Prepare(host)
    BY <1>2 DEF Prepare, protocolVars, localVars
  <1>3. CASE S3Check(host)
    BY <1>3 DEF S3Check, machineVars, protocolVars
  <1>4. CASE SmbCheck(host)
    BY <1>4 DEF SmbCheck, machineVars, protocolVars, localVars
  <1>5. CASE NfsCheck(host)
    BY <1>5 DEF NfsCheck, machineVars, protocolVars, localVars
  <1>6. CASE NoS3(host)
    BY <1>6 DEF NoS3, machineVars, protocolVars, localVars
  <1>7. CASE S3Undrain(host)
    BY <1>7 DEF S3Undrain, machineVars, localVars
  <1>8. CASE S3StartDrain(host)
    BY <1>8 DEF S3StartDrain, machineVars
  <1>9. CASE S3Drained
    BY <1>9 DEF S3Drained, machineVars, protocolVars
  <1>10. CASE S3Update(host)
    BY <1>10 DEF S3Update, machineVars
  <1>11. CASE SmbRemove(host)
    BY <1>11 DEF SmbRemove, machineVars
  <1>12. CASE NfsRemovePort(host)
    BY <1>12 DEF NfsRemovePort, machineVars
  <1>13. CASE NfsRemoved(host)
    BY <1>13 DEF NfsRemoved, machineVars, protocolVars, localVars
  <1>14. CASE StopOld(host)
    BY <1>14 DEF StopOld, protocolVars, localVars
  <1>15. CASE SetUpDrives(host)
    BY <1>15 DEF SetUpDrives, SetUp, protocolVars, localVars, IInv, TypeOK,
       DividerTypeOK
  <1>16. CASE MoveDrives(host)
    BY <1>16 DEF MoveDrives, protocolVars, localVars
  <1>17. CASE SetUpCompute(host)
    BY <1>17 DEF SetUpCompute, SetUp, protocolVars, localVars, IInv, TypeOK,
       DividerTypeOK
  <1>18. CASE NoFrontend(host)
    BY <1>18 DEF NoFrontend, machineVars, protocolVars, localVars, IInv,
       BootInv, Stopped, TypeOK, DividerTypeOK
  <1>19. CASE SetUpFrontend(host)
    BY <1>19 DEF SetUpFrontend, SetUp, protocolVars, localVars, IInv, TypeOK,
       DividerTypeOK, BootInv, Removing, Stopped
  <1>20. CASE RestartAsFrontend(host)
    BY <1>20 DEF RestartAsFrontend, protocolVars, localVars, IInv, BootInv,
       ServeInv, Stopped, TypeOK, DividerTypeOK
  <1>21. CASE StartS3(host)
    BY <1>21 DEF StartS3, machineVars, localVars
  <1>22. CASE ReaddFails(host)
    BY <1>22 DEF ReaddFails, machineVars, protocolVars, localVars
  <1>23. CASE ReaddS3(host)
    BY <1>23 DEF ReaddS3, Readding, FrontendId, machineVars
  <1>24. CASE ReaddSmb(host)
    BY <1>24 DEF ReaddSmb, Readding, FrontendId, machineVars
  <1>25. CASE ReaddNfs(host)
    BY <1>25 DEF ReaddNfs, Readding, FrontendId, machineVars
  <1>26. CASE Readded
    BY <1>26 DEF Readded, machineVars, protocolVars, localVars
  <1>27. CASE BucketsActive
    BY <1>27 DEF BucketsActive, machineVars, protocolVars, localVars
  <1>28. CASE Enable(host)
    BY <1>28 DEF Enable, protocolVars, localVars
  <1>29. CASE Disable(host)
    BY <1>29 DEF Disable, protocolVars, localVars
  <1>30. CASE Deactivate(host)
    BY <1>30 DEF Deactivate, protocolVars, localVars
  <1>31. CASE RemoveHost(host)
    BY <1>31 DEF RemoveHost, protocolVars, localVars, IInv, TypeOK,
       DividerTypeOK
  <1>32. CASE Cleanup(host)
    BY <1>32 DEF Cleanup, protocolVars, localVars
  <1>33. CASE MoveGivesUp(host)
    BY <1>33 DEF MoveGivesUp, machineVars, protocolVars, localVars
  <1>34. CASE CommandFails
    BY <1>34 DEF CommandFails, machineVars, protocolVars, localVars
  <1>35. CASE Reboot(host)
    BY <1>35 DEF Reboot, protocolVars, localVars
  <1> QED
    BY <1>1, <1>2, <1>3, <1>4, <1>5, <1>6, <1>7, <1>8, <1>9, <1>10, <1>11,
       <1>12, <1>13, <1>14, <1>15, <1>16, <1>17, <1>18, <1>19, <1>20, <1>21,
       <1>22, <1>23, <1>24, <1>25, <1>26, <1>27, <1>28, <1>29, <1>30, <1>31,
       <1>32, <1>33, <1>34, <1>35 DEF DividerStep, DividerFault

\* The shell script sets up nothing.
LEMMA NextFrontend == IInv /\ FrontendInv /\ [Next]_vars => FrontendInv'
  <1> SUFFICES ASSUME IInv, FrontendInv, [Next]_vars PROVE FrontendInv'
    OBVIOUS
  <1> USE DEF FrontendInv, FrontendUp, Goto, shellVars
  <1>1. ASSUME NEW f \in BOOLEAN, Start(f) PROVE FrontendInv'
    BY <1>1 DEF Start, machineVars, protocolVars, localVars, dividerVars,
       shellVars
  <1>2. CASE Prechecked
    BY <1>2 DEF Prechecked, dividerVars, machineVars, protocolVars, localVars,
       shellVars
  <1>3. CASE PrechecksFail
    BY <1>3 DEF PrechecksFail, machineVars, protocolVars, localVars,
       dividerVars, shellVars
  <1>4. CASE StopFileSeen
    BY <1>4 DEF StopFileSeen, dividerVars, machineVars, protocolVars,
       localVars, shellVars
  <1>5. ASSUME NEW h \in Hosts, Distribute(h) PROVE FrontendInv'
    BY <1>5 DEF Distribute, machineVars, protocolVars, dividerVars, localVars,
       shellVars
  <1>6. CASE HostSucceeded
    BY <1>6 DEF HostSucceeded, machineVars, protocolVars, localVars,
       dividerVars, shellVars
  <1>7. CASE HostFailed
    BY <1>7 DEF HostFailed, machineVars, protocolVars, localVars, dividerVars,
       shellVars
  <1>8. CASE Answer
    BY <1>8 DEF Answer, dividerVars, machineVars, protocolVars, localVars,
       shellVars
  <1>9. CASE RebuildWaited
    BY <1>9 DEF RebuildWaited, dividerVars, machineVars, protocolVars,
       localVars, shellVars
  <1>10. CASE NodesWaited
    BY <1>10 DEF NodesWaited, dividerVars, machineVars, protocolVars,
       localVars, shellVars
  <1>11. CASE Finish
    BY <1>11 DEF Finish, dividerVars, machineVars, protocolVars, localVars,
       shellVars
  <1>12. CASE TouchStopFile
    BY <1>12 DEF TouchStopFile, dividerVars, machineVars, protocolVars,
       localVars, shellVars
  <1>13. CASE Divide
    BY <1>13, DividerFrontend DEF Divide
  <1>14. CASE ClusterReacts
    BY <1>14 DEF ClusterReacts, Notice, RebuildDone, shellVars, protocolVars,
       localVars, machineVars, dividerVars
  <1>15. CASE UNCHANGED vars
    BY <1>15 DEF vars, dividerVars, shellVars, machineVars, protocolVars,
       localVars
  <1> QED
    BY <1>1, <1>2, <1>3, <1>4, <1>5, <1>6, <1>7, <1>8, <1>9, <1>10, <1>11,
       <1>12, <1>13, <1>14, <1>15 DEF Next, Shell

\* The ports taken from a group leave one on another host, and come back to a
\* frontend that had none.
LEMMA DividerPorts ==
    ASSUME IInv, FrontendInv, PortsInv, DividerStep(host) \/ DividerFault(host),
           UNCHANGED shellVars
    PROVE  PortsInv'
  <1> USE DEF PortsInv, NfsRead, NfsRemoves, BeforeNfs, NewFrontend,
       OnePortPerHost, NfsServed, Goto, Cur, shellVars
  <1>1. CASE LocalCheck(host)
    BY <1>1 DEF LocalCheck, machineVars, protocolVars
  <1>2. CASE Prepare(host)
    BY <1>2 DEF Prepare, protocolVars, localVars
  <1>3. CASE S3Check(host)
    BY <1>3 DEF S3Check, machineVars, protocolVars
  <1>4. CASE SmbCheck(host)
    BY <1>4 DEF SmbCheck, machineVars, protocolVars, localVars
  <1>5. CASE NfsCheck(host)
    <2>1. ASSUME NEW p \in ports, p.host = Cur(host), pc' = "s3drain"
          PROVE  \E q \in ports : q.ig = p.ig /\ q.host # Cur(host)
      <3> DEFINE Q == {q \in ports : q.ig = p.ig}
      <3>1. ~(Cardinality(Q) < 2)
        BY <1>5, <2>1 DEF NfsCheck
      <3>2. Q # {p}
        <4>1. Cardinality({p}) = 1
          BY FS_Singleton, Zenon
        <4>2. QED
          BY <3>1, <4>1
      <3>3. PICK q \in Q : q # p
        BY <2>1, <3>2
      <3>4. QED
        BY <2>1, <3>3
    <2>2. QED
      BY <1>5, <2>1 DEF NfsCheck, machineVars, protocolVars, localVars
  <1>6. CASE NoS3(host)
    BY <1>6 DEF NoS3, machineVars, protocolVars, localVars
  <1>7. CASE S3Undrain(host)
    BY <1>7 DEF S3Undrain, machineVars, localVars
  <1>8. CASE S3StartDrain(host)
    BY <1>8 DEF S3StartDrain, machineVars
  <1>9. CASE S3Drained
    BY <1>9 DEF S3Drained, machineVars, protocolVars
  <1>10. CASE S3Update(host)
    BY <1>10 DEF S3Update, machineVars
  <1>11. CASE SmbRemove(host)
    BY <1>11 DEF SmbRemove, machineVars
  <1>12. CASE NfsRemovePort(host)
    <2>1. PICK p \in ports :
             /\ p.host = Cur(host)
             /\ ports' = ports \ {p}
             /\ nfs_ifgs_to_add' = nfs_ifgs_to_add \cup {p}
      BY <1>12 DEF NfsRemovePort
    <2>2. /\ pc = "nfsremove" /\ pc' = pc /\ Cur(host)' = Cur(host) /\ exist' = exist
      BY <1>12 DEF NfsRemovePort, machineVars
    <2>3. PICK q \in ports : q.ig = p.ig /\ q.host # Cur(host)
      BY <2>1, <2>2
    <2>4. NfsServed'
      BY <2>1, <2>3
    <2>5. OnePortPerHost(ports \cup nfs_ifgs_to_add)'
      BY <2>1
    <2>6. \A r \in ports' : r.host = Cur(host) =>
             \E s \in ports' : s.ig = r.ig /\ s.host # Cur(host)
      BY <2>1, <2>2
    <2>7. QED
      BY <2>1, <2>2, <2>4, <2>5, <2>6
  <1>13. CASE NfsRemoved(host)
    BY <1>13 DEF NfsRemoved, machineVars, protocolVars, localVars
  <1>14. CASE StopOld(host)
    BY <1>14 DEF StopOld, protocolVars, localVars
  <1>15. CASE SetUpDrives(host)
    BY <1>15 DEF SetUpDrives, SetUp, protocolVars, localVars, IInv, TypeOK,
       DividerTypeOK
  <1>16. CASE MoveDrives(host)
    BY <1>16 DEF MoveDrives, protocolVars, localVars
  <1>17. CASE SetUpCompute(host)
    BY <1>17 DEF SetUpCompute, SetUp, protocolVars, localVars, IInv, TypeOK,
       DividerTypeOK
  <1>18. CASE NoFrontend(host)
    BY <1>18 DEF NoFrontend, machineVars, protocolVars, localVars,
       FrontendInv, IInv, TypeOK
  <1>19. CASE SetUpFrontend(host)
    BY <1>19 DEF SetUpFrontend, SetUp, protocolVars, localVars, IInv, TypeOK,
       DividerTypeOK
  <1>20. CASE RestartAsFrontend(host)
    BY <1>20 DEF RestartAsFrontend, protocolVars, localVars, IInv, ServeInv,
       TypeOK
  <1>21. CASE StartS3(host)
    BY <1>21 DEF StartS3, machineVars, localVars, FrontendInv, IInv, ServeInv,
       TypeOK
  <1>22. CASE ReaddFails(host)
    BY <1>22 DEF ReaddFails, machineVars, protocolVars, localVars
  <1>23. CASE ReaddS3(host)
    BY <1>23 DEF ReaddS3, Readding, FrontendId, machineVars
  <1>24. CASE ReaddSmb(host)
    BY <1>24 DEF ReaddSmb, Readding, FrontendId, machineVars
  <1>25. CASE ReaddNfs(host)
    <2>1. PICK p \in nfs_ifgs_to_add :
             /\ ports' = ports \cup {[p EXCEPT !.host = FrontendId(host)]}
             /\ nfs_ifgs_to_add' = nfs_ifgs_to_add \ {p}
      BY <1>25 DEF ReaddNfs
    <2>2. /\ pc = "readd" /\ pc' = pc /\ Cur(host)' = Cur(host) /\ exist' = exist
          /\ name' = name /\ host' = host /\ "frontend0" \in exist[host]
      BY <1>25 DEF ReaddNfs, Readding, machineVars, IInv, BootInv, TypeOK
    <2>3. ~KeepS3Up /\ FrontendId(host) = NewFrontend /\ Cur(host) # NewFrontend
      BY <2>2 DEF FrontendId, IInv, ServeInv, TypeOK, FrontendInv, FrontendUp
    <2> DEFINE new == [p EXCEPT !.host = NewFrontend]
    <2>4. p \in Ports
      BY DEF IInv, TypeOK, DividerTypeOK
    <2>5. new.host = NewFrontend /\ new.ig = p.ig
      BY <2>4 DEF Ports
    <2>6. ports' = ports \cup {new}
      BY <2>1, <2>3
    <2> HIDE DEF new
    <2>7. OnePortPerHost(ports \cup nfs_ifgs_to_add)'
      <3>1. \A q \in ports : q.ig = p.ig => q.host # NewFrontend
        BY <2>2
      <3>2. \A q \in nfs_ifgs_to_add : q.host # NewFrontend
        BY <2>2, <2>3
      <3>3. QED
        BY <2>1, <2>5, <2>6, <3>1, <3>2
    <2>8. \A r \in ports', q \in nfs_ifgs_to_add' : r.host = NewFrontend => r.ig # q.ig
      <3>1. \A q \in nfs_ifgs_to_add' : q.ig # p.ig
        BY <2>1, <2>2
      <3>2. QED
        BY <2>1, <2>2, <2>5, <2>6, <3>1
    <2>9. \A h \in Hosts : "frontend0" \notin exist[h] =>
             \A r \in ports' : r.host # <<h, "frontend0">>
      BY <2>2, <2>5, <2>6
    <2>10. NfsServed'
      BY <2>6
    <2>11. NewFrontend' = NewFrontend
      BY <2>2
    <2>12. QED
      BY <2>1, <2>2, <2>7, <2>8, <2>9, <2>10, <2>11
  <1>26. CASE Readded
    BY <1>26 DEF Readded, machineVars, protocolVars, localVars
  <1>27. CASE BucketsActive
    BY <1>27 DEF BucketsActive, machineVars, protocolVars, localVars
  <1>28. CASE Enable(host)
    BY <1>28 DEF Enable, protocolVars, localVars
  <1>29. CASE Disable(host)
    BY <1>29 DEF Disable, protocolVars, localVars
  <1>30. CASE Deactivate(host)
    BY <1>30 DEF Deactivate, protocolVars, localVars
  <1>31. CASE RemoveHost(host)
    BY <1>31 DEF RemoveHost, protocolVars, localVars, IInv, TypeOK,
       DividerTypeOK, FrontendInv, FrontendUp
  <1>32. CASE Cleanup(host)
    BY <1>32 DEF Cleanup, protocolVars, localVars
  <1>33. CASE MoveGivesUp(host)
    BY <1>33 DEF MoveGivesUp, machineVars, protocolVars, localVars
  <1>34. CASE CommandFails
    BY <1>34 DEF CommandFails, machineVars, protocolVars, localVars
  <1>35. CASE Reboot(host)
    BY <1>35 DEF Reboot, protocolVars, localVars
  <1> QED
    BY <1>1, <1>2, <1>3, <1>4, <1>5, <1>6, <1>7, <1>8, <1>9, <1>10, <1>11,
       <1>12, <1>13, <1>14, <1>15, <1>16, <1>17, <1>18, <1>19, <1>20, <1>21,
       <1>22, <1>23, <1>24, <1>25, <1>26, <1>27, <1>28, <1>29, <1>30, <1>31,
       <1>32, <1>33, <1>34, <1>35 DEF DividerStep, DividerFault

\* The shell script moves no port.
LEMMA NextPorts == IInv /\ FrontendInv /\ PortsInv /\ [Next]_vars => PortsInv'
  <1> SUFFICES ASSUME IInv, FrontendInv, PortsInv, [Next]_vars PROVE PortsInv'
    OBVIOUS
  <1> USE DEF PortsInv, NfsRead, NfsRemoves, BeforeNfs, NewFrontend,
       OnePortPerHost, NfsServed, Goto, Cur, shellVars
  <1>1. ASSUME NEW f \in BOOLEAN, Start(f) PROVE PortsInv'
    BY <1>1 DEF Start, machineVars, protocolVars, localVars, dividerVars,
       shellVars
  <1>2. CASE Prechecked
    BY <1>2 DEF Prechecked, dividerVars, machineVars, protocolVars, localVars,
       shellVars
  <1>3. CASE PrechecksFail
    BY <1>3 DEF PrechecksFail, machineVars, protocolVars, localVars,
       dividerVars, shellVars
  <1>4. CASE StopFileSeen
    BY <1>4 DEF StopFileSeen, dividerVars, machineVars, protocolVars,
       localVars, shellVars
  <1>5. ASSUME NEW h \in Hosts, Distribute(h) PROVE PortsInv'
    BY <1>5 DEF Distribute, machineVars, protocolVars, dividerVars, localVars,
       shellVars
  <1>6. CASE HostSucceeded
    BY <1>6 DEF HostSucceeded, machineVars, protocolVars, localVars,
       dividerVars, shellVars
  <1>7. CASE HostFailed
    BY <1>7 DEF HostFailed, machineVars, protocolVars, localVars, dividerVars,
       shellVars
  <1>8. CASE Answer
    BY <1>8 DEF Answer, dividerVars, machineVars, protocolVars, localVars,
       shellVars
  <1>9. CASE RebuildWaited
    BY <1>9 DEF RebuildWaited, dividerVars, machineVars, protocolVars,
       localVars, shellVars
  <1>10. CASE NodesWaited
    BY <1>10 DEF NodesWaited, dividerVars, machineVars, protocolVars,
       localVars, shellVars
  <1>11. CASE Finish
    BY <1>11 DEF Finish, dividerVars, machineVars, protocolVars, localVars,
       shellVars
  <1>12. CASE TouchStopFile
    BY <1>12 DEF TouchStopFile, dividerVars, machineVars, protocolVars,
       localVars, shellVars
  <1>13. CASE Divide
    BY <1>13, DividerPorts DEF Divide
  <1>14. CASE ClusterReacts
    BY <1>14 DEF ClusterReacts, Notice, RebuildDone, shellVars, protocolVars,
       localVars, machineVars, dividerVars
  <1>15. CASE UNCHANGED vars
    BY <1>15 DEF vars, dividerVars, shellVars, machineVars, protocolVars,
       localVars
  <1> QED
    BY <1>1, <1>2, <1>3, <1>4, <1>5, <1>6, <1>7, <1>8, <1>9, <1>10, <1>11,
       <1>12, <1>13, <1>14, <1>15 DEF Next, Shell
-----------------------------------------------------------------------------
\* S3 and SMB keep three members if they had them, and every NFS interface group
\* keeps a port, provided that no host had two ports of one group.
THEOREM ProtocolsKeepQuorum ==
    ASSUME OnePortPerHost(PortsInit)
    PROVE  Spec => []ProtocolQuorum
  <1>1. Init => MembersInv /\ FrontendInv /\ PortsInv
    BY InitMembers, InitPorts
  <1>2. IInv /\ (MembersInv /\ FrontendInv /\ PortsInv) /\ [Next]_vars
           => (MembersInv /\ FrontendInv /\ PortsInv)'
    BY NextMembers, NextFrontend, NextPorts
  <1>3. MembersInv /\ FrontendInv /\ PortsInv => ProtocolQuorum
    BY DEF MembersInv, PortsInv, ProtocolQuorum
  <1>4. QED
    BY <1>1, <1>2, <1>3, Invariance, PTL DEF Spec
-----------------------------------------------------------------------------
(* What each machine serves.                                               *)

\* Phases of the divider with work done, before and after the removal from SMB and
\* the end of that from NFS, and after the protocols were re-added.
Working   == Phases \ {"check"}
BeforeS3  == {"prepare", "s3check", "smbcheck", "nfscheck", "s3drain", "s3wait",
              "s3drained", "s3update"}
BeforeSmb == BeforeS3 \cup {"smbremove"}
AfterNfs  == {"stop", "drives", "move", "compute", "frontend", "s3start", "readd"}
Finishing == {"buckets", "enable", "disable", "deactivate", "remove", "cleanup"}

\* A machine that was not touched, and one that is converted and serves.
Fresh(h) ==
    /\ up[h] = {"default"} /\ exist[h] = {"default"} /\ ~backup[h]
    /\ Serves(h, OldId(h)) /\ <<h, "frontend0">> \notin draining
Converted(h) ==
    /\ {"drives0", "compute0"} \subseteq up[h]
    /\ \E c \in up[h] \cap boot[h] : Serves(h, <<h, c>>)

\* A machine that never failed is one or the other, unless it is in work; it is in
\* work once only.
HostsInv ==
    /\ pc # "none" <=> stage = "divide"
    /\ \A h \in Hosts \ failed :
           \/ h = host /\ pc \in Working \cup {"exit1"}
           \/ Fresh(h)
           \/ Converted(h)
    /\ \A h \in reported \ failed : Converted(h) /\ (h = host => pc \notin Working)
    /\ pc = "exit0" => host \in failed \/ Converted(host)

\* The containers of a machine in work that never failed, phase by phase.
ContainersInv ==
    /\ name = "default"
    /\ pc \in Removing \cup {"drives"} => exist[host] = {"default"}
    /\ pc \in {"move", "compute"} =>
           exist[host] = {"default", "drives0"} /\ "drives0" \in up[host]
    /\ pc = "frontend" => exist[host] = {"default", "drives0", "compute0"}
    /\ pc \in {"frontend", "s3start", "readd"} \cup Finishing =>
           {"drives0", "compute0"} \subseteq up[host]
    /\ pc \in {"readd"} \cup Finishing =>
           (host \in Frontends /\ ~KeepS3Up => "frontend0" \in up[host])
    /\ pc \in Finishing \ {"buckets", "enable"} =>
           up[host] \ {"default"} \subseteq boot[host]

\* What it served it serves still, or the divider has noted it; or its new frontend
\* serves it.
ServiceInv ==
    /\ NewFrontend \notin draining
    /\ host \in S3Init =>
           /\ pc \in BeforeS3 => OldId(host) \in s3
           /\ pc = "s3update" => "S3" \in protocols_in_host
           /\ pc \in Working \ BeforeS3 =>
                  \/ "S3" \in protocols_in_host
                  \/ NewFrontend \in s3 /\ "frontend0" \in up[host]
    /\ host \in SmbInit =>
           /\ pc \in BeforeSmb => OldId(host) \in smb
           /\ pc \in Working \ BeforeSmb =>
                  \/ "SMB" \in protocols_in_host
                  \/ NewFrontend \in smb /\ "frontend0" \in up[host]
    /\ \A p \in PortsInit : p.host[1] = host =>
           /\ pc \in BeforeNfs => p \in ports
           /\ pc = "nfsremove" => p \in ports \cup nfs_ifgs_to_add
           /\ pc \in AfterNfs \cup Finishing =>
                  \/ p \in nfs_ifgs_to_add
                  \/ [p EXCEPT !.host = NewFrontend] \in ports /\ "frontend0" \in up[host]
    /\ nfs_ifgs_to_add # {} => "NFS" \in protocols_in_host
    /\ pc \in Finishing => protocols_in_host = {}

WorkInv == host \notin failed /\ pc \in Working => ContainersInv /\ ServiceInv

\* "default" containers serve only what their machines served at the start, and those
\* of the other machines all of it; the divider has noted nothing else.
OriginInv ==
    /\ \A m \in Machines : /\ OldId(m) \in s3 => m \in S3Init
                           /\ OldId(m) \in smb => m \in SmbInit
    /\ \A p \in ports : p.host[2] = "default" => p \in PortsInit
    /\ \A m \in Machines \ Hosts : /\ m \in S3Init => OldId(m) \in s3
                                   /\ m \in SmbInit => OldId(m) \in smb
    /\ \A p \in PortsInit : p.host[1] \notin Hosts => p \in ports
    /\ pc = "s3drained" => Cur(host) \in s3
    /\ pc \in BeforeNfs => nfs_ifgs_to_add = {}
    /\ name = "default" =>
        /\ "S3" \in protocols_in_host => host \in S3Init
        /\ "SMB" \in protocols_in_host => host \in SmbInit
        /\ "NFS" \in protocols_in_host => \E p \in PortsInit : p.host[1] = host

-----------------------------------------------------------------------------
\* The divider changes nothing of other machines, of their containers, or of what they
\* serve: the list of S3 members it writes is the one it read, and still true.
Untouched(h) ==
    /\ h \in Hosts => /\ up'[h] = up[h] /\ exist'[h] = exist[h]
                      /\ boot'[h] = boot[h] /\ backup'[h] = backup[h]
    /\ \A c \in Containers : /\ <<h, c>> \in s3' <=> <<h, c>> \in s3
                             /\ <<h, c>> \in draining' <=> <<h, c>> \in draining
                             /\ <<h, c>> \in smb' <=> <<h, c>> \in smb
    /\ \A p \in Ports : p.host[1] = h => (p \in ports' <=> p \in ports)

\* The divider changes only the machine it runs on.
LEMMA DividerElsewhere ==
    ASSUME IInv, DividerStep(host) \/ DividerFault(host), NEW h \in Machines, h # host
    PROVE  Untouched(h)
  <1> USE DEF Untouched, Goto
  <1>1. CASE LocalCheck(host)
    BY <1>1 DEF LocalCheck, machineVars, protocolVars
  <1>2. CASE Prepare(host)
    BY <1>2 DEF Prepare, protocolVars, localVars, IInv, TypeOK, DividerTypeOK
  <1>3. CASE S3Check(host)
    BY <1>3 DEF S3Check, machineVars, protocolVars, Cur
  <1>4. CASE SmbCheck(host)
    BY <1>4 DEF SmbCheck, machineVars, protocolVars, localVars, Cur
  <1>5. CASE NfsCheck(host)
    BY <1>5 DEF NfsCheck, machineVars, protocolVars, localVars, Cur
  <1>6. CASE NoS3(host)
    BY <1>6 DEF NoS3, machineVars, protocolVars, localVars, Cur
  <1>7. CASE S3Undrain(host)
    BY <1>7 DEF S3Undrain, machineVars, localVars, Cur
  <1>8. CASE S3StartDrain(host)
    BY <1>8 DEF S3StartDrain, machineVars, Cur
  <1>9. CASE S3Drained
    BY <1>9 DEF S3Drained, machineVars, protocolVars
  <1>10. CASE S3Update(host)
    BY <1>10 DEF S3Update, machineVars, Cur, IInv, DrainInv, SnapshotInv,
       S3Read
  <1>11. CASE SmbRemove(host)
    BY <1>11 DEF SmbRemove, machineVars, Cur
  <1>12. CASE NfsRemovePort(host)
    BY <1>12 DEF NfsRemovePort, machineVars, Cur, IInv, TypeOK, DividerTypeOK,
       Ports
  <1>13. CASE NfsRemoved(host)
    BY <1>13 DEF NfsRemoved, machineVars, protocolVars, localVars, Cur
  <1>14. CASE StopOld(host)
    BY <1>14 DEF StopOld, protocolVars, localVars, IInv, TypeOK, DividerTypeOK
  <1>15. CASE SetUpDrives(host)
    BY <1>15 DEF SetUpDrives, SetUp, protocolVars, localVars, IInv, TypeOK,
       DividerTypeOK
  <1>16. CASE MoveDrives(host)
    BY <1>16 DEF MoveDrives, protocolVars, localVars, IInv, TypeOK,
       DividerTypeOK
  <1>17. CASE SetUpCompute(host)
    BY <1>17 DEF SetUpCompute, SetUp, protocolVars, localVars, IInv, TypeOK,
       DividerTypeOK
  <1>18. CASE NoFrontend(host)
    BY <1>18 DEF NoFrontend, machineVars, protocolVars, localVars
  <1>19. CASE SetUpFrontend(host)
    BY <1>19 DEF SetUpFrontend, SetUp, protocolVars, localVars, IInv, TypeOK,
       DividerTypeOK
  <1>20. CASE RestartAsFrontend(host)
    BY <1>20 DEF RestartAsFrontend, protocolVars, localVars, IInv, TypeOK,
       DividerTypeOK
  <1>21. CASE StartS3(host)
    BY <1>21 DEF StartS3, machineVars, localVars, Cur
  <1>22. CASE ReaddFails(host)
    BY <1>22 DEF ReaddFails, machineVars, protocolVars, localVars
  <1>23. CASE ReaddS3(host)
    BY <1>23 DEF ReaddS3, Readding, machineVars, Cur, FrontendId, IInv,
       DrainInv, SnapshotInv, S3Removed
  <1>24. CASE ReaddSmb(host)
    BY <1>24 DEF ReaddSmb, Readding, machineVars, FrontendId
  <1>25. CASE ReaddNfs(host)
    BY <1>25 DEF ReaddNfs, Readding, machineVars, FrontendId, IInv, TypeOK,
       DividerTypeOK, Ports
  <1>26. CASE Readded
    BY <1>26 DEF Readded, machineVars, protocolVars, localVars
  <1>27. CASE BucketsActive
    BY <1>27 DEF BucketsActive, machineVars, protocolVars, localVars
  <1>28. CASE Enable(host)
    BY <1>28 DEF Enable, protocolVars, localVars, IInv, TypeOK, DividerTypeOK
  <1>29. CASE Disable(host)
    BY <1>29 DEF Disable, protocolVars, localVars, IInv, TypeOK, DividerTypeOK
  <1>30. CASE Deactivate(host)
    BY <1>30 DEF Deactivate, protocolVars, localVars, IInv, TypeOK,
       DividerTypeOK
  <1>31. CASE RemoveHost(host)
    BY <1>31 DEF RemoveHost, protocolVars, localVars, IInv, TypeOK,
       DividerTypeOK
  <1>32. CASE Cleanup(host)
    BY <1>32 DEF Cleanup, protocolVars, localVars, IInv, TypeOK, DividerTypeOK
  <1>33. CASE MoveGivesUp(host)
    BY <1>33 DEF MoveGivesUp, machineVars, protocolVars, localVars
  <1>34. CASE CommandFails
    BY <1>34 DEF CommandFails, machineVars, protocolVars, localVars
  <1>35. CASE Reboot(host)
    BY <1>35 DEF Reboot, protocolVars, localVars, Phases, IInv, TypeOK,
       DividerTypeOK
  <1> QED
    BY <1>1, <1>2, <1>3, <1>4, <1>5, <1>6, <1>7, <1>8, <1>9, <1>10, <1>11,
       <1>12, <1>13, <1>14, <1>15, <1>16, <1>17, <1>18, <1>19, <1>20, <1>21,
       <1>22, <1>23, <1>24, <1>25, <1>26, <1>27, <1>28, <1>29, <1>30, <1>31,
       <1>32, <1>33, <1>34, <1>35 DEF DividerStep, DividerFault

\* The check of the containers passes by a machine that is converted.
LEMMA LocalCheckEffect ==
    ASSUME IInv, HostsInv, LocalCheck(host), host \notin failed
    PROVE  \/ Fresh(host) /\ name' = "default" /\ pc' = "prepare"
           \/ Converted(host) /\ pc' = "exit0"
  <1>1. Fresh(host) \/ Converted(host)
    BY DEF HostsInv, IInv, TypeOK, LocalCheck, Working
  <1>2. CASE Fresh(host)
    <2>1. Cardinality({"default"}) = 1
      BY FS_Singleton, Zenon
    <2>2. QED
      BY <1>2, <2>1 DEF Fresh, LocalCheck, Goto
  <1>3. CASE Converted(host)
    BY <1>3 DEF Converted, LocalCheck, Goto
  <1> QED
    BY <1>1, <1>2, <1>3

\* New containers are set up on a machine that has only the old one, and are enabled
\* before the divider ends.
LEMMA DividerContainers ==
    ASSUME IInv, FrontendInv, HostsInv, WorkInv, DividerStep(host) \/ DividerFault(host),
           UNCHANGED shellVars, host \notin failed, pc' \in Working
    PROVE  ContainersInv'
  <1> USE DEF WorkInv, ContainersInv, Working, Phases, Removing, Finishing,
       Goto, shellVars
  <1>1. CASE LocalCheck(host)
    BY <1>1, LocalCheckEffect DEF Fresh, LocalCheck, machineVars
  <1>2. CASE Prepare(host)
    BY <1>2 DEF Prepare, protocolVars, localVars, IInv, TypeOK, DividerTypeOK
  <1>3. CASE S3Check(host)
    BY <1>3 DEF S3Check, machineVars, protocolVars, Cur
  <1>4. CASE SmbCheck(host)
    BY <1>4 DEF SmbCheck, machineVars, protocolVars, localVars, Cur
  <1>5. CASE NfsCheck(host)
    BY <1>5 DEF NfsCheck, machineVars, protocolVars, localVars, Cur
  <1>6. CASE NoS3(host)
    BY <1>6 DEF NoS3, machineVars, protocolVars, localVars, Cur
  <1>7. CASE S3Undrain(host)
    BY <1>7 DEF S3Undrain, machineVars, localVars, Cur
  <1>8. CASE S3StartDrain(host)
    BY <1>8 DEF S3StartDrain, machineVars, Cur
  <1>9. CASE S3Drained
    BY <1>9 DEF S3Drained, machineVars, protocolVars
  <1>10. CASE S3Update(host)
    BY <1>10 DEF S3Update, machineVars, Cur
  <1>11. CASE SmbRemove(host)
    BY <1>11 DEF SmbRemove, machineVars, Cur
  <1>12. CASE NfsRemovePort(host)
    BY <1>12 DEF NfsRemovePort, machineVars, Cur
  <1>13. CASE NfsRemoved(host)
    BY <1>13 DEF NfsRemoved, machineVars, protocolVars, localVars, Cur
  <1>14. CASE StopOld(host)
    BY <1>14 DEF StopOld, protocolVars, localVars, IInv, TypeOK, DividerTypeOK
  <1>15. CASE SetUpDrives(host)
    BY <1>15 DEF SetUpDrives, SetUp, protocolVars, localVars, IInv, TypeOK,
       DividerTypeOK, BootInv
  <1>16. CASE MoveDrives(host)
    BY <1>16 DEF MoveDrives, protocolVars, localVars, IInv, TypeOK,
       DividerTypeOK
  <1>17. CASE SetUpCompute(host)
    BY <1>17 DEF SetUpCompute, SetUp, protocolVars, localVars, IInv, TypeOK,
       DividerTypeOK, BootInv
  <1>18. CASE NoFrontend(host)
    BY <1>18 DEF NoFrontend, machineVars, protocolVars, localVars, IInv,
       TypeOK, DividerTypeOK
  <1>19. CASE SetUpFrontend(host)
    BY <1>19 DEF SetUpFrontend, SetUp, protocolVars, localVars, IInv, TypeOK,
       DividerTypeOK, BootInv
  <1>20. CASE RestartAsFrontend(host)
    BY <1>20 DEF RestartAsFrontend, protocolVars, localVars, IInv, TypeOK,
       DividerTypeOK, BootInv
  <1>21. CASE StartS3(host)
    BY <1>21 DEF StartS3, machineVars, localVars, Cur, FrontendInv
  <1>22. CASE ReaddFails(host)
    BY <1>22 DEF ReaddFails, machineVars, protocolVars, localVars
  <1>23. CASE ReaddS3(host)
    BY <1>23 DEF ReaddS3, Readding, machineVars, Cur, FrontendId
  <1>24. CASE ReaddSmb(host)
    BY <1>24 DEF ReaddSmb, Readding, machineVars, FrontendId
  <1>25. CASE ReaddNfs(host)
    BY <1>25 DEF ReaddNfs, Readding, machineVars, FrontendId
  <1>26. CASE Readded
    BY <1>26 DEF Readded, machineVars, protocolVars, localVars
  <1>27. CASE BucketsActive
    BY <1>27 DEF BucketsActive, machineVars, protocolVars, localVars
  <1>28. CASE Enable(host)
    BY <1>28 DEF Enable, protocolVars, localVars, IInv, TypeOK, DividerTypeOK,
       BootInv
  <1>29. CASE Disable(host)
    BY <1>29 DEF Disable, protocolVars, localVars, IInv, TypeOK, DividerTypeOK
  <1>30. CASE Deactivate(host)
    BY <1>30 DEF Deactivate, protocolVars, localVars, IInv, TypeOK,
       DividerTypeOK
  <1>31. CASE RemoveHost(host)
    BY <1>31 DEF RemoveHost, protocolVars, localVars, IInv, TypeOK,
       DividerTypeOK
  <1>32. CASE Cleanup(host)
    BY <1>32 DEF Cleanup, protocolVars, localVars, IInv, TypeOK, DividerTypeOK
  <1>33. CASE MoveGivesUp(host)
    BY <1>33 DEF MoveGivesUp, machineVars, protocolVars, localVars
  <1>34. CASE CommandFails
    BY <1>34 DEF CommandFails, machineVars, protocolVars, localVars
  <1>35. CASE Reboot(host)
    BY <1>35 DEF Reboot, protocolVars, localVars, IInv, TypeOK, DividerTypeOK
  <1> QED
    BY <1>1, <1>2, <1>3, <1>4, <1>5, <1>6, <1>7, <1>8, <1>9, <1>10, <1>11,
       <1>12, <1>13, <1>14, <1>15, <1>16, <1>17, <1>18, <1>19, <1>20, <1>21,
       <1>22, <1>23, <1>24, <1>25, <1>26, <1>27, <1>28, <1>29, <1>30, <1>31,
       <1>32, <1>33, <1>34, <1>35 DEF DividerStep, DividerFault

\* The port of an old container is the same port when its host is set again.
LEMMA OldPort ==
    ASSUME NEW p \in PortsInit
    PROVE  /\ p.host = OldId(p.host[1])
           /\ [p EXCEPT !.host = OldId(p.host[1])] = p
  <1>1. p \in Ports /\ p.host[2] = "default" /\ p.host \in HostIds
    BY DividerAssumption DEF Ports
  <1>2. p.host = OldId(p.host[1])
    BY <1>1 DEF HostIds, OldId
  <1>3. [p EXCEPT !.host = p.host] = p
    BY <1>1 DEF Ports
  <1> QED
    BY <1>2, <1>3

\* What is taken from the old container is noted, and what is noted is given to the
\* new one.
LEMMA DividerService ==
    ASSUME IInv, HostsInv, WorkInv, OriginInv, DividerStep(host) \/ DividerFault(host),
           UNCHANGED shellVars, host \notin failed, pc' \in Working
    PROVE  ServiceInv'
  <1> USE DEF WorkInv, ContainersInv, ServiceInv, Working, Phases, Finishing,
       BeforeS3, BeforeSmb, BeforeNfs, AfterNfs, NewFrontend, OldId, Cur, Goto,
       shellVars
  <1>1. CASE LocalCheck(host)
    <2>1. Fresh(host) /\ name' = "default" /\ pc' = "prepare"
      BY <1>1, LocalCheckEffect
    <2>2. protocols_in_host' = {} /\ nfs_ifgs_to_add' = {}
      BY <1>1 DEF LocalCheck, IInv, DrainInv, SnapshotInv, BeforeDrain, OriginInv
    <2>3. UNCHANGED <<s3, draining, smb, ports, up, host>>
      BY <1>1 DEF LocalCheck, machineVars, protocolVars
    <2>4. \A p \in PortsInit : p.host[1] = host => p \in ports
      BY <2>1, OldPort DEF Fresh, Serves
    <2>5. QED
      BY <2>1, <2>2, <2>3, <2>4 DEF Fresh, Serves
  <1>2. CASE Prepare(host)
    BY <1>2 DEF Prepare, protocolVars, localVars, IInv, TypeOK, DividerTypeOK
  <1>3. CASE S3Check(host)
    BY <1>3 DEF S3Check, machineVars, protocolVars
  <1>4. CASE SmbCheck(host)
    BY <1>4 DEF SmbCheck, machineVars, protocolVars, localVars
  <1>5. CASE NfsCheck(host)
    BY <1>5 DEF NfsCheck, machineVars, protocolVars, localVars
  <1>6. CASE NoS3(host)
    BY <1>6 DEF NoS3, machineVars, protocolVars, localVars, IInv, DrainInv,
       SnapshotInv, S3Read
  <1>7. CASE S3Undrain(host)
    BY <1>7 DEF S3Undrain, machineVars, localVars
  <1>8. CASE S3StartDrain(host)
    BY <1>8 DEF S3StartDrain, machineVars
  <1>9. CASE S3Drained
    BY <1>9 DEF S3Drained, machineVars, protocolVars
  <1>10. CASE S3Update(host)
    BY <1>10 DEF S3Update, machineVars, IInv, DrainInv, SnapshotInv, S3Read
  <1>11. CASE SmbRemove(host)
    BY <1>11 DEF SmbRemove, machineVars
  <1>12. CASE NfsRemovePort(host)
    <2>1. PICK p \in ports : /\ ports' = ports \ {p}
                             /\ nfs_ifgs_to_add' = nfs_ifgs_to_add \cup {p}
      BY <1>12 DEF NfsRemovePort
    <2>2. /\ pc = "nfsremove" /\ UNCHANGED <<s3, draining, smb, up, name, host, pc>>
          /\ protocols_in_host' = protocols_in_host \cup {"NFS"}
      BY <1>12 DEF NfsRemovePort, machineVars
    <2>3. QED
      BY <2>1, <2>2
  <1>13. CASE NfsRemoved(host)
    <2>1. \A p \in PortsInit : p.host[1] = host => p \notin ports
      BY <1>13, OldPort DEF NfsRemoved
    <2>2. /\ pc = "nfsremove" /\ pc' = "stop"
          /\ UNCHANGED <<up, s3, draining, smb, ports, name, protocols_in_host,
                         nfs_ifgs_to_add, host>>
      BY <1>13 DEF NfsRemoved, machineVars, protocolVars, localVars
    <2>3. \A p \in PortsInit : p.host[1] = host => p \in nfs_ifgs_to_add
      BY <2>1, <2>2
    <2>4. NewFrontend' = NewFrontend /\ OldId(host)' = OldId(host)
      BY <2>2
    <2>5. host \in S3Init =>
             "S3" \in protocols_in_host \/ (NewFrontend \in s3 /\ "frontend0" \in up[host])
      BY <2>2
    <2>6. host \in SmbInit =>
             "SMB" \in protocols_in_host \/ (NewFrontend \in smb /\ "frontend0" \in up[host])
      BY <2>2
    <2>7. /\ NewFrontend \notin draining
          /\ nfs_ifgs_to_add # {} => "NFS" \in protocols_in_host
      BY <2>2
    <2> HIDE DEF NewFrontend, OldId, WorkInv, ContainersInv
    <2>8. QED
      BY <2>2, <2>3, <2>4, <2>5, <2>6, <2>7
  <1>14. CASE StopOld(host)
    BY <1>14 DEF StopOld, protocolVars, localVars, IInv, TypeOK, DividerTypeOK
  <1>15. CASE SetUpDrives(host)
    BY <1>15 DEF SetUpDrives, SetUp, protocolVars, localVars, IInv, TypeOK,
       DividerTypeOK
  <1>16. CASE MoveDrives(host)
    BY <1>16 DEF MoveDrives, protocolVars, localVars, IInv, TypeOK,
       DividerTypeOK
  <1>17. CASE SetUpCompute(host)
    BY <1>17 DEF SetUpCompute, SetUp, protocolVars, localVars, IInv, TypeOK,
       DividerTypeOK
  <1>18. CASE NoFrontend(host)
    BY <1>18 DEF NoFrontend, machineVars, protocolVars, localVars
  <1>19. CASE SetUpFrontend(host)
    BY <1>19 DEF SetUpFrontend, SetUp, protocolVars, localVars, IInv, TypeOK,
       DividerTypeOK
  <1>20. CASE RestartAsFrontend(host)
    BY <1>20 DEF RestartAsFrontend, protocolVars, localVars, IInv, TypeOK,
       DividerTypeOK
  <1>21. CASE StartS3(host)
    BY <1>21 DEF StartS3, machineVars, localVars
  <1>22. CASE ReaddFails(host)
    BY <1>22 DEF ReaddFails, machineVars, protocolVars, localVars
  <1>23. CASE ReaddS3(host)
    BY <1>23 DEF ReaddS3, Readding, machineVars, FrontendId, IInv, TypeOK,
       DividerTypeOK, ServeInv, BootInv
  <1>24. CASE ReaddSmb(host)
    BY <1>24 DEF ReaddSmb, Readding, machineVars, FrontendId, IInv, TypeOK,
       DividerTypeOK, ServeInv, BootInv
  <1>25. CASE ReaddNfs(host)
    BY <1>25 DEF ReaddNfs, Readding, machineVars, FrontendId, IInv, TypeOK,
       DividerTypeOK, ServeInv, BootInv
  <1>26. CASE Readded
    BY <1>26 DEF Readded, machineVars, protocolVars, localVars
  <1>27. CASE BucketsActive
    BY <1>27 DEF BucketsActive, machineVars, protocolVars, localVars
  <1>28. CASE Enable(host)
    BY <1>28 DEF Enable, protocolVars, localVars, IInv, TypeOK, DividerTypeOK
  <1>29. CASE Disable(host)
    BY <1>29 DEF Disable, protocolVars, localVars, IInv, TypeOK, DividerTypeOK
  <1>30. CASE Deactivate(host)
    BY <1>30 DEF Deactivate, protocolVars, localVars, IInv, TypeOK,
       DividerTypeOK
  <1>31. CASE RemoveHost(host)
    BY <1>31 DEF RemoveHost, protocolVars, localVars, IInv, TypeOK,
       DividerTypeOK
  <1>32. CASE Cleanup(host)
    BY <1>32 DEF Cleanup, protocolVars, localVars, IInv, TypeOK, DividerTypeOK
  <1>33. CASE MoveGivesUp(host)
    BY <1>33 DEF MoveGivesUp, machineVars, protocolVars, localVars
  <1>34. CASE CommandFails
    BY <1>34 DEF CommandFails, machineVars, protocolVars, localVars
  <1>35. CASE Reboot(host)
    BY <1>35 DEF Reboot, protocolVars, localVars, IInv, TypeOK, DividerTypeOK
  <1> QED
    BY <1>1, <1>2, <1>3, <1>4, <1>5, <1>6, <1>7, <1>8, <1>9, <1>10, <1>11,
       <1>12, <1>13, <1>14, <1>15, <1>16, <1>17, <1>18, <1>19, <1>20, <1>21,
       <1>22, <1>23, <1>24, <1>25, <1>26, <1>27, <1>28, <1>29, <1>30, <1>31,
       <1>32, <1>33, <1>34, <1>35 DEF DividerStep, DividerFault

\* A step of the divider goes on with its work, fails, or ends it, in one place.
DividerMoves ==
    \/ LocalCheck(host)
    \/ pc = "check" /\ pc' = "exit1" /\ UNCHANGED <<machineVars, protocolVars>>
    \/ pc \in Working /\ pc' \in Working \cup {"exit1"}
    \/ Cleanup(host)

\* The divider goes from check to work, and from work to its end.
LEMMA DividerProgress ==
    ASSUME IInv, DividerStep(host) \/ DividerFault(host)
    PROVE  DividerMoves
  <1> USE DEF DividerMoves, Working, Phases, Goto
  <1>1. CASE LocalCheck(host)
    BY <1>1 DEF LocalCheck, machineVars, protocolVars
  <1>2. CASE Prepare(host)
    BY <1>2 DEF Prepare, protocolVars, localVars
  <1>3. CASE S3Check(host)
    BY <1>3 DEF S3Check, machineVars, protocolVars, Cur
  <1>4. CASE SmbCheck(host)
    BY <1>4 DEF SmbCheck, machineVars, protocolVars, localVars, Cur
  <1>5. CASE NfsCheck(host)
    BY <1>5 DEF NfsCheck, machineVars, protocolVars, localVars, Cur
  <1>6. CASE NoS3(host)
    BY <1>6 DEF NoS3, machineVars, protocolVars, localVars, Cur
  <1>7. CASE S3Undrain(host)
    BY <1>7 DEF S3Undrain, machineVars, localVars, Cur
  <1>8. CASE S3StartDrain(host)
    BY <1>8 DEF S3StartDrain, machineVars, Cur
  <1>9. CASE S3Drained
    BY <1>9 DEF S3Drained, machineVars, protocolVars
  <1>10. CASE S3Update(host)
    BY <1>10 DEF S3Update, machineVars, Cur
  <1>11. CASE SmbRemove(host)
    BY <1>11 DEF SmbRemove, machineVars, Cur
  <1>12. CASE NfsRemovePort(host)
    BY <1>12 DEF NfsRemovePort, machineVars, Cur
  <1>13. CASE NfsRemoved(host)
    BY <1>13 DEF NfsRemoved, machineVars, protocolVars, localVars, Cur
  <1>14. CASE StopOld(host)
    BY <1>14 DEF StopOld, protocolVars, localVars
  <1>15. CASE SetUpDrives(host)
    BY <1>15 DEF SetUpDrives, SetUp, protocolVars, localVars
  <1>16. CASE MoveDrives(host)
    BY <1>16 DEF MoveDrives, protocolVars, localVars
  <1>17. CASE SetUpCompute(host)
    BY <1>17 DEF SetUpCompute, SetUp, protocolVars, localVars
  <1>18. CASE NoFrontend(host)
    BY <1>18 DEF NoFrontend, machineVars, protocolVars, localVars
  <1>19. CASE SetUpFrontend(host)
    BY <1>19 DEF SetUpFrontend, SetUp, protocolVars, localVars
  <1>20. CASE RestartAsFrontend(host)
    BY <1>20 DEF RestartAsFrontend, protocolVars, localVars
  <1>21. CASE StartS3(host)
    BY <1>21 DEF StartS3, machineVars, localVars, Cur
  <1>22. CASE ReaddFails(host)
    BY <1>22 DEF ReaddFails, machineVars, protocolVars, localVars
  <1>23. CASE ReaddS3(host)
    BY <1>23 DEF ReaddS3, Readding, machineVars, Cur, FrontendId
  <1>24. CASE ReaddSmb(host)
    BY <1>24 DEF ReaddSmb, Readding, machineVars, FrontendId
  <1>25. CASE ReaddNfs(host)
    BY <1>25 DEF ReaddNfs, Readding, machineVars, FrontendId
  <1>26. CASE Readded
    BY <1>26 DEF Readded, machineVars, protocolVars, localVars
  <1>27. CASE BucketsActive
    BY <1>27 DEF BucketsActive, machineVars, protocolVars, localVars
  <1>28. CASE Enable(host)
    BY <1>28 DEF Enable, protocolVars, localVars
  <1>29. CASE Disable(host)
    BY <1>29 DEF Disable, protocolVars, localVars
  <1>30. CASE Deactivate(host)
    BY <1>30 DEF Deactivate, protocolVars, localVars
  <1>31. CASE RemoveHost(host)
    BY <1>31 DEF RemoveHost, protocolVars, localVars
  <1>32. CASE Cleanup(host)
    BY <1>32 DEF Cleanup, protocolVars, localVars
  <1>33. CASE MoveGivesUp(host)
    BY <1>33 DEF MoveGivesUp, machineVars, protocolVars, localVars
  <1>34. CASE CommandFails
    BY <1>34, DividerAssumption DEF CommandFails, IInv, TypeOK, DividerTypeOK
  <1>35. CASE Reboot(host)
    BY <1>35 DEF Reboot, protocolVars, localVars
  <1> QED
    BY <1>1, <1>2, <1>3, <1>4, <1>5, <1>6, <1>7, <1>8, <1>9, <1>10, <1>11,
       <1>12, <1>13, <1>14, <1>15, <1>16, <1>17, <1>18, <1>19, <1>20, <1>21,
       <1>22, <1>23, <1>24, <1>25, <1>26, <1>27, <1>28, <1>29, <1>30, <1>31,
       <1>32, <1>33, <1>34, <1>35 DEF DividerStep, DividerFault

\* What nothing touches stays as it was.
LEMMA RestStable ==
    ASSUME NEW h \in Hosts, up[h] \subseteq Containers, Untouched(h)
    PROVE  (Fresh(h) => Fresh(h)') /\ (Converted(h) => Converted(h)')
  <1>1. ASSUME NEW c \in Containers, NEW p \in PortsInit, p.host[1] = h
        PROVE  /\ [p EXCEPT !.host = <<h, c>>] \in Ports
               /\ [p EXCEPT !.host = <<h, c>>].host[1] = h
    BY <1>1, DividerAssumption DEF Ports, HostIds, Machines
  <1>2. ASSUME NEW c \in Containers, Serves(h, <<h, c>>)
        PROVE  Serves(h, <<h, c>>)'
    BY <1>1, <1>2 DEF Serves, Untouched
  <1>3. ASSUME Fresh(h) PROVE Fresh(h)'
    <2>1. Serves(h, OldId(h))'
      BY <1>2, <1>3 DEF Fresh, OldId, Containers
    <2>2. QED
      BY <1>3, <2>1 DEF Fresh, Untouched, OldId, Containers
  <1>4. ASSUME Converted(h) PROVE Converted(h)'
    BY <1>2, <1>4 DEF Converted, Untouched
  <1> QED
    BY <1>3, <1>4

\* A machine whose work is done serves from its new frontend, or had nothing to serve.
LEMMA WorkDone ==
    ASSUME IInv, WorkInv, host \notin failed, Cleanup(host)
    PROVE  Converted(host)
  <1>1. ContainersInv /\ ServiceInv /\ pc = "cleanup"
    BY DEF WorkInv, Cleanup, Working, Phases
  <1>2. {"drives0", "compute0"} \subseteq up[host] /\ up[host] \subseteq boot[host]
    BY <1>1 DEF ContainersInv, Finishing, IInv, TypeOK, ServeInv
  <1>3. protocols_in_host = {} /\ nfs_ifgs_to_add = {}
    BY <1>1 DEF ServiceInv, Finishing
  <1>4. CASE "frontend0" \in up[host]
    <2>1. Serves(host, NewFrontend)
      BY <1>1, <1>3 DEF ServiceInv, Serves, Working, Phases, BeforeS3, BeforeSmb,
         Finishing
    <2>2. QED
      BY <1>2, <1>4, <2>1 DEF Converted, NewFrontend
  <1>5. CASE "frontend0" \notin up[host]
    <2>1. Serves(host, <<host, "drives0">>)
      BY <1>1, <1>3, <1>5 DEF ServiceInv, Serves, Working, Phases, BeforeS3, BeforeSmb,
         Finishing
    <2>2. QED
      BY <1>2, <2>1 DEF Converted
  <1> QED
    BY <1>4, <1>5

\* A machine is left only as it was, converted, or failed.
LEMMA DividerHosts ==
    ASSUME IInv, HostsInv, WorkInv, stage = "divide",
           DividerStep(host) \/ DividerFault(host), UNCHANGED shellVars
    PROVE  HostsInv'
  <1>1. /\ host \in Hosts /\ Hosts \subseteq Machines
        /\ UNCHANGED <<stage, host, reported, failed>>
    BY DEF IInv, TypeOK, shellVars, Machines
  <1>2. \A h \in Hosts \ {host} : /\ Fresh(h) => Fresh(h)'
                                  /\ Converted(h) => Converted(h)'
    BY <1>1, DividerElsewhere, RestStable DEF IInv, TypeOK, DividerTypeOK
  <1>3. ASSUME UNCHANGED <<machineVars, protocolVars>>
        PROVE  /\ Fresh(host) => Fresh(host)'
               /\ Converted(host) => Converted(host)'
    BY <1>1, <1>3 DEF machineVars, protocolVars, Fresh, Converted, Serves, OldId
  <1>4. /\ pc' # "none"
        /\ host \notin failed => \/ pc' \in Working \cup {"exit1"}
                                 \/ Fresh(host)'
                                 \/ Converted(host)'
        /\ host \in reported \ failed => Converted(host)' /\ pc' \notin Working
        /\ pc' = "exit0" => host \in failed \/ Converted(host)'
    <2>1. CASE LocalCheck(host)
      <3>1. /\ UNCHANGED <<machineVars, protocolVars>>
            /\ pc' \in {"exit0", "exit1", "prepare"}
        BY <2>1 DEF LocalCheck, Goto
      <3>2. host \in reported \ failed => Converted(host)
        BY <1>1 DEF HostsInv
      <3>3. Converted(host) => pc' # "prepare"
        BY <2>1 DEF Converted, LocalCheck, Goto
      <3>4. QED
        BY <1>1, <1>3, <2>1, <3>1, <3>2, <3>3, LocalCheckEffect DEF Working, Phases
    <2>2. CASE pc = "check" /\ pc' = "exit1" /\ UNCHANGED <<machineVars, protocolVars>>
      BY <1>1, <1>3, <2>2 DEF HostsInv, Working, Phases
    <2>3. CASE pc \in Working /\ pc' \in Working \cup {"exit1"}
      BY <1>1, <2>3 DEF HostsInv, Working, Phases
    <2>4. CASE Cleanup(host)
      <3>1. host \notin failed => Converted(host)'
        <4>1. ASSUME host \notin failed PROVE Converted(host)
          BY <2>4, <4>1, WorkDone
        <4>2. UNCHANGED <<up, boot, protocolVars, host>>
          BY <1>1, <2>4 DEF Cleanup
        <4>3. QED
          BY <4>1, <4>2 DEF Converted, Serves, protocolVars
      <3>2. pc' = "exit0" /\ pc \in Working
        BY <2>4 DEF Cleanup, Goto, Working, Phases
      <3>3. QED
        BY <3>1, <3>2 DEF HostsInv, Working, Phases
    <2> QED
      BY DividerProgress, <2>1, <2>2, <2>3, <2>4 DEF DividerMoves
  <1>5. \A h \in Hosts \ failed : h # host => Fresh(h)' \/ Converted(h)'
    BY <1>2 DEF HostsInv
  <1>6. \A h \in reported \ failed : h # host => Converted(h)'
    <2>1. reported \subseteq Hosts
      BY DEF IInv, TypeOK
    <2>2. QED
      BY <1>2, <2>1 DEF HostsInv
  <1> HIDE DEF Fresh, Converted, Working
  <1>7. QED
    BY <1>1, <1>4, <1>5, <1>6 DEF HostsInv

\* The divider gives nothing to an old container.
LEMMA DividerOrigin ==
    ASSUME IInv, OriginInv, DividerStep(host) \/ DividerFault(host),
           UNCHANGED shellVars
    PROVE  OriginInv'
  <1> USE DEF OriginInv, BeforeNfs, OldId, Cur, Goto, shellVars
  <1>1. CASE LocalCheck(host)
    BY <1>1 DEF LocalCheck, machineVars, protocolVars, IInv, DrainInv,
       SnapshotInv, BeforeDrain
  <1>2. CASE Prepare(host)
    BY <1>2 DEF Prepare, protocolVars, localVars
  <1>3. CASE S3Check(host)
    BY <1>3 DEF S3Check, machineVars, protocolVars
  <1>4. CASE SmbCheck(host)
    BY <1>4 DEF SmbCheck, machineVars, protocolVars, localVars
  <1>5. CASE NfsCheck(host)
    BY <1>5 DEF NfsCheck, machineVars, protocolVars, localVars
  <1>6. CASE NoS3(host)
    BY <1>6 DEF NoS3, machineVars, protocolVars, localVars
  <1>7. CASE S3Undrain(host)
    BY <1>7 DEF S3Undrain, machineVars, localVars
  <1>8. CASE S3StartDrain(host)
    BY <1>8 DEF S3StartDrain, machineVars, IInv, DrainInv, SnapshotInv, S3Read
  <1>9. CASE S3Drained
    BY <1>9 DEF S3Drained, machineVars, protocolVars, IInv, TypeOK, Machines
  <1>10. CASE S3Update(host)
    BY <1>10 DEF S3Update, machineVars, IInv, DrainInv, SnapshotInv, S3Read,
       TypeOK
  <1>11. CASE SmbRemove(host)
    BY <1>11 DEF SmbRemove, machineVars, IInv, TypeOK, Machines
  <1>12. CASE NfsRemovePort(host)
    BY <1>12 DEF NfsRemovePort, machineVars, IInv, TypeOK, Machines,
       DividerTypeOK, Ports
  <1>13. CASE NfsRemoved(host)
    BY <1>13 DEF NfsRemoved, machineVars, protocolVars, localVars
  <1>14. CASE StopOld(host)
    BY <1>14 DEF StopOld, protocolVars, localVars
  <1>15. CASE SetUpDrives(host)
    BY <1>15 DEF SetUpDrives, SetUp, protocolVars, localVars
  <1>16. CASE MoveDrives(host)
    BY <1>16 DEF MoveDrives, protocolVars, localVars
  <1>17. CASE SetUpCompute(host)
    BY <1>17 DEF SetUpCompute, SetUp, protocolVars, localVars
  <1>18. CASE NoFrontend(host)
    BY <1>18 DEF NoFrontend, machineVars, protocolVars, localVars
  <1>19. CASE SetUpFrontend(host)
    BY <1>19 DEF SetUpFrontend, SetUp, protocolVars, localVars
  <1>20. CASE RestartAsFrontend(host)
    BY <1>20 DEF RestartAsFrontend, protocolVars, localVars
  <1>21. CASE StartS3(host)
    BY <1>21 DEF StartS3, machineVars, localVars
  <1>22. CASE ReaddFails(host)
    BY <1>22 DEF ReaddFails, machineVars, protocolVars, localVars
  <1>23. CASE ReaddS3(host)
    BY <1>23 DEF ReaddS3, Readding, machineVars, FrontendId, IInv, TypeOK,
       DividerTypeOK, ServeInv, BootInv, DrainInv, SnapshotInv, S3Removed
  <1>24. CASE ReaddSmb(host)
    BY <1>24 DEF ReaddSmb, Readding, machineVars, FrontendId, IInv, TypeOK,
       DividerTypeOK, ServeInv, BootInv, DrainInv, SnapshotInv, S3Removed
  <1>25. CASE ReaddNfs(host)
    BY <1>25 DEF ReaddNfs, Readding, machineVars, FrontendId, IInv, TypeOK,
       DividerTypeOK, ServeInv, BootInv, DrainInv, SnapshotInv, S3Removed,
       Ports
  <1>26. CASE Readded
    BY <1>26 DEF Readded, machineVars, protocolVars, localVars
  <1>27. CASE BucketsActive
    BY <1>27 DEF BucketsActive, machineVars, protocolVars, localVars
  <1>28. CASE Enable(host)
    BY <1>28 DEF Enable, protocolVars, localVars
  <1>29. CASE Disable(host)
    BY <1>29 DEF Disable, protocolVars, localVars
  <1>30. CASE Deactivate(host)
    BY <1>30 DEF Deactivate, protocolVars, localVars
  <1>31. CASE RemoveHost(host)
    BY <1>31 DEF RemoveHost, protocolVars, localVars
  <1>32. CASE Cleanup(host)
    BY <1>32 DEF Cleanup, protocolVars, localVars
  <1>33. CASE MoveGivesUp(host)
    BY <1>33 DEF MoveGivesUp, machineVars, protocolVars, localVars
  <1>34. CASE CommandFails
    BY <1>34 DEF CommandFails, machineVars, protocolVars, localVars
  <1>35. CASE Reboot(host)
    BY <1>35 DEF Reboot, protocolVars, localVars, Phases
  <1> QED
    BY <1>1, <1>2, <1>3, <1>4, <1>5, <1>6, <1>7, <1>8, <1>9, <1>10, <1>11,
       <1>12, <1>13, <1>14, <1>15, <1>16, <1>17, <1>18, <1>19, <1>20, <1>21,
       <1>22, <1>23, <1>24, <1>25, <1>26, <1>27, <1>28, <1>29, <1>30, <1>31,
       <1>32, <1>33, <1>34, <1>35 DEF DividerStep, DividerFault

ServedInv == HostsInv /\ WorkInv /\ OriginInv

\* No machine is touched yet.
LEMMA InitServed == Init => ServedInv
  <1> SUFFICES ASSUME Init PROVE ServedInv
    OBVIOUS
  <1>1. /\ pc = "none" /\ stage = "idle" /\ name = "default"
        /\ failed = {} /\ reported = {} /\ draining = {} /\ ports = PortsInit
        /\ s3 = {OldId(m) : m \in S3Init} /\ smb = {OldId(m) : m \in SmbInit}
        /\ protocols_in_host = {} /\ nfs_ifgs_to_add = {}
    BY DEF Init, DividerInit
  <1>2. ASSUME NEW h \in Hosts PROVE Fresh(h)
    <2>1. up[h] = {"default"} /\ exist[h] = {"default"} /\ ~backup[h]
      BY DEF Init, DividerInit
    <2>2. Serves(h, OldId(h))
      BY <1>1, OldPort DEF Serves
    <2>3. QED
      BY <1>1, <2>1, <2>2 DEF Fresh
  <1>3. HostsInv
    BY <1>1, <1>2 DEF HostsInv
  <1>4. WorkInv
    BY <1>1 DEF WorkInv, Working, Phases
  <1>5. OriginInv
    BY <1>1 DEF OriginInv, OldId
  <1> QED
    BY <1>3, <1>4, <1>5 DEF ServedInv

\* Together, the steps of the divider keep the invariant.
LEMMA DividerServed ==
    ASSUME IInv, FrontendInv, ServedInv, stage = "divide",
           DividerStep(host) \/ DividerFault(host), UNCHANGED shellVars
    PROVE  ServedInv'
  <1>1. HostsInv'
    BY DividerHosts DEF ServedInv
  <1>2. host \notin failed /\ pc' \in Working => ContainersInv' /\ ServiceInv'
    BY DividerContainers, DividerService DEF ServedInv
  <1>3. UNCHANGED <<host, failed>>
    BY DEF shellVars
  <1> QED
    BY <1>1, <1>2, <1>3, DividerOrigin DEF ServedInv, WorkInv

\* What the invariant reads of machines and protocols.
served == <<up, exist, boot, backup, s3, draining, smb, ports>>

\* Nothing but what is served and what runs tells what a machine is.
LEMMA SameMachines ==
    ASSUME UNCHANGED served, NEW h
    PROVE  /\ Fresh(h)' = Fresh(h)
           /\ Converted(h)' = Converted(h)
  <1>1. \A id : Serves(h, id)' = Serves(h, id)
    BY DEF served, Serves
  <1> QED
    BY <1>1 DEF served, Fresh, Converted, OldId

\* A step of the shell script or of the cluster that changes none of it.
LEMMA SameServed ==
    ASSUME ServedInv, UNCHANGED served, stage' = "divide" <=> stage = "divide",
           UNCHANGED <<pc, name, protocols_in_host, nfs_ifgs_to_add, host, reported,
                       failed>>
    PROVE  ServedInv'
  <1>1. HostsInv'
    BY SameMachines DEF ServedInv, HostsInv
  <1>2. ContainersInv' = ContainersInv /\ ServiceInv' = ServiceInv
    BY DEF served, ContainersInv, ServiceInv, NewFrontend, OldId
  <1>3. WorkInv'
    BY <1>2 DEF ServedInv, WorkInv
  <1>4. OriginInv'
    BY DEF served, ServedInv, OriginInv, OldId, Cur
  <1> QED
    BY <1>1, <1>3, <1>4 DEF ServedInv

\* The shell script only sends the divider on its way and notes how it ended.
LEMMA NextServed == IInv /\ FrontendInv /\ ServedInv /\ [Next]_vars => ServedInv'
  <1> SUFFICES ASSUME IInv, FrontendInv, ServedInv, [Next]_vars PROVE ServedInv'
    OBVIOUS
  <1> USE DEF served, shellVars, dividerVars, machineVars, protocolVars,
       localVars
  <1>1. ASSUME NEW f \in BOOLEAN, Start(f) PROVE ServedInv'
    BY <1>1, SameServed DEF Start
  <1>2. CASE Prechecked
    BY <1>2, SameServed DEF Prechecked
  <1>3. CASE PrechecksFail
    BY <1>3, SameServed DEF PrechecksFail
  <1>4. CASE StopFileSeen
    BY <1>4, SameServed DEF StopFileSeen
  <1>5. ASSUME NEW h \in Hosts, Distribute(h) PROVE ServedInv'
    <2>1. pc = "none" /\ UNCHANGED <<served, failed, reported>> /\ pc' = "check"
      BY <1>5 DEF Distribute, ServedInv, HostsInv
    <2>2. HostsInv'
      BY <1>5, <2>1, SameMachines DEF Distribute, ServedInv, HostsInv, Working, Phases
    <2>3. WorkInv'
      BY <2>1 DEF WorkInv, Working, Phases
    <2>4. OriginInv'
      BY <1>5, <2>1 DEF Distribute, ServedInv, OriginInv, OldId, Cur, BeforeNfs
    <2>5. QED
      BY <2>2, <2>3, <2>4 DEF ServedInv
  <1>6. CASE HostSucceeded
    <2>1. pc' = "none" /\ UNCHANGED <<served, host, name>>
      BY <1>6 DEF HostSucceeded
    <2>2. HostsInv'
      BY <1>6, <2>1, SameMachines DEF HostSucceeded, ServedInv, HostsInv, Working, Phases
    <2>3. WorkInv'
      BY <2>1 DEF WorkInv, Working, Phases
    <2>4. OriginInv'
      BY <1>6, <2>1 DEF HostSucceeded, ServedInv, OriginInv, OldId, Cur, BeforeNfs
    <2>5. QED
      BY <2>2, <2>3, <2>4 DEF ServedInv
  <1>7. CASE HostFailed
    <2>1. pc' = "none" /\ UNCHANGED <<served, host, name>>
      BY <1>7 DEF HostFailed
    <2>2. HostsInv'
      BY <1>7, <2>1, SameMachines DEF HostFailed, ServedInv, HostsInv, Working, Phases
    <2>3. WorkInv'
      BY <2>1 DEF WorkInv, Working, Phases
    <2>4. OriginInv'
      BY <1>7, <2>1 DEF HostFailed, ServedInv, OriginInv, OldId, Cur, BeforeNfs
    <2>5. QED
      BY <2>2, <2>3, <2>4 DEF ServedInv
  <1>8. CASE Answer
    BY <1>8, SameServed DEF Answer
  <1>9. CASE RebuildWaited
    BY <1>9, SameServed DEF RebuildWaited
  <1>10. CASE NodesWaited
    BY <1>10, SameServed DEF NodesWaited
  <1>11. CASE Finish
    BY <1>11, SameServed DEF Finish
  <1>12. CASE TouchStopFile
    BY <1>12, SameServed DEF TouchStopFile
  <1>13. CASE Divide
    BY <1>13, DividerServed DEF Divide
  <1>14. CASE ClusterReacts
    BY <1>14, SameServed DEF ClusterReacts, Notice, RebuildDone
  <1>15. CASE UNCHANGED vars
    BY <1>15, SameServed DEF vars
  <1> QED
    BY <1>1, <1>2, <1>3, <1>4, <1>5, <1>6, <1>7, <1>8, <1>9, <1>10, <1>11,
       <1>12, <1>13, <1>14, <1>15 DEF Next, Shell
-----------------------------------------------------------------------------
\* A machine reported converted that never failed serves what it served before, from
\* a container that runs and starts at boot.
THEOREM ReportedServe == Spec => []ReportedServesAsBefore
  <1>1. Init => FrontendInv
    BY DEF Init, DividerInit, FrontendInv, FrontendUp
  <1>2. ServedInv => ReportedServesAsBefore
    BY DEF ServedInv, HostsInv, Converted, ReportedServesAsBefore
  <1>3. QED
    BY <1>1, <1>2, InitServed, NextFrontend, NextServed, Invariance, PTL DEF Spec

-----------------------------------------------------------------------------
(* What fails without a fault.                                             *)

\* Until something fails, no machine does.
NoFault == faults = 0 => failed = {} /\ pc # "exit1"

-----------------------------------------------------------------------------
\* Finitely many ports can ever be.
LEMMA PortsFinite == IsFiniteSet(PortsInit) => IsFiniteSet(Ports)
  <1> SUFFICES ASSUME IsFiniteSet(PortsInit) PROVE IsFiniteSet(Ports)
    OBVIOUS
  <1> DEFINE G == {p.ig : p \in PortsInit}
             Q == {p.port : p \in PortsInit}
             S == HostIds \X (G \X Q)
             f == [p \in Ports |-> <<p.host, <<p.ig, p.port>>>>]
  <1>1. IsFiniteSet(G) /\ IsFiniteSet(Q)
    <2> DEFINE g == [p \in PortsInit |-> p.ig]
               q == [p \in PortsInit |-> p.port]
    <2>1. g \in Surjection(PortsInit, G) /\ q \in Surjection(PortsInit, Q)
      BY DEF Surjection
    <2> HIDE DEF g, q, G, Q
    <2>2. IsFiniteSet(G)
      BY <2>1, FS_Surjection
    <2>3. IsFiniteSet(Q)
      BY <2>1, FS_Surjection
    <2>4. QED
      BY <2>2, <2>3
  <1>2. IsFiniteSet(Containers)
    <2>1. IsFiniteSet({"default"})
      BY FS_Singleton, Zenon
    <2>2. IsFiniteSet({"default"} \cup {"drives0"})
      BY <2>1, FS_AddElement, Zenon
    <2>3. IsFiniteSet({"default"} \cup {"drives0"} \cup {"compute0"})
      BY <2>2, FS_AddElement, Zenon
    <2>4. IsFiniteSet({"default"} \cup {"drives0"} \cup {"compute0"} \cup {"frontend0"})
      BY <2>3, FS_AddElement, Zenon
    <2>5. Containers = {"default"} \cup {"drives0"} \cup {"compute0"} \cup {"frontend0"}
      BY DEF Containers
    <2> QED
      BY <2>4, <2>5
  <1>3. IsFiniteSet(HostIds)
    BY <1>2, DividerAssumption, FS_Product DEF HostIds
  <1>4. IsFiniteSet(G \X Q)
    BY <1>1, FS_Product
  <1>5. IsFiniteSet(S)
    BY <1>3, <1>4, FS_Product
  <1>6. f \in Injection(Ports, S)
    <2>1. f \in [Ports -> S]
      BY DEF Ports
    <2>2. \A a, b \in Ports : f[a] = f[b] => a = b
      BY DEF Ports
    <2>3. QED
      BY <2>1, <2>2 DEF Injection, IsInjective
  <1> HIDE DEF S, f
  <1>7. QED
    BY <1>5, <1>6, FS_Injection

\* Members of a protocol that every machine of M has one of are as many as M.
LEMMA MemberOfEach ==
    ASSUME NEW M \in SUBSET Machines, NEW S, IsFiniteSet(S),
           \A m \in M : \E c \in Containers : <<m, c>> \in S
    PROVE  Cardinality(M) <= Cardinality(S)
  <1> DEFINE f == [m \in M |-> <<m, CHOOSE c \in Containers : <<m, c>> \in S>>]
  <1>1. \A m \in M : f[m] \in S /\ f[m][1] = m
    OBVIOUS
  <1>2. f \in Injection(M, S)
    <2>1. f \in [M -> S]
      BY <1>1
    <2>2. \A a, b \in M : f[a] = f[b] => a = b
      BY <1>1
    <2>3. QED
      BY <2>1, <2>2 DEF Injection, IsInjective
  <1> HIDE DEF f
  <1>3. QED
    BY <1>2, FS_Injection

\* Every fault is counted.
LEMMA FaultsCount ==
    ASSUME IInv, DividerStep(host) \/ DividerFault(host), faults' = 0
    PROVE  faults = 0 /\ DividerStep(host)
  <1>1. faults \in Nat
    BY DEF IInv, TypeOK, DividerTypeOK
  <1>2. ~DividerFault(host)
    BY <1>1 DEF DividerFault, MoveGivesUp, CommandFails, Reboot
  <1>3. faults' = faults
    BY <1>2 DEF DividerStep, LocalCheck, Prepare, S3Check, SmbCheck, NfsCheck, NoS3,
       S3Undrain, S3StartDrain, S3Drained, S3Update, SmbRemove, NfsRemovePort,
       NfsRemoved, StopOld, SetUpDrives, SetUp, MoveDrives, SetUpCompute, NoFrontend,
       SetUpFrontend, RestartAsFrontend, StartS3, ReaddFails, ReaddS3, ReaddSmb,
       ReaddNfs, Readded, BucketsActive, Enable, Disable, Deactivate, RemoveHost,
       Cleanup
  <1> QED
    BY <1>2, <1>3

\* A step of the divider that fails without a fault is one of its own checks.
LEMMA OwnFailures ==
    ASSUME DividerStep(host), pc' = "exit1"
    PROVE  \/ LocalCheck(host) \/ S3Check(host) \/ SmbCheck(host) \/ NfsCheck(host)
           \/ SetUpDrives(host) \/ SetUpCompute(host) \/ SetUpFrontend(host)
           \/ ReaddFails(host)
  BY DEF DividerStep, Goto, Prepare, NoS3, S3Undrain, S3StartDrain, S3Drained, S3Update,
     SmbRemove, NfsRemovePort, NfsRemoved, StopOld, MoveDrives, NoFrontend,
     RestartAsFrontend, StartS3, ReaddS3, ReaddSmb, Readding, ReaddNfs, Readded,
     BucketsActive, Enable, Disable, Deactivate, RemoveHost, Cleanup

\* While no machine failed, each serves what it served, in one container or another.
LEMMA StillServed ==
    ASSUME IInv, ServedInv, NoFault, faults = 0,
           pc \in {"s3check", "smbcheck", "nfscheck"}
    PROVE  /\ \A m \in S3Init : \E c \in Containers : <<m, c>> \in s3
           /\ \A m \in SmbInit : \E c \in Containers : <<m, c>> \in smb
           /\ \A p \in PortsInit :
                 \/ p \in ports
                 \/ /\ p.host[1] # host
                    /\ \E c \in Containers : [p EXCEPT !.host = <<p.host[1], c>>] \in ports
  <1>1. failed = {} /\ pc \in Working
    BY DEF NoFault, Working, Phases
  <1>2. ServiceInv /\ ContainersInv
    BY <1>1 DEF ServedInv, WorkInv
  <1>3. ASSUME NEW h \in Hosts, h # host
        PROVE  \E c \in Containers : Serves(h, <<h, c>>)
    <2>1. Fresh(h) \/ Converted(h)
      BY <1>1, <1>3 DEF ServedInv, HostsInv
    <2>2. up[h] \subseteq Containers
      BY DEF IInv, TypeOK, DividerTypeOK
    <2> QED
      BY <2>1, <2>2 DEF Fresh, Converted, OldId, Containers
  <1>4. ASSUME NEW m \in S3Init PROVE \E c \in Containers : <<m, c>> \in s3
    <2>1. CASE m = host
      BY <1>2, <2>1 DEF ServiceInv, BeforeS3, OldId, Containers
    <2>2. CASE m # host /\ m \in Hosts
      BY <1>3, <2>2 DEF Serves
    <2>3. CASE m \notin Hosts
      BY <2>3, DividerAssumption DEF ServedInv, OriginInv, OldId, Containers
    <2> QED
      BY <2>1, <2>2, <2>3
  <1>5. ASSUME NEW m \in SmbInit PROVE \E c \in Containers : <<m, c>> \in smb
    <2>1. CASE m = host
      BY <1>2, <2>1 DEF ServiceInv, BeforeSmb, BeforeS3, OldId, Containers
    <2>2. CASE m # host /\ m \in Hosts
      BY <1>3, <2>2 DEF Serves
    <2>3. CASE m \notin Hosts
      BY <2>3, DividerAssumption DEF ServedInv, OriginInv, OldId, Containers
    <2> QED
      BY <2>1, <2>2, <2>3
  <1>6. ASSUME NEW p \in PortsInit
        PROVE  \/ p \in ports
               \/ /\ p.host[1] # host
                  /\ \E c \in Containers : [p EXCEPT !.host = <<p.host[1], c>>] \in ports
    <2>1. CASE p.host[1] = host
      BY <1>2, <2>1 DEF ServiceInv, BeforeNfs
    <2>2. CASE p.host[1] # host /\ p.host[1] \in Hosts
      BY <1>3, <2>2 DEF Serves
    <2>3. CASE p.host[1] \notin Hosts
      BY <2>3 DEF ServedInv, OriginInv
    <2> QED
      BY <2>1, <2>2, <2>3
  <1> QED
    BY <1>4, <1>5, <1>6

\* Two ports of a group are two.
LEMMA TwoPorts ==
    ASSUME NEW S, IsFiniteSet(S), NEW p \in S, NEW q \in S, p # q
    PROVE  ~(Cardinality(S) < 2)
  <1>1. Cardinality(S) \in Nat
    BY FS_CardinalityType
  <1>2. IsFiniteSet({p, q}) /\ Cardinality({p, q}) = 2
    <2>1. IsFiniteSet({p}) /\ Cardinality({p}) = 1
      BY FS_Singleton, Zenon
    <2>2. /\ IsFiniteSet({p} \cup {q})
          /\ Cardinality({p} \cup {q}) =
                IF q \in {p} THEN Cardinality({p}) ELSE Cardinality({p}) + 1
      BY <2>1, FS_AddElement, Zenon
    <2>3. {p} \cup {q} = {p, q} /\ q \notin {p}
      OBVIOUS
    <2> QED
      BY <2>1, <2>2, <2>3
  <1>3. Cardinality({p, q}) <= Cardinality(S)
    BY FS_Subset
  <1> QED
    BY <1>1, <1>2, <1>3

\* In a cluster that meets the requirements every check of the divider passes.
LEMMA ChecksPass ==
    ASSUME Requirements, IInv, MembersInv, ServedInv, NoFault,
           DividerStep(host) \/ DividerFault(host), faults' = 0
    PROVE  pc' # "exit1"
  <1> SUFFICES ASSUME pc' = "exit1" PROVE FALSE
    OBVIOUS
  <1>1. faults = 0 /\ failed = {} /\ host \in Hosts
    BY FaultsCount DEF NoFault, IInv, TypeOK
  <1>2. WorkInv /\ (pc \in Working => ContainersInv /\ ServiceInv)
    BY <1>1 DEF ServedInv, WorkInv
  <1>3. S3Init \in SUBSET Machines /\ SmbInit \in SUBSET Machines
    BY DividerAssumption
  <1>4. CASE LocalCheck(host)
    BY <1>1, <1>4, LocalCheckEffect DEF ServedInv
  <1>5. CASE S3Check(host)
    <2>1. pc = "s3check" /\ Cur(host) \in s3 /\ Cardinality(s3) < 4
      BY <1>5 DEF S3Check, Goto
    <2>2. host \in S3Init
      BY <1>1, <1>2, <2>1 DEF ContainersInv, ServedInv, OriginInv, Cur, OldId, Working,
         Phases, Machines
    <2>3. Cardinality(S3Init) >= 4
      BY <1>1, <2>2 DEF Requirements
    <2>4. IsFiniteSet(s3)
      BY DEF MembersInv
    <2>5. Cardinality(S3Init) <= Cardinality(s3)
      BY <1>1, <1>3, <2>1, <2>4, StillServed, MemberOfEach
    <2>6. Cardinality(S3Init) \in Nat /\ Cardinality(s3) \in Nat
      BY <1>3, <2>4, DividerAssumption, FS_CardinalityType, FS_Subset
    <2> QED
      BY <2>1, <2>3, <2>5, <2>6
  <1>6. CASE SmbCheck(host)
    <2>1. pc = "smbcheck" /\ Cur(host) \in smb /\ Cardinality(smb) < 4
      BY <1>6 DEF SmbCheck, Goto
    <2>2. host \in SmbInit
      BY <1>1, <1>2, <2>1 DEF ContainersInv, ServedInv, OriginInv, Cur, OldId, Working,
         Phases, Machines
    <2>3. Cardinality(SmbInit) >= 4
      BY <1>1, <2>2 DEF Requirements
    <2>4. IsFiniteSet(smb)
      BY DEF MembersInv
    <2>5. Cardinality(SmbInit) <= Cardinality(smb)
      BY <1>1, <1>3, <2>1, <2>4, StillServed, MemberOfEach
    <2>6. Cardinality(SmbInit) \in Nat /\ Cardinality(smb) \in Nat
      BY <1>3, <2>4, DividerAssumption, FS_CardinalityType, FS_Subset
    <2> QED
      BY <2>1, <2>3, <2>5, <2>6
  <1>7. CASE NfsCheck(host)
    <2>1. PICK p \in ports : /\ p.host = Cur(host)
                             /\ Cardinality({q \in ports : q.ig = p.ig}) < 2
      BY <1>7 DEF NfsCheck, Goto
    <2>2. pc = "nfscheck"
      BY <1>7 DEF NfsCheck
    <2>3. p \in PortsInit /\ p.host[1] = host
      BY <1>2, <2>1, <2>2 DEF ContainersInv, ServedInv, OriginInv, Cur, Working, Phases
    <2>4. PICK q \in PortsInit : q # p /\ q.ig = p.ig
      BY <1>1, <2>3 DEF Requirements
    <2>5. \E r \in ports : r.ig = p.ig /\ r # p
      <3>1. CASE q \in ports
        BY <2>4, <3>1
      <3>2. ASSUME q.host[1] # host, NEW c \in Containers,
                   [q EXCEPT !.host = <<q.host[1], c>>] \in ports
            PROVE  \E r \in ports : r.ig = p.ig /\ r # p
        <4> DEFINE r == [q EXCEPT !.host = <<q.host[1], c>>]
        <4>1. r.ig = q.ig /\ r.host = <<q.host[1], c>>
          BY DividerAssumption DEF Ports
        <4>2. r \in ports
          BY <3>2
        <4>3. r.host[1] # p.host[1]
          BY <2>3, <3>2, <4>1
        <4> HIDE DEF r
        <4> QED
          BY <2>4, <4>1, <4>2, <4>3
      <3> QED
        BY <1>1, <2>2, <3>1, <3>2, StillServed
    <2>6. IsFiniteSet({q_1 \in ports : q_1.ig = p.ig})
      BY PortsFinite, FS_Subset DEF Requirements, IInv, TypeOK, DividerTypeOK
    <2> QED
      BY <2>1, <2>5, <2>6, TwoPorts
  <1>8. CASE SetUpDrives(host) \/ SetUpCompute(host) \/ SetUpFrontend(host)
    BY <1>2, <1>8 DEF SetUpDrives, SetUpCompute, SetUpFrontend, SetUp, Goto,
       ContainersInv, Working, Phases
  <1>9. CASE ReaddFails(host)
    <2>1. pc = "readd" /\ protocols_in_host # {} /\ "frontend0" \notin up[host]
      BY <1>9 DEF ReaddFails
    <2>2. name = "default" /\ host \notin Frontends
      BY <1>2, <2>1 DEF ContainersInv, Working, Phases, Requirements
    <2>3. protocols_in_host \cap {"S3", "SMB", "NFS"} # {}
      BY <2>1 DEF IInv, TypeOK, DividerTypeOK, Protocols
    <2>4. /\ "S3" \in protocols_in_host => host \in S3Init
          /\ "SMB" \in protocols_in_host => host \in SmbInit
          /\ "NFS" \in protocols_in_host => \E p \in PortsInit : p.host[1] = host
      BY <2>2 DEF ServedInv, OriginInv
    <2>5. host \notin S3Init \cup SmbInit
      BY <1>1, <2>2 DEF Requirements
    <2>6. \A p \in PortsInit : p.host[1] # host
      BY <1>1, <2>2 DEF Requirements
    <2> QED
      BY <2>3, <2>4, <2>5, <2>6
  <1> QED
    BY <1>4, <1>5, <1>6, <1>7, <1>8, <1>9, FaultsCount, OwnFailures

\* Faults are only counted; the shell script notes a failure where the divider failed.
LEMMA NextNoFault ==
    ASSUME Requirements, IInv, MembersInv, ServedInv, NoFault, [Next]_vars
    PROVE  NoFault'
  <1> SUFFICES ASSUME faults' = 0 PROVE failed' = {} /\ pc' # "exit1"
    BY DEF NoFault
  <1>1. faults \in Nat /\ (pc = "exit1" => stage = "divide")
    BY DEF IInv, TypeOK, DividerTypeOK, ServedInv, HostsInv
  <1>2. CASE Divide
    <2>1. pc' # "exit1"
      BY <1>2, ChecksPass DEF Divide
    <2>2. faults = 0
      BY <1>1, <1>2, FaultsCount DEF Divide
    <2> QED
      BY <1>2, <2>1, <2>2 DEF Divide, NoFault, shellVars
  <1>3. CASE HostFailed
    BY <1>3 DEF HostFailed, NoFault
  <1>4. ASSUME UNCHANGED <<failed, faults>>, pc' \in {pc, "check", "none"}
        PROVE  failed' = {} /\ pc' # "exit1"
    BY <1>4 DEF NoFault
  <1>5. CASE PrechecksFail
    BY <1>1, <1>5 DEF PrechecksFail
  <1> QED
    <2> USE DEF dividerVars, shellVars
    <2>1. CASE \E f \in BOOLEAN : Start(f)
      BY <1>4, <2>1 DEF Start
    <2>2. CASE \/ Prechecked \/ StopFileSeen \/ Answer \/ RebuildWaited
               \/ NodesWaited \/ Finish
      BY <1>4, <2>2 DEF Prechecked, StopFileSeen, Answer, RebuildWaited, NodesWaited,
         Finish
    <2>3. CASE \E h \in Hosts : Distribute(h)
      BY <1>4, <2>3 DEF Distribute
    <2>4. CASE HostSucceeded
      BY <1>4, <2>4 DEF HostSucceeded
    <2>5. CASE TouchStopFile \/ ClusterReacts
      BY <1>4, <2>5 DEF TouchStopFile, ClusterReacts, Notice, RebuildDone
    <2>6. CASE UNCHANGED vars
      BY <1>4, <2>6 DEF vars
    <2> QED
      BY <1>2, <1>3, <1>5, <2>1, <2>2, <2>3, <2>4, <2>5, <2>6 DEF Next, Shell

\* Without a fault, a cluster that meets the requirements fails on no machine.
THEOREM OnlyFaultsFail ==
    ASSUME Requirements
    PROVE  Spec => []FailsOnlyByFault
  <1> DEFINE Inv == FrontendInv /\ MembersInv /\ ServedInv /\ NoFault
  <1>1. Init => Inv
    BY InitMembers, InitServed DEF Init, DividerInit, FrontendInv, FrontendUp, NoFault
  <1>2. IInv /\ Inv /\ [Next]_vars => Inv'
    BY NextMembers, NextFrontend, NextServed, NextNoFault
  <1>3. IInv /\ Inv => FailsOnlyByFault
    BY DEF NoFault, FailsOnlyByFault, IInv, TypeOK, DividerTypeOK
  <1> HIDE DEF Inv
  <1>4. QED
    BY <1>1, <1>2, <1>3, Invariance, PTL DEF Spec
=============================================================================
