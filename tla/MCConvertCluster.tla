-------------------------- MODULE MCConvertCluster --------------------------
(* Small instances of ConvertCluster: two or three backends, two more hosts *)
(* that only serve protocols, one NFS interface group.                      *)
EXTENDS ConvertCluster

TwoHosts   == {1, 2}
ThreeHosts == {1, 2, 3}
TwoExtras  == {8, 9}
NoMachine  == {}

AllOfTwo   == {1, 2, 8, 9}

Port(m, p) == [ig |-> "ig", host |-> <<m, "default">>, port |-> p]
PortPerHost  == {Port(1, "eth0"), Port(2, "eth0")}
NoPorts      == {}

AnyFault    == Phases \cup {"giveup", "reboot", "prechecks"}
EarlyFaults == {"prechecks", "check", "prepare", "s3check", "smbcheck", "nfscheck",
                "s3drain", "s3wait", "s3drained", "s3update"}
GiveUp      == {"giveup"}

\* The instances without --keep-s3-up meet the requirements of FailsOnlyByFault.
ASSUME RequirementsMet == KeepS3Up \/ Requirements
=============================================================================
