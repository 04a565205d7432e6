--------------------------- MODULE ConvertCluster ---------------------------
(***************************************************************************)
(* convert_cluster_to_mbc.sh: converts every backend to MBC by running the *)
(* divider on one machine after the other over ssh, waiting for the        *)
(* rebuild and for the machine's nodes in between.  It stops at a machine  *)
(* that fails unless -s was given, and between machines when the operator  *)
(* left a stop file; the operator then runs it again, with -f or without.  *)
(***************************************************************************)
EXTENDS MbcDivider

CONSTANTS
    SkipFailed,   \* -s
    MaxStops      \* bound on the stop files in a behaviour

ASSUME ConvertAssumption == SkipFailed \in BOOLEAN /\ MaxStops \in Nat

VARIABLES
    stage,      \* where the script is; "idle" when it is not running
    todo,       \* machines of BACKENDIP the loop has not reached
    host,       \* $HOST: the machine being converted, last or none yet
    stop_file,
    override,   \* clusterInfo.allowChangingActiveHostNodes
    stops,
    reported,   \* machines logged as "SUCCESSFULLY CONVERTED TO MBC"
    failed      \* machines logged as "UNABLE TO CONVERT"

shellVars == <<stage, todo, host, stop_file, override, stops, reported, failed>>
vars == <<dividerVars, shellVars>>

Stages == {"idle", "prechecks", "next", "divide", "rebuild", "nodes", "ask"}

TypeOK ==
    /\ DividerTypeOK
    /\ stage \in Stages
    /\ todo \subseteq Hosts
    /\ host \in Hosts
    /\ stop_file \in BOOLEAN /\ override \in BOOLEAN
    /\ stops \in Nat
    /\ reported \subseteq Hosts /\ failed \subseteq Hosts

Init ==
    /\ DividerInit
    /\ stage = "idle"
    /\ todo = {}
    /\ host \in Hosts
    /\ stop_file = FALSE /\ override = FALSE
    /\ stops = 0
    /\ reported = {} /\ failed = {}

-----------------------------------------------------------------------------
(* What the cluster says of a machine.                                     *)

Registered(h) == IF record[h] = "gone" THEN exist[h] \ {"default"} ELSE exist[h]
NodesUp(h) == risk[h] = "unseen" \/ Registered(h) \subseteq up[h]
Listed(h) == risk[h] = "unseen" \/ up[h] # {}

\* BACKENDIP is read first: machines with a host that is UP.  -k lets hosts
\* that are active change their nodes.
Start(f) ==
    /\ stage = "idle"
    /\ stop_file' = FALSE
    /\ force' = f
    /\ todo' = {h \in Hosts : Listed(h)}
    /\ override' = (override \/ KeepS3Up)
    /\ stage' = "prechecks"
    /\ UNCHANGED <<machineVars, protocolVars, localVars, pc, faults, host, stops,
                   reported, failed>>

Prechecked ==
    /\ stage = "prechecks"
    /\ ~RebuildVisible
    /\ stage' = "next"
    /\ UNCHANGED <<dividerVars, todo, host, stop_file, override, stops, reported,
                   failed>>

\* Alerts (without -a) or a host ssh does not reach: the script exits.
PrechecksFail ==
    /\ stage = "prechecks"
    /\ "prechecks" \in FaultAt /\ faults < MaxFaults
    /\ faults' = faults + 1
    /\ stage' = "idle"
    /\ UNCHANGED <<machineVars, protocolVars, localVars, pc, force, todo, host,
                   stop_file, override, stops, reported, failed>>

\* The stop file is looked at before each machine; it leaves override alone.
StopFileSeen ==
    /\ stage = "next" /\ todo # {}
    /\ stop_file
    /\ stage' = "idle"
    /\ UNCHANGED <<dividerVars, todo, host, stop_file, override, stops, reported,
                   failed>>

\* _distribute: copy the files and run the divider through ssh.
Distribute(h) ==
    /\ stage = "next"
    /\ ~stop_file
    /\ h \in todo /\ \A other \in todo : h <= other
    /\ todo' = todo \ {h}
    /\ host' = h
    /\ stage' = "divide"
    /\ pc' = "check"
    /\ name' = "default"
    /\ protocols_in_host' = {} /\ s3_status' = {} /\ nfs_ifgs_to_add' = {}
    /\ UNCHANGED <<machineVars, protocolVars, force, faults, stop_file, override,
                   stops, reported, failed>>

Divide ==
    /\ stage = "divide"
    /\ DividerStep(host) \/ DividerFault(host)
    /\ UNCHANGED shellVars

HostSucceeded ==
    /\ stage = "divide" /\ pc = "exit0"
    /\ pc' = "none"
    /\ reported' = reported \cup {host}
    /\ stage' = "rebuild"
    /\ UNCHANGED <<machineVars, protocolVars, localVars, force, faults, todo,
                   host, stop_file, override, stops, failed>>

HostFailed ==
    /\ stage = "divide" /\ pc = "exit1"
    /\ pc' = "none"
    /\ failed' = failed \cup {host}
    /\ stage' = IF SkipFailed THEN "ask" ELSE "idle"
    /\ UNCHANGED <<machineVars, protocolVars, localVars, force, faults, todo,
                   host, stop_file, override, stops, reported>>

Answer ==
    /\ stage = "ask"
    /\ stage' \in {"next", "idle"}
    /\ UNCHANGED <<dividerVars, todo, host, stop_file, override, stops, reported,
                   failed>>

\* Mutant: goes on while data is being rebuilt.
RebuildNotWaited ==
    /\ stage = "rebuild"
    /\ stage' = "nodes"
    /\ UNCHANGED <<dividerVars, todo, host, stop_file, override, stops, reported,
                   failed>>

RebuildWaited ==
    /\ stage = "rebuild"
    /\ ~RebuildVisible
    /\ stage' = "nodes"
    /\ UNCHANGED <<dividerVars, todo, host, stop_file, override, stops, reported,
                   failed>>

NodesWaited ==
    /\ stage = "nodes"
    /\ NodesUp(host)
    /\ stage' = "next"
    /\ UNCHANGED <<dividerVars, todo, host, stop_file, override, stops, reported,
                   failed>>

\* The end of main() is the only place that resets the override.
Finish ==
    /\ stage = "next" /\ todo = {}
    /\ override' = FALSE
    /\ stage' = "idle"
    /\ UNCHANGED <<dividerVars, todo, host, stop_file, stops, reported, failed>>

-----------------------------------------------------------------------------
(* The operator and the cluster.                                           *)

TouchStopFile ==
    /\ stage # "idle" /\ ~stop_file
    /\ stops < MaxStops
    /\ stops' = stops + 1
    /\ stop_file' = TRUE
    /\ UNCHANGED <<dividerVars, stage, todo, host, override, reported,
                   failed>>

ClusterReacts ==
    /\ \E h \in Hosts : Notice(h) \/ RebuildDone(h)
    /\ UNCHANGED shellVars

Shell ==
    \/ Prechecked \/ StopFileSeen \/ (\E h \in Hosts : Distribute(h))
    \/ HostSucceeded \/ HostFailed \/ Answer \/ RebuildWaited \/ NodesWaited
    \/ Finish

Next ==
    \/ \E f \in BOOLEAN : Start(f)
    \/ Shell \/ PrechecksFail \/ Divide \/ TouchStopFile \/ ClusterReacts

Spec == Init /\ [][Next]_vars

\* The scripts run on, and the cluster notices and rebuilds; the operator runs
\* the script again, with -f in the end.  Nothing is asked of TouchStopFile or
\* of the faults.
FairSpec ==
    /\ Spec
    /\ WF_vars(Shell)
    /\ WF_vars(stage = "divide" /\ DividerStep(host) /\ UNCHANGED shellVars)
    /\ \A h \in Hosts : /\ WF_vars(Notice(h) /\ UNCHANGED shellVars)
                        /\ WF_vars(RebuildDone(h) /\ UNCHANGED shellVars)
    /\ SF_vars(Start(TRUE))

-----------------------------------------------------------------------------
(* Safety.                                                                 *)

\* "in order to convert cluster we need at list 2" hosts in an NFS interface
\* group (mbc_divider_script.py:523): the group keeps a port to serve from.
NfsServed == \A p \in PortsInit : \E q \in ports : q.ig = p.ig

\* The checks for four members (S3, SMB) and two ports (NFS) keep a protocol
\* alive whatever fails later and however often the script is run again: three
\* members stay, and every interface group keeps a port.
ProtocolQuorum ==
    /\ Cardinality(S3Init) >= 3 => Cardinality(s3) >= 3
    /\ Cardinality(SmbInit) >= 3 => Cardinality(smb) >= 3
    /\ NfsServed

\* The wait for a healthy S3 cluster before a drain means that at most one host
\* of the cluster is ever draining, even when a drain failed and was abandoned.
OneDraining == \A a, b \in draining : a = b

\* No client is sent to a container that was stopped: by the time the old
\* container is down, its host is out of SMB and NFS, and out of S3 or drained.
StoppedServesNothing ==
    \A h \in Hosts : "default" \notin up[h] =>
        /\ OldId(h) \notin smb
        /\ \A p \in ports : p.host # OldId(h)
        /\ OldId(h) \in s3 => OldId(h) \in draining

\* Whenever the machine reboots, it comes back with the old container or with
\* both new backend containers: enable precedes disable, and both follow setup.
RebootServiceable ==
    \A h \in Hosts : "default" \in boot[h] \/ {"drives0", "compute0"} \subseteq boot[h]

\* A machine reported converted that never failed serves the protocols it served
\* before, from a frontend container that runs and starts at boot.
Serves(h, id) ==
    /\ h \in S3Init => id \in s3 /\ id \notin draining
    /\ h \in SmbInit => id \in smb
    /\ \A p \in PortsInit : p.host[1] = h => [p EXCEPT !.host = id] \in ports

ReportedServesAsBefore ==
    \A h \in reported \ failed :
        \E c \in up[h] \cap boot[h] : Serves(h, <<h, c>>)

\* Without -s, one machine at a time misses copies of its data, over all the
\* runs and failures: the machine that failed is the first the next run meets,
\* and the waits for the rebuild come before any other.
Exposed == {h \in Hosts : risk[h] # "none"}
Rolling == INSTANCE RollingMaintenance WITH Machines <- Hosts, exposed <- Exposed
OneMachineAtATime == Rolling!Spec

\* What a conversion asks of the cluster: a frontend node where a protocol is served,
\* and one host more than each protocol's minimum (README.md:10).
Requirements ==
    /\ ~KeepS3Up
    /\ S3Init \cap Hosts # {} => Cardinality(S3Init) >= 4
    /\ SmbInit \cap Hosts # {} => Cardinality(SmbInit) >= 4
    /\ IsFiniteSet(PortsInit)
    /\ \A p \in PortsInit : p.host[1] \in Hosts =>
          p.host[1] \in Frontends /\ \E q \in PortsInit : q # p /\ q.ig = p.ig
    /\ (S3Init \cup SmbInit) \cap Hosts \subseteq Frontends

\* Without a fault, a cluster that meets these requirements fails on no machine.
FailsOnlyByFault == pc = "exit1" => faults > 0

\* "HOST ... WAS SUCCESSFULLY CONVERTED TO MBC" (convert_cluster_to_mbc.sh:420):
\* its drives are in the new container and its old host left the cluster.
ReportedIsConverted ==
    \A h \in reported : drives[h] = "drives0" /\ (~KeepS3Up => record[h] = "gone")

-----------------------------------------------------------------------------
(* Liveness.                                                               *)

\* Stop files, and failures before the first protocol is removed (an abandoned
\* S3 drain among them), are made good by running again with -f: all machines
\* end up converted.
AllConverted == \A h \in Hosts : record[h] = "gone" /\ drives[h] = "drives0"
EventuallyConverted == <>[]AllConverted

\* No run of the script waits for ever.
RunEnds == (stage # "idle") ~> (stage = "idle")
=============================================================================
