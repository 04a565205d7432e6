------------------------------ MODULE Cluster ------------------------------
(***************************************************************************)
(* The backends the maintenance scripts of postinstall/ work on, as these  *)
(* scripts see them through "weka status", and what the scripts share: one *)
(* runs at a time, goes through the machines in order and may die of a     *)
(* command that fails.  The cluster itself is external code.               *)
(***************************************************************************)
EXTENDS Naturals, FiniteSets

CONSTANTS
    Machines,        \* backends, numbered in the order they are listed
    S3Hosts,         \* machines with an S3 container
    Tools,           \* scripts the operator runs: "fd", "upgrade", "cores"
    LateDetection,   \* a machine may be back before the cluster noticed that
                     \* it was away, and the rebuild begins only then
    FaultAt,         \* steps that may fail
    MaxFaults        \* bound on faults in a behaviour

ASSUME ClusterAssumption ==
    /\ Machines \subseteq Nat /\ IsFiniteSet(Machines) /\ Machines # {}
    /\ S3Hosts \subseteq Machines
    /\ Tools \subseteq {"fd", "upgrade", "cores"}
    /\ LateDetection \in BOOLEAN
    /\ MaxFaults \in Nat

VARIABLES
    container,   \* container[m]: "up"; "starting", with the resources it finds;
                 \* "fenced", running on while its nodes are on the blacklist,
                 \* and until they have joined again; or "down"
    risk,        \* risk[m]: "unseen", then "rebuilding", while data of m misses
                 \* a copy
    s3,          \* s3[m]: "ready", "draining", "stopped" while in drain mode, or
                 \* "off", stopped without a drain
    tool,        \* the script that runs, or "none"
    pc,          \* its step
    machine,     \* the machine it works on
    todo,        \* machines it has still to take
    all,         \* the operator answered "all" to a prompt
    faults

machineVars == <<container, risk, s3>>
scriptVars == <<tool, pc, machine, todo, all>>
clusterVars == <<machineVars, scriptVars, faults>>

ClusterTypeOK ==
    /\ container \in [Machines -> {"up", "starting", "fenced", "down"}]
    /\ risk \in [Machines -> {"none", "unseen", "rebuilding"}]
    /\ s3 \in [S3Hosts -> {"ready", "draining", "stopped", "off"}]
    /\ tool \in Tools \cup {"none"}
    /\ machine \in Machines
    /\ todo \subseteq Machines
    /\ all \in BOOLEAN
    /\ faults \in 0..MaxFaults

ClusterInit ==
    /\ container = [m \in Machines |-> "up"]
    /\ risk = [m \in Machines |-> "none"]
    /\ s3 = [m \in S3Hosts |-> "ready"]
    /\ tool = "none" /\ pc = "idle"
    /\ machine = CHOOSE m \in Machines : TRUE
    /\ todo = {}
    /\ all = FALSE
    /\ faults = 0

Up(m) == container[m] = "up"
FullyProtected == \A m \in Machines : risk[m] # "rebuilding"
AllActive == \A m \in Machines : Up(m) \/ risk[m] = "unseen"

\* Data of machines that leave the cluster with their drives miss a copy.
Exposes(group) ==
    risk' = [m \in Machines |->
                 IF m \in group /\ Up(m) /\ risk[m] = "none" THEN "unseen" ELSE risk[m]]

\* The container of m alone restarts, not that of S3.
Restarts(m) ==
    /\ container' = [container EXCEPT ![m] = "starting"]
    /\ Exposes({m})
    /\ UNCHANGED s3

\* Being in drain mode outlasts a stop and a start.
InDrainMode(m) == s3[m] \in {"draining", "stopped"}

\* All containers of m are stopped, S3 with them, or all are started.
StopsAll(m) ==
    /\ container' = [container EXCEPT ![m] = "down"]
    /\ Exposes({m})
    /\ s3' = [h \in S3Hosts |-> IF h # m THEN s3[h]
                                ELSE IF InDrainMode(h) THEN "stopped" ELSE "off"]

StartsAll(m) ==
    /\ container' = [container EXCEPT ![m] = "starting"]
    /\ s3' = [h \in S3Hosts |-> IF h # m THEN s3[h]
                                ELSE IF InDrainMode(h) THEN "draining" ELSE "ready"]
    /\ UNCHANGED risk

-----------------------------------------------------------------------------
(* Scripts.                                                                *)

At(t, step) == tool = t /\ pc = step

Goto(step) == pc' = step /\ UNCHANGED <<tool, machine, todo, all>>

\* The process ends; what it did to the cluster stays.
End == tool' = "none" /\ pc' = "idle" /\ todo' = {} /\ all' = FALSE /\ UNCHANGED machine

Begin(t, step, list) ==
    /\ tool = "none" /\ t \in Tools
    /\ LateDetection \/ \A m \in Machines : risk[m] # "unseen"
    /\ tool' = t /\ pc' = step
    /\ todo' = list
    /\ UNCHANGED <<machine, all>>

First(m) == m \in todo /\ \A other \in todo : m <= other

TakeUp(m, step) ==
    /\ machine' = m
    /\ todo' = todo \ {m}
    /\ pc' = step
    /\ UNCHANGED <<tool, all>>

PassOver(m) == todo' = todo \ {m} /\ UNCHANGED <<tool, pc, machine, all>>

Fails(command) ==
    /\ command \in FaultAt
    /\ faults < MaxFaults
    /\ faults' = faults + 1

\* The command of the step fails.
Fault(t, step) == At(t, step) /\ Fails(step)

-----------------------------------------------------------------------------
(* The cluster goes on by itself.                                          *)

Notice(m) ==
    /\ risk[m] = "unseen"
    /\ risk' = [risk EXCEPT ![m] = "rebuilding"]
    /\ UNCHANGED <<container, s3, scriptVars, faults>>

RebuildDone(m) ==
    /\ risk[m] = "rebuilding"
    /\ risk' = [risk EXCEPT ![m] = "none"]
    /\ UNCHANGED <<container, s3, scriptVars, faults>>

Comes(m) ==
    /\ container[m] \in {"starting", "fenced"}
    /\ LateDetection \/ risk[m] # "unseen"
    /\ container' = [container EXCEPT ![m] = "up"]
    /\ UNCHANGED <<risk, s3>>
=============================================================================
