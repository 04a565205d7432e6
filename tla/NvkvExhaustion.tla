--------------------------- MODULE NvkvExhaustion ---------------------------
(***************************************************************************)
(* postinstall/nvkv_exhaustion.py: a drive whose NVKV space runs out is    *)
(* set Unwritable; when no more drives may be, the node that owns one of   *)
(* them is restarted, which empties the NVKV of all its drives.            *)
(*                                                                         *)
(* The script checks in a loop, or is started again and again; a critical  *)
(* error triggers an event for the administrator and, with --stall-file,   *)
(* leaves the file that keeps the script from starting until it is removed.*)
(***************************************************************************)
EXTENDS Naturals, FiniteSets

CONSTANTS
    Nodes, Drives,
    Owner,             \* Owner[d]: the node that serves drive d
    MaxUnwritable,     \* --max-unwritable
    AllowedFailures,   \* --allowed-failures
    StallFile,         \* --stall-file names a file
    MaxFills,          \* bound on drives that run full
    MaxFaults          \* bound on faults in a behaviour

None == "none"

ASSUME NvkvAssumption ==
    /\ Owner \in [Drives -> Nodes] /\ None \notin Nodes
    /\ IsFiniteSet(Drives) /\ IsFiniteSet(Nodes)
    /\ MaxUnwritable \in Nat \ {0}   \* 0 is refused at once
    /\ StallFile \in BOOLEAN
    /\ AllowedFailures \in Nat /\ MaxFills \in Nat /\ MaxFaults \in Nat

VARIABLES
    full,      \* drives at or over the threshold
    state,     \* state[d]: "Writable", "Unwritable", or about to be ("asked")
    node,      \* node[n]: "up", "restarting" (by the script) or "failed"
    risk,      \* risk[n]: of the data of n, "none", "unseen" or "rebuilding"
    missed,    \* history: restarting nodes that the check before a later restart did
               \* not see, as their failure was not noticed in time
    pc,
    fullest,   \* drives[0] of the check that runs
    seen,      \* the drives that the check found Unwritable
    target,    \* the node that is reset
    todo,      \* drives that the running loop still waits for
    stalled,   \* a critical error that nobody has dealt with
    fills, faults

cluster == <<full, state, node, risk, missed, fills>>
vars == <<cluster, pc, fullest, seen, target, todo, stalled, faults>>

Phases == {"idle", "decide", "setting", "failures", "reset", "set", "drain", "delay",
           "restart", "return", "look"}

TypeOK ==
    /\ full \subseteq Drives
    /\ state \in [Drives -> {"Writable", "asked", "Unwritable"}]
    /\ node \in [Nodes -> {"up", "restarting", "failed"}]
    /\ risk \in [Nodes -> {"none", "unseen", "rebuilding"}]
    /\ missed \subseteq Nodes
    /\ pc \in Phases
    /\ fullest \in Drives /\ seen \subseteq Drives
    /\ target \in Nodes \cup {None}
    /\ pc \in {"set", "drain", "delay", "restart", "return", "look"} => target # None
    /\ todo \subseteq Drives
    /\ stalled \in BOOLEAN
    /\ fills \in Nat /\ faults \in Nat

Init ==
    /\ full = {}
    /\ state = [d \in Drives |-> "Writable"]
    /\ node = [n \in Nodes |-> "up"] /\ risk = [n \in Nodes |-> "none"]
    /\ missed = {}
    /\ pc = "idle"
    /\ fullest \in Drives /\ seen = {} /\ target = None /\ todo = {}
    /\ stalled = FALSE
    /\ fills = 0 /\ faults = 0

Fault == faults < MaxFaults /\ faults' = faults + 1
Goto(phase) == pc' = phase

DrivesOf(n) == {d \in Drives : Owner[d] = n}
Active(d) == node[Owner[d]] = "up"
Unwritables == {d \in Drives : state[d] = "Unwritable"}

\* get_num_failures
NumFailures == Cardinality({n \in Nodes : risk[n] = "rebuilding"})
TooManyFailures == NumFailures > AllowedFailures

\* critical_error, the one for unexpected exceptions included.
Return == Goto("idle") /\ seen' = {} /\ target' = None /\ todo' = {}
Critical == Return /\ stalled' = TRUE /\ UNCHANGED <<cluster, fullest>>
EndCheck == Return /\ UNCHANGED <<cluster, fullest, stalled>>

-----------------------------------------------------------------------------
\* Mutant: drives that cannot be set Unwritable come first as well.
InOrderUnsorted(S) == S

\* drives.sort: the fullest of S first.
InOrder(S) == IF S \cap full # {} THEN S \cap full ELSE S

CheckOnce ==
    LET ready == {d \in Drives : state[d] # "Unwritable" /\ Active(d)}
        rest == InOrder(Drives \ ready)
    IN /\ pc = "idle" /\ (StallFile => ~stalled)
       /\ fullest' \in IF ready # {} THEN InOrder(ready) ELSE rest
       /\ seen' = Unwritables
       /\ target' \in IF Unwritables = {} THEN {None}
                      ELSE {Owner[d] : d \in InOrder(Unwritables)}
       /\ Goto("decide")
       /\ UNCHANGED <<cluster, todo, stalled, faults>>

\* "assert fullest_drive.writable == WRITABLE"
AllUnwritable ==
    /\ pc = "decide" /\ fullest \in seen
    /\ Critical
    /\ UNCHANGED faults

NothingFull ==
    /\ pc = "decide" /\ fullest \notin seen \cup full
    /\ Goto("reset")
    /\ UNCHANGED <<cluster, fullest, seen, target, todo, stalled, faults>>

Ask(drives) == state' = [d \in Drives |-> IF d \in drives /\ state[d] = "Writable"
                                          THEN "asked" ELSE state[d]]

\* Mutant: one drive more may be Unwritable.
SetUnwritableOneMore ==
    /\ pc = "decide" /\ fullest \in full \ seen
    /\ Cardinality(seen) <= MaxUnwritable
    /\ Ask({fullest})
    /\ Goto("setting")
    /\ UNCHANGED <<full, node, risk, missed, fills, fullest, seen, target, todo, stalled, faults>>

SetUnwritable ==
    /\ pc = "decide" /\ fullest \in full \ seen
    /\ Cardinality(seen) < MaxUnwritable
    /\ Ask({fullest})
    /\ Goto("setting")
    /\ UNCHANGED <<full, node, risk, missed, fills, fullest, seen, target, todo, stalled, faults>>

IsUnwritable(d) == Active(d) /\ state[d] = "Unwritable"
IsWritable(d) == Active(d) /\ state[d] # "Unwritable"

Set ==
    /\ pc = "setting" /\ IsUnwritable(fullest)
    /\ EndCheck
    /\ UNCHANGED faults

TooManyUnwritables ==
    /\ pc = "decide" /\ fullest \in full \ seen
    /\ Cardinality(seen) >= MaxUnwritable
    /\ Goto("failures")
    /\ UNCHANGED <<cluster, fullest, seen, target, todo, stalled, faults>>

FailuresChecked ==
    /\ pc = "failures"
    /\ \/ TooManyFailures /\ Critical
       \/ ~TooManyFailures /\ Goto("reset")
          /\ UNCHANGED <<cluster, fullest, seen, target, todo, stalled>>
    /\ UNCHANGED faults

-----------------------------------------------------------------------------
(* reset_unwritable_drive_owner_node.                                      *)

NothingToReset == pc = "reset" /\ (target = None \/ TooManyFailures) /\ EndCheck /\ UNCHANGED faults

\* Mutant: a node is reset although no drive is Unwritable.
ResetAnything ==
    /\ pc = "reset" /\ ~TooManyFailures
    /\ Goto("set")
    /\ UNCHANGED <<cluster, fullest, seen, target, todo, stalled, faults>>

Reset ==
    /\ pc = "reset" /\ target # None /\ ~TooManyFailures
    /\ Goto("set")
    /\ UNCHANGED <<cluster, fullest, seen, target, todo, stalled, faults>>

\* Mutant: the node's other drives stay Writable.
SetAllSeenOnly ==
    /\ pc = "set"
    /\ todo' = DrivesOf(target) \cap seen
    /\ Goto("drain")
    /\ UNCHANGED <<cluster, fullest, seen, target, stalled, faults>>

SetAll ==
    /\ pc = "set"
    /\ Ask(DrivesOf(target) \ seen)
    /\ todo' = DrivesOf(target)
    /\ Goto("drain")
    /\ UNCHANGED <<full, node, risk, missed, fills, fullest, seen, target, stalled, faults>>

Drained(d) ==
    /\ pc = "drain" /\ d \in todo /\ IsUnwritable(d)
    /\ todo' = todo \ {d}
    /\ UNCHANGED <<cluster, pc, fullest, seen, target, stalled, faults>>

AllDrained ==
    /\ pc = "drain" /\ todo = {}
    /\ Goto("delay")
    /\ UNCHANGED <<cluster, fullest, seen, target, todo, stalled, faults>>

\* Restarts of earlier runs that the cluster has not noticed as failures.
Unnoticed == {n \in Nodes : node[n] = "restarting" /\ risk[n] = "unseen"}

\* Mutant: nobody looks at the failures again.
DelayOverUnchecked ==
    /\ pc = "delay"
    /\ Goto("restart")
    /\ missed' = missed \cup Unnoticed
    /\ UNCHANGED <<full, state, node, risk, fills, fullest, seen, target, todo, stalled,
                   faults>>

\* The script only sleeps --delay-before-restart: a restart that an earlier run
\* began may still be unnoticed then.
DelayOver ==
    /\ pc = "delay"
    /\ \/ TooManyFailures /\ EndCheck
       \/ /\ ~TooManyFailures /\ Goto("restart")
          /\ missed' = missed \cup Unnoticed
          /\ UNCHANGED <<full, state, node, risk, fills, fullest, seen, target, todo, stalled>>
    /\ UNCHANGED faults

Down(n, how) ==
    /\ node' = [node EXCEPT ![n] = how]
    /\ risk' = [risk EXCEPT ![n] = IF @ = "none" THEN "unseen" ELSE @]

RestartNode ==
    /\ pc = "restart" /\ node[target] = "up"
    /\ Down(target, "restarting")
    /\ todo' = DrivesOf(target)
    /\ Goto("return")
    /\ UNCHANGED <<full, state, missed, fills, fullest, seen, target, stalled, faults>>

Returned(d) ==
    /\ pc = "return" /\ d \in todo /\ IsWritable(d)
    /\ todo' = todo \ {d}
    /\ UNCHANGED <<cluster, pc, fullest, seen, target, stalled, faults>>

AllReturned ==
    /\ pc = "return" /\ todo = {}
    /\ Goto("look")
    /\ UNCHANGED <<cluster, fullest, seen, target, todo, stalled, faults>>

StillFull ==
    /\ pc = "look" /\ DrivesOf(target) \cap full # {}
    /\ Critical
    /\ UNCHANGED faults

ResetDone ==
    /\ pc = "look" /\ DrivesOf(target) \cap full = {}
    /\ EndCheck
    /\ UNCHANGED faults

-----------------------------------------------------------------------------
(* Waits that time out, commands that fail.                                *)

Waiting(d) ==
    \/ pc = "setting" /\ d = fullest /\ ~IsUnwritable(d)
    \/ pc = "drain" /\ d \in todo /\ ~IsUnwritable(d)
    \/ pc = "return" /\ d \in todo /\ ~IsWritable(d)

\* Nothing the cluster does by itself will end the wait.
Vain(d) == pc \in {"setting", "drain"} /\ Active(d) /\ state[d] = "Writable"

TimedOut ==
    /\ \E d \in Drives : Waiting(d) /\ IF Vain(d) THEN UNCHANGED faults ELSE Fault
    /\ Critical

\* check_output raises; a node that is not up cannot be asked to restart.
CommandFails ==
    /\ pc \in Phases \ {"idle", "delay"}
    /\ \/ pc = "restart" /\ node[target] # "up" /\ UNCHANGED faults
       \/ Fault
    /\ Critical

Killed ==
    /\ pc # "idle"
    /\ Fault
    /\ EndCheck

\* The administrator acts, and removes the stall file, when all nodes are back.
Unstall ==
    /\ stalled /\ \A n \in Nodes : node[n] = "up"
    /\ stalled' = FALSE
    /\ UNCHANGED <<cluster, pc, fullest, seen, target, todo, faults>>

-----------------------------------------------------------------------------
(* The cluster.                                                            *)

Fill(d) ==
    /\ fills < MaxFills /\ d \notin full /\ state[d] = "Writable" /\ Active(d)
    /\ full' = full \cup {d}
    /\ fills' = fills + 1
    /\ UNCHANGED <<state, node, risk, missed, pc, fullest, seen, target, todo, stalled, faults>>

BecomesUnwritable(d) ==
    /\ state[d] = "asked" /\ Active(d)
    /\ state' = [state EXCEPT ![d] = "Unwritable"]
    /\ UNCHANGED <<full, node, risk, missed, fills, pc, fullest, seen, target, todo, stalled, faults>>

\* A node that starts has its drives Writable and, as a rule, their NVKV empty.
ComesBack(n) ==
    /\ node[n] # "up"
    /\ node' = [node EXCEPT ![n] = "up"]
    /\ risk' = [risk EXCEPT ![n] = IF @ = "unseen" THEN "none" ELSE @]
    /\ missed' = missed \ {n}
    /\ state' = [d \in Drives |-> IF Owner[d] = n THEN "Writable" ELSE state[d]]
    /\ \/ full' = full \ DrivesOf(n) /\ UNCHANGED faults
       \/ DrivesOf(n) \cap full # {} /\ Fault /\ UNCHANGED full
    /\ UNCHANGED <<fills, pc, fullest, seen, target, todo, stalled>>

Fails(n) ==
    /\ node[n] = "up" /\ Fault
    /\ Down(n, "failed")
    /\ UNCHANGED <<full, state, missed, fills, pc, fullest, seen, target, todo, stalled>>

Notice(n) ==
    /\ node[n] # "up" /\ risk[n] = "unseen"
    /\ risk' = [risk EXCEPT ![n] = "rebuilding"]
    /\ UNCHANGED <<full, state, node, missed, fills, pc, fullest, seen, target, todo, stalled, faults>>

RebuildDone(n) ==
    /\ risk[n] = "rebuilding"
    /\ risk' = [risk EXCEPT ![n] = "none"]
    /\ UNCHANGED <<full, state, node, missed, fills, pc, fullest, seen, target, todo, stalled, faults>>

Script ==
    \/ CheckOnce \/ AllUnwritable \/ NothingFull
    \/ SetUnwritable \/ Set \/ TooManyUnwritables \/ FailuresChecked
    \/ NothingToReset \/ Reset \/ SetAll
    \/ \E d \in Drives : Drained(d) \/ Returned(d)
    \/ AllDrained \/ DelayOver \/ RestartNode \/ AllReturned \/ StillFull \/ ResetDone
    \/ CommandFails

Recovery(n) == ComesBack(n) \/ Notice(n) \/ RebuildDone(n)

Next ==
    \/ Script \/ TimedOut \/ Killed \/ Unstall
    \/ \E d \in Drives : Fill(d) \/ BecomesUnwritable(d)
    \/ \E n \in Nodes : Fails(n) \/ Recovery(n)

Spec == Init /\ [][Next]_vars

\* The script is run again and again; the cluster does what it was asked to.
FairSpec ==
    /\ Spec
    /\ WF_vars(Script) /\ WF_vars(TimedOut)
    /\ \A d \in Drives : WF_vars(BecomesUnwritable(d))
    /\ \A n \in Nodes : WF_vars(ComesBack(n)) /\ WF_vars(RebuildDone(n))

-----------------------------------------------------------------------------
\* The nodes that the script restarts while their data misses a copy are never
\* more than the failures allowed and one, although it is killed and started
\* again at any point (lines 141 and 161), but for those that were restarting
\* unnoticed when the script looked for failures a last time: of these there is
\* at most one for each run that was cut short.
Exposed == {n \in Nodes \ missed : node[n] = "restarting" /\ risk[n] # "none"}
RestartsWithinAllowed ==
    /\ Cardinality(Exposed) <= AllowedFailures + 1
    /\ Cardinality(missed) <= faults

\* A node is restarted when all its drives are Unwritable, unless it failed and
\* came back in the delay before the restart (lines 147-153).
RestartsDrained ==
    [][\A n \in Nodes : node[n] = "up" /\ node'[n] = "restarting" =>
           \/ \A d \in DrivesOf(n) : state[d] = "Unwritable"
           \/ \A d \in DrivesOf(n) : state[d] = "Writable"]_vars

\* The nodes with drives that are not Writable are no more than --max-unwritable and
\* the faults: an aborted run may leave a drive that was asked to become Unwritable and
\* that the next check does not see yet, but a reset asks the other drives of a node
\* that had one Unwritable already (lines 91-119 and 141).
Affected == {n \in Nodes : \E d \in DrivesOf(n) : state[d] # "Writable"}
UnwritableBounded == Cardinality(Affected) <= MaxUnwritable + faults

\* A drive over the threshold is emptied, or the administrator is called.
FullIsHandled == \A d \in Drives : d \in full ~> (d \notin full \/ stalled)
=============================================================================
