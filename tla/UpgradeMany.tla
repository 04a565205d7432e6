---------------------------- MODULE UpgradeMany ----------------------------
(***************************************************************************)
(* upgrade_many.py: upgrades one container (-c) of every backend, or its   *)
(* "default" container, over ssh and one host after the other, waiting for *)
(* a healthy cluster before and after each.  A container that does not     *)
(* start in the target version is rolled back.                             *)
(***************************************************************************)
EXTENDS Naturals, FiniteSets

CONSTANTS
    Hosts,             \* backends, numbered in the order they are listed
    HasDrives,         \* backends whose container has DRIVES nodes
    DefaultContainer,  \* no -c was given
    SkipWait,          \* --skip-wait-for-rebuild-to-start
    RepairsInRun,      \* operators repair containers while the script waits
    SlowRebuild,       \* a rebuild outlasts the restart that caused it
    LateDetection,     \* a run may begin before the cluster noticed what the run
                       \* before it stopped
    FaultAt,           \* steps that may fail
    MaxFaults          \* bound on faults in a behaviour

Steps == {"next", "health", "prompt", "prepare", "stop", "movedir", "restart",
          "setversion", "start", "rollback", "setback", "startback", "agent",
          "drivecheck", "rebuild", "healthy"}

ASSUME UpgradeAssumption ==
    /\ Hosts \subseteq Nat /\ IsFiniteSet(Hosts)
    /\ HasDrives \subseteq Hosts
    /\ DefaultContainer \in BOOLEAN /\ SkipWait \in BOOLEAN
    /\ RepairsInRun \in BOOLEAN /\ SlowRebuild \in BOOLEAN
    /\ LateDetection \in BOOLEAN
    /\ FaultAt \subseteq Steps
    /\ MaxFaults \in Nat

VARIABLES
    up,        \* up[h]: the container of h runs
    version,   \* version[h]: what "weka version set" chose for it
    datadir,   \* datadir[h]: the version its data directory is named after, or
               \* "aside" once it carries the name of a backup
    release,   \* release[h]: the version the cluster knows it by
    agent,     \* agent[h]: the agent's version
    risk,      \* risk[h]: "unseen" or "rebuilding" while data of h misses a copy
    pc,        \* step of the script, "idle" or "bailed" (raised after a rollback)
    host, todo,
    known,     \* known[h]: the version the list of hosts gave for a host that was
               \* down, "asked" for one that was up and is asked in its turn
    all,       \* upgrade_all_already_checked
    faults

clusterVars == <<up, version, datadir, release, agent, risk>>
vars == <<clusterVars, pc, host, todo, known, all, faults>>

Versions == {"source", "target"}

TypeOK ==
    /\ up \in [Hosts -> BOOLEAN]
    /\ version \in [Hosts -> Versions]
    /\ datadir \in [Hosts -> Versions \cup {"aside"}]
    /\ release \in [Hosts -> Versions]
    /\ agent \in [Hosts -> Versions]
    /\ risk \in [Hosts -> {"none", "unseen", "rebuilding"}]
    /\ pc \in Steps \cup {"idle", "bailed"}
    /\ host \in Hosts
    /\ todo \subseteq Hosts
    /\ known \in [Hosts -> Versions \cup {"asked"}]
    /\ all \in BOOLEAN
    /\ faults \in Nat

Init ==
    /\ up = [h \in Hosts |-> TRUE]
    /\ version = [h \in Hosts |-> "source"]
    /\ datadir = [h \in Hosts |-> "source"]
    /\ release = [h \in Hosts |-> "source"]
    /\ agent = [h \in Hosts |-> "source"]
    /\ risk = [h \in Hosts |-> "none"]
    /\ pc = "idle"
    /\ host \in Hosts
    /\ todo = {}
    /\ known = [h \in Hosts |-> "asked"]
    /\ all = FALSE
    /\ faults = 0

-----------------------------------------------------------------------------
(* What "weka status" and "weka status rebuild" show.                      *)

FullyProtected == \A h \in Hosts : risk[h] # "rebuilding"
AllActive == \A h \in Hosts : up[h] \/ risk[h] = "unseen"

Goto(step) == pc' = step

\* ssh_call raised: the script ends with a traceback.
Fault(step) ==
    /\ pc = step
    /\ step \in FaultAt
    /\ faults < MaxFaults
    /\ faults' = faults + 1

\* Mutant: the loop goes one past the end of the list of hosts.
RunPastEnd ==
    /\ pc = "idle"
    /\ LateDetection \/ \A h \in Hosts : risk[h] # "unseen"
    /\ todo' = Hosts \cup {Cardinality(Hosts) + 1}
    /\ known' = [h \in Hosts |-> IF up[h] THEN "asked" ELSE release[h]]
    /\ all' = FALSE
    /\ Goto("next")
    /\ UNCHANGED <<clusterVars, host, faults>>

\* Nothing in the script waits for the cluster to notice what a run that ended
\* early had stopped.
Run ==
    /\ pc = "idle"
    /\ LateDetection \/ \A h \in Hosts : risk[h] # "unseen"
    /\ todo' = Hosts
    /\ known' = [h \in Hosts |-> IF up[h] THEN "asked" ELSE release[h]]
    /\ all' = FALSE
    /\ Goto("next")
    /\ UNCHANGED <<clusterVars, host, faults>>

SourceVersion(h) == IF known[h] = "asked" THEN release[h] ELSE known[h]

First(h) == h \in todo /\ \A other \in todo : h <= other

AlreadyUpgraded(h) ==
    /\ pc = "next" /\ First(h)
    /\ SourceVersion(h) = "target"
    /\ todo' = todo \ {h}
    /\ UNCHANGED <<clusterVars, pc, host, known, all, faults>>

\* Mutant: every host is upgraded, whatever it runs.
TakeAny(h) ==
    /\ pc = "next" /\ First(h)
    /\ host' = h
    /\ todo' = todo \ {h}
    /\ Goto("health")
    /\ UNCHANGED <<clusterVars, known, all, faults>>

Take(h) ==
    /\ pc = "next" /\ First(h)
    /\ SourceVersion(h) # "target"
    /\ host' = h
    /\ todo' = todo \ {h}
    /\ Goto("health")
    /\ UNCHANGED <<clusterVars, known, all, faults>>

\* A host that was up does not answer client_query_backend: a traceback.
QueryFails(h) ==
    /\ Fault("next") /\ First(h)
    /\ known[h] = "asked"
    /\ Goto("idle")
    /\ UNCHANGED <<clusterVars, host, todo, known, all>>

Finished ==
    /\ pc = "next" /\ todo = {}
    /\ Goto("idle")
    /\ UNCHANGED <<clusterVars, host, todo, known, all, faults>>

WaitForHealthy(step, next) ==
    /\ pc = step
    /\ FullyProtected /\ AllActive
    /\ Goto(next)
    /\ UNCHANGED <<clusterVars, host, todo, known, all, faults>>

\* [y]es, all, [s]kip, or anything else, which quits.
Prompt ==
    /\ pc = "prompt"
    /\ IF all THEN Goto("prepare") /\ UNCHANGED all
       ELSE \/ Goto("prepare") /\ all' \in BOOLEAN
            \/ Goto("next") /\ UNCHANGED all
            \/ Goto("idle") /\ UNCHANGED all
    /\ UNCHANGED <<clusterVars, host, todo, known, faults>>

\* version get, prepare-upgrade, sync, version prepare.
PrepareVersion ==
    /\ pc = "prepare"
    /\ Goto("stop")
    /\ UNCHANGED <<clusterVars, host, todo, known, all, faults>>

Stop ==
    /\ pc = "stop"
    /\ up' = [up EXCEPT ![host] = FALSE]
    /\ risk' = IF host \in HasDrives /\ up[host] /\ risk[host] = "none"
               THEN [risk EXCEPT ![host] = "unseen"] ELSE risk
    /\ Goto("movedir")
    /\ UNCHANGED <<version, datadir, release, agent, host, todo, known, all, faults>>

\* A directory of the target version is moved out of the way (a failure of that
\* is allowed), then the one of the version read before takes its name.
MoveDir ==
    /\ pc = "movedir"
    /\ datadir[host] = "source"
    /\ datadir' = [datadir EXCEPT ![host] = "target"]
    /\ Goto("setversion")
    /\ UNCHANGED <<up, version, release, agent, risk, host, todo, known, all, faults>>

\* "Failed to move the data dir ..., starting back up and bailing out"
MoveDirFails ==
    /\ \/ pc = "movedir" /\ datadir[host] # "source" /\ UNCHANGED faults
       \/ Fault("movedir")
    /\ datadir' = IF datadir[host] = "target" THEN [datadir EXCEPT ![host] = "aside"]
                                              ELSE datadir
    /\ Goto("restart")
    /\ UNCHANGED <<up, version, release, agent, risk, host, todo, known, all>>

\* Mutant: the version is never set.
SetVersionForgotten ==
    /\ \/ pc = "setversion" /\ UNCHANGED faults
       \/ Fault("setversion")
    /\ Goto("start")
    /\ UNCHANGED <<clusterVars, host, todo, known, all>>

\* ssh_unchecked_call: a failure goes unnoticed.
SetVersion ==
    /\ \/ /\ pc = "setversion"
          /\ version' = [version EXCEPT ![host] = "target"]
          /\ UNCHANGED faults
       \/ Fault("setversion") /\ UNCHANGED version
    /\ Goto("start")
    /\ UNCHANGED <<up, datadir, release, agent, risk, host, todo, known, all>>

\* A container starts on the data directory of its version only.
Start(step, next) ==
    /\ pc = step
    /\ datadir[host] = version[host]
    /\ up' = [up EXCEPT ![host] = TRUE]
    /\ release' = [release EXCEPT ![host] = version[host]]
    /\ Goto(next)
    /\ UNCHANGED <<version, datadir, agent, risk, host, todo, known, all, faults>>

StartFails(step, next) ==
    /\ \/ pc = step /\ datadir[host] # version[host] /\ UNCHANGED faults
       \/ Fault(step)
    /\ Goto(next)
    /\ UNCHANGED <<clusterVars, host, todo, known, all>>

\* The data directory goes back.  The call that sets the version of "default"
\* back passes one tuple for its arguments: subprocess raises a TypeError before
\* the version is set and the container started.
Rollback ==
    /\ pc = "rollback"
    /\ datadir' = [datadir EXCEPT ![host] = "source"]
    /\ Goto(IF DefaultContainer THEN "bailed" ELSE "setback")
    /\ UNCHANGED <<up, version, release, agent, risk, host, todo, known, all, faults>>

\* Mutant: the version set for the container is left as it is.
SetBackForgotten ==
    /\ \/ pc = "setback" /\ UNCHANGED faults
       \/ Fault("setback")
    /\ Goto("startback")
    /\ UNCHANGED <<clusterVars, host, todo, known, all>>

SetBack ==
    /\ \/ /\ pc = "setback"
          /\ version' = [version EXCEPT ![host] = "source"]
          /\ UNCHANGED faults
       \/ Fault("setback") /\ UNCHANGED version
    /\ Goto("startback")
    /\ UNCHANGED <<up, datadir, release, agent, risk, host, todo, known, all>>

BailOut ==
    /\ pc = "bailed"
    /\ Goto("idle")
    /\ UNCHANGED <<clusterVars, host, todo, known, all, faults>>

\* set_agent_version_if_all_container_are_in_target_version: a failure of either
\* of its calls is passed over.
SetAgent ==
    /\ \/ /\ pc = "agent"
          /\ agent' = IF version[host] = "target" THEN [agent EXCEPT ![host] = "target"]
                                                  ELSE agent
          /\ UNCHANGED faults
       \/ Fault("agent") /\ UNCHANGED agent
    /\ Goto(IF SkipWait THEN "healthy" ELSE "drivecheck")
    /\ UNCHANGED <<up, version, datadir, release, risk, host, todo, known, all>>

\* Mutant: no container is expected to cause a rebuild.
DriveCheckNeverExpects ==
    /\ pc = "drivecheck"
    /\ Goto("healthy")
    /\ UNCHANGED <<clusterVars, host, todo, known, all, faults>>

DriveCheck ==
    /\ pc = "drivecheck"
    /\ Goto(IF host \in HasDrives THEN "rebuild" ELSE "healthy")
    /\ UNCHANGED <<clusterVars, host, todo, known, all, faults>>

\* A query of the resources that fails is not retried: after the sleep the loop
\* body returns False, as for a container without drives.
DriveCheckFails ==
    /\ Fault("drivecheck")
    /\ Goto("healthy")
    /\ UNCHANGED <<clusterVars, host, todo, known, all>>

WaitForRebuildToStart ==
    /\ pc = "rebuild"
    /\ ~FullyProtected
    /\ Goto("healthy")
    /\ UNCHANGED <<clusterVars, host, todo, known, all, faults>>

CommandFails ==
    /\ \E step \in {"health", "prepare", "stop", "rollback", "rebuild", "healthy"} :
         Fault(step)
    /\ Goto(IF pc = "rollback" THEN "bailed" ELSE "idle")
    /\ UNCHANGED <<clusterVars, host, todo, known, all>>

Script ==
    \/ \E h \in Hosts : AlreadyUpgraded(h) \/ Take(h) \/ QueryFails(h)
    \/ Finished
    \/ WaitForHealthy("health", "prompt")
    \/ PrepareVersion \/ Stop
    \/ MoveDir \/ MoveDirFails
    \/ Start("restart", "idle") \/ StartFails("restart", "idle")
    \/ SetVersion
    \/ Start("start", "agent") \/ StartFails("start", "rollback")
    \/ Rollback \/ SetBack
    \/ Start("startback", "bailed") \/ StartFails("startback", "bailed")
    \/ BailOut
    \/ SetAgent \/ DriveCheck \/ DriveCheckFails
    \/ WaitForRebuildToStart \/ WaitForHealthy("healthy", "next")
    \/ CommandFails

-----------------------------------------------------------------------------
(* The cluster, and an operator who repairs a container that stays down.   *)

Notice(h) ==
    /\ risk[h] = "unseen"
    /\ risk' = [risk EXCEPT ![h] = "rebuilding"]
    /\ UNCHANGED <<up, version, datadir, release, agent, pc, host, todo, known, all, faults>>

\* Without SlowRebuild the cluster may rebuild into spare space before the
\* container is back and the script looks.
RebuildDone(h) ==
    /\ risk[h] = "rebuilding"
    /\ SlowRebuild => up[h] /\ ~(pc \in {"agent", "drivecheck", "rebuild"} /\ host = h)
    /\ risk' = [risk EXCEPT ![h] = "none"]
    /\ UNCHANGED <<up, version, datadir, release, agent, pc, host, todo, known, all, faults>>

\* The container is made to run whichever version its data directory is of.
Repair(h) ==
    /\ pc = "idle" \/ (RepairsInRun /\ pc = "health")
    /\ ~up[h] /\ datadir[h] # "aside"
    /\ version' = [version EXCEPT ![h] = datadir[h]]
    /\ release' = [release EXCEPT ![h] = datadir[h]]
    /\ up' = [up EXCEPT ![h] = TRUE]
    /\ UNCHANGED <<datadir, agent, risk, pc, host, todo, known, all, faults>>

\* Waiting for a container that is down is of no use: the operator stops it.
Interrupt ==
    /\ pc \in {"health", "healthy"}
    /\ \E h \in Hosts : ~up[h]
    /\ Goto("idle")
    /\ UNCHANGED <<clusterVars, host, todo, known, all, faults>>

Next ==
    \/ Run \/ Script \/ Prompt \/ Interrupt
    \/ \E h \in Hosts : Notice(h) \/ RebuildDone(h) \/ Repair(h)

Spec == Init /\ [][Next]_vars

\* The script and the cluster go on; the operator answers the prompt, in the
\* end with yes, stops a script that waits in vain, repairs what is down and
\* runs the script again.
FairSpec ==
    /\ Spec
    /\ WF_vars(Run) /\ WF_vars(Script) /\ WF_vars(Interrupt)
    /\ WF_vars(Prompt) /\ SF_vars(Prompt /\ pc' = "prepare")
    /\ \A h \in Hosts : WF_vars(Notice(h)) /\ WF_vars(RebuildDone(h))
                        /\ SF_vars(Repair(h))

-----------------------------------------------------------------------------
\* The health check before each host, and the wait for the rebuild it causes to
\* be seen and to end, take down one machine at a time, over failures, rollbacks
\* and further runs.
Exposed == {h \in Hosts : risk[h] # "none"}
Rolling == INSTANCE RollingMaintenance WITH Machines <- Hosts, exposed <- Exposed
OneMachineAtATime == Rolling!Spec

\* "renaming back, starting back up and bailing out" (upgrade_many.py:317): when
\* the script gives up on a start, the container runs the source version again.
RollbackStartsBackUp ==
    pc = "bailed" => up[host] /\ version[host] = "source" /\ datadir[host] = "source"

\* A host that runs the target version is left alone, in this run and the next
\* ones: a host that was up when the script began is asked in its turn.
UpgradedStayUp == [][\A h \in Hosts : up[h] /\ release[h] = "target" => up'[h]]_vars

\* Every backend is upgraded in the end, through failures, rollbacks, repairs
\* and further runs.
EventuallyUpgraded == <>[](\A h \in Hosts : up[h] /\ release[h] = "target")
=============================================================================
