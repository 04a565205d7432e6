--------------------------- MODULE EtcdMigration ---------------------------
(***************************************************************************)
(* topics/S3/etcd-migration: moves the configuration an S3 cluster keeps   *)
(* (users, policies) from etcd to KWAS.  All hosts are put into a read     *)
(* only mode, one of them copies the data, each host is drained and        *)
(* restarted with the new store, and the mode is left again.  Each step    *)
(* may be answered with "revert", and a run that fails is run again from   *)
(* the first step.                                                         *)
(*                                                                         *)
(* send_bash_command() does not capture stderr, so a command that fails    *)
(* goes unnoticed: what is not validated afterwards is not known.          *)
(***************************************************************************)
EXTENDS Naturals, FiniteSets

CONSTANTS
    Hosts,         \* S3 hosts, numbered in the order of global_vars.s3_hosts
    AutoMode,      \* --auto-mode 2: no step is asked about
    HeedsWarning,  \* nobody reverts after being told it is not supported
    Writes,        \* changes of users and policies that clients make
    FaultAt,       \* steps whose commands may fail
    MaxFaults      \* bound on faults in a behaviour

Steps == {"health", "check", "enter", "drain", "drained", "migrate", "copying",
          "validate", "restart", "hostdrained", "refresh", "ready", "kwas", "exit",
          "disable", "stop", "etcd"}

ASSUME MigrationAssumption ==
    /\ Hosts \subseteq Nat /\ IsFiniteSet(Hosts) /\ Hosts # {}
    /\ AutoMode \in BOOLEAN /\ HeedsWarning \in BOOLEAN
    /\ FaultAt \subseteq Steps \cup {"copy", "crash", "cancel"}
    /\ MaxFaults \in Nat

VARIABLES
    client,    \* client[h]: the store the MinIO of h runs with
    readonly,  \* readonly[h]: h is in Migration Read Only Mode
    force,     \* force[h]: force_kwas_on_minio_restart
    draining,  \* draining[h]: h is in drain mode, so not ready
    enabled,   \* s3ClusterInfo.etcdEnabled
    copy,      \* the copy the first host makes: "no", "running" or "failed"
    etcd, kwas,   \* the writes each store holds
    acked,     \* the writes clients were told are done
    pc,        \* step of the script, or "idle"
    todo, cur, \* hosts the loop of the step has not reached, and its host
    reverting,
    checked,   \* the run was not started with --skip-checks
    warned,    \* "rolling back to ETCD is no longer supported" was printed
    stray,     \* history: hosts that came up with another store since they left the mode
    mixed,     \* history: a host strayed, or the script was started after the warning
               \* while a host was out of the mode
    faults

hostVars == <<client, readonly, force, draining>>
dataVars == <<etcd, kwas, acked>>
runVars == <<todo, cur, reverting, checked, warned>>
history == <<stray, mixed>>
vars == <<hostVars, enabled, copy, dataVars, pc, runVars, history, faults>>

Clients == {"etcd", "kwas"}

TypeOK ==
    /\ client \in [Hosts -> Clients]
    /\ readonly \in [Hosts -> BOOLEAN] /\ force \in [Hosts -> BOOLEAN]
    /\ draining \in [Hosts -> BOOLEAN]
    /\ enabled \in BOOLEAN
    /\ copy \in {"no", "running", "failed"}
    /\ etcd \subseteq acked /\ kwas \subseteq acked /\ acked \subseteq Writes
    /\ pc \in Steps \cup {"idle"}
    /\ todo \subseteq Hosts /\ cur \in Hosts
    /\ reverting \in BOOLEAN /\ checked \in BOOLEAN /\ warned \in BOOLEAN
    /\ stray \subseteq Hosts /\ mixed \in BOOLEAN
    /\ faults \in Nat

Init ==
    /\ client = [h \in Hosts |-> "etcd"]
    /\ readonly = [h \in Hosts |-> FALSE] /\ force = [h \in Hosts |-> FALSE]
    /\ draining = [h \in Hosts |-> FALSE]
    /\ enabled = TRUE
    /\ copy = "no"
    /\ etcd = {} /\ kwas = {} /\ acked = {}
    /\ pc = "idle"
    /\ todo = {} /\ cur \in Hosts
    /\ reverting = FALSE /\ checked = FALSE /\ warned = FALSE
    /\ stray = {} /\ mixed = FALSE
    /\ faults = 0

-----------------------------------------------------------------------------
First(h) == h \in todo /\ \A other \in todo : h <= other
MigrateHost == CHOOSE h \in Hosts : \A other \in Hosts : h <= other

\* The store MinIO starts with.
Boot(h) == IF force[h] \/ ~enabled THEN "kwas" ELSE "etcd"

Fault(step) ==
    /\ step \in FaultAt
    /\ faults < MaxFaults
    /\ faults' = faults + 1

Goto(step) == pc' = step

\* Mutant: one past the last host.
BeginPastEnd(step) == Goto(step) /\ todo' = Hosts \cup {Cardinality(Hosts) + 1}

\* A step that loops over the hosts begins with all of them.
Begin(step) == Goto(step) /\ todo' = Hosts

\* exit(1): a validation failed.
Quit ==
    /\ Goto("idle")
    /\ reverting' = FALSE
    /\ UNCHANGED <<hostVars, enabled, copy, dataVars, todo, cur, checked, warned, history>>

Start ==
    /\ pc = "idle"
    /\ \/ checked' = TRUE /\ Begin("health")
       \/ checked' = FALSE /\ Begin("enter")
    /\ mixed' = (mixed \/ (warned /\ \E h \in Hosts : ~readonly[h]))
    /\ UNCHANGED <<hostVars, enabled, copy, dataVars, cur, reverting, warned, stray, faults>>

HealthCheck ==
    /\ pc = "health"
    /\ \A h \in Hosts : ~draining[h]
    /\ Goto("check")
    /\ UNCHANGED <<hostVars, enabled, copy, dataVars, runVars, history, faults>>

HealthCheckFails ==
    /\ pc = "health"
    /\ \/ (\E h \in Hosts : draining[h]) /\ UNCHANGED faults
       \/ Fault("health")
    /\ Quit

PreliminaryCheck ==
    /\ pc = "check"
    /\ \/ /\ Begin("enter")
          /\ UNCHANGED <<hostVars, enabled, copy, dataVars, cur, reverting, checked,
                         warned, history, faults>>
       \/ Fault("check") /\ Quit

-----------------------------------------------------------------------------
(* Migration Read Only Mode.                                               *)

\* A host that is told to leave the mode again will restart with etcd.
EnterMigrationMode(h) ==
    /\ pc = "enter" /\ First(h)
    /\ \/ /\ readonly' = [readonly EXCEPT ![h] = TRUE]
          /\ force' = [force EXCEPT ![h] = ~reverting]
          /\ stray' = stray \ {h}
          /\ UNCHANGED faults
       \/ Fault("enter") /\ UNCHANGED <<readonly, force, stray>>
    /\ todo' = todo \ {h}
    /\ UNCHANGED <<client, draining, enabled, copy, dataVars, pc, cur, reverting,
                   checked, warned, mixed>>

Entered ==
    /\ pc = "enter" /\ todo = {}
    /\ \A h \in Hosts : readonly[h]
    /\ IF reverting THEN Begin("restart") ELSE Goto("drain") /\ UNCHANGED todo
    /\ UNCHANGED <<hostVars, enabled, copy, dataVars, cur, reverting, checked, warned,
                   history, faults>>

\* Mutant: the host restarted last is left out.
ExitMigrationModeButOne(h) ==
    /\ pc = "exit" /\ First(h)
    /\ readonly' = [readonly EXCEPT ![h] = h = cur]
    /\ force' = [force EXCEPT ![h] = h = cur]
    /\ todo' = todo \ {h}
    /\ UNCHANGED <<client, draining, enabled, copy, dataVars, pc, cur, reverting,
                   checked, warned, history, faults>>

ExitMigrationMode(h) ==
    /\ pc = "exit" /\ First(h)
    /\ \/ /\ readonly' = [readonly EXCEPT ![h] = FALSE]
          /\ force' = [force EXCEPT ![h] = FALSE]
          /\ UNCHANGED faults
       \/ Fault("exit") /\ UNCHANGED <<readonly, force>>
    /\ todo' = todo \ {h}
    /\ UNCHANGED <<client, draining, enabled, copy, dataVars, pc, cur, reverting,
                   checked, warned, history>>

Exited ==
    /\ pc = "exit" /\ todo = {}
    /\ \A h \in Hosts : ~readonly[h]
    /\ Goto(IF reverting THEN "etcd" ELSE "disable")
    /\ UNCHANGED <<hostVars, enabled, copy, dataVars, runVars, history, faults>>

ModeNotChanged ==
    /\ todo = {}
    /\ \/ pc = "enter" /\ \E h \in Hosts : ~readonly[h]
       \/ pc = "exit" /\ \E h \in Hosts : readonly[h]
    /\ Quit
    /\ UNCHANGED faults

-----------------------------------------------------------------------------
(* The copy.                                                               *)

EnterDrainMode ==
    /\ pc = "drain"
    /\ \/ draining' = [draining EXCEPT ![MigrateHost] = TRUE] /\ UNCHANGED faults
       \/ Fault("drain") /\ UNCHANGED draining
    /\ Goto("drained")
    /\ UNCHANGED <<client, readonly, force, enabled, copy, dataVars, runVars, history>>

WaitForDrain ==
    /\ pc = "drained"
    /\ draining[MigrateHost]
    /\ Goto("migrate")
    /\ UNCHANGED <<hostVars, enabled, copy, dataVars, runVars, history, faults>>

MigrateData ==
    /\ pc = "migrate"
    /\ copy # "running"
    /\ copy' = "running"
    /\ Goto("copying")
    /\ UNCHANGED <<hostVars, enabled, dataVars, runVars, history, faults>>

MigrationInProgress ==
    /\ pc = "migrate" /\ copy = "running"
    /\ Quit
    /\ UNCHANGED faults

Migrated ==
    /\ pc = "copying" /\ copy = "no"
    /\ Goto("validate")
    /\ UNCHANGED <<hostVars, enabled, copy, dataVars, runVars, history, faults>>

MigrationFailed ==
    /\ pc = "copying" /\ copy = "failed"
    /\ Quit
    /\ UNCHANGED faults

\* Mutant: an incomplete copy passes.
ValidateNothing ==
    /\ pc = "validate"
    /\ Begin("restart")
    /\ UNCHANGED <<hostVars, enabled, copy, dataVars, cur, reverting, checked, warned,
                   history, faults>>

ValidateMigration ==
    /\ pc = "validate"
    /\ etcd \subseteq kwas
    /\ Begin("restart")
    /\ UNCHANGED <<hostVars, enabled, copy, dataVars, cur, reverting, checked, warned,
                   history, faults>>

ValidationFails ==
    /\ pc = "validate" /\ ~(etcd \subseteq kwas)
    /\ Quit
    /\ UNCHANGED faults

-----------------------------------------------------------------------------
(* Each host is drained and restarted with the store wanted.               *)

\* Mutant: the hosts are taken in the opposite order.
DrainHostLast(h) ==
    /\ pc = "restart" /\ h \in todo /\ \A other \in todo : h >= other
    /\ cur' = h
    /\ \/ draining' = [draining EXCEPT ![h] = TRUE] /\ UNCHANGED faults
       \/ Fault("restart") /\ UNCHANGED draining
    /\ Goto("hostdrained")
    /\ UNCHANGED <<client, readonly, force, enabled, copy, dataVars, todo, reverting,
                   checked, warned, history>>

DrainHost(h) ==
    /\ pc = "restart" /\ First(h)
    /\ cur' = h
    /\ \/ draining' = [draining EXCEPT ![h] = TRUE] /\ UNCHANGED faults
       \/ Fault("restart") /\ UNCHANGED draining
    /\ Goto("hostdrained")
    /\ UNCHANGED <<client, readonly, force, enabled, copy, dataVars, todo, reverting,
                   checked, warned, history>>

HostDrained ==
    /\ pc = "hostdrained"
    /\ draining[cur]
    /\ Goto("refresh")
    /\ UNCHANGED <<hostVars, enabled, copy, dataVars, runVars, history, faults>>

\* force_minio_refresh: MinIO restarts, out of drain mode.
Restarted(h) ==
    /\ client' = [client EXCEPT ![h] = Boot(h)]
    /\ draining' = [draining EXCEPT ![h] = FALSE]

RefreshMinio ==
    /\ pc = "refresh"
    /\ \/ Restarted(cur) /\ UNCHANGED faults
       \/ Fault("refresh") /\ UNCHANGED <<client, draining>>
    /\ Goto("ready")
    /\ UNCHANGED <<readonly, force, enabled, copy, dataVars, runVars, history>>

Wanted == IF reverting THEN "etcd" ELSE "kwas"

\* Mutant: the store a host came up with is not looked at.
HostReadyUnvalidated ==
    /\ pc = "ready"
    /\ ~draining[cur] /\ readonly[cur]
    /\ IF todo = {cur} THEN Begin(IF reverting THEN "exit" ELSE "kwas")
       ELSE Goto("restart") /\ todo' = todo \ {cur}
    /\ UNCHANGED <<hostVars, enabled, copy, dataVars, cur, reverting, checked, warned,
                   history, faults>>

HostReady ==
    /\ pc = "ready"
    /\ ~draining[cur] /\ readonly[cur] /\ client[cur] = Wanted
    /\ IF todo = {cur} THEN Begin(IF reverting THEN "exit" ELSE "kwas")
       ELSE Goto("restart") /\ todo' = todo \ {cur}
    /\ UNCHANGED <<hostVars, enabled, copy, dataVars, cur, reverting, checked, warned,
                   history, faults>>

HostWrong ==
    /\ pc = "ready"
    /\ ~draining[cur] /\ ~(readonly[cur] /\ client[cur] = Wanted)
    /\ Quit
    /\ UNCHANGED faults

-----------------------------------------------------------------------------
(* The end of a migration, and of a revert.                                *)

\* All hosts were seen with KWAS before: the other branch is never taken.
ValidateKwasIsUp ==
    /\ pc = "kwas"
    /\ IF \A h \in Hosts : client[h] = "kwas"
       THEN /\ warned' = TRUE
            /\ Begin("exit")
            /\ UNCHANGED <<hostVars, enabled, copy, dataVars, cur, reverting, checked, history>>
       ELSE Quit
    /\ UNCHANGED faults

\* Mutant: the configuration is never told.
DisableNothing ==
    /\ pc = "disable"
    /\ Goto("stop")
    /\ UNCHANGED <<hostVars, enabled, copy, dataVars, runVars, history, faults>>

\* The configuration is read back.
DisableEtcd ==
    /\ pc = "disable"
    /\ \/ /\ enabled' = FALSE
          /\ Goto("stop")
          /\ UNCHANGED <<hostVars, copy, dataVars, runVars, history, faults>>
       \/ enabled /\ Fault("disable") /\ Quit

\* etcd is stopped on each host and must not come back for 20 seconds.
StopEtcd ==
    /\ pc = "stop"
    /\ UNCHANGED faults \/ Fault("stop")
    /\ Quit

\* The run ends whatever the hosts are found to run with.
PostRevertValidations ==
    /\ pc = "etcd"
    /\ Quit
    /\ UNCHANGED faults

-----------------------------------------------------------------------------
(* The operator.                                                           *)

\* Where the script asks: before each step, and before each host.
AtPrompt ==
    /\ ~AutoMode /\ ~reverting
    /\ \/ pc \in {"health", "check", "drain", "migrate", "validate", "restart", "kwas",
                  "disable"}
       \/ pc \in {"enter", "exit"} /\ todo = Hosts

ExitAtPrompt ==
    /\ AtPrompt
    /\ Quit
    /\ UNCHANGED faults

\* do_revert: from here on nothing is asked.
Revert ==
    /\ AtPrompt
    /\ HeedsWarning => ~warned
    /\ reverting' = TRUE
    /\ Begin("enter")
    /\ UNCHANGED <<hostVars, enabled, copy, dataVars, cur, checked, warned, history, faults>>

\* "if this takes too long, cancel script (^C)": a wait that is in vain, because
\* the command before it failed, or one that is not.
Vain ==
    \/ pc = "drained" /\ ~draining[MigrateHost]
    \/ pc = "hostdrained" /\ ~draining[cur]
    \/ pc = "ready" /\ draining[cur]

Cancel ==
    /\ pc \in {"drained", "copying", "hostdrained", "ready"}
    /\ \/ Vain /\ UNCHANGED faults
       \/ ~Vain /\ Fault("cancel")
    /\ Quit

\* "Fix what is needed and rerun script"
Undrain(h) ==
    /\ pc = "idle" /\ draining[h]
    /\ draining' = [draining EXCEPT ![h] = FALSE]
    /\ UNCHANGED <<client, readonly, force, enabled, copy, dataVars, pc, runVars, history, faults>>

-----------------------------------------------------------------------------
(* The S3 cluster and its clients.                                         *)

Write(h, w) ==
    /\ ~readonly[h] /\ ~draining[h]
    /\ w \in Writes \ acked
    /\ acked' = acked \cup {w}
    /\ IF client[h] = "etcd" THEN etcd' = etcd \cup {w} /\ UNCHANGED kwas
                             ELSE kwas' = kwas \cup {w} /\ UNCHANGED etcd
    /\ UNCHANGED <<hostVars, enabled, copy, pc, runVars, history, faults>>

\* The copy puts the entries of etcd into KWAS; one that fails, or that says it
\* did not, may have put some of them only.  A write made to KWAS alone is lost
\* where the entry it changed is in etcd too, with the value of before.
CopyEnds ==
    /\ copy = "running"
    /\ \/ /\ copy' = "no"
          /\ \E kept \in SUBSET (kwas \ etcd) : kwas' = kept \cup etcd
          /\ UNCHANGED faults
       \/ /\ Fault("copy")
          /\ copy' \in {"no", "failed"}
          /\ \E kept \in SUBSET (kwas \ etcd), part \in SUBSET etcd :
                kwas' = kept \cup (kwas \cap etcd) \cup part
    /\ UNCHANGED <<hostVars, enabled, etcd, acked, pc, runVars, history>>

\* MinIO of a host is restarted by its supervisor, in migration mode or not.
Crash(h) ==
    /\ Fault("crash")
    /\ Restarted(h)
    /\ LET strays == ~readonly[h] /\ Boot(h) # client[h]
       IN /\ stray' = IF strays THEN stray \cup {h} ELSE stray
          /\ mixed' = (mixed \/ strays)
    /\ UNCHANGED <<readonly, force, enabled, copy, dataVars, pc, runVars>>

Script ==
    \/ HealthCheck \/ HealthCheckFails \/ PreliminaryCheck
    \/ \E h \in Hosts : EnterMigrationMode(h) \/ ExitMigrationMode(h) \/ DrainHost(h)
    \/ Entered \/ Exited \/ ModeNotChanged
    \/ EnterDrainMode \/ WaitForDrain
    \/ MigrateData \/ MigrationInProgress \/ Migrated \/ MigrationFailed
    \/ ValidateMigration \/ ValidationFails
    \/ HostDrained \/ RefreshMinio \/ HostReady \/ HostWrong
    \/ ValidateKwasIsUp \/ DisableEtcd \/ StopEtcd
    \/ PostRevertValidations

Operator == ExitAtPrompt \/ Revert \/ Cancel \/ \E h \in Hosts : Undrain(h)

Next ==
    \/ Start \/ Script \/ Operator
    \/ CopyEnds
    \/ \E h \in Hosts : Crash(h) \/ \E w \in Writes : Write(h, w)

Spec == Init /\ [][Next]_vars

\* The script goes on; a wait in vain is cancelled in the end, and what a run
\* left draining is undrained although the script is run again meanwhile.
FairSpec ==
    /\ Spec
    /\ WF_vars(Script) /\ WF_vars(Start) /\ WF_vars(CopyEnds) /\ WF_vars(Cancel)
    /\ \A h \in Hosts : SF_vars(Undrain(h))

-----------------------------------------------------------------------------
\* Every host that is out of Migration Read Only Mode runs with a store that
\* holds every write a client was told is done, whatever failed, was cancelled or
\* reverted before (do_migrate, do_revert).  Two things break this, and the
\* property stands as long as neither happened: a MinIO that restarts after its
\* host left the mode (steps.py:165) and before etcd is disabled (175) comes up
\* with etcd, and a run that copies etcd into KWAS again when a host was already
\* out of the mode with KWAS may put back what clients have changed since.
Data(store) == IF store = "etcd" THEN etcd ELSE kwas
AckedReadable == ~mixed => \A h \in Hosts : ~readonly[h] => acked \subseteq Data(client[h])

\* Two hosts that accept writes use the same store, unless the MinIO of one of
\* them restarted into another store since the script let the host out of the
\* mode: it does so only when all hosts were seen with one client
\* (steps.py:140-145, 150-156).
NoSplitBrain ==
    \A g, h \in Hosts \ stray : ~readonly[g] /\ ~readonly[h] => client[g] = client[h]

\* A migration that passed the health check drains one host at a time: the host
\* drained for the copy is the first one that is restarted (helpers.py:66,
\* steps.py:120-145).
OneHostDrained ==
    checked /\ ~reverting /\ pc \notin {"idle", "health"} =>
        \A g, h \in Hosts : draining[g] /\ draining[h] => g = h

\* The S3 cluster is not left read-only, nor a host drained, for ever, by runs
\* that fail and are run again from the first step: there is always a later
\* moment at which every host can be written to (do_migrate).
AlwaysWritableAgain == []<>(\A h \in Hosts : ~readonly[h] /\ ~draining[h])

\* Without a revert the cluster ends up on KWAS for good: no restart of a MinIO
\* brings etcd back (remove_etcd_internals).
EventuallyOnKwas == <>[](~enabled /\ \A h \in Hosts : client[h] = "kwas")
=============================================================================
