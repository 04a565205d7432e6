------------------------ MODULE EtcdMigrationProofs ------------------------
(***************************************************************************)
(* Proofs about EtcdMigration, for any number of hosts, any writes, any    *)
(* faults at any of the steps and any number of runs and reverts.  That no *)
(* write is lost needs that nobody reverts after the warning; what else it *)
(* needs is in the property: that no host strayed, and that the script was *)
(* not started again with a host out of the mode (mixed).                  *)
(*                                                                         *)
(* The argument: until the warning every host that accepts writes runs     *)
(* with etcd, and after it every host runs with KWAS.  The warning is      *)
(* printed when all hosts are read-only, were seen with KWAS and will      *)
(* come up with it again, after a copy that was found to be complete.      *)
(* A copy made after the warning finds every host still read-only, and so  *)
(* every write in etcd: there is nothing in KWAS that it could put back.   *)
(***************************************************************************)
EXTENDS EtcdMigration, TLAPS

\* Steps by what is known in them.
Restarting == {"restart", "hostdrained", "refresh", "ready"}
HeldSteps == {"drain", "drained", "migrate", "copying", "validate", "kwas"} \cup Restarting
RevertSteps == {"enter", "exit", "etcd"} \cup Restarting

\* Only a run that has not warned reverts; a run that does not revert leaves
\* the mode, and turns etcd off, after the warning only.
RunInv ==
    /\ reverting => pc \in RevertSteps /\ ~warned
    /\ pc = "exit" /\ ~reverting => warned
    /\ pc \in {"disable", "stop"} => warned
    /\ ~enabled => warned

\* A host restarts into KWAS by force in the mode only.
\* The mode holds from the check that all hosts entered it to their exit.  The
\* hosts restarted so far run with the store wanted, and would come up with it
\* again.
HostInv ==
    /\ \A h \in Hosts : force[h] => readonly[h]
    /\ pc \in HeldSteps => \A h \in Hosts : readonly[h]
    /\ pc \in {"hostdrained", "refresh", "ready"} => cur \in todo
    /\ pc \in {"refresh", "ready"} /\ ~draining[cur] => client[cur] = Boot(cur)
    /\ pc \in Restarting =>
         \A h \in Hosts \ todo : client[h] = Wanted /\ force[h] = ~reverting
    /\ pc = "kwas" => \A h \in Hosts : client[h] = "kwas" /\ force[h]
    /\ pc = "exit" /\ reverting => \A h \in Hosts : client[h] = "etcd" /\ ~force[h]

\* Before the warning etcd is the store of the writes, and after it KWAS is.
DataInv ==
    /\ ~warned => /\ acked \subseteq etcd
                  /\ \A h \in Hosts : ~readonly[h] => client[h] = "etcd"
    /\ warned => \A h \in Hosts : readonly[h] => force[h]
    /\ warned /\ ~mixed => acked \subseteq kwas /\ \A h \in Hosts : client[h] = "kwas"
    /\ pc \in Restarting \cup {"kwas"} /\ ~reverting => etcd \subseteq kwas

\* A copy after the warning changes nothing: all hosts are still read-only, so
\* that etcd holds every write.  No copy runs once one was found to be complete.
CopyInv ==
    /\ pc \in {"validate", "kwas", "exit"} \cup Restarting /\ ~reverting => copy # "running"
    /\ warned /\ ~mixed =>
         /\ pc \notin {"idle", "exit", "disable", "stop", "etcd"} => \A h \in Hosts : readonly[h]
         /\ copy = "running" => \A h \in Hosts : readonly[h]
         /\ (\A h \in Hosts : readonly[h]) => acked \subseteq etcd

\* What a run that passed the health check has drained, and not yet restarted.
DrainInv ==
    checked /\ ~reverting /\ pc \notin {"idle", "health"} =>
        \A h \in Hosts : draining[h] =>
            \/ pc \in {"drained", "migrate", "copying", "validate"} /\ h = MigrateHost
            \/ pc = "restart" /\ todo = Hosts /\ h = MigrateHost
            \/ pc \in {"hostdrained", "refresh", "ready"} /\ h = cur

\* A revert keeps to the steps of do_revert().
RevertInv == reverting => pc \in RevertSteps

\* Whatever the operator answers: the mode is left with all hosts on the store
\* wanted, and a crash until then brings up no other; one after that makes the
\* host a stray.
StoreInv ==
    /\ \A h \in stray : ~readonly[h]
    /\ pc \in HeldSteps => \A h \in Hosts : readonly[h]
    /\ pc \in {"refresh", "ready"} /\ ~draining[cur] => client[cur] = Boot(cur)
    /\ pc \in Restarting => \A h \in Hosts \ todo : client[h] = Wanted /\ Boot(h) = Wanted
    /\ pc = "kwas" => \A h \in Hosts : client[h] = "kwas" /\ Boot(h) = "kwas"
    /\ pc = "exit" => \A h \in Hosts \ stray :
         client[h] = Wanted /\ (readonly[h] => Boot(h) = Wanted)
    /\ NoSplitBrain

IInv == TypeOK /\ RunInv /\ HostInv /\ DataInv /\ CopyInv
-----------------------------------------------------------------------------
(* Types.                                                                  *)

\* A fault is counted, at whichever step.
LEMMA FaultIsCounted == \A step : faults \in Nat /\ Fault(step) => faults' \in Nat
  BY DEF Fault

\* Every step keeps the types.
LEMMA StepKeepsType ==
    ASSUME TypeOK, [Next]_vars
    PROVE  TypeOK'
  <1> USE DEF TypeOK, Steps, Clients, hostVars, dataVars, runVars, history
  <1>1. CASE Start
    BY <1>1 DEF Start, Begin, Goto
  <1>2. CASE HealthCheck
    BY <1>2 DEF HealthCheck, Goto
  <1>3. CASE HealthCheckFails
    BY <1>3, FaultIsCounted DEF HealthCheckFails, Quit, Goto
  <1>4. CASE PreliminaryCheck
    BY <1>4, FaultIsCounted DEF PreliminaryCheck, Quit, Begin, Goto
  <1>5. ASSUME NEW h \in Hosts, EnterMigrationMode(h) PROVE TypeOK'
    BY <1>5, FaultIsCounted DEF EnterMigrationMode, First
  <1>6. ASSUME NEW h \in Hosts, ExitMigrationMode(h) PROVE TypeOK'
    BY <1>6, FaultIsCounted DEF ExitMigrationMode, First
  <1>7. ASSUME NEW h \in Hosts, DrainHost(h) PROVE TypeOK'
    BY <1>7, FaultIsCounted DEF DrainHost, Goto, First
  <1>8. CASE Entered
    BY <1>8 DEF Entered, Begin, Goto
  <1>9. CASE Exited
    BY <1>9 DEF Exited, Goto
  <1>10. CASE ModeNotChanged
    BY <1>10 DEF ModeNotChanged, Quit, Goto
  <1>11. CASE EnterDrainMode
    BY <1>11, FaultIsCounted DEF EnterDrainMode, Goto
  <1>12. CASE WaitForDrain
    BY <1>12 DEF WaitForDrain, Goto
  <1>13. CASE MigrateData
    BY <1>13 DEF MigrateData, Goto
  <1>14. CASE MigrationInProgress
    BY <1>14 DEF MigrationInProgress, Quit, Goto
  <1>15. CASE Migrated
    BY <1>15 DEF Migrated, Goto
  <1>16. CASE MigrationFailed
    BY <1>16 DEF MigrationFailed, Quit, Goto
  <1>17. CASE ValidateMigration
    BY <1>17 DEF ValidateMigration, Begin, Goto
  <1>18. CASE ValidationFails
    BY <1>18 DEF ValidationFails, Quit, Goto
  <1>19. CASE HostDrained
    BY <1>19 DEF HostDrained, Goto
  <1>20. CASE RefreshMinio
    BY <1>20, FaultIsCounted DEF RefreshMinio, Goto, Restarted, Boot
  <1>21. CASE HostReady
    BY <1>21 DEF HostReady, Begin, Goto
  <1>22. CASE HostWrong
    BY <1>22 DEF HostWrong, Quit, Goto
  <1>23. CASE ValidateKwasIsUp
    BY <1>23 DEF ValidateKwasIsUp, Quit, Begin, Goto
  <1>24. CASE DisableEtcd
    BY <1>24, FaultIsCounted DEF DisableEtcd, Quit, Goto
  <1>25. CASE StopEtcd
    BY <1>25, FaultIsCounted DEF StopEtcd, Quit, Goto
  <1>26. CASE PostRevertValidations
    BY <1>26 DEF PostRevertValidations, Quit, Goto
  <1>27. CASE ExitAtPrompt
    BY <1>27 DEF ExitAtPrompt, Quit, Goto
  <1>28. CASE Revert
    BY <1>28 DEF Revert, Begin, Goto
  <1>29. CASE Cancel
    BY <1>29, FaultIsCounted DEF Cancel, Quit, Goto
  <1>30. ASSUME NEW h \in Hosts, Undrain(h) PROVE TypeOK'
    BY <1>30 DEF Undrain
  <1>31. CASE CopyEnds
    BY <1>31, FaultIsCounted DEF CopyEnds
  <1>32. ASSUME NEW h \in Hosts, Crash(h) PROVE TypeOK'
    BY <1>32, FaultIsCounted DEF Crash, Restarted, Boot
  <1>33. ASSUME NEW h \in Hosts, NEW w \in Writes, Write(h, w) PROVE TypeOK'
    BY <1>33 DEF Write
  <1>34. CASE UNCHANGED vars
    BY <1>34 DEF vars
  <1> QED
    BY <1>1, <1>2, <1>3, <1>4, <1>5, <1>6, <1>7, <1>8, <1>9, <1>10, <1>11, <1>12, <1>13, <1>14, <1>15, <1>16, <1>17, <1>18, <1>19, <1>20, <1>21, <1>22, <1>23, <1>24, <1>25, <1>26, <1>27, <1>28, <1>29, <1>30, <1>31, <1>32, <1>33, <1>34 DEF Next, Script, Operator
-----------------------------------------------------------------------------
(* The invariant.                                                          *)

\* Every step keeps a revert to its steps.
LEMMA StepKeepsRevert ==
    ASSUME TypeOK, RevertInv, [Next]_vars
    PROVE  RevertInv'
  <1> USE DEF TypeOK, RevertInv, RevertSteps, Restarting, hostVars, dataVars, runVars, history
  <1>1. CASE Start
    BY <1>1 DEF Start, Begin, Goto
  <1>2. CASE HealthCheck
    BY <1>2 DEF HealthCheck, Goto
  <1>3. CASE HealthCheckFails
    BY <1>3 DEF HealthCheckFails, Quit, Goto
  <1>4. CASE PreliminaryCheck
    BY <1>4 DEF PreliminaryCheck, Quit, Begin, Goto
  <1>5. ASSUME NEW h \in Hosts, EnterMigrationMode(h) PROVE RevertInv'
    BY <1>5 DEF EnterMigrationMode
  <1>6. ASSUME NEW h \in Hosts, ExitMigrationMode(h) PROVE RevertInv'
    BY <1>6 DEF ExitMigrationMode
  <1>7. ASSUME NEW h \in Hosts, DrainHost(h) PROVE RevertInv'
    BY <1>7 DEF DrainHost, Goto
  <1>8. CASE Entered
    BY <1>8 DEF Entered, Begin, Goto
  <1>9. CASE Exited
    BY <1>9 DEF Exited, Goto
  <1>10. CASE ModeNotChanged
    BY <1>10 DEF ModeNotChanged, Quit, Goto
  <1>11. CASE EnterDrainMode
    BY <1>11 DEF EnterDrainMode, Goto
  <1>12. CASE WaitForDrain
    BY <1>12 DEF WaitForDrain, Goto
  <1>13. CASE MigrateData
    BY <1>13 DEF MigrateData, Goto
  <1>14. CASE MigrationInProgress
    BY <1>14 DEF MigrationInProgress, Quit, Goto
  <1>15. CASE Migrated
    BY <1>15 DEF Migrated, Goto
  <1>16. CASE MigrationFailed
    BY <1>16 DEF MigrationFailed, Quit, Goto
  <1>17. CASE ValidateMigration
    BY <1>17 DEF ValidateMigration, Begin, Goto
  <1>18. CASE ValidationFails
    BY <1>18 DEF ValidationFails, Quit, Goto
  <1>19. CASE HostDrained
    BY <1>19 DEF HostDrained, Goto
  <1>20. CASE RefreshMinio
    BY <1>20 DEF RefreshMinio, Goto
  <1>21. CASE HostReady
    BY <1>21 DEF HostReady, Begin, Goto
  <1>22. CASE HostWrong
    BY <1>22 DEF HostWrong, Quit, Goto
  <1>23. CASE ValidateKwasIsUp
    BY <1>23 DEF ValidateKwasIsUp, Quit, Begin, Goto
  <1>24. CASE DisableEtcd
    BY <1>24 DEF DisableEtcd, Quit, Goto
  <1>25. CASE StopEtcd
    BY <1>25 DEF StopEtcd, Quit, Goto
  <1>26. CASE PostRevertValidations
    BY <1>26 DEF PostRevertValidations, Quit, Goto
  <1>27. CASE ExitAtPrompt
    BY <1>27 DEF ExitAtPrompt, Quit, Goto
  <1>28. CASE Revert
    BY <1>28 DEF Revert, Begin, Goto, AtPrompt
  <1>29. CASE Cancel
    BY <1>29 DEF Cancel, Quit, Goto
  <1>30. ASSUME NEW h \in Hosts, Undrain(h) PROVE RevertInv'
    BY <1>30 DEF Undrain
  <1>31. CASE CopyEnds
    BY <1>31 DEF CopyEnds
  <1>32. ASSUME NEW h \in Hosts, Crash(h) PROVE RevertInv'
    BY <1>32 DEF Crash
  <1>33. ASSUME NEW h \in Hosts, NEW w \in Writes, Write(h, w) PROVE RevertInv'
    BY <1>33 DEF Write
  <1>34. CASE UNCHANGED vars
    BY <1>34 DEF vars
  <1> QED
    BY <1>1, <1>2, <1>3, <1>4, <1>5, <1>6, <1>7, <1>8, <1>9, <1>10, <1>11, <1>12, <1>13, <1>14, <1>15, <1>16, <1>17, <1>18, <1>19, <1>20, <1>21, <1>22, <1>23, <1>24, <1>25, <1>26, <1>27, <1>28, <1>29, <1>30, <1>31, <1>32, <1>33, <1>34 DEF Next, Script, Operator

\* Every step keeps what is known of the stores.
LEMMA StepKeepsStores ==
    ASSUME TypeOK, RevertInv, StoreInv, [Next]_vars
    PROVE  StoreInv'
  <1> USE DEF TypeOK, StoreInv, NoSplitBrain, HeldSteps, Restarting, Wanted, Boot, hostVars, dataVars, runVars, history
  <1>1. CASE Start
    BY <1>1 DEF Start, Begin, Goto
  <1>2. CASE HealthCheck
    BY <1>2 DEF HealthCheck, Goto
  <1>3. CASE HealthCheckFails
    BY <1>3 DEF HealthCheckFails, Quit, Goto
  <1>4. CASE PreliminaryCheck
    BY <1>4 DEF PreliminaryCheck, Quit, Begin, Goto
  <1>5. ASSUME NEW h \in Hosts, EnterMigrationMode(h) PROVE StoreInv'
    BY <1>5 DEF EnterMigrationMode, First
  <1>6. ASSUME NEW h \in Hosts, ExitMigrationMode(h) PROVE StoreInv'
    BY <1>6 DEF ExitMigrationMode, First
  <1>7. ASSUME NEW h \in Hosts, DrainHost(h) PROVE StoreInv'
    BY <1>7 DEF DrainHost, Goto, First
  <1>8. CASE Entered
    BY <1>8 DEF Entered, Begin, Goto, RevertInv
  <1>9. CASE Exited
    BY <1>9 DEF Exited, Goto
  <1>10. CASE ModeNotChanged
    BY <1>10 DEF ModeNotChanged, Quit, Goto
  <1>11. CASE EnterDrainMode
    BY <1>11 DEF EnterDrainMode, Goto
  <1>12. CASE WaitForDrain
    BY <1>12 DEF WaitForDrain, Goto
  <1>13. CASE MigrateData
    BY <1>13 DEF MigrateData, Goto
  <1>14. CASE MigrationInProgress
    BY <1>14 DEF MigrationInProgress, Quit, Goto
  <1>15. CASE Migrated
    BY <1>15 DEF Migrated, Goto
  <1>16. CASE MigrationFailed
    BY <1>16 DEF MigrationFailed, Quit, Goto
  <1>17. CASE ValidateMigration
    BY <1>17 DEF ValidateMigration, Begin, Goto
  <1>18. CASE ValidationFails
    BY <1>18 DEF ValidationFails, Quit, Goto
  <1>19. CASE HostDrained
    BY <1>19 DEF HostDrained, Goto
  <1>20. CASE RefreshMinio
    BY <1>20 DEF RefreshMinio, Goto, Restarted
  <1>21. CASE HostReady
    BY <1>21 DEF HostReady, Begin, Goto, RevertInv
  <1>22. CASE HostWrong
    BY <1>22 DEF HostWrong, Quit, Goto
  <1>23. CASE ValidateKwasIsUp
    BY <1>23 DEF ValidateKwasIsUp, Quit, Begin, Goto, RevertInv, RevertSteps
  <1>24. CASE DisableEtcd
    BY <1>24 DEF DisableEtcd, Quit, Goto
  <1>25. CASE StopEtcd
    BY <1>25 DEF StopEtcd, Quit, Goto
  <1>26. CASE PostRevertValidations
    BY <1>26 DEF PostRevertValidations, Quit, Goto
  <1>27. CASE ExitAtPrompt
    BY <1>27 DEF ExitAtPrompt, Quit, Goto
  <1>28. CASE Revert
    BY <1>28 DEF Revert, Begin, Goto, AtPrompt, RevertInv
  <1>29. CASE Cancel
    BY <1>29 DEF Cancel, Quit, Goto
  <1>30. ASSUME NEW h \in Hosts, Undrain(h) PROVE StoreInv'
    BY <1>30 DEF Undrain
  <1>31. CASE CopyEnds
    BY <1>31 DEF CopyEnds
  <1>32. ASSUME NEW h \in Hosts, Crash(h) PROVE StoreInv'
    BY <1>32 DEF Crash, Restarted, RevertInv
  <1>33. ASSUME NEW h \in Hosts, NEW w \in Writes, Write(h, w) PROVE StoreInv'
    BY <1>33 DEF Write
  <1>34. CASE UNCHANGED vars
    BY <1>34 DEF vars
  <1> QED
    BY <1>1, <1>2, <1>3, <1>4, <1>5, <1>6, <1>7, <1>8, <1>9, <1>10, <1>11, <1>12, <1>13, <1>14, <1>15, <1>16, <1>17, <1>18, <1>19, <1>20, <1>21, <1>22, <1>23, <1>24, <1>25, <1>26, <1>27, <1>28, <1>29, <1>30, <1>31, <1>32, <1>33, <1>34 DEF Next, Script, Operator

\* Every step keeps what is known of the run.
LEMMA StepKeepsRun ==
    ASSUME HeedsWarning, TypeOK, RunInv, [Next]_vars
    PROVE  RunInv'
  <1> USE DEF TypeOK, RunInv, RevertSteps, Restarting, hostVars, dataVars, runVars, history
  <1>1. CASE Start
    BY <1>1 DEF Start, Begin, Goto
  <1>2. CASE HealthCheck
    BY <1>2 DEF HealthCheck, Goto
  <1>3. CASE HealthCheckFails
    BY <1>3 DEF HealthCheckFails, Quit, Goto
  <1>4. CASE PreliminaryCheck
    BY <1>4 DEF PreliminaryCheck, Quit, Begin, Goto
  <1>5. ASSUME NEW h \in Hosts, EnterMigrationMode(h) PROVE RunInv'
    BY <1>5 DEF EnterMigrationMode
  <1>6. ASSUME NEW h \in Hosts, ExitMigrationMode(h) PROVE RunInv'
    BY <1>6 DEF ExitMigrationMode
  <1>7. ASSUME NEW h \in Hosts, DrainHost(h) PROVE RunInv'
    BY <1>7 DEF DrainHost, Goto
  <1>8. CASE Entered
    BY <1>8 DEF Entered, Begin, Goto
  <1>9. CASE Exited
    BY <1>9 DEF Exited, Goto
  <1>10. CASE ModeNotChanged
    BY <1>10 DEF ModeNotChanged, Quit, Goto
  <1>11. CASE EnterDrainMode
    BY <1>11 DEF EnterDrainMode, Goto
  <1>12. CASE WaitForDrain
    BY <1>12 DEF WaitForDrain, Goto
  <1>13. CASE MigrateData
    BY <1>13 DEF MigrateData, Goto
  <1>14. CASE MigrationInProgress
    BY <1>14 DEF MigrationInProgress, Quit, Goto
  <1>15. CASE Migrated
    BY <1>15 DEF Migrated, Goto
  <1>16. CASE MigrationFailed
    BY <1>16 DEF MigrationFailed, Quit, Goto
  <1>17. CASE ValidateMigration
    BY <1>17 DEF ValidateMigration, Begin, Goto
  <1>18. CASE ValidationFails
    BY <1>18 DEF ValidationFails, Quit, Goto
  <1>19. CASE HostDrained
    BY <1>19 DEF HostDrained, Goto
  <1>20. CASE RefreshMinio
    BY <1>20 DEF RefreshMinio, Goto
  <1>21. CASE HostReady
    BY <1>21 DEF HostReady, Begin, Goto
  <1>22. CASE HostWrong
    BY <1>22 DEF HostWrong, Quit, Goto
  <1>23. CASE ValidateKwasIsUp
    BY <1>23 DEF ValidateKwasIsUp, Quit, Begin, Goto
  <1>24. CASE DisableEtcd
    <2>1. warned' = warned /\ warned /\ ~reverting
      BY <1>24 DEF DisableEtcd, Quit
    <2>2. reverting' = FALSE
      BY <1>24, <2>1 DEF DisableEtcd, Quit
    <2>3. QED
      BY <2>1, <2>2
  <1>25. CASE StopEtcd
    BY <1>25 DEF StopEtcd, Quit, Goto
  <1>26. CASE PostRevertValidations
    BY <1>26 DEF PostRevertValidations, Quit, Goto
  <1>27. CASE ExitAtPrompt
    BY <1>27 DEF ExitAtPrompt, Quit, Goto
  <1>28. CASE Revert
    BY <1>28 DEF Revert, Begin, Goto, AtPrompt
  <1>29. CASE Cancel
    BY <1>29 DEF Cancel, Quit, Goto
  <1>30. ASSUME NEW h \in Hosts, Undrain(h) PROVE RunInv'
    BY <1>30 DEF Undrain
  <1>31. CASE CopyEnds
    BY <1>31 DEF CopyEnds
  <1>32. ASSUME NEW h \in Hosts, Crash(h) PROVE RunInv'
    BY <1>32 DEF Crash
  <1>33. ASSUME NEW h \in Hosts, NEW w \in Writes, Write(h, w) PROVE RunInv'
    BY <1>33 DEF Write
  <1>34. CASE UNCHANGED vars
    BY <1>34 DEF vars
  <1> QED
    BY <1>1, <1>2, <1>3, <1>4, <1>5, <1>6, <1>7, <1>8, <1>9, <1>10, <1>11, <1>12, <1>13, <1>14, <1>15, <1>16, <1>17, <1>18, <1>19, <1>20, <1>21, <1>22, <1>23, <1>24, <1>25, <1>26, <1>27, <1>28, <1>29, <1>30, <1>31, <1>32, <1>33, <1>34 DEF Next, Script, Operator

\* Every step keeps what is known of the hosts.
LEMMA StepKeepsHosts ==
    ASSUME TypeOK, RunInv, HostInv, DataInv, [Next]_vars
    PROVE  HostInv'
  <1> USE DEF TypeOK, HostInv, HeldSteps, Restarting, Wanted, Boot, hostVars, dataVars, runVars, history
  <1>1. CASE Start
    BY <1>1 DEF Start, Begin, Goto
  <1>2. CASE HealthCheck
    BY <1>2 DEF HealthCheck, Goto
  <1>3. CASE HealthCheckFails
    BY <1>3 DEF HealthCheckFails, Quit, Goto
  <1>4. CASE PreliminaryCheck
    BY <1>4 DEF PreliminaryCheck, Quit, Begin, Goto
  <1>5. ASSUME NEW h \in Hosts, EnterMigrationMode(h) PROVE HostInv'
    BY <1>5 DEF EnterMigrationMode, First
  <1>6. ASSUME NEW h \in Hosts, ExitMigrationMode(h) PROVE HostInv'
    BY <1>6 DEF ExitMigrationMode, First
  <1>7. ASSUME NEW h \in Hosts, DrainHost(h) PROVE HostInv'
    BY <1>7 DEF DrainHost, Goto, First
  <1>8. CASE Entered
    BY <1>8 DEF Entered, Begin, Goto, RunInv
  <1>9. CASE Exited
    BY <1>9 DEF Exited, Goto
  <1>10. CASE ModeNotChanged
    BY <1>10 DEF ModeNotChanged, Quit, Goto
  <1>11. CASE EnterDrainMode
    BY <1>11 DEF EnterDrainMode, Goto
  <1>12. CASE WaitForDrain
    BY <1>12 DEF WaitForDrain, Goto
  <1>13. CASE MigrateData
    BY <1>13 DEF MigrateData, Goto
  <1>14. CASE MigrationInProgress
    BY <1>14 DEF MigrationInProgress, Quit, Goto
  <1>15. CASE Migrated
    BY <1>15 DEF Migrated, Goto
  <1>16. CASE MigrationFailed
    BY <1>16 DEF MigrationFailed, Quit, Goto
  <1>17. CASE ValidateMigration
    BY <1>17 DEF ValidateMigration, Begin, Goto
  <1>18. CASE ValidationFails
    BY <1>18 DEF ValidationFails, Quit, Goto
  <1>19. CASE HostDrained
    BY <1>19 DEF HostDrained, Goto
  <1>20. CASE RefreshMinio
    BY <1>20 DEF RefreshMinio, Goto, Restarted
  <1>21. CASE HostReady
    BY <1>21 DEF HostReady, Begin, Goto, RunInv, DataInv
  <1>22. CASE HostWrong
    BY <1>22 DEF HostWrong, Quit, Goto
  <1>23. CASE ValidateKwasIsUp
    BY <1>23 DEF ValidateKwasIsUp, Quit, Begin, Goto, RunInv, RevertSteps
  <1>24. CASE DisableEtcd
    BY <1>24 DEF DisableEtcd, Quit, Goto
  <1>25. CASE StopEtcd
    BY <1>25 DEF StopEtcd, Quit, Goto
  <1>26. CASE PostRevertValidations
    BY <1>26 DEF PostRevertValidations, Quit, Goto
  <1>27. CASE ExitAtPrompt
    BY <1>27 DEF ExitAtPrompt, Quit, Goto
  <1>28. CASE Revert
    BY <1>28 DEF Revert, Begin, Goto, AtPrompt, RunInv
  <1>29. CASE Cancel
    BY <1>29 DEF Cancel, Quit, Goto
  <1>30. ASSUME NEW h \in Hosts, Undrain(h) PROVE HostInv'
    BY <1>30 DEF Undrain
  <1>31. CASE CopyEnds
    BY <1>31 DEF CopyEnds
  <1>32. ASSUME NEW h \in Hosts, Crash(h) PROVE HostInv'
    BY <1>32 DEF Crash, Restarted, RunInv, DataInv
  <1>33. ASSUME NEW h \in Hosts, NEW w \in Writes, Write(h, w) PROVE HostInv'
    BY <1>33 DEF Write
  <1>34. CASE UNCHANGED vars
    BY <1>34 DEF vars
  <1> QED
    BY <1>1, <1>2, <1>3, <1>4, <1>5, <1>6, <1>7, <1>8, <1>9, <1>10, <1>11, <1>12, <1>13, <1>14, <1>15, <1>16, <1>17, <1>18, <1>19, <1>20, <1>21, <1>22, <1>23, <1>24, <1>25, <1>26, <1>27, <1>28, <1>29, <1>30, <1>31, <1>32, <1>33, <1>34 DEF Next, Script, Operator

\* Every step keeps the writes where they can be read.
LEMMA StepKeepsData ==
    ASSUME HeedsWarning, TypeOK, RunInv, HostInv, DataInv, CopyInv, [Next]_vars
    PROVE  DataInv'
  <1> USE DEF TypeOK, DataInv, Restarting, hostVars, dataVars, runVars, history
  <1>1. CASE Start
    BY <1>1 DEF Start, Begin, Goto
  <1>2. CASE HealthCheck
    BY <1>2 DEF HealthCheck, Goto
  <1>3. CASE HealthCheckFails
    BY <1>3 DEF HealthCheckFails, Quit, Goto
  <1>4. CASE PreliminaryCheck
    BY <1>4 DEF PreliminaryCheck, Quit, Begin, Goto
  <1>5. ASSUME NEW h \in Hosts, EnterMigrationMode(h) PROVE DataInv'
    BY <1>5 DEF EnterMigrationMode, First, RunInv
  <1>6. ASSUME NEW h \in Hosts, ExitMigrationMode(h) PROVE DataInv'
    BY <1>6 DEF ExitMigrationMode, First, RunInv, HostInv
  <1>7. ASSUME NEW h \in Hosts, DrainHost(h) PROVE DataInv'
    BY <1>7 DEF DrainHost, Goto
  <1>8. CASE Entered
    BY <1>8 DEF Entered, Begin, Goto, RunInv
  <1>9. CASE Exited
    BY <1>9 DEF Exited, Goto
  <1>10. CASE ModeNotChanged
    BY <1>10 DEF ModeNotChanged, Quit, Goto
  <1>11. CASE EnterDrainMode
    BY <1>11 DEF EnterDrainMode, Goto
  <1>12. CASE WaitForDrain
    BY <1>12 DEF WaitForDrain, Goto
  <1>13. CASE MigrateData
    BY <1>13 DEF MigrateData, Goto
  <1>14. CASE MigrationInProgress
    BY <1>14 DEF MigrationInProgress, Quit, Goto
  <1>15. CASE Migrated
    BY <1>15 DEF Migrated, Goto
  <1>16. CASE MigrationFailed
    BY <1>16 DEF MigrationFailed, Quit, Goto
  <1>17. CASE ValidateMigration
    BY <1>17 DEF ValidateMigration, Begin, Goto
  <1>18. CASE ValidationFails
    BY <1>18 DEF ValidationFails, Quit, Goto
  <1>19. CASE HostDrained
    BY <1>19 DEF HostDrained, Goto
  <1>20. CASE RefreshMinio
    BY <1>20 DEF RefreshMinio, Goto, Restarted, Boot, HostInv, HeldSteps, RunInv
  <1>21. CASE HostReady
    BY <1>21 DEF HostReady, Begin, Goto
  <1>22. CASE HostWrong
    BY <1>22 DEF HostWrong, Quit, Goto
  <1>23. CASE ValidateKwasIsUp
    BY <1>23 DEF ValidateKwasIsUp, Quit, Begin, Goto, HostInv, HeldSteps, RunInv, RevertSteps
  <1>24. CASE DisableEtcd
    BY <1>24 DEF DisableEtcd, Quit, Goto, RunInv
  <1>25. CASE StopEtcd
    BY <1>25 DEF StopEtcd, Quit, Goto
  <1>26. CASE PostRevertValidations
    BY <1>26 DEF PostRevertValidations, Quit, Goto
  <1>27. CASE ExitAtPrompt
    BY <1>27 DEF ExitAtPrompt, Quit, Goto
  <1>28. CASE Revert
    BY <1>28 DEF Revert, Begin, Goto, AtPrompt, RunInv
  <1>29. CASE Cancel
    BY <1>29 DEF Cancel, Quit, Goto
  <1>30. ASSUME NEW h \in Hosts, Undrain(h) PROVE DataInv'
    BY <1>30 DEF Undrain
  <1>31. CASE CopyEnds
    BY <1>31 DEF CopyEnds, CopyInv
  <1>32. ASSUME NEW h \in Hosts, Crash(h) PROVE DataInv'
    BY <1>32 DEF Crash, Restarted, Boot, HostInv, RunInv, CopyInv
  <1>33. ASSUME NEW h \in Hosts, NEW w \in Writes, Write(h, w) PROVE DataInv'
    BY <1>33 DEF Write, HostInv, HeldSteps
  <1>34. CASE UNCHANGED vars
    BY <1>34 DEF vars
  <1> QED
    BY <1>1, <1>2, <1>3, <1>4, <1>5, <1>6, <1>7, <1>8, <1>9, <1>10, <1>11, <1>12, <1>13, <1>14, <1>15, <1>16, <1>17, <1>18, <1>19, <1>20, <1>21, <1>22, <1>23, <1>24, <1>25, <1>26, <1>27, <1>28, <1>29, <1>30, <1>31, <1>32, <1>33, <1>34 DEF Next, Script, Operator

\* Every step keeps what is known of the copy.
LEMMA StepKeepsCopy ==
    ASSUME HeedsWarning, TypeOK, RunInv, HostInv, DataInv, CopyInv, [Next]_vars
    PROVE  CopyInv'
  <1> USE DEF TypeOK, CopyInv, Restarting, hostVars, dataVars, runVars, history
  <1>1. CASE Start
    BY <1>1, MigrationAssumption DEF Start, Begin, Goto
  <1>2. CASE HealthCheck
    BY <1>2 DEF HealthCheck, Goto
  <1>3. CASE HealthCheckFails
    BY <1>3 DEF HealthCheckFails, Quit, Goto
  <1>4. CASE PreliminaryCheck
    BY <1>4 DEF PreliminaryCheck, Quit, Begin, Goto
  <1>5. ASSUME NEW h \in Hosts, EnterMigrationMode(h) PROVE CopyInv'
    BY <1>5 DEF EnterMigrationMode, First, RunInv
  <1>6. ASSUME NEW h \in Hosts, ExitMigrationMode(h) PROVE CopyInv'
    BY <1>6 DEF ExitMigrationMode, First, RunInv, HostInv
  <1>7. ASSUME NEW h \in Hosts, DrainHost(h) PROVE CopyInv'
    BY <1>7 DEF DrainHost, Goto
  <1>8. CASE Entered
    BY <1>8 DEF Entered, Begin, Goto, RunInv
  <1>9. CASE Exited
    BY <1>9 DEF Exited, Goto
  <1>10. CASE ModeNotChanged
    BY <1>10 DEF ModeNotChanged, Quit, Goto
  <1>11. CASE EnterDrainMode
    BY <1>11 DEF EnterDrainMode, Goto
  <1>12. CASE WaitForDrain
    BY <1>12 DEF WaitForDrain, Goto
  <1>13. CASE MigrateData
    BY <1>13 DEF MigrateData, Goto, HostInv, HeldSteps
  <1>14. CASE MigrationInProgress
    BY <1>14 DEF MigrationInProgress, Quit, Goto
  <1>15. CASE Migrated
    BY <1>15 DEF Migrated, Goto
  <1>16. CASE MigrationFailed
    BY <1>16 DEF MigrationFailed, Quit, Goto
  <1>17. CASE ValidateMigration
    BY <1>17 DEF ValidateMigration, Begin, Goto
  <1>18. CASE ValidationFails
    BY <1>18 DEF ValidationFails, Quit, Goto
  <1>19. CASE HostDrained
    BY <1>19 DEF HostDrained, Goto
  <1>20. CASE RefreshMinio
    BY <1>20 DEF RefreshMinio, Goto
  <1>21. CASE HostReady
    BY <1>21 DEF HostReady, Begin, Goto
  <1>22. CASE HostWrong
    BY <1>22 DEF HostWrong, Quit, Goto
  <1>23. CASE ValidateKwasIsUp
    BY <1>23 DEF ValidateKwasIsUp, Quit, Begin, Goto, HostInv, HeldSteps, RunInv, DataInv
  <1>24. CASE DisableEtcd
    BY <1>24 DEF DisableEtcd, Quit, Goto, RunInv
  <1>25. CASE StopEtcd
    BY <1>25 DEF StopEtcd, Quit, Goto
  <1>26. CASE PostRevertValidations
    BY <1>26 DEF PostRevertValidations, Quit, Goto
  <1>27. CASE ExitAtPrompt
    BY <1>27 DEF ExitAtPrompt, Quit, Goto
  <1>28. CASE Revert
    BY <1>28 DEF Revert, Begin, Goto, AtPrompt, RunInv
  <1>29. CASE Cancel
    BY <1>29 DEF Cancel, Quit, Goto
  <1>30. ASSUME NEW h \in Hosts, Undrain(h) PROVE CopyInv'
    BY <1>30 DEF Undrain
  <1>31. CASE CopyEnds
    BY <1>31 DEF CopyEnds
  <1>32. ASSUME NEW h \in Hosts, Crash(h) PROVE CopyInv'
    BY <1>32 DEF Crash
  <1>33. ASSUME NEW h \in Hosts, NEW w \in Writes, Write(h, w) PROVE CopyInv'
    BY <1>33 DEF Write, HostInv, HeldSteps
  <1>34. CASE UNCHANGED vars
    BY <1>34 DEF vars
  <1> QED
    BY <1>1, <1>2, <1>3, <1>4, <1>5, <1>6, <1>7, <1>8, <1>9, <1>10, <1>11, <1>12, <1>13, <1>14, <1>15, <1>16, <1>17, <1>18, <1>19, <1>20, <1>21, <1>22, <1>23, <1>24, <1>25, <1>26, <1>27, <1>28, <1>29, <1>30, <1>31, <1>32, <1>33, <1>34 DEF Next, Script, Operator

\* Every step keeps what is known of the hosts drained.
LEMMA StepKeepsDrain ==
    ASSUME TypeOK, RevertInv, DrainInv, [Next]_vars
    PROVE  DrainInv'
  <1> USE DEF TypeOK, DrainInv, hostVars, dataVars, runVars, history
  <1>1. CASE Start
    BY <1>1 DEF Start, Begin, Goto
  <1>2. CASE HealthCheck
    BY <1>2 DEF HealthCheck, Goto
  <1>3. CASE HealthCheckFails
    BY <1>3 DEF HealthCheckFails, Quit, Goto
  <1>4. CASE PreliminaryCheck
    BY <1>4 DEF PreliminaryCheck, Quit, Begin, Goto
  <1>5. ASSUME NEW h \in Hosts, EnterMigrationMode(h) PROVE DrainInv'
    BY <1>5 DEF EnterMigrationMode, First
  <1>6. ASSUME NEW h \in Hosts, ExitMigrationMode(h) PROVE DrainInv'
    BY <1>6 DEF ExitMigrationMode, First
  <1>7. ASSUME NEW h \in Hosts, DrainHost(h) PROVE DrainInv'
    <2>1. h = MigrateHost \/ todo # Hosts
      <3>1. h \in Hosts /\ (todo = Hosts => \A other \in Hosts : h <= other)
        BY <1>7 DEF DrainHost, First
      <3>2. \A k \in Hosts : (\A other \in Hosts : k <= other) /\ todo = Hosts => k = h
        BY <3>1, MigrationAssumption
      <3>3. QED
        BY <3>1, <3>2 DEF MigrateHost
    <2>2. QED
      BY <1>7, <2>1 DEF DrainHost, First, Goto
  <1>8. CASE Entered
    BY <1>8 DEF Entered, Begin, Goto
  <1>9. CASE Exited
    BY <1>9 DEF Exited, Goto, RevertInv
  <1>10. CASE ModeNotChanged
    BY <1>10 DEF ModeNotChanged, Quit, Goto
  <1>11. CASE EnterDrainMode
    BY <1>11 DEF EnterDrainMode, Goto
  <1>12. CASE WaitForDrain
    BY <1>12 DEF WaitForDrain, Goto
  <1>13. CASE MigrateData
    BY <1>13 DEF MigrateData, Goto
  <1>14. CASE MigrationInProgress
    BY <1>14 DEF MigrationInProgress, Quit, Goto
  <1>15. CASE Migrated
    BY <1>15 DEF Migrated, Goto
  <1>16. CASE MigrationFailed
    BY <1>16 DEF MigrationFailed, Quit, Goto
  <1>17. CASE ValidateMigration
    BY <1>17 DEF ValidateMigration, Begin, Goto
  <1>18. CASE ValidationFails
    BY <1>18 DEF ValidationFails, Quit, Goto
  <1>19. CASE HostDrained
    BY <1>19 DEF HostDrained, Goto
  <1>20. CASE RefreshMinio
    BY <1>20 DEF RefreshMinio, Goto, Restarted
  <1>21. CASE HostReady
    BY <1>21 DEF HostReady, Begin, Goto
  <1>22. CASE HostWrong
    BY <1>22 DEF HostWrong, Quit, Goto
  <1>23. CASE ValidateKwasIsUp
    BY <1>23 DEF ValidateKwasIsUp, Quit, Begin, Goto, RevertInv, RevertSteps
  <1>24. CASE DisableEtcd
    BY <1>24 DEF DisableEtcd, Quit, Goto
  <1>25. CASE StopEtcd
    BY <1>25 DEF StopEtcd, Quit, Goto
  <1>26. CASE PostRevertValidations
    BY <1>26 DEF PostRevertValidations, Quit, Goto
  <1>27. CASE ExitAtPrompt
    BY <1>27 DEF ExitAtPrompt, Quit, Goto
  <1>28. CASE Revert
    BY <1>28 DEF Revert, Begin, Goto, AtPrompt
  <1>29. CASE Cancel
    BY <1>29 DEF Cancel, Quit, Goto
  <1>30. ASSUME NEW h \in Hosts, Undrain(h) PROVE DrainInv'
    BY <1>30 DEF Undrain
  <1>31. CASE CopyEnds
    BY <1>31 DEF CopyEnds
  <1>32. ASSUME NEW h \in Hosts, Crash(h) PROVE DrainInv'
    BY <1>32 DEF Crash, Restarted
  <1>33. ASSUME NEW h \in Hosts, NEW w \in Writes, Write(h, w) PROVE DrainInv'
    BY <1>33 DEF Write
  <1>34. CASE UNCHANGED vars
    BY <1>34 DEF vars
  <1> QED
    BY <1>1, <1>2, <1>3, <1>4, <1>5, <1>6, <1>7, <1>8, <1>9, <1>10, <1>11, <1>12, <1>13, <1>14, <1>15, <1>16, <1>17, <1>18, <1>19, <1>20, <1>21, <1>22, <1>23, <1>24, <1>25, <1>26, <1>27, <1>28, <1>29, <1>30, <1>31, <1>32, <1>33, <1>34 DEF Next, Script, Operator
-----------------------------------------------------------------------------
(* The theorems.                                                           *)

LEMMA InitInv == Init => IInv
  <1> SUFFICES ASSUME Init PROVE IInv
    OBVIOUS
  <1>1. TypeOK
    BY DEF Init, TypeOK, Steps, Clients
  <1>2. RunInv
    BY DEF Init, RunInv
  <1>3. HostInv
    BY DEF Init, HostInv, HeldSteps, Restarting
  <1>4. DataInv
    BY DEF Init, DataInv, Restarting
  <1>5. CopyInv
    BY DEF Init, CopyInv, Restarting
  <1>6. QED
    BY <1>1, <1>2, <1>3, <1>4, <1>5 DEF IInv

LEMMA StepKeepsInv == HeedsWarning /\ IInv /\ [Next]_vars => IInv'
  BY StepKeepsType, StepKeepsRun, StepKeepsHosts, StepKeepsData, StepKeepsCopy DEF IInv

\* The inductive invariant holds as long as nobody reverts after the warning.
THEOREM Invariance ==
    ASSUME HeedsWarning
    PROVE  Spec => []IInv
  <1>1. IInv /\ [Next]_vars => IInv'
    BY StepKeepsInv
  <1>2. QED
    BY <1>1, InitInv, PTL DEF Spec

\* The types of all variables (steps.py, helpers.py: the whole migration).
THEOREM TypeCorrect == Spec => []TypeOK
  <1>1. Init => TypeOK
    BY InitInv DEF IInv
  <1>2. QED
    BY <1>1, StepKeepsType, PTL DEF Spec

\* Every host that accepts writes has all that clients were told are done, however
\* runs fail, are cancelled and reverted (do_migrate, do_revert), as long as no
\* MinIO restarted into etcd between the exit from the mode and the end of etcd
\* and the script was not started with a host out of the mode after the warning.
THEOREM AlwaysReadable ==
    ASSUME HeedsWarning
    PROVE  Spec => []AckedReadable
  <1>1. IInv => AckedReadable
    BY DEF IInv, DataInv, AckedReadable, Data, TypeOK
  <1>2. QED
    BY <1>1, Invariance, PTL

\* No two hosts accept writes with different stores (do_migrate, do_revert), but
\* for one whose MinIO restarted into another store since its host left the mode.
THEOREM NeverSplit == Spec => []NoSplitBrain
  <1>1. Init => TypeOK /\ RevertInv /\ StoreInv
    BY InitInv DEF IInv, Init, RevertInv, StoreInv, HeldSteps, Restarting, NoSplitBrain
  <1>2. TypeOK /\ RevertInv /\ StoreInv /\ [Next]_vars => (TypeOK /\ RevertInv /\ StoreInv)'
    BY StepKeepsType, StepKeepsRevert, StepKeepsStores
  <1>3. StoreInv => NoSplitBrain
    BY DEF StoreInv
  <1>4. QED
    BY <1>1, <1>2, <1>3, PTL DEF Spec

\* A migration that passed the health check drains one host at a time, whatever
\* fails (enter_drain_mode, drain_and_restarts_all_hosts).
THEOREM NeverTwoDrained == Spec => []OneHostDrained
  <1>1. Init => TypeOK /\ RevertInv /\ DrainInv
    BY InitInv DEF IInv, Init, RevertInv, DrainInv
  <1>2. TypeOK /\ RevertInv /\ DrainInv /\ [Next]_vars => (TypeOK /\ RevertInv /\ DrainInv)'
    BY StepKeepsType, StepKeepsRevert, StepKeepsDrain
  <1>3. TypeOK /\ DrainInv => OneHostDrained
    BY DEF TypeOK, DrainInv, OneHostDrained
  <1>4. QED
    BY <1>1, <1>2, <1>3, PTL DEF Spec
=============================================================================
