------------------------- MODULE UpgradeManyProofs -------------------------
(***************************************************************************)
(* Proofs about UpgradeMany, for any number of hosts and any faults; what  *)
(* a theorem needs of the constants it says.                               *)
(***************************************************************************)
EXTENDS UpgradeMany, TLAPS

\* Data miss a copy on the host the script has stopped only; before it stops one
\* it has seen that none do, and after it that the cluster knows.
Quiet == {"next", "health", "prompt", "prepare", "stop", "healthy"}
Clear == {"prompt", "prepare", "stop"}
Working == Steps \ Quiet
RiskInv ==
    /\ risk \in [Hosts -> {"none", "unseen", "rebuilding"}]
    /\ pc \in Quiet => \A h \in Hosts : risk[h] # "unseen"
    /\ pc \in Clear => \A h \in Hosts : risk[h] = "none"
    /\ pc \in Working => \A h \in Hosts : risk[h] # "none" => h = host /\ h \in HasDrives
    /\ \A g, h \in Exposed : g = h

\* The host in work was seen with the source version; those to come are asked for
\* theirs, or were down and still have the one they had.
VersionInv ==
    /\ release \in [Hosts -> Versions] /\ up \in [Hosts -> BOOLEAN]
    /\ host \in Hosts
    /\ pc # "idle" => /\ host \notin todo \/ pc = "next"
                      /\ \A h \in todo : known[h] = "asked" \/ known[h] = release[h]
    /\ pc \in {"health", "prompt", "prepare", "stop"} => release[host] = "source"

\* What a rollback has put back.
RollbackInv ==
    /\ pc \in {"setback", "startback", "bailed"} => datadir[host] = "source"
    /\ pc \in {"startback", "bailed"} => version[host] = "source"
    /\ pc = "bailed" => up[host]

IInv == TypeOK /\ RiskInv /\ VersionInv /\ RollbackInv
-----------------------------------------------------------------------------
(* Types.                                                                  *)

\* A fault is counted, at whichever step.
LEMMA FaultIsCounted == \A step : faults \in Nat /\ Fault(step) => faults' \in Nat
  BY DEF Fault

\* Every step keeps the types.
LEMMA StepKeepsType ==
    ASSUME TypeOK, [Next]_vars
    PROVE  TypeOK'
  <1> USE DEF TypeOK, Steps, Versions, clusterVars, Goto
  <1>1. CASE Run
    BY <1>1 DEF Run
  <1>2. ASSUME NEW h \in Hosts, AlreadyUpgraded(h) PROVE TypeOK'
    BY <1>2 DEF AlreadyUpgraded, First
  <1>3. ASSUME NEW h \in Hosts, Take(h) PROVE TypeOK'
    BY <1>3 DEF Take, First
  <1>4. ASSUME NEW h \in Hosts, QueryFails(h) PROVE TypeOK'
    BY <1>4, FaultIsCounted DEF QueryFails, First
  <1>5. CASE Finished
    BY <1>5 DEF Finished
  <1>6. CASE WaitForHealthy("health", "prompt")
    BY <1>6 DEF WaitForHealthy
  <1>7. CASE PrepareVersion
    BY <1>7 DEF PrepareVersion
  <1>8. CASE Stop
    BY <1>8 DEF Stop
  <1>9. CASE MoveDir
    BY <1>9 DEF MoveDir
  <1>10. CASE MoveDirFails
    BY <1>10, FaultIsCounted DEF MoveDirFails
  <1>11. CASE Start("restart", "idle")
    BY <1>11 DEF Start
  <1>12. CASE StartFails("restart", "idle")
    BY <1>12, FaultIsCounted DEF StartFails
  <1>13. CASE SetVersion
    BY <1>13, FaultIsCounted DEF SetVersion
  <1>14. CASE Start("start", "agent")
    BY <1>14 DEF Start
  <1>15. CASE StartFails("start", "rollback")
    BY <1>15, FaultIsCounted DEF StartFails
  <1>16. CASE Rollback
    BY <1>16 DEF Rollback
  <1>17. CASE SetBack
    BY <1>17, FaultIsCounted DEF SetBack
  <1>18. CASE Start("startback", "bailed")
    BY <1>18 DEF Start
  <1>19. CASE StartFails("startback", "bailed")
    BY <1>19, FaultIsCounted DEF StartFails
  <1>20. CASE BailOut
    BY <1>20 DEF BailOut
  <1>21. CASE SetAgent
    BY <1>21, FaultIsCounted DEF SetAgent
  <1>22. CASE DriveCheck
    BY <1>22 DEF DriveCheck
  <1>23. CASE DriveCheckFails
    BY <1>23, FaultIsCounted DEF DriveCheckFails
  <1>24. CASE WaitForRebuildToStart
    BY <1>24 DEF WaitForRebuildToStart
  <1>25. CASE WaitForHealthy("healthy", "next")
    BY <1>25 DEF WaitForHealthy
  <1>26. CASE CommandFails
    BY <1>26, FaultIsCounted DEF CommandFails
  <1>27. CASE Prompt
    BY <1>27 DEF Prompt
  <1>28. CASE Interrupt
    BY <1>28 DEF Interrupt
  <1>29. ASSUME NEW h \in Hosts, Notice(h) PROVE TypeOK'
    BY <1>29 DEF Notice
  <1>30. ASSUME NEW h \in Hosts, RebuildDone(h) PROVE TypeOK'
    BY <1>30 DEF RebuildDone
  <1>31. ASSUME NEW h \in Hosts, Repair(h) PROVE TypeOK'
    BY <1>31 DEF Repair
  <1>32. CASE UNCHANGED vars
    BY <1>32 DEF vars
  <1>33. QED
    BY <1>1, <1>2, <1>3, <1>4, <1>5, <1>6, <1>7, <1>8, <1>9, <1>10, <1>11,
       <1>12, <1>13, <1>14, <1>15, <1>16, <1>17, <1>18, <1>19, <1>20, <1>21,
       <1>22, <1>23, <1>24, <1>25, <1>26, <1>27, <1>28, <1>29, <1>30, <1>31,
       <1>32 DEF Next, Script
-----------------------------------------------------------------------------
(* Data that miss a copy.                                                  *)

\* Every step keeps what is known of the data.
LEMMA StepKeepsRisk ==
    ASSUME ~LateDetection, ~SkipWait, "drivecheck" \notin FaultAt, TypeOK, RiskInv, [Next]_vars
    PROVE  RiskInv'
  <1> USE DEF RiskInv, Quiet, Clear, Working, Steps, Exposed, clusterVars,
     Goto
  <1>1. CASE Run
    BY <1>1 DEF Run
  <1>2. ASSUME NEW h \in Hosts, AlreadyUpgraded(h) PROVE RiskInv'
    BY <1>2 DEF AlreadyUpgraded, First
  <1>3. ASSUME NEW h \in Hosts, Take(h) PROVE RiskInv'
    BY <1>3 DEF Take, First
  <1>4. ASSUME NEW h \in Hosts, QueryFails(h) PROVE RiskInv'
    BY <1>4 DEF QueryFails, Fault, First
  <1>5. CASE Finished
    BY <1>5 DEF Finished
  <1>6. CASE WaitForHealthy("health", "prompt")
    BY <1>6 DEF WaitForHealthy, FullyProtected, AllActive
  <1>7. CASE PrepareVersion
    BY <1>7 DEF PrepareVersion
  <1>8. CASE Stop
    BY <1>8 DEF Stop, TypeOK
  <1>9. CASE MoveDir
    BY <1>9 DEF MoveDir
  <1>10. CASE MoveDirFails
    BY <1>10 DEF MoveDirFails, Fault
  <1>11. CASE Start("restart", "idle")
    BY <1>11 DEF Start
  <1>12. CASE StartFails("restart", "idle")
    BY <1>12 DEF StartFails, Fault
  <1>13. CASE SetVersion
    BY <1>13 DEF SetVersion, Fault
  <1>14. CASE Start("start", "agent")
    BY <1>14 DEF Start
  <1>15. CASE StartFails("start", "rollback")
    BY <1>15 DEF StartFails, Fault
  <1>16. CASE Rollback
    BY <1>16 DEF Rollback
  <1>17. CASE SetBack
    BY <1>17 DEF SetBack, Fault
  <1>18. CASE Start("startback", "bailed")
    BY <1>18 DEF Start
  <1>19. CASE StartFails("startback", "bailed")
    BY <1>19 DEF StartFails, Fault
  <1>20. CASE BailOut
    BY <1>20 DEF BailOut
  <1>21. CASE SetAgent
    BY <1>21 DEF SetAgent, Fault
  <1>22. CASE DriveCheck
    BY <1>22 DEF DriveCheck
  <1>23. CASE DriveCheckFails
    BY <1>23 DEF DriveCheckFails, Fault
  <1>24. CASE WaitForRebuildToStart
    BY <1>24 DEF WaitForRebuildToStart, FullyProtected
  <1>25. CASE WaitForHealthy("healthy", "next")
    BY <1>25 DEF WaitForHealthy, FullyProtected, AllActive
  <1>26. CASE CommandFails
    BY <1>26 DEF CommandFails, Fault
  <1>27. CASE Prompt
    BY <1>27 DEF Prompt
  <1>28. CASE Interrupt
    BY <1>28 DEF Interrupt
  <1>29. ASSUME NEW h \in Hosts, Notice(h) PROVE RiskInv'
    BY <1>29 DEF Notice
  <1>30. ASSUME NEW h \in Hosts, RebuildDone(h) PROVE RiskInv'
    BY <1>30 DEF RebuildDone
  <1>31. ASSUME NEW h \in Hosts, Repair(h) PROVE RiskInv'
    BY <1>31 DEF Repair
  <1>32. CASE UNCHANGED vars
    BY <1>32 DEF vars
  <1>33. QED
    BY <1>1, <1>2, <1>3, <1>4, <1>5, <1>6, <1>7, <1>8, <1>9, <1>10, <1>11,
       <1>12, <1>13, <1>14, <1>15, <1>16, <1>17, <1>18, <1>19, <1>20, <1>21,
       <1>22, <1>23, <1>24, <1>25, <1>26, <1>27, <1>28, <1>29, <1>30, <1>31,
       <1>32 DEF Next, Script
-----------------------------------------------------------------------------
(* Versions.                                                               *)

\* Every step keeps what is known of the versions.
LEMMA StepKeepsVersions ==
    ASSUME ~RepairsInRun, TypeOK, VersionInv, [Next]_vars
    PROVE  VersionInv'
  <1> USE DEF VersionInv, Versions, clusterVars, Goto
  <1>1. CASE Run
    BY <1>1 DEF Run
  <1>2. ASSUME NEW h \in Hosts, AlreadyUpgraded(h) PROVE VersionInv'
    BY <1>2 DEF AlreadyUpgraded, First
  <1>3. ASSUME NEW h \in Hosts, Take(h) PROVE VersionInv'
    BY <1>3 DEF Take, First, SourceVersion
  <1>4. ASSUME NEW h \in Hosts, QueryFails(h) PROVE VersionInv'
    BY <1>4 DEF QueryFails, Fault, First
  <1>5. CASE Finished
    BY <1>5 DEF Finished
  <1>6. CASE WaitForHealthy("health", "prompt")
    BY <1>6 DEF WaitForHealthy
  <1>7. CASE PrepareVersion
    BY <1>7 DEF PrepareVersion
  <1>8. CASE Stop
    BY <1>8 DEF Stop
  <1>9. CASE MoveDir
    BY <1>9 DEF MoveDir
  <1>10. CASE MoveDirFails
    BY <1>10 DEF MoveDirFails, Fault
  <1>11. CASE Start("restart", "idle")
    BY <1>11 DEF Start, TypeOK
  <1>12. CASE StartFails("restart", "idle")
    BY <1>12 DEF StartFails, Fault
  <1>13. CASE SetVersion
    BY <1>13 DEF SetVersion, Fault
  <1>14. CASE Start("start", "agent")
    BY <1>14 DEF Start, TypeOK
  <1>15. CASE StartFails("start", "rollback")
    BY <1>15 DEF StartFails, Fault
  <1>16. CASE Rollback
    BY <1>16 DEF Rollback
  <1>17. CASE SetBack
    BY <1>17 DEF SetBack, Fault
  <1>18. CASE Start("startback", "bailed")
    BY <1>18 DEF Start, TypeOK
  <1>19. CASE StartFails("startback", "bailed")
    BY <1>19 DEF StartFails, Fault
  <1>20. CASE BailOut
    BY <1>20 DEF BailOut
  <1>21. CASE SetAgent
    BY <1>21 DEF SetAgent, Fault
  <1>22. CASE DriveCheck
    BY <1>22 DEF DriveCheck
  <1>23. CASE DriveCheckFails
    BY <1>23 DEF DriveCheckFails, Fault
  <1>24. CASE WaitForRebuildToStart
    BY <1>24 DEF WaitForRebuildToStart
  <1>25. CASE WaitForHealthy("healthy", "next")
    BY <1>25 DEF WaitForHealthy
  <1>26. CASE CommandFails
    BY <1>26 DEF CommandFails, Fault
  <1>27. CASE Prompt
    BY <1>27 DEF Prompt
  <1>28. CASE Interrupt
    BY <1>28 DEF Interrupt
  <1>29. ASSUME NEW h \in Hosts, Notice(h) PROVE VersionInv'
    BY <1>29 DEF Notice
  <1>30. ASSUME NEW h \in Hosts, RebuildDone(h) PROVE VersionInv'
    BY <1>30 DEF RebuildDone
  <1>31. ASSUME NEW h \in Hosts, Repair(h) PROVE VersionInv'
    BY <1>31 DEF Repair, TypeOK
  <1>32. CASE UNCHANGED vars
    BY <1>32 DEF vars
  <1>33. QED
    BY <1>1, <1>2, <1>3, <1>4, <1>5, <1>6, <1>7, <1>8, <1>9, <1>10, <1>11,
       <1>12, <1>13, <1>14, <1>15, <1>16, <1>17, <1>18, <1>19, <1>20, <1>21,
       <1>22, <1>23, <1>24, <1>25, <1>26, <1>27, <1>28, <1>29, <1>30, <1>31,
       <1>32 DEF Next, Script

\* Every step keeps what a rollback puts back.
LEMMA StepKeepsRollback ==
    ASSUME ~DefaultContainer, {"rollback", "setback", "startback"} \cap FaultAt = {}, TypeOK, RollbackInv, [Next]_vars
    PROVE  RollbackInv'
  <1> USE DEF RollbackInv, TypeOK, clusterVars, Goto
  <1>1. CASE Run
    BY <1>1 DEF Run
  <1>2. ASSUME NEW h \in Hosts, AlreadyUpgraded(h) PROVE RollbackInv'
    BY <1>2 DEF AlreadyUpgraded, First
  <1>3. ASSUME NEW h \in Hosts, Take(h) PROVE RollbackInv'
    BY <1>3 DEF Take, First
  <1>4. ASSUME NEW h \in Hosts, QueryFails(h) PROVE RollbackInv'
    BY <1>4 DEF QueryFails, Fault, First
  <1>5. CASE Finished
    BY <1>5 DEF Finished
  <1>6. CASE WaitForHealthy("health", "prompt")
    BY <1>6 DEF WaitForHealthy
  <1>7. CASE PrepareVersion
    BY <1>7 DEF PrepareVersion
  <1>8. CASE Stop
    BY <1>8 DEF Stop
  <1>9. CASE MoveDir
    BY <1>9 DEF MoveDir
  <1>10. CASE MoveDirFails
    BY <1>10 DEF MoveDirFails, Fault
  <1>11. CASE Start("restart", "idle")
    BY <1>11 DEF Start
  <1>12. CASE StartFails("restart", "idle")
    BY <1>12 DEF StartFails, Fault
  <1>13. CASE SetVersion
    BY <1>13 DEF SetVersion, Fault
  <1>14. CASE Start("start", "agent")
    BY <1>14 DEF Start
  <1>15. CASE StartFails("start", "rollback")
    BY <1>15 DEF StartFails, Fault
  <1>16. CASE Rollback
    BY <1>16 DEF Rollback
  <1>17. CASE SetBack
    BY <1>17 DEF SetBack, Fault
  <1>18. CASE Start("startback", "bailed")
    BY <1>18 DEF Start
  <1>19. CASE StartFails("startback", "bailed")
    BY <1>19 DEF StartFails, Fault
  <1>20. CASE BailOut
    BY <1>20 DEF BailOut
  <1>21. CASE SetAgent
    BY <1>21 DEF SetAgent, Fault
  <1>22. CASE DriveCheck
    BY <1>22 DEF DriveCheck
  <1>23. CASE DriveCheckFails
    BY <1>23 DEF DriveCheckFails, Fault
  <1>24. CASE WaitForRebuildToStart
    BY <1>24 DEF WaitForRebuildToStart
  <1>25. CASE WaitForHealthy("healthy", "next")
    BY <1>25 DEF WaitForHealthy
  <1>26. CASE CommandFails
    BY <1>26 DEF CommandFails, Fault
  <1>27. CASE Prompt
    BY <1>27 DEF Prompt
  <1>28. CASE Interrupt
    BY <1>28 DEF Interrupt
  <1>29. ASSUME NEW h \in Hosts, Notice(h) PROVE RollbackInv'
    BY <1>29 DEF Notice
  <1>30. ASSUME NEW h \in Hosts, RebuildDone(h) PROVE RollbackInv'
    BY <1>30 DEF RebuildDone
  <1>31. ASSUME NEW h \in Hosts, Repair(h) PROVE RollbackInv'
    BY <1>31 DEF Repair
  <1>32. CASE UNCHANGED vars
    BY <1>32 DEF vars
  <1>33. QED
    BY <1>1, <1>2, <1>3, <1>4, <1>5, <1>6, <1>7, <1>8, <1>9, <1>10, <1>11,
       <1>12, <1>13, <1>14, <1>15, <1>16, <1>17, <1>18, <1>19, <1>20, <1>21,
       <1>22, <1>23, <1>24, <1>25, <1>26, <1>27, <1>28, <1>29, <1>30, <1>31,
       <1>32 DEF Next, Script
\* Steps that change what data miss a copy, and steps that bring hosts up.
RiskKept == risk' = risk
RiskStep == Stop \/ \E h \in Hosts : Notice(h) \/ RebuildDone(h)
UpKept == up' = up
UpStep == Stop \/ \E k \in Hosts : up' = [up EXCEPT ![k] = TRUE]

LEMMA RiskOfOthers ==
    ASSUME [Next]_vars
    PROVE  RiskKept \/ RiskStep
  <1> USE DEF RiskKept, clusterVars, Goto
  <1>1. CASE Run
    BY <1>1 DEF Run
  <1>2. ASSUME NEW h \in Hosts, AlreadyUpgraded(h) PROVE RiskKept \/ RiskStep
    BY <1>2 DEF AlreadyUpgraded, First
  <1>3. ASSUME NEW h \in Hosts, Take(h) PROVE RiskKept \/ RiskStep
    BY <1>3 DEF Take, First
  <1>4. ASSUME NEW h \in Hosts, QueryFails(h) PROVE RiskKept \/ RiskStep
    BY <1>4 DEF QueryFails, First
  <1>5. CASE Finished
    BY <1>5 DEF Finished
  <1>6. CASE WaitForHealthy("health", "prompt")
    BY <1>6 DEF WaitForHealthy
  <1>7. CASE PrepareVersion
    BY <1>7 DEF PrepareVersion
  <1>8. CASE Stop
    BY <1>8 DEF RiskStep
  <1>9. CASE MoveDir
    BY <1>9 DEF MoveDir
  <1>10. CASE MoveDirFails
    BY <1>10 DEF MoveDirFails
  <1>11. CASE Start("restart", "idle")
    BY <1>11 DEF Start
  <1>12. CASE StartFails("restart", "idle")
    BY <1>12 DEF StartFails
  <1>13. CASE SetVersion
    BY <1>13 DEF SetVersion
  <1>14. CASE Start("start", "agent")
    BY <1>14 DEF Start
  <1>15. CASE StartFails("start", "rollback")
    BY <1>15 DEF StartFails
  <1>16. CASE Rollback
    BY <1>16 DEF Rollback
  <1>17. CASE SetBack
    BY <1>17 DEF SetBack
  <1>18. CASE Start("startback", "bailed")
    BY <1>18 DEF Start
  <1>19. CASE StartFails("startback", "bailed")
    BY <1>19 DEF StartFails
  <1>20. CASE BailOut
    BY <1>20 DEF BailOut
  <1>21. CASE SetAgent
    BY <1>21 DEF SetAgent
  <1>22. CASE DriveCheck
    BY <1>22 DEF DriveCheck
  <1>23. CASE DriveCheckFails
    BY <1>23 DEF DriveCheckFails
  <1>24. CASE WaitForRebuildToStart
    BY <1>24 DEF WaitForRebuildToStart
  <1>25. CASE WaitForHealthy("healthy", "next")
    BY <1>25 DEF WaitForHealthy
  <1>26. CASE CommandFails
    BY <1>26 DEF CommandFails
  <1>27. CASE Prompt
    BY <1>27 DEF Prompt
  <1>28. CASE Interrupt
    BY <1>28 DEF Interrupt
  <1>29. ASSUME NEW h \in Hosts, Notice(h) PROVE RiskKept \/ RiskStep
    BY <1>29 DEF RiskStep
  <1>30. ASSUME NEW h \in Hosts, RebuildDone(h) PROVE RiskKept \/ RiskStep
    BY <1>30 DEF RiskStep
  <1>31. ASSUME NEW h \in Hosts, Repair(h) PROVE RiskKept \/ RiskStep
    BY <1>31 DEF Repair
  <1>32. CASE UNCHANGED vars
    BY <1>32 DEF vars
  <1>33. QED
    BY <1>1, <1>2, <1>3, <1>4, <1>5, <1>6, <1>7, <1>8, <1>9, <1>10, <1>11,
       <1>12, <1>13, <1>14, <1>15, <1>16, <1>17, <1>18, <1>19, <1>20, <1>21,
       <1>22, <1>23, <1>24, <1>25, <1>26, <1>27, <1>28, <1>29, <1>30, <1>31,
       <1>32 DEF Next, Script

LEMMA UpOfOthers ==
    ASSUME host \in Hosts, [Next]_vars
    PROVE  UpKept \/ UpStep
  <1> USE DEF UpKept, clusterVars, Goto
  <1>1. CASE Run
    BY <1>1 DEF Run
  <1>2. ASSUME NEW h \in Hosts, AlreadyUpgraded(h) PROVE UpKept \/ UpStep
    BY <1>2 DEF AlreadyUpgraded, First
  <1>3. ASSUME NEW h \in Hosts, Take(h) PROVE UpKept \/ UpStep
    BY <1>3 DEF Take, First
  <1>4. ASSUME NEW h \in Hosts, QueryFails(h) PROVE UpKept \/ UpStep
    BY <1>4 DEF QueryFails, First
  <1>5. CASE Finished
    BY <1>5 DEF Finished
  <1>6. CASE WaitForHealthy("health", "prompt")
    BY <1>6 DEF WaitForHealthy
  <1>7. CASE PrepareVersion
    BY <1>7 DEF PrepareVersion
  <1>8. CASE Stop
    BY <1>8 DEF UpStep
  <1>9. CASE MoveDir
    BY <1>9 DEF MoveDir
  <1>10. CASE MoveDirFails
    BY <1>10 DEF MoveDirFails
  <1>11. CASE Start("restart", "idle")
    BY <1>11 DEF Start, UpStep
  <1>12. CASE StartFails("restart", "idle")
    BY <1>12 DEF StartFails
  <1>13. CASE SetVersion
    BY <1>13 DEF SetVersion
  <1>14. CASE Start("start", "agent")
    BY <1>14 DEF Start, UpStep
  <1>15. CASE StartFails("start", "rollback")
    BY <1>15 DEF StartFails
  <1>16. CASE Rollback
    BY <1>16 DEF Rollback
  <1>17. CASE SetBack
    BY <1>17 DEF SetBack
  <1>18. CASE Start("startback", "bailed")
    BY <1>18 DEF Start, UpStep
  <1>19. CASE StartFails("startback", "bailed")
    BY <1>19 DEF StartFails
  <1>20. CASE BailOut
    BY <1>20 DEF BailOut
  <1>21. CASE SetAgent
    BY <1>21 DEF SetAgent
  <1>22. CASE DriveCheck
    BY <1>22 DEF DriveCheck
  <1>23. CASE DriveCheckFails
    BY <1>23 DEF DriveCheckFails
  <1>24. CASE WaitForRebuildToStart
    BY <1>24 DEF WaitForRebuildToStart
  <1>25. CASE WaitForHealthy("healthy", "next")
    BY <1>25 DEF WaitForHealthy
  <1>26. CASE CommandFails
    BY <1>26 DEF CommandFails
  <1>27. CASE Prompt
    BY <1>27 DEF Prompt
  <1>28. CASE Interrupt
    BY <1>28 DEF Interrupt
  <1>29. ASSUME NEW h \in Hosts, Notice(h) PROVE UpKept \/ UpStep
    BY <1>29 DEF Notice
  <1>30. ASSUME NEW h \in Hosts, RebuildDone(h) PROVE UpKept \/ UpStep
    BY <1>30 DEF RebuildDone
  <1>31. ASSUME NEW h \in Hosts, Repair(h) PROVE UpKept \/ UpStep
    BY <1>31 DEF Repair, UpStep
  <1>32. CASE UNCHANGED vars
    BY <1>32 DEF vars
  <1>33. QED
    BY <1>1, <1>2, <1>3, <1>4, <1>5, <1>6, <1>7, <1>8, <1>9, <1>10, <1>11,
       <1>12, <1>13, <1>14, <1>15, <1>16, <1>17, <1>18, <1>19, <1>20, <1>21,
       <1>22, <1>23, <1>24, <1>25, <1>26, <1>27, <1>28, <1>29, <1>30, <1>31,
       <1>32 DEF Next, Script
-----------------------------------------------------------------------------
(* The theorems.                                                           *)

LEMMA InitInv == Init => IInv
  <1> SUFFICES ASSUME Init PROVE IInv
    OBVIOUS
  <1>1. TypeOK
    BY DEF Init, TypeOK, Versions
  <1>2. RiskInv
    BY DEF Init, RiskInv, Quiet, Clear, Working, Steps, Exposed
  <1>3. VersionInv
    BY DEF Init, VersionInv, Versions
  <1>4. RollbackInv
    BY DEF Init, RollbackInv
  <1>5. QED
    BY <1>1, <1>2, <1>3, <1>4 DEF IInv

\* The types of all variables (upgrade_many.py: the loop over the hosts).
THEOREM TypeCorrect == Spec => []TypeOK
  <1>1. Init => TypeOK
    BY InitInv DEF IInv
  <1>2. QED
    BY <1>1, StepKeepsType, PTL DEF Spec

\* Hosts are upgraded one after the other as RollingMaintenance promises, over
\* rollbacks and reruns, when the rebuild wait is neither skipped nor lost to a
\* failed query (line 242) and a run begins only once the cluster has noticed what
\* the run before it stopped, for which no line of the script waits.
THEOREM ImplementsRolling ==
    ASSUME ~LateDetection, ~SkipWait, "drivecheck" \notin FaultAt
    PROVE  Spec => OneMachineAtATime
  <1>1. Init => TypeOK /\ RiskInv /\ Rolling!Init
    BY InitInv DEF IInv, Init, Rolling!Init, Exposed
  <1>2. TypeOK /\ RiskInv /\ [Next]_vars => (TypeOK /\ RiskInv)'
    BY StepKeepsType, StepKeepsRisk
  <1>3. RiskInv /\ RiskInv' /\ [Next]_vars => [Rolling!Next]_Exposed
    <2> SUFFICES ASSUME RiskInv, RiskInv', [Next]_vars, Exposed' # Exposed PROVE Rolling!Next
      OBVIOUS
    <2>1. RiskKept \/ RiskStep
      BY RiskOfOthers
    <2>2. CASE Stop
      <3>1. Exposed = {} /\ Exposed' = {host} /\ host \in Hosts
        BY <2>2 DEF Stop, RiskInv, Clear, Exposed
      <3>2. QED
        BY <3>1 DEF Rolling!Next, Rolling!TakeDown
    <2>3. ASSUME NEW h \in Hosts, Notice(h) PROVE FALSE
      BY <2>3 DEF Notice, RiskInv, Exposed
    <2>4. ASSUME NEW h \in Hosts, RebuildDone(h) PROVE Rolling!Next
      <3>1. h \in Exposed /\ Exposed' = Exposed \ {h}
        BY <2>4 DEF RebuildDone, RiskInv, Exposed
      <3>2. QED
        BY <3>1 DEF Rolling!Next, Rolling!Reprotected
    <2>5. QED
      BY <2>1, <2>2, <2>3, <2>4 DEF RiskKept, RiskStep, Exposed
  <1>4. QED
    BY <1>1, <1>2, <1>3, PTL DEF Spec, OneMachineAtATime, Rolling!Spec

\* A host that runs the target version is never stopped again (line 172), unless
\* it is repaired under the script.
THEOREM UpgradedAreLeftAlone ==
    ASSUME ~RepairsInRun
    PROVE  Spec => UpgradedStayUp
  <1>1. Init => TypeOK /\ VersionInv
    BY InitInv DEF IInv
  <1>2. TypeOK /\ VersionInv /\ [Next]_vars => (TypeOK /\ VersionInv)'
    BY StepKeepsType, StepKeepsVersions
  <1>3. VersionInv /\ [Next]_vars =>
          [\A h \in Hosts : up[h] /\ release[h] = "target" => up'[h]]_vars
    <2> SUFFICES ASSUME VersionInv, [Next]_vars, NEW h \in Hosts, up[h], release[h] = "target"
                 PROVE  up'[h]
      OBVIOUS
    <2>1. up' = up \/ Stop \/ \E k \in Hosts : up' = [up EXCEPT ![k] = TRUE]
      BY UpOfOthers DEF VersionInv, UpKept, UpStep
    <2>2. CASE Stop
      BY <2>2 DEF Stop, VersionInv
    <2>3. QED
      BY <2>1, <2>2 DEF VersionInv
  <1>4. QED
    BY <1>1, <1>2, <1>3, PTL DEF Spec, UpgradedStayUp

\* When the script gives up on a container, it runs the source version again
\* (line 317), unless it is "default" or a step of the rollback fails.
THEOREM RollbackIsComplete ==
    ASSUME ~DefaultContainer, {"rollback", "setback", "startback"} \cap FaultAt = {}
    PROVE  Spec => []RollbackStartsBackUp
  <1>1. Init => TypeOK /\ RollbackInv
    BY InitInv DEF IInv
  <1>2. TypeOK /\ RollbackInv /\ [Next]_vars => (TypeOK /\ RollbackInv)'
    BY StepKeepsType, StepKeepsRollback
  <1>3. RollbackInv => RollbackStartsBackUp
    BY DEF RollbackInv, RollbackStartsBackUp
  <1>4. QED
    BY <1>1, <1>2, <1>3, PTL DEF Spec
=============================================================================
