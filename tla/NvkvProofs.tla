---------------------------- MODULE NvkvProofs ----------------------------
(***************************************************************************)
(* Proofs about NvkvExhaustion, for any nodes and drives, any limits, any  *)
(* faults, and any number of checks that are killed and started again.     *)
(*                                                                         *)
(* A restart is decided on when no more than the failures allowed were     *)
(* seen; those that restart unseen are put down as missed.  From then on   *)
(* the others do not grow until the restart adds its node.  A node missed  *)
(* was away and a fault is owed for it, as the wait for it was cut short.  *)
(* The node's drives were each seen *)
(* Unwritable, and only a node that fails and returns undoes that, for all *)
(* its drives at once, as nothing is asked of them any more.               *)
(*                                                                         *)
(* A fault is owed for every node that is away and for every node of which *)
(* drives were asked to become Unwritable and none is seen so: a check     *)
(* that does not see them sets others instead.  A reset asks a node that   *)
(* was seen, or one that came back since and so has its fault to spend.    *)
(***************************************************************************)
EXTENDS NvkvExhaustion, FiniteSetTheorems, TLAPS

NodeTypes ==
    /\ node \in [Nodes -> {"up", "restarting", "failed"}]
    /\ risk \in [Nodes -> {"none", "unseen", "rebuilding"}]

RestartInv ==
    /\ pc = "restart" => Cardinality(Exposed) <= AllowedFailures
    /\ Cardinality(Exposed) <= AllowedFailures + 1

\* A fault was spent on every node that was missed.
MissedInv ==
    /\ \A n \in missed : node[n] = "restarting"
    /\ Cardinality(missed) <= faults

DrainInv ==
    /\ pc = "drain" => todo \subseteq DrivesOf(target)
    /\ pc \in {"delay", "restart"} => todo = {}
    /\ pc \in {"drain", "delay", "restart"} =>
         \/ \A d \in DrivesOf(target) \ todo : state[d] = "Unwritable"
         \/ \A d \in DrivesOf(target) : state[d] = "Writable"

-----------------------------------------------------------------------------
(* What the drives that are not Writable are owed to.                      *)

\* Nodes that the script sees Unwritable drives of, and nodes that are away.
Known == {n \in Nodes : \E d \in DrivesOf(n) : state[d] = "Unwritable"}
Away == {n \in Nodes : node[n] # "up"}

\* A fault is owed for a node of which drives were asked and none is seen Unwritable,
\* and for a node that is away: it comes back with its drives Writable.  The step that
\* runs may owe one more.
Owed == (Affected \ Known) \cup Away
Excused ==
    IF pc = "setting" THEN {Owner[fullest]}
    ELSE IF pc = "return" /\ node[target] = "restarting" THEN {target} ELSE {}
OwedInv == Cardinality(Owed \ Excused) <= faults

\* The node that will be reset was counted, or a fault took it away since.
TargetInv ==
    target # None /\ pc \in {"decide", "failures", "reset", "set"} =>
        /\ Cardinality(Affected \ {target}) + 1 <= MaxUnwritable + faults
        /\ target \in Away \/ target \notin Known
           => Cardinality(Owed \ {target}) + 1 <= faults

\* What the check did not see of the drives that are not Writable.
SeenInv == pc = "decide" => Cardinality(Affected \ {Owner[d] : d \in seen}) <= faults

\* The drive that is set becomes Unwritable or its node has come back.
SettingInv ==
    pc = "setting" => \/ state[fullest] # "Writable"
                      \/ \A d \in DrivesOf(Owner[fullest]) : state[d] = "Writable"

ReturnInv ==
    /\ target # None => DrivesOf(target) # {}
    /\ pc = "return" /\ node[target] = "restarting" => todo = DrivesOf(target)
    /\ pc = "look" => node[target] # "restarting"

SpreadInv ==
    UnwritableBounded /\ OwedInv /\ TargetInv /\ SeenInv /\ SettingInv /\ ReturnInv

IInv == TypeOK /\ RestartInv /\ MissedInv /\ DrainInv /\ SpreadInv

-----------------------------------------------------------------------------
(* Types.                                                                  *)

\* A fault is counted.
LEMMA FaultIsCounted == faults \in Nat /\ Fault => faults' \in Nat
  BY DEF Fault

\* Every step keeps the types.
LEMMA StepKeepsType ==
    ASSUME TypeOK, [Next]_vars
    PROVE  TypeOK'
  <1> USE DEF TypeOK, Phases, Goto, cluster
  <1>1. CASE CheckOnce
    BY <1>1, NvkvAssumption DEF CheckOnce, InOrder, Unwritables
  <1>2. CASE AllUnwritable
    BY <1>2 DEF AllUnwritable, Critical, Return
  <1>3. CASE NothingFull
    BY <1>3 DEF NothingFull
  <1>4. CASE SetUnwritable
    BY <1>4 DEF SetUnwritable, Ask
  <1>5. CASE Set
    BY <1>5 DEF Set, EndCheck, Return
  <1>6. CASE TooManyUnwritables
    BY <1>6 DEF TooManyUnwritables
  <1>7. CASE FailuresChecked
    BY <1>7 DEF FailuresChecked, Critical, Return
  <1>8. CASE NothingToReset
    BY <1>8 DEF NothingToReset, EndCheck, Return
  <1>9. CASE Reset
    BY <1>9, NvkvAssumption DEF Reset
  <1>10. CASE SetAll
    BY <1>10 DEF SetAll, Ask, DrivesOf
  <1>11. ASSUME NEW d \in Drives, Drained(d) PROVE TypeOK'
    BY <1>11 DEF Drained, IsUnwritable
  <1>12. ASSUME NEW d \in Drives, Returned(d) PROVE TypeOK'
    BY <1>12 DEF Returned
  <1>13. CASE AllDrained
    BY <1>13 DEF AllDrained
  <1>14. CASE DelayOver
    BY <1>14 DEF DelayOver, EndCheck, Return, Unnoticed
  <1>15. CASE RestartNode
    BY <1>15 DEF RestartNode, Down, DrivesOf
  <1>16. CASE AllReturned
    BY <1>16 DEF AllReturned
  <1>17. CASE StillFull
    BY <1>17 DEF StillFull, Critical, Return
  <1>18. CASE ResetDone
    BY <1>18 DEF ResetDone, EndCheck, Return
  <1>19. CASE CommandFails
    BY <1>19, FaultIsCounted DEF CommandFails, Critical, Return
  <1>20. CASE TimedOut
    BY <1>20, FaultIsCounted DEF TimedOut, Critical, Return
  <1>21. CASE Killed
    BY <1>21, FaultIsCounted DEF Killed, EndCheck, Return
  <1>22. CASE Unstall
    BY <1>22 DEF Unstall
  <1>23. ASSUME NEW d \in Drives, Fill(d) PROVE TypeOK'
    BY <1>23 DEF Fill
  <1>24. ASSUME NEW d \in Drives, BecomesUnwritable(d) PROVE TypeOK'
    BY <1>24 DEF BecomesUnwritable
  <1>25. ASSUME NEW n \in Nodes, Fails(n) PROVE TypeOK'
    BY <1>25, FaultIsCounted DEF Fails, Down
  <1>26. ASSUME NEW n \in Nodes, ComesBack(n) PROVE TypeOK'
    BY <1>26, FaultIsCounted DEF ComesBack, DrivesOf
  <1>27. ASSUME NEW n \in Nodes, Notice(n) PROVE TypeOK'
    BY <1>27 DEF Notice
  <1>28. ASSUME NEW n \in Nodes, RebuildDone(n) PROVE TypeOK'
    BY <1>28 DEF RebuildDone
  <1>29. CASE UNCHANGED vars
    BY <1>29 DEF vars
  <1>30. QED
    BY <1>1, <1>2, <1>3, <1>4, <1>5, <1>6, <1>7, <1>8, <1>9, <1>10, <1>11,
       <1>12, <1>13, <1>14, <1>15, <1>16, <1>17, <1>18, <1>19, <1>20, <1>21,
       <1>22, <1>23, <1>24, <1>25, <1>26, <1>27, <1>28, <1>29 DEF Next,
       Script, Recovery
-----------------------------------------------------------------------------
(* Restarts.                                                               *)

\* Whatever is no restart adds no node to those that were restarted.
LEMMA FewerKeepRestarts ==
    ASSUME RestartInv, pc' = "restart" => pc = "restart", Exposed' \subseteq Exposed
    PROVE  RestartInv'
  <1>1. IsFiniteSet(Exposed) /\ Cardinality(Exposed) \in Nat
    BY NvkvAssumption, FS_Subset, FS_CardinalityType DEF Exposed
  <1>2. Cardinality(Exposed') <= Cardinality(Exposed) /\ Cardinality(Exposed') \in Nat
    BY <1>1, FS_Subset, FS_CardinalityType
  <1>3. QED
    BY <1>1, <1>2, NvkvAssumption DEF RestartInv, Exposed

\* Every step keeps the number of restarts.
LEMMA StepKeepsRestarts ==
    ASSUME NodeTypes, RestartInv, [Next]_vars
    PROVE  RestartInv'
  <1> USE DEF cluster, Goto
  <1>1. CASE CheckOnce
    BY <1>1, FewerKeepRestarts DEF CheckOnce, Exposed
  <1>2. CASE AllUnwritable
    BY <1>2, FewerKeepRestarts DEF AllUnwritable, Critical, Return, Exposed
  <1>3. CASE NothingFull
    BY <1>3, FewerKeepRestarts DEF NothingFull, Exposed
  <1>4. CASE SetUnwritable
    BY <1>4, FewerKeepRestarts DEF SetUnwritable, Exposed
  <1>5. CASE Set
    BY <1>5, FewerKeepRestarts DEF Set, EndCheck, Return, Exposed
  <1>6. CASE TooManyUnwritables
    BY <1>6, FewerKeepRestarts DEF TooManyUnwritables, Exposed
  <1>7. CASE FailuresChecked
    BY <1>7, FewerKeepRestarts DEF FailuresChecked, Critical, Return,
       Exposed
  <1>8. CASE NothingToReset
    BY <1>8, FewerKeepRestarts DEF NothingToReset, EndCheck, Return, Exposed
  <1>9. CASE Reset
    BY <1>9, FewerKeepRestarts DEF Reset, Exposed
  <1>10. CASE SetAll
    BY <1>10, FewerKeepRestarts DEF SetAll, Exposed
  <1>11. ASSUME NEW d \in Drives, Drained(d) PROVE RestartInv'
    BY <1>11, FewerKeepRestarts DEF Drained, Exposed
  <1>12. ASSUME NEW d \in Drives, Returned(d) PROVE RestartInv'
    BY <1>12, FewerKeepRestarts DEF Returned, Exposed
  <1>13. CASE AllDrained
    BY <1>13, FewerKeepRestarts DEF AllDrained, Exposed
  <1>14. CASE DelayOver
    <2>1. CASE ~TooManyFailures
      <3>1. Exposed' \subseteq {n \in Nodes : risk[n] = "rebuilding"}
        BY <1>14, <2>1 DEF DelayOver, EndCheck, Exposed, Unnoticed, NodeTypes
      <3>2. IsFiniteSet({n \in Nodes : risk[n] = "rebuilding"})
        BY NvkvAssumption, FS_Subset
      <3>3. Cardinality(Exposed') <= NumFailures /\ NumFailures \in Nat /\ Cardinality(Exposed') \in Nat
        BY <3>1, <3>2, FS_Subset, FS_CardinalityType DEF NumFailures
      <3>4. Cardinality(Exposed') <= AllowedFailures
        BY <2>1, <3>3, NvkvAssumption DEF TooManyFailures
      <3>5. QED
        BY <3>3, <3>4, NvkvAssumption DEF RestartInv, Exposed
    <2>2. CASE TooManyFailures
      BY <1>14, <2>2, FewerKeepRestarts DEF DelayOver, EndCheck, Return, Goto, cluster, Exposed
    <2>3. QED
      BY <2>1, <2>2
  <1>15. CASE RestartNode
    <2>1. /\ IsFiniteSet(Exposed) /\ Cardinality(Exposed) \in Nat
          /\ Cardinality(Exposed) <= AllowedFailures
      BY <1>15, NvkvAssumption, FS_Subset, FS_CardinalityType DEF RestartNode, Exposed, RestartInv
    <2>2. Exposed' \subseteq Exposed \cup {target}
      BY <1>15 DEF RestartNode, Down, Exposed, NodeTypes
    <2>3. /\ IsFiniteSet(Exposed \cup {target})
          /\ Cardinality(Exposed \cup {target}) <= AllowedFailures + 1
      <3>1. /\ IsFiniteSet(Exposed \cup {target})
            /\ \/ Cardinality(Exposed \cup {target}) = Cardinality(Exposed)
               \/ Cardinality(Exposed \cup {target}) = Cardinality(Exposed) + 1
        BY <2>1, FS_AddElement
      <3>2. QED
        BY <2>1, <3>1, NvkvAssumption
    <2>4. Cardinality(Exposed') <= AllowedFailures + 1
      <3>1. /\ Cardinality(Exposed') <= Cardinality(Exposed \cup {target})
            /\ Cardinality(Exposed') \in Nat /\ Cardinality(Exposed \cup {target}) \in Nat
        BY <2>2, <2>3, FS_Subset, FS_CardinalityType
      <3>2. QED
        BY <2>3, <3>1, NvkvAssumption
    <2>5. QED
      BY <1>15, <2>4 DEF RestartNode, Goto, RestartInv, Exposed
  <1>16. CASE AllReturned
    BY <1>16, FewerKeepRestarts DEF AllReturned, Exposed
  <1>17. CASE StillFull
    BY <1>17, FewerKeepRestarts DEF StillFull, Critical, Return, Exposed
  <1>18. CASE ResetDone
    BY <1>18, FewerKeepRestarts DEF ResetDone, EndCheck, Return, Exposed
  <1>19. CASE CommandFails
    BY <1>19, FewerKeepRestarts DEF CommandFails, Critical, Return, Exposed
  <1>20. CASE TimedOut
    BY <1>20, FewerKeepRestarts DEF TimedOut, Critical, Return, Exposed
  <1>21. CASE Killed
    BY <1>21, FewerKeepRestarts DEF Killed, EndCheck, Return, Exposed
  <1>22. CASE Unstall
    BY <1>22, FewerKeepRestarts DEF Unstall, Exposed
  <1>23. ASSUME NEW d \in Drives, Fill(d) PROVE RestartInv'
    BY <1>23, FewerKeepRestarts DEF Fill, Exposed
  <1>24. ASSUME NEW d \in Drives, BecomesUnwritable(d) PROVE RestartInv'
    BY <1>24, FewerKeepRestarts DEF BecomesUnwritable, Exposed
  <1>25. ASSUME NEW n \in Nodes, Fails(n) PROVE RestartInv'
    BY <1>25, FewerKeepRestarts DEF Fails, Down, Exposed, NodeTypes
  <1>26. ASSUME NEW n \in Nodes, ComesBack(n) PROVE RestartInv'
    BY <1>26, FewerKeepRestarts DEF ComesBack, Exposed, NodeTypes
  <1>27. ASSUME NEW n \in Nodes, Notice(n) PROVE RestartInv'
    BY <1>27, FewerKeepRestarts DEF Notice, Exposed, NodeTypes
  <1>28. ASSUME NEW n \in Nodes, RebuildDone(n) PROVE RestartInv'
    BY <1>28, FewerKeepRestarts DEF RebuildDone, Exposed, NodeTypes
  <1>29. CASE UNCHANGED vars
    BY <1>29, FewerKeepRestarts DEF vars, Exposed
  <1>30. QED
    BY <1>1, <1>2, <1>3, <1>4, <1>5, <1>6, <1>7, <1>8, <1>9, <1>10, <1>11,
       <1>12, <1>13, <1>14, <1>15, <1>16, <1>17, <1>18, <1>19, <1>20, <1>21,
       <1>22, <1>23, <1>24, <1>25, <1>26, <1>27, <1>28, <1>29 DEF Next,
       Script, Recovery
-----------------------------------------------------------------------------
(* Drains.                                                                 *)

\* Every step keeps what was seen of the drives.
LEMMA StepKeepsDrains ==
    ASSUME TypeOK, DrainInv, [Next]_vars
    PROVE  DrainInv'
  <1> USE DEF DrainInv, TypeOK, cluster, Goto, DrivesOf
  <1>1. CASE CheckOnce
    BY <1>1 DEF CheckOnce
  <1>2. CASE AllUnwritable
    BY <1>2 DEF AllUnwritable, Critical, Return
  <1>3. CASE NothingFull
    BY <1>3 DEF NothingFull
  <1>4. CASE SetUnwritable
    BY <1>4 DEF SetUnwritable, Ask
  <1>5. CASE Set
    BY <1>5 DEF Set, EndCheck, Return
  <1>6. CASE TooManyUnwritables
    BY <1>6 DEF TooManyUnwritables
  <1>7. CASE FailuresChecked
    BY <1>7 DEF FailuresChecked, Critical, Return
  <1>8. CASE NothingToReset
    BY <1>8 DEF NothingToReset, EndCheck, Return
  <1>9. CASE Reset
    BY <1>9 DEF Reset
  <1>10. CASE SetAll
    BY <1>10 DEF SetAll, Ask
  <1>11. ASSUME NEW d \in Drives, Drained(d) PROVE DrainInv'
    BY <1>11 DEF Drained, IsUnwritable
  <1>12. ASSUME NEW d \in Drives, Returned(d) PROVE DrainInv'
    BY <1>12 DEF Returned
  <1>13. CASE AllDrained
    BY <1>13 DEF AllDrained
  <1>14. CASE DelayOver
    BY <1>14 DEF DelayOver, EndCheck, Return
  <1>15. CASE RestartNode
    BY <1>15 DEF RestartNode, Down
  <1>16. CASE AllReturned
    BY <1>16 DEF AllReturned
  <1>17. CASE StillFull
    BY <1>17 DEF StillFull, Critical, Return
  <1>18. CASE ResetDone
    BY <1>18 DEF ResetDone, EndCheck, Return
  <1>19. CASE CommandFails
    BY <1>19 DEF CommandFails, Critical, Return
  <1>20. CASE TimedOut
    BY <1>20 DEF TimedOut, Critical, Return
  <1>21. CASE Killed
    BY <1>21 DEF Killed, EndCheck, Return
  <1>22. CASE Unstall
    BY <1>22 DEF Unstall
  <1>23. ASSUME NEW d \in Drives, Fill(d) PROVE DrainInv'
    BY <1>23 DEF Fill
  <1>24. ASSUME NEW d \in Drives, BecomesUnwritable(d) PROVE DrainInv'
    BY <1>24 DEF BecomesUnwritable
  <1>25. ASSUME NEW n \in Nodes, Fails(n) PROVE DrainInv'
    BY <1>25 DEF Fails, Down
  <1>26. ASSUME NEW n \in Nodes, ComesBack(n) PROVE DrainInv'
    BY <1>26 DEF ComesBack
  <1>27. ASSUME NEW n \in Nodes, Notice(n) PROVE DrainInv'
    BY <1>27 DEF Notice
  <1>28. ASSUME NEW n \in Nodes, RebuildDone(n) PROVE DrainInv'
    BY <1>28 DEF RebuildDone
  <1>29. CASE UNCHANGED vars
    BY <1>29 DEF vars
  <1>30. QED
    BY <1>1, <1>2, <1>3, <1>4, <1>5, <1>6, <1>7, <1>8, <1>9, <1>10, <1>11,
       <1>12, <1>13, <1>14, <1>15, <1>16, <1>17, <1>18, <1>19, <1>20, <1>21,
       <1>22, <1>23, <1>24, <1>25, <1>26, <1>27, <1>28, <1>29 DEF Next,
       Script, Recovery
-----------------------------------------------------------------------------
(* Drives that are not Writable.                                           *)

\* Sets of nodes are finite, and the smaller ones have fewer nodes.
LEMMA NodeSets ==
    ASSUME NEW S \in SUBSET Nodes, NEW T \in SUBSET S
    PROVE  Cardinality(S) \in Nat /\ Cardinality(T) \in Nat /\ Cardinality(T) <= Cardinality(S)
  <1>1. IsFiniteSet(S)
    BY NvkvAssumption, FS_Subset
  <1>2. QED
    BY <1>1, FS_Subset, FS_CardinalityType

\* One node more or less.
LEMMA WithoutOne ==
    ASSUME NEW S \in SUBSET Nodes, NEW n
    PROVE  /\ Cardinality(S) \in Nat /\ Cardinality(S \ {n}) \in Nat
           /\ Cardinality(S) <= Cardinality(S \ {n}) + 1
           /\ n \in S => Cardinality(S) = Cardinality(S \ {n}) + 1
  <1>1. IsFiniteSet(S)
    BY NvkvAssumption, FS_Subset
  <1>2. Cardinality(S) \in Nat
    BY <1>1, FS_CardinalityType
  <1>3. Cardinality(S \ {n}) = IF n \in S THEN Cardinality(S) - 1 ELSE Cardinality(S)
    BY <1>1, FS_RemoveElement
  <1>4. S \ {n} \in SUBSET S
    OBVIOUS
  <1>5. Cardinality(S \ {n}) \in Nat
    BY <1>4, NodeSets
  <1>6. QED
    BY <1>2, <1>3, <1>5

\* Affected and owed nodes are nodes.
LEMMA AllNodes ==
    /\ Affected \in SUBSET Nodes /\ Owed \in SUBSET Nodes /\ Known \subseteq Affected
    /\ Away \subseteq Owed
  BY DEF Affected, Owed, Known, Away

\* Steps that change neither drives nor nodes.
LEMMA SameCluster ==
    ASSUME UNCHANGED <<state, node>>
    PROVE  /\ Affected' = Affected /\ Known' = Known /\ Away' = Away /\ Owed' = Owed
  BY DEF Affected, Known, Away, Owed, DrivesOf

\* A check that ends has paid for what it leaves behind.
LEMMA CheckEnds ==
    ASSUME TypeOK, SpreadInv, UNCHANGED <<state, node>>, pc' = "idle", target' = None,
           \/ faults' = faults + 1
           \/ faults' = faults /\ Cardinality(Owed) <= faults
    PROVE  SpreadInv'
  <1> DEFINE affected == Affected
             owed == Owed
             excused == Excused
             few == owed \ excused
  <1>1. faults \in Nat /\ MaxUnwritable \in Nat
    BY NvkvAssumption DEF TypeOK
  <1>2. affected' = affected /\ owed' = owed
    BY SameCluster
  <1>3. Excused' = {}
    BY DEF Excused
  <1>4. (owed \ excused)' = owed
    BY <1>2, <1>3
  <1>5. Cardinality(owed) <= Cardinality(few) + 1 /\ Cardinality(owed) \in Nat /\ Cardinality(few) \in Nat
    <2>1. owed \in SUBSET Nodes
      BY AllNodes
    <2>2. PICK n : excused = {n} \/ excused = {}
      BY DEF Excused
    <2>3. Cardinality(owed \ {n}) \in Nat /\ Cardinality(owed) \in Nat /\ Cardinality(owed) <= Cardinality(owed \ {n}) + 1
      BY <2>1, WithoutOne
    <2>4. owed \ {} = owed
      OBVIOUS
    <2>5. QED
      BY <2>2, <2>3, <2>4
  <1>6. Cardinality(affected) \in Nat /\ Cardinality(affected) <= MaxUnwritable + faults
    BY AllNodes, NodeSets DEF SpreadInv, UnwritableBounded
  <1>7. Cardinality(few) <= faults
    BY DEF SpreadInv, OwedInv
  <1>8. Cardinality(owed) <= faults' /\ faults' \in Nat /\ faults <= faults'
    BY <1>1, <1>5, <1>7
  <1>9. UnwritableBounded'
    <2>1. Cardinality(affected)' = Cardinality(affected)
      BY <1>2
    <2>2. Cardinality(affected)' <= MaxUnwritable + faults'
      <3> HIDE DEF affected
      <3>1. QED
        BY <1>1, <1>6, <1>8, <2>1
    <2>3. QED
      BY <2>2 DEF UnwritableBounded
  <1>10. OwedInv'
    BY <1>4, <1>8 DEF OwedInv
  <1>11. QED
    BY <1>9, <1>10 DEF SpreadInv, TargetInv, SeenInv, SettingInv, ReturnInv

\* A check that goes on decides for the reset of the node that it chose.
LEMMA CheckGoesOn ==
    ASSUME TypeOK, SpreadInv, UNCHANGED <<state, node, target, faults>>,
           pc' \notin {"decide", "setting", "return", "look"}, pc \notin {"setting", "return"},
           pc' \in {"failures", "reset", "set"} => pc \in {"decide", "failures", "reset"}
    PROVE  SpreadInv'
  <1>1. Affected' = Affected /\ Owed' = Owed /\ Known' = Known /\ Away' = Away
    BY SameCluster
  <1>2. Excused = {} /\ Excused' = {}
    BY DEF Excused
  <1>3. OwedInv'
    BY <1>1, <1>2 DEF SpreadInv, OwedInv
  <1>4. UnwritableBounded'
    BY <1>1 DEF SpreadInv, UnwritableBounded
  <1>5. TargetInv'
    BY <1>1 DEF SpreadInv, TargetInv
  <1>6. ReturnInv'
    BY DEF SpreadInv, ReturnInv, DrivesOf
  <1>7. QED
    BY <1>3, <1>4, <1>5, <1>6 DEF SpreadInv, SeenInv, SettingInv

\* Steps of the cluster by which drives become Writable or Unwritable, but none is asked.
LEMMA ClusterSteps ==
    ASSUME TypeOK, SpreadInv, UNCHANGED <<pc, target, fullest, seen>>,
           Affected' \subseteq Affected, Owed' \subseteq Owed,
           target \in Away' \/ target \notin Known' => target \in Away \/ target \notin Known,
           Excused \subseteq Excused' \cup (Nodes \ Owed'),
           faults' \in Nat, faults' >= faults,
           SettingInv', ReturnInv'
    PROVE  SpreadInv'
  <1>1. faults \in Nat /\ MaxUnwritable \in Nat
    BY NvkvAssumption DEF TypeOK
  <1>10. \A x, y \in Nat : y <= x /\ x + 1 <= MaxUnwritable + faults => y + 1 <= MaxUnwritable + faults'
    <2> DEFINE before == faults
               after == faults'
               most == MaxUnwritable
    <2>1. before \in Nat /\ after \in Nat /\ before <= after /\ most \in Nat
      BY <1>1
    <2> HIDE DEF before, after, most
    <2>2. \A x, y \in Nat : y <= x /\ x + 1 <= most + before => y + 1 <= most + after
      BY <2>1
    <2>3. QED
      BY <2>2 DEF before, after, most
  <1> DEFINE affected == Affected
             owed == Owed
             owners == {Owner[d] : d \in seen}
  <1>2. affected \in SUBSET Nodes /\ owed \in SUBSET Nodes
    BY AllNodes
  <1>3. \A S : /\ (affected \ S) \in SUBSET Nodes /\ (affected' \ S) \in SUBSET (affected \ S)
                /\ (owed \ S) \in SUBSET Nodes /\ (owed' \ S) \in SUBSET (owed \ S)
    BY <1>2
  <1>4. \A S : /\ Cardinality(affected \ S) \in Nat /\ Cardinality(affected' \ S) \in Nat
                /\ Cardinality(affected' \ S) <= Cardinality(affected \ S)
                /\ Cardinality(owed \ S) \in Nat /\ Cardinality(owed' \ S) \in Nat
                /\ Cardinality(owed' \ S) <= Cardinality(owed \ S)
    <2> HIDE DEF affected, owed
    <2>1. QED
      BY <1>3, NodeSets
  <1>5. UnwritableBounded'
    <2>1. Cardinality(affected) \in Nat /\ Cardinality(affected') \in Nat /\ Cardinality(affected') <= Cardinality(affected)
      BY <1>2, NodeSets
    <2>2. Cardinality(affected) <= MaxUnwritable + faults
      BY DEF SpreadInv, UnwritableBounded
    <2>3. UnwritableBounded' <=> Cardinality(affected') <= MaxUnwritable + faults'
      BY DEF UnwritableBounded
    <2> HIDE DEF affected
    <2>4. QED
      BY <1>1, <2>1, <2>2, <2>3
  <1>6. OwedInv'
    <2>1. owed' \ Excused' \in SUBSET (owed \ Excused) /\ owed \ Excused \in SUBSET Nodes
      BY <1>2
    <2>2. /\ Cardinality(owed \ Excused) \in Nat /\ Cardinality(owed' \ Excused') \in Nat
          /\ Cardinality(owed' \ Excused') <= Cardinality(owed \ Excused)
      BY <2>1, NodeSets
    <2>3. Cardinality(owed \ Excused) <= faults
      BY DEF SpreadInv, OwedInv
    <2>4. OwedInv' <=> Cardinality(owed' \ Excused') <= faults'
      BY DEF OwedInv
    <2> HIDE DEF owed
    <2>5. QED
      BY <1>1, <2>2, <2>3, <2>4
  <1>7. TargetInv'
    <2> SUFFICES ASSUME target # None, pc \in {"decide", "failures", "reset", "set"}
                 PROVE  /\ Cardinality(affected' \ {target}) + 1 <= MaxUnwritable + faults'
                        /\ target \in Away' \/ target \notin Known'
                           => Cardinality(owed' \ {target}) + 1 <= faults'
      BY DEF TargetInv
    <2> DEFINE a == Cardinality(affected \ {target})
               b == Cardinality(affected' \ {target})
               c == Cardinality(owed \ {target})
               e == Cardinality(owed' \ {target})
    <2>1. /\ a + 1 <= MaxUnwritable + faults
          /\ target \in Away \/ target \notin Known => c + 1 <= faults
      BY DEF SpreadInv, TargetInv
    <2> HIDE DEF affected, owed
    <2>2. a \in Nat /\ b \in Nat /\ b <= a /\ c \in Nat /\ e \in Nat /\ e <= c
      BY <1>4
    <2> HIDE DEF a, b, c, e
    <2>3. b + 1 <= MaxUnwritable + faults'
      <3>1. a + 1 <= MaxUnwritable + faults
        BY <2>1
      <3>3. a \in Nat /\ b \in Nat /\ b <= a
        BY <2>2
      <3>4. QED
        BY <3>1, <3>3, <1>10
    <2>4. c + 1 <= faults => e + 1 <= faults'
      BY <1>1, <2>2
    <2>5. QED
      BY <2>1, <2>3, <2>4 DEF b, e
  <1>8. SeenInv'
    <2> SUFFICES ASSUME pc = "decide" PROVE Cardinality(affected' \ owners) <= faults'
      BY DEF SeenInv
    <2>1. Cardinality(affected \ owners) <= faults
      BY DEF SpreadInv, SeenInv
    <2> DEFINE a == Cardinality(affected \ owners)
               b == Cardinality(affected' \ owners)
    <2> HIDE DEF affected, owed, owners
    <2>2. a \in Nat /\ b \in Nat /\ b <= a
      BY <1>4
    <2> HIDE DEF a, b
    <2>3. b <= faults'
      BY <1>1, <2>1, <2>2 DEF a
    <2>4. QED
      BY <2>3 DEF b
  <1>9. QED
    BY <1>5, <1>6, <1>7, <1>8 DEF SpreadInv

\* The drives of a set have no more owners than there are drives.
LEMMA OwnersOf ==
    ASSUME NEW S \in SUBSET Drives
    PROVE  /\ {Owner[d] : d \in S} \in SUBSET Nodes /\ Cardinality(S) \in Nat
           /\ Cardinality({Owner[d] : d \in S}) \in Nat
           /\ Cardinality({Owner[d] : d \in S}) <= Cardinality(S)
  <1> DEFINE T == {Owner[d] : d \in S}
             f == [d \in S |-> Owner[d]]
  <1>1. IsFiniteSet(S)
    BY NvkvAssumption, FS_Subset
  <1>2. f \in Surjection(S, T)
    BY DEF Surjection
  <1>3. T \in SUBSET Nodes
    BY NvkvAssumption
  <1> HIDE DEF T, f
  <1>4. Cardinality(T) <= Cardinality(S) /\ IsFiniteSet(T)
    BY <1>1, <1>2, FS_Surjection
  <1>5. QED
    BY <1>1, <1>3, <1>4, FS_CardinalityType DEF T

\* A check sees the Unwritable drives and chooses a node that has one.
LEMMA SpreadCheckOnce == ASSUME TypeOK, SpreadInv, CheckOnce PROVE SpreadInv'
  <1> DEFINE affected == Affected
             owed == Owed
  <1>1. UNCHANGED <<state, node, faults>> /\ pc = "idle" /\ pc' = "decide" /\ seen' = Unwritables
    BY DEF CheckOnce, Goto, cluster
  <1>2. affected' = affected /\ Known' = Known /\ owed' = owed /\ Away' = Away
    BY <1>1, SameCluster
  <1>3. {Owner[d] : d \in seen'} = Known
    BY <1>1, NvkvAssumption DEF Unwritables, Known, DrivesOf
  <1>4. target' # None => target' \in Known /\ DrivesOf(target') # {}
    <2>1. InOrder(Unwritables) \subseteq Unwritables
      BY DEF InOrder
    <2>2. target' # None => \E d \in InOrder(Unwritables) : target' = Owner[d]
      BY DEF CheckOnce
    <2>3. QED
      BY <2>1, <2>2, NvkvAssumption DEF Unwritables, Known, DrivesOf
  <1>5. Cardinality(owed) <= faults
    <2>1. owed \ Excused = owed
      BY <1>1 DEF Excused
    <2>2. QED
      BY <2>1 DEF SpreadInv, OwedInv
  <1>6. /\ affected \in SUBSET Nodes /\ owed \in SUBSET Nodes /\ Known \subseteq affected
        /\ Away \subseteq owed /\ affected \ Known \in SUBSET owed
    BY AllNodes DEF Owed
  <1>7. Cardinality(affected) <= MaxUnwritable + faults
    BY DEF SpreadInv, UnwritableBounded
  <1> HIDE DEF affected, owed
  <1>8. UnwritableBounded'
    BY <1>1, <1>2, <1>7 DEF UnwritableBounded, affected
  <1>9. OwedInv'
    <2>1. (Owed \ Excused)' = owed
      BY <1>1, <1>2 DEF Excused, owed
    <2>2. QED
      BY <1>1, <1>5, <2>1 DEF OwedInv
  <1>10. TargetInv'
    <2> SUFFICES ASSUME target' # None
                 PROVE  /\ Cardinality(affected \ {target'}) + 1 <= MaxUnwritable + faults
                        /\ target' \in Away => Cardinality(owed \ {target'}) + 1 <= faults
      BY <1>1, <1>2, <1>4 DEF TargetInv, affected, owed
    <2>1. Cardinality(affected \ {target'}) + 1 <= MaxUnwritable + faults
      <3>1. target' \in affected
        BY <1>4, <1>6
      <3>2. /\ Cardinality(affected \ {target'}) \in Nat /\ Cardinality(affected) \in Nat
            /\ Cardinality(affected) = Cardinality(affected \ {target'}) + 1
        BY <1>6, <3>1, WithoutOne
      <3>3. QED
        BY <1>7, <3>2
    <2>2. ASSUME target' \in Away
          PROVE  Cardinality(owed \ {target'}) + 1 <= faults
      <3>1. target' \in owed
        BY <1>6, <2>2
      <3>2. Cardinality(owed) = Cardinality(owed \ {target'}) + 1
        BY <1>6, <3>1, WithoutOne
      <3>3. QED
        BY <1>5, <3>2
    <2>3. QED
      BY <2>1, <2>2
  <1>11. SeenInv'
    <2>1. Cardinality(affected \ Known) <= faults
      <3>1. /\ Cardinality(affected \ Known) <= Cardinality(owed)
            /\ Cardinality(affected \ Known) \in Nat /\ Cardinality(owed) \in Nat
        BY <1>6, NodeSets
      <3>2. faults \in Nat
        BY DEF TypeOK
      <3>3. QED
        BY <1>5, <3>1, <3>2
    <2>2. (Affected \ {Owner[d] : d \in seen})' = affected \ Known
      BY <1>2, <1>3 DEF affected
    <2>3. QED
      BY <1>1, <2>1, <2>2 DEF SeenInv
  <1>12. QED
    BY <1>1, <1>4, <1>8, <1>9, <1>10, <1>11 DEF SpreadInv, SettingInv, ReturnInv

\* One drive more is set when fewer than --max-unwritable were seen.
LEMMA SpreadSetUnwritable == ASSUME TypeOK, SpreadInv, SetUnwritable PROVE SpreadInv'
  <1> DEFINE owner == Owner[fullest]
             owners == {Owner[d] : d \in seen}
             affected == Affected
             rest == affected \ owners
  <1>1. /\ pc = "decide" /\ pc' = "setting" /\ fullest \in Drives /\ Cardinality(seen) < MaxUnwritable
        /\ UNCHANGED <<node, fullest, seen, target, faults>>
        /\ state' = [d \in Drives |-> IF d = fullest /\ state[d] = "Writable" THEN "asked" ELSE state[d]]
    BY DEF SetUnwritable, Ask, Goto, TypeOK
  <1>2. state \in [Drives -> {"Writable", "asked", "Unwritable"}] /\ seen \in SUBSET Drives /\ faults \in Nat
    BY DEF TypeOK
  <1>3. owner \in Nodes
    BY <1>1, NvkvAssumption
  <1>4. affected' \subseteq affected \cup {owner} /\ Known' = Known /\ Away' = Away
    BY <1>1, <1>2, <1>3 DEF Affected, Known, Away, DrivesOf
  <1>5. state'[fullest] # "Writable"
    BY <1>1, <1>2
  <1>6. UnwritableBounded'
    <2> DEFINE all == rest \cup owners
               a == Cardinality(rest)
               b == Cardinality(owners)
               after == Cardinality(affected')
    <2>1. affected' \in SUBSET (all \cup {owner}) /\ all \in SUBSET Nodes /\ owners \in SUBSET Nodes
          /\ rest \in SUBSET Nodes
      BY <1>2, <1>4, AllNodes, OwnersOf
    <2>2. IsFiniteSet(rest) /\ IsFiniteSet(owners) /\ all \cup {owner} \in SUBSET Nodes
      BY <1>3, <2>1, NvkvAssumption, FS_Subset
    <2>3. a <= faults
      BY <1>1 DEF SpreadInv, SeenInv
    <2>4. b < MaxUnwritable /\ b \in Nat
      <3>1. b \in Nat /\ b <= Cardinality(seen) /\ Cardinality(seen) \in Nat
        BY <1>2, OwnersOf
      <3>2. MaxUnwritable \in Nat
        BY NvkvAssumption
      <3>3. QED
        BY <1>1, <3>1, <3>2
    <2> HIDE DEF rest, owners, owner, affected
    <2>5. Cardinality(all) = a + b - Cardinality(rest \cap owners)
      BY <2>2, FS_Union
    <2>6. a \in Nat /\ Cardinality(rest \cap owners) \in Nat
      BY <2>1, NodeSets
    <2>7. Cardinality(all) \in Nat /\ Cardinality(all) <= a + b
      <3>1. Cardinality(all) \in Nat
        BY <2>1, NodeSets
      <3> HIDE DEF all, a, b
      <3>2. QED
        BY <2>4, <2>5, <2>6, <3>1
    <2>8. Cardinality(all \cup {owner}) <= Cardinality(all) + 1 /\ Cardinality(all \cup {owner}) \in Nat
      <3>1. IsFiniteSet(all)
        BY <2>1, NvkvAssumption, FS_Subset
      <3> HIDE DEF all
      <3>2. Cardinality(all \cup {owner}) = IF owner \in all THEN Cardinality(all) ELSE Cardinality(all) + 1
        BY <3>1, FS_AddElement
      <3>3. QED
        BY <2>7, <3>2
    <2>9. after <= Cardinality(all \cup {owner}) /\ after \in Nat
      BY <2>1, <2>2, NodeSets
    <2>10. after <= MaxUnwritable + faults
      <3> DEFINE most == MaxUnwritable
                 now == faults
                 x == Cardinality(all)
                 y == Cardinality(all \cup {owner})
      <3>1. most \in Nat /\ now \in Nat /\ a <= now /\ b < most
        BY <1>2, <2>3, <2>4, NvkvAssumption
      <3>2. x \in Nat /\ y \in Nat /\ x <= a + b /\ y <= x + 1 /\ after <= y
        BY <2>7, <2>8, <2>9
      <3> HIDE DEF most, now, a, b, after, x, y
      <3>3. QED
        BY <2>4, <2>6, <2>9, <3>1, <3>2 DEF most, now
    <2>11. QED
      BY <1>1, <2>10 DEF UnwritableBounded, affected
  <1>7. OwedInv'
    <2>1. Owed' \ Excused' \in SUBSET Owed /\ Owed \ Excused = Owed
      BY <1>1, <1>4 DEF Excused, Owed
    <2>2. Cardinality(Owed) <= faults
      BY <2>1 DEF SpreadInv, OwedInv
    <2>3. /\ Cardinality(Owed' \ Excused') <= Cardinality(Owed)
          /\ Cardinality(Owed' \ Excused') \in Nat /\ Cardinality(Owed) \in Nat
      BY <2>1, AllNodes, NodeSets
    <2>4. QED
      BY <1>1, <1>2, <2>2, <2>3 DEF OwedInv
  <1>8. QED
    BY <1>1, <1>5, <1>6, <1>7 DEF SpreadInv, TargetInv, SeenInv, SettingInv, ReturnInv, DrivesOf

\* The node that is reset was counted already, or its return pays for what is asked.
LEMMA SpreadSetAll == ASSUME TypeOK, SpreadInv, SetAll PROVE SpreadInv'
  <1> DEFINE affected == Affected
             owed == Owed
  <1>1. /\ pc = "set" /\ pc' = "drain" /\ UNCHANGED <<node, fullest, seen, target, faults>>
        /\ state' = [d \in Drives |-> IF d \in DrivesOf(target) \ seen /\ state[d] = "Writable"
                                      THEN "asked" ELSE state[d]]
    BY DEF SetAll, Ask, Goto
  <1>2. /\ state \in [Drives -> {"Writable", "asked", "Unwritable"}] /\ faults \in Nat
        /\ target \in Nodes /\ target # None
    BY <1>1, NvkvAssumption DEF TypeOK
  <1>3. affected' \subseteq affected \cup {target} /\ Known' = Known /\ Away' = Away
    BY <1>1, <1>2 DEF Affected, Known, Away, DrivesOf
  <1>4. /\ Cardinality(affected \ {target}) + 1 <= MaxUnwritable + faults
        /\ target \in Away \/ target \notin Known => Cardinality(owed \ {target}) + 1 <= faults
    BY <1>1, <1>2 DEF SpreadInv, TargetInv
  <1>5. affected \in SUBSET Nodes /\ owed \in SUBSET Nodes /\ affected' \in SUBSET Nodes /\ owed' \in SUBSET Nodes
    BY <1>2, <1>3, AllNodes DEF Owed, Away
  <1>6. Excused = {} /\ Excused' = {}
    BY <1>1 DEF Excused
  <1>7. owed' \subseteq IF target \in Away \/ target \notin Known THEN owed \cup {target} ELSE owed
    BY <1>3 DEF Owed
  <1>8. MaxUnwritable \in Nat
    BY NvkvAssumption
  <1> HIDE DEF affected, owed
  <1>9. UnwritableBounded'
    <2>1. affected' \ {target} \in SUBSET (affected \ {target}) /\ affected \ {target} \in SUBSET Nodes
      BY <1>3, <1>5
    <2>2. /\ Cardinality(affected' \ {target}) <= Cardinality(affected \ {target})
          /\ Cardinality(affected' \ {target}) \in Nat /\ Cardinality(affected \ {target}) \in Nat
      BY <2>1, NodeSets
    <2>3. Cardinality(affected') \in Nat /\ Cardinality(affected') <= Cardinality(affected' \ {target}) + 1
      BY <1>5, WithoutOne
    <2> DEFINE most == MaxUnwritable + faults
    <2>4. most \in Nat /\ Cardinality(affected \ {target}) + 1 <= most
      BY <1>2, <1>4, <1>8
    <2> HIDE DEF most
    <2>5. Cardinality(affected') <= most
      BY <2>2, <2>3, <2>4
    <2>6. QED
      BY <1>1, <2>5 DEF UnwritableBounded, most, affected
  <1>10. OwedInv'
    <2>1. Cardinality(owed') <= faults
      <3>1. CASE target \in Away \/ target \notin Known
        <4>1. owed' \ {target} \in SUBSET (owed \ {target}) /\ owed \ {target} \in SUBSET Nodes
          BY <1>5, <1>7, <3>1
        <4>2. /\ Cardinality(owed' \ {target}) <= Cardinality(owed \ {target})
              /\ Cardinality(owed' \ {target}) \in Nat /\ Cardinality(owed \ {target}) \in Nat
          BY <4>1, NodeSets
        <4>3. Cardinality(owed') \in Nat /\ Cardinality(owed') <= Cardinality(owed' \ {target}) + 1
          BY <1>5, WithoutOne
        <4>4. Cardinality(owed \ {target}) + 1 <= faults
          BY <1>4, <3>1
        <4>5. QED
          BY <1>2, <4>2, <4>3, <4>4
      <3>2. CASE ~(target \in Away \/ target \notin Known)
        <4>1. owed' \in SUBSET owed
          BY <1>7, <3>2
        <4>2. Cardinality(owed') <= Cardinality(owed) /\ Cardinality(owed') \in Nat /\ Cardinality(owed) \in Nat
          BY <1>5, <4>1, NodeSets
        <4>3. Cardinality(owed) <= faults
          <5>1. owed \ {} = owed
            OBVIOUS
          <5>2. QED
            BY <1>6, <5>1 DEF SpreadInv, OwedInv, owed
        <4>4. QED
          BY <1>2, <4>2, <4>3
      <3>3. QED
        BY <3>1, <3>2
    <2>2. (Owed \ Excused)' = owed'
      BY <1>6 DEF owed
    <2>3. QED
      BY <1>1, <2>1, <2>2 DEF OwedInv
  <1>11. QED
    BY <1>1, <1>9, <1>10 DEF SpreadInv, TargetInv, SeenInv, SettingInv, ReturnInv, DrivesOf

\* The script that restarts a node waits until it is back.
LEMMA SpreadRestartNode == ASSUME TypeOK, SpreadInv, RestartNode PROVE SpreadInv'
  <1>1. /\ pc = "restart" /\ pc' = "return" /\ UNCHANGED <<state, fullest, seen, target, faults>>
        /\ node' = [node EXCEPT ![target] = "restarting"] /\ todo' = DrivesOf(target)
    BY DEF RestartNode, Down, Goto
  <1>2. node \in [Nodes -> {"up", "restarting", "failed"}] /\ target \in Nodes
    BY <1>1 DEF TypeOK
  <1>3. Affected' = Affected /\ Known' = Known /\ Away' = Away \cup {target}
    BY <1>1, <1>2 DEF Affected, Known, Away, DrivesOf
  <1>4. UnwritableBounded'
    BY <1>1, <1>3 DEF SpreadInv, UnwritableBounded
  <1>5. OwedInv'
    <2>1. Excused = {} /\ Excused' = {target}
      BY <1>1, <1>2 DEF Excused
    <2>2. Owed' \ Excused' \in SUBSET Owed /\ Owed \ Excused = Owed
      BY <1>3, <2>1 DEF Owed
    <2>3. /\ Cardinality(Owed' \ Excused') <= Cardinality(Owed)
          /\ Cardinality(Owed' \ Excused') \in Nat /\ Cardinality(Owed) \in Nat
      BY <2>2, AllNodes, NodeSets
    <2>4. Cardinality(Owed) <= faults /\ faults \in Nat
      BY <2>2 DEF SpreadInv, OwedInv, TypeOK
    <2>5. QED
      BY <1>1, <2>3, <2>4 DEF OwedInv
  <1>6. QED
    BY <1>1, <1>4, <1>5 DEF SpreadInv, TargetInv, SeenInv, SettingInv, ReturnInv, DrivesOf

\* A node that fails is paid for.
LEMMA SpreadFails == ASSUME TypeOK, SpreadInv, NEW n \in Nodes, Fails(n) PROVE SpreadInv'
  <1> DEFINE affected == Affected
             owed == Owed
             spent == faults
             most == MaxUnwritable
  <1>1. /\ node[n] = "up" /\ node' = [node EXCEPT ![n] = "failed"] /\ spent' = spent + 1
        /\ UNCHANGED <<state, pc, fullest, seen, target, todo>>
    BY DEF Fails, Fault, Down
  <1>2. node \in [Nodes -> {"up", "restarting", "failed"}] /\ spent \in Nat /\ most \in Nat
    BY NvkvAssumption DEF TypeOK
  <1>3. affected' = affected /\ Known' = Known /\ Away' = Away \cup {n} /\ owed' = owed \cup {n}
    BY <1>1, <1>2 DEF Affected, Known, Away, DrivesOf, Owed
  <1>4. affected \in SUBSET Nodes /\ owed \in SUBSET Nodes /\ owed' \in SUBSET Nodes
    BY <1>3, AllNodes
  <1>5. \A S \in SUBSET Nodes : Cardinality(S) \in Nat
    BY NodeSets
  <1>6. Excused' = Excused
    BY <1>1, <1>2 DEF Excused, TypeOK
  <1>7. Cardinality(affected) <= most + spent /\ Cardinality(owed \ Excused) <= spent
    BY DEF SpreadInv, UnwritableBounded, OwedInv
  <1>8. \A S : /\ Cardinality(owed' \ S) <= Cardinality(owed \ S) + 1
               /\ Cardinality(owed' \ S) \in Nat /\ Cardinality(owed \ S) \in Nat
    <2> HIDE DEF owed
    <2> TAKE S
    <2>1. (owed' \ S) \ {n} \in SUBSET (owed \ S) /\ owed \ S \in SUBSET Nodes /\ owed' \ S \in SUBSET Nodes
      BY <1>3, <1>4
    <2>2. /\ Cardinality((owed' \ S) \ {n}) <= Cardinality(owed \ S)
          /\ Cardinality((owed' \ S) \ {n}) \in Nat /\ Cardinality(owed \ S) \in Nat
      BY <2>1, NodeSets
    <2>3. Cardinality(owed' \ S) \in Nat /\ Cardinality(owed' \ S) <= Cardinality((owed' \ S) \ {n}) + 1
      BY <2>1, WithoutOne
    <2>4. QED
      BY <2>2, <2>3
  <1> HIDE DEF affected, owed, spent, most
  <1>9. UnwritableBounded'
    <2>1. Cardinality(affected) <= most + spent'
      BY <1>1, <1>2, <1>4, <1>5, <1>7
    <2>2. QED
      BY <1>3, <2>1 DEF UnwritableBounded, affected, spent, most
  <1>10. OwedInv'
    <2>1. Cardinality(owed' \ Excused) <= spent'
      <3> DEFINE before == Cardinality(owed \ Excused)
                 after == Cardinality(owed' \ Excused)
      <3>1. before \in Nat /\ after \in Nat /\ after <= before + 1 /\ before <= spent
        BY <1>7, <1>8
      <3> HIDE DEF before, after
      <3>2. after <= spent'
        BY <1>1, <1>2, <3>1
      <3>3. QED
        BY <3>2 DEF after
    <2>2. QED
      BY <1>6, <2>1 DEF OwedInv, owed, spent
  <1>11. TargetInv'
    <2> SUFFICES ASSUME target # None, pc \in {"decide", "failures", "reset", "set"}
                 PROVE  /\ Cardinality(affected \ {target}) + 1 <= most + spent'
                        /\ target \in Away' \/ target \notin Known
                           => Cardinality(owed' \ {target}) + 1 <= spent'
      BY <1>1, <1>3 DEF TargetInv, affected, owed, spent, most
    <2>1. /\ Cardinality(affected \ {target}) + 1 <= most + spent
          /\ target \in Away \/ target \notin Known => Cardinality(owed \ {target}) + 1 <= spent
      BY DEF SpreadInv, TargetInv, affected, owed, spent, most
    <2>2. Cardinality(affected \ {target}) + 1 <= most + spent'
      <3>1. affected \ {target} \in SUBSET Nodes
        BY <1>4
      <3>2. Cardinality(affected \ {target}) \in Nat
        BY <1>5, <3>1
      <3>3. QED
        BY <1>1, <1>2, <2>1, <3>2
    <2>3. CASE target \in Away \/ target \notin Known
      <3> DEFINE before == Cardinality(owed \ {target})
                 after == Cardinality(owed' \ {target})
      <3>1. before \in Nat /\ after \in Nat /\ after <= before + 1
        BY <1>8
      <3>2. before + 1 <= spent
        BY <2>1, <2>3
      <3> HIDE DEF before, after
      <3>3. after + 1 <= spent'
        BY <1>1, <1>2, <3>1, <3>2
      <3>4. QED
        BY <2>2, <3>3 DEF after
    <2>4. CASE target = n
      <3>1. owed' \ {target} = owed \ {target}
        BY <1>3, <2>4
      <3>2. Excused = {}
        BY DEF Excused
      <3>3. owed \ {target} \in SUBSET owed /\ owed \ Excused = owed
        BY <3>2
      <3>4. Cardinality(owed \ {target}) <= Cardinality(owed) /\ Cardinality(owed) \in Nat
            /\ Cardinality(owed \ {target}) \in Nat
        BY <1>4, <3>3, NodeSets
      <3>5. Cardinality(owed) <= spent
        BY <1>7, <3>3
      <3>6. QED
        BY <1>1, <1>2, <2>2, <3>1, <3>4, <3>5
    <2>5. QED
      BY <1>3, <2>2, <2>3, <2>4
  <1>12. SeenInv'
    <2> SUFFICES ASSUME pc = "decide"
                 PROVE  Cardinality(affected \ {Owner[d] : d \in seen}) <= spent'
      BY <1>1, <1>3 DEF SeenInv, affected, spent
    <2> DEFINE rest == affected \ {Owner[d] : d \in seen}
    <2>1. rest \in SUBSET Nodes
      BY <1>4
    <2>2. Cardinality(rest) <= spent
      BY DEF SpreadInv, SeenInv, affected, spent
    <2> HIDE DEF rest
    <2>3. Cardinality(rest) <= spent'
      BY <1>1, <1>2, <1>5, <2>1, <2>2
    <2>4. QED
      BY <2>3 DEF rest
  <1>13. SettingInv' /\ ReturnInv'
    <2>1. node'[target] = "restarting" => node[target] = "restarting"
      BY <1>1, <1>2
    <2>2. QED
      BY <1>1, <2>1 DEF SpreadInv, SettingInv, ReturnInv, DrivesOf
  <1>14. QED
    BY <1>9, <1>10, <1>11, <1>12, <1>13 DEF SpreadInv

\* A node comes back with its drives Writable, and nothing is owed for it.
LEMMA SpreadComesBack == ASSUME TypeOK, SpreadInv, NEW n \in Nodes, ComesBack(n) PROVE SpreadInv'
  <1>1. /\ node[n] # "up" /\ node' = [node EXCEPT ![n] = "up"]
        /\ state' = [d \in Drives |-> IF Owner[d] = n THEN "Writable" ELSE state[d]]
        /\ UNCHANGED <<pc, fullest, seen, target, todo>>
        /\ faults' = faults \/ faults' = faults + 1
    BY DEF ComesBack, Fault
  <1>2. /\ node \in [Nodes -> {"up", "restarting", "failed"}]
        /\ state \in [Drives -> {"Writable", "asked", "Unwritable"}]
        /\ faults \in Nat /\ fullest \in Drives /\ target \in Nodes \cup {None}
    BY DEF TypeOK
  <1>3. /\ Affected' = Affected \ {n} /\ Known' = Known \ {n} /\ Away' = Away \ {n}
        /\ Owed' = Owed \ {n} /\ n \in Away
    BY <1>1, <1>2 DEF Affected, Known, Away, DrivesOf, Owed
  <1>4. faults' \in Nat /\ faults' >= faults
    BY <1>1, <1>2
  <1>5. Excused \subseteq Excused' \cup (Nodes \ Owed')
    <2>1. CASE pc = "setting"
      BY <1>1, <2>1 DEF Excused
    <2>2. CASE pc = "return" /\ node[target] = "restarting"
      <3>1. target \in Nodes
        BY <2>2 DEF TypeOK
      <3>2. CASE target = n
        BY <1>3, <2>2, <3>1, <3>2 DEF Excused
      <3>3. CASE target # n
        BY <1>1, <1>2, <2>2, <3>1, <3>3 DEF Excused
      <3>4. QED
        BY <3>2, <3>3
    <2>3. QED
      BY <2>1, <2>2 DEF Excused
  <1>6. SettingInv'
    BY <1>1, <1>2 DEF SpreadInv, SettingInv, DrivesOf
  <1>7. ReturnInv'
    <2>1. node'[target] = "restarting" => node[target] = "restarting"
      BY <1>1, <1>2
    <2>2. QED
      BY <1>1, <2>1 DEF SpreadInv, ReturnInv, DrivesOf
  <1>8. target \in Away' \/ target \notin Known' => target \in Away \/ target \notin Known
    BY <1>3
  <1>9. QED
    BY <1>1, <1>3, <1>4, <1>5, <1>6, <1>7, <1>8, ClusterSteps

\* What is asked of a drive happens.
LEMMA SpreadBecomesUnwritable ==
    ASSUME TypeOK, SpreadInv, NEW d \in Drives, BecomesUnwritable(d)
    PROVE  SpreadInv'
  <1>1. /\ state[d] = "asked" /\ state' = [state EXCEPT ![d] = "Unwritable"]
        /\ UNCHANGED <<node, pc, fullest, seen, target, todo, faults>>
    BY DEF BecomesUnwritable
  <1>2. state \in [Drives -> {"Writable", "asked", "Unwritable"}] /\ faults \in Nat /\ fullest \in Drives
    BY DEF TypeOK
  <1>3. Affected' = Affected /\ Known \subseteq Known' /\ Away' = Away /\ Owed' \subseteq Owed
    BY <1>1, <1>2 DEF Affected, Known, Away, DrivesOf, Owed
  <1>4. faults' \in Nat /\ faults' >= faults
    BY <1>1, <1>2
  <1>5. Excused' = Excused
    BY <1>1 DEF Excused
  <1>6. SettingInv' /\ ReturnInv'
    BY <1>1, <1>2 DEF SpreadInv, SettingInv, ReturnInv, DrivesOf
  <1>7. QED
    BY <1>1, <1>3, <1>4, <1>5, <1>6, ClusterSteps

\* Steps that change neither drives nor nodes, nor the check that runs.
LEMMA SpreadElsewhere ==
    ASSUME TypeOK, SpreadInv,
           UNCHANGED <<state, node, pc, fullest, seen, target, todo, faults>>
    PROVE  SpreadInv'
  <1>1. Affected' = Affected /\ Known' = Known /\ Away' = Away /\ Owed' = Owed
    BY SameCluster
  <1>2. faults' \in Nat /\ faults' >= faults
    BY DEF TypeOK
  <1>3. Excused' = Excused /\ SettingInv' /\ ReturnInv'
    BY DEF SpreadInv, Excused, SettingInv, ReturnInv, DrivesOf
  <1>4. QED
    BY <1>1, <1>2, <1>3, ClusterSteps

\* A wait that is in vain, or a step that fails, leaves nothing that is not paid for.
LEMMA SpreadTimedOut == ASSUME TypeOK, SpreadInv, TimedOut PROVE SpreadInv'
  <1>1. UNCHANGED <<state, node>> /\ pc' = "idle" /\ target' = None
    BY DEF TimedOut, Critical, Return, Goto, cluster
  <1>2. PICK d \in Drives : Waiting(d) /\ IF Vain(d) THEN UNCHANGED faults ELSE Fault
    BY DEF TimedOut
  <1>3. CASE Vain(d)
    <2>1. Owed \ Excused = Owed
      <3>1. CASE pc = "setting"
        <4>1. d = fullest /\ node[Owner[fullest]] = "up" /\ state[fullest] = "Writable"
          BY <1>2, <1>3, <3>1 DEF Waiting, Vain, Active
        <4>2. \A other \in DrivesOf(Owner[fullest]) : state[other] = "Writable"
          BY <3>1, <4>1 DEF SpreadInv, SettingInv
        <4>3. Owner[fullest] \notin Owed
          BY <4>1, <4>2 DEF Owed, Affected, Away
        <4>4. QED
          BY <3>1, <4>3 DEF Excused
      <3>2. CASE pc = "drain"
        BY <3>2 DEF Excused
      <3>3. QED
        BY <1>3, <3>1, <3>2 DEF Vain
    <2>2. Cardinality(Owed) <= faults
      BY <2>1 DEF SpreadInv, OwedInv
    <2>3. QED
      BY <1>1, <1>2, <1>3, <2>2, CheckEnds
  <1>4. CASE ~Vain(d)
    BY <1>1, <1>2, <1>4, CheckEnds DEF Fault
  <1>5. QED
    BY <1>3, <1>4

\* A check that owes nothing for a step of its own may end.
LEMMA SpreadEnds ==
    ASSUME TypeOK, SpreadInv, pc \notin {"setting", "return"}, UNCHANGED <<state, node, faults>>,
           pc' = "idle", target' = None
    PROVE  SpreadInv'
  <1>1. Owed \ Excused = Owed
    BY DEF Excused
  <1>2. Cardinality(Owed) <= faults
    BY <1>1 DEF SpreadInv, OwedInv
  <1>3. QED
    BY <1>2, CheckEnds

\* Every step keeps the nodes with drives that are not Writable few.
LEMMA StepKeepsSpread ==
    ASSUME TypeOK, SpreadInv, [Next]_vars
    PROVE  SpreadInv'
  <1> USE DEF cluster, Goto
  <1>1. CASE CheckOnce
    BY <1>1, SpreadCheckOnce
  <1>2. CASE AllUnwritable
    BY <1>2, SpreadEnds DEF AllUnwritable, Critical, Return
  <1>3. CASE NothingFull
    BY <1>3, CheckGoesOn DEF NothingFull
  <1>4. CASE SetUnwritable
    BY <1>4, SpreadSetUnwritable
  <1>5. CASE Set
    <2>1. Owner[fullest] \notin Owed
      <3>1. node[Owner[fullest]] = "up" /\ state[fullest] = "Unwritable" /\ fullest \in Drives
        BY <1>5 DEF Set, IsUnwritable, Active, TypeOK
      <3>2. QED
        BY <3>1 DEF Owed, Known, Away, Affected, DrivesOf
    <2>2. Owed \ Excused = Owed
      BY <1>5, <2>1 DEF Set, Excused
    <2>3. Cardinality(Owed) <= faults
      BY <2>2 DEF SpreadInv, OwedInv
    <2>4. QED
      BY <1>5, <2>3, CheckEnds DEF Set, EndCheck, Return
  <1>6. CASE TooManyUnwritables
    BY <1>6, CheckGoesOn DEF TooManyUnwritables
  <1>7. CASE FailuresChecked
    <2>1. CASE TooManyFailures
      BY <1>7, <2>1, SpreadEnds DEF FailuresChecked, Critical, Return
    <2>2. CASE ~TooManyFailures
      BY <1>7, <2>2, CheckGoesOn DEF FailuresChecked
    <2>3. QED
      BY <2>1, <2>2
  <1>8. CASE NothingToReset
    BY <1>8, SpreadEnds DEF NothingToReset, EndCheck, Return
  <1>9. CASE Reset
    BY <1>9, CheckGoesOn DEF Reset
  <1>10. CASE SetAll
    BY <1>10, SpreadSetAll
  <1>11. ASSUME NEW d \in Drives, Drained(d) PROVE SpreadInv'
    BY <1>11, CheckGoesOn DEF Drained
  <1>12. ASSUME NEW d \in Drives, Returned(d) PROVE SpreadInv'
    <2>1. /\ UNCHANGED <<state, node, pc, fullest, seen, target, faults>> /\ pc = "return"
          /\ node[Owner[d]] = "up" /\ d \in todo
      BY <1>12 DEF Returned, IsWritable, Active
    <2>2. node[target] # "restarting"
      BY <2>1 DEF SpreadInv, ReturnInv, DrivesOf
    <2>3. ReturnInv'
      BY <2>1, <2>2 DEF SpreadInv, ReturnInv, DrivesOf
    <2>4. Affected' = Affected /\ Known' = Known /\ Away' = Away /\ Owed' = Owed
      BY <2>1, SameCluster
    <2>5. faults' \in Nat /\ faults' >= faults
      BY <2>1 DEF TypeOK
    <2>6. Excused' = Excused /\ SettingInv'
      BY <2>1 DEF SpreadInv, Excused, SettingInv
    <2>7. QED
      BY <2>1, <2>3, <2>4, <2>5, <2>6, ClusterSteps
  <1>13. CASE AllDrained
    BY <1>13, CheckGoesOn DEF AllDrained
  <1>14. CASE DelayOver
    <2>1. CASE TooManyFailures
      BY <1>14, <2>1, SpreadEnds DEF DelayOver, EndCheck, Return
    <2>2. CASE ~TooManyFailures
      BY <1>14, <2>2, CheckGoesOn DEF DelayOver
    <2>3. QED
      BY <2>1, <2>2
  <1>15. CASE RestartNode
    BY <1>15, SpreadRestartNode
  <1>16. CASE AllReturned
    <2>1. /\ UNCHANGED <<state, node, fullest, seen, target, faults>> /\ pc = "return" /\ pc' = "look"
          /\ todo = {}
      BY <1>16 DEF AllReturned
    <2>2. node[target] # "restarting"
      BY <2>1, NvkvAssumption DEF SpreadInv, ReturnInv, TypeOK
    <2>3. Affected' = Affected /\ Owed' = Owed /\ Excused = {} /\ Excused' = {}
      BY <2>1, <2>2, SameCluster DEF Excused
    <2>4. OwedInv' /\ UnwritableBounded'
      BY <2>1, <2>3 DEF SpreadInv, OwedInv, UnwritableBounded
    <2>5. QED
      BY <2>1, <2>2, <2>4 DEF SpreadInv, TargetInv, SeenInv, SettingInv, ReturnInv, DrivesOf
  <1>17. CASE StillFull
    BY <1>17, SpreadEnds DEF StillFull, Critical, Return
  <1>18. CASE ResetDone
    BY <1>18, SpreadEnds DEF ResetDone, EndCheck, Return
  <1>19. CASE CommandFails
    <2>1. UNCHANGED <<state, node>> /\ pc' = "idle" /\ target' = None
      BY <1>19 DEF CommandFails, Critical, Return
    <2>2. CASE pc = "restart" /\ UNCHANGED faults
      BY <2>1, <2>2, SpreadEnds
    <2>3. CASE faults' = faults + 1
      BY <2>1, <2>3, CheckEnds
    <2>4. QED
      BY <1>19, <2>2, <2>3 DEF CommandFails, Fault
  <1>20. CASE TimedOut
    BY <1>20, SpreadTimedOut
  <1>21. CASE Killed
    BY <1>21, CheckEnds DEF Killed, EndCheck, Return, Fault
  <1>22. CASE Unstall
    BY <1>22, SpreadElsewhere DEF Unstall
  <1>23. ASSUME NEW d \in Drives, Fill(d) PROVE SpreadInv'
    BY <1>23, SpreadElsewhere DEF Fill
  <1>24. ASSUME NEW d \in Drives, BecomesUnwritable(d) PROVE SpreadInv'
    BY <1>24, SpreadBecomesUnwritable
  <1>25. ASSUME NEW n \in Nodes, Fails(n) PROVE SpreadInv'
    BY <1>25, SpreadFails
  <1>26. ASSUME NEW n \in Nodes, ComesBack(n) PROVE SpreadInv'
    BY <1>26, SpreadComesBack
  <1>27. ASSUME NEW n \in Nodes, Notice(n) PROVE SpreadInv'
    BY <1>27, SpreadElsewhere DEF Notice
  <1>28. ASSUME NEW n \in Nodes, RebuildDone(n) PROVE SpreadInv'
    BY <1>28, SpreadElsewhere DEF RebuildDone
  <1>29. CASE UNCHANGED vars
    BY <1>29, SpreadElsewhere DEF vars
  <1>30. QED
    BY <1>1, <1>2, <1>3, <1>4, <1>5, <1>6, <1>7, <1>8, <1>9, <1>10, <1>11,
       <1>12, <1>13, <1>14, <1>15, <1>16, <1>17, <1>18, <1>19, <1>20, <1>21,
       <1>22, <1>23, <1>24, <1>25, <1>26, <1>27, <1>28, <1>29 DEF Next,
       Script, Recovery

-----------------------------------------------------------------------------
\* The nodes, and those missed, change when they are restarted, fail or come back,
\* and when a restart is decided on.
NodeKept == UNCHANGED <<node, missed>> /\ faults' \in {faults, faults + 1}
NodeStep == RestartNode \/ DelayOver \/ \E n \in Nodes : Fails(n) \/ ComesBack(n)

LEMMA NodesOfOthers ==
    ASSUME [Next]_vars
    PROVE  NodeKept \/ NodeStep
  <1> USE DEF NodeKept, cluster
  <1>1. CASE CheckOnce
    BY <1>1 DEF CheckOnce
  <1>2. CASE AllUnwritable
    BY <1>2 DEF AllUnwritable, Critical, Return
  <1>3. CASE NothingFull
    BY <1>3 DEF NothingFull
  <1>4. CASE SetUnwritable
    BY <1>4 DEF SetUnwritable
  <1>5. CASE Set
    BY <1>5 DEF Set, EndCheck, Return
  <1>6. CASE TooManyUnwritables
    BY <1>6 DEF TooManyUnwritables
  <1>7. CASE FailuresChecked
    BY <1>7 DEF FailuresChecked, Critical, Return
  <1>8. CASE NothingToReset
    BY <1>8 DEF NothingToReset, EndCheck, Return
  <1>9. CASE Reset
    BY <1>9 DEF Reset
  <1>10. CASE SetAll
    BY <1>10 DEF SetAll
  <1>11. ASSUME NEW d \in Drives, Drained(d) PROVE NodeKept \/ NodeStep
    BY <1>11 DEF Drained
  <1>12. ASSUME NEW d \in Drives, Returned(d) PROVE NodeKept \/ NodeStep
    BY <1>12 DEF Returned
  <1>13. CASE AllDrained
    BY <1>13 DEF AllDrained
  <1>14. CASE DelayOver
    BY <1>14 DEF NodeStep
  <1>15. CASE RestartNode
    BY <1>15 DEF NodeStep
  <1>16. CASE AllReturned
    BY <1>16 DEF AllReturned
  <1>17. CASE StillFull
    BY <1>17 DEF StillFull, Critical, Return
  <1>18. CASE ResetDone
    BY <1>18 DEF ResetDone, EndCheck, Return
  <1>19. CASE CommandFails
    BY <1>19 DEF CommandFails, Critical, Return, Fault
  <1>20. CASE TimedOut
    BY <1>20 DEF TimedOut, Critical, Return, Fault
  <1>21. CASE Killed
    BY <1>21 DEF Killed, EndCheck, Return, Fault
  <1>22. CASE Unstall
    BY <1>22 DEF Unstall
  <1>23. ASSUME NEW d \in Drives, Fill(d) PROVE NodeKept \/ NodeStep
    BY <1>23 DEF Fill
  <1>24. ASSUME NEW d \in Drives, BecomesUnwritable(d) PROVE NodeKept \/ NodeStep
    BY <1>24 DEF BecomesUnwritable
  <1>25. ASSUME NEW n \in Nodes, Fails(n) PROVE NodeKept \/ NodeStep
    BY <1>25 DEF NodeStep
  <1>26. ASSUME NEW n \in Nodes, ComesBack(n) PROVE NodeKept \/ NodeStep
    BY <1>26 DEF NodeStep
  <1>27. ASSUME NEW n \in Nodes, Notice(n) PROVE NodeKept \/ NodeStep
    BY <1>27 DEF Notice
  <1>28. ASSUME NEW n \in Nodes, RebuildDone(n) PROVE NodeKept \/ NodeStep
    BY <1>28 DEF RebuildDone
  <1>29. CASE UNCHANGED vars
    BY <1>29 DEF vars
  <1>30. QED
    BY <1>1, <1>2, <1>3, <1>4, <1>5, <1>6, <1>7, <1>8, <1>9, <1>10, <1>11,
       <1>12, <1>13, <1>14, <1>15, <1>16, <1>17, <1>18, <1>19, <1>20, <1>21,
       <1>22, <1>23, <1>24, <1>25, <1>26, <1>27, <1>28, <1>29 DEF Next,
       Script, Recovery

\* Every step keeps a fault for each node missed.
LEMMA StepKeepsMissed ==
    ASSUME TypeOK, SpreadInv, MissedInv, [Next]_vars
    PROVE  MissedInv'
  <1>1. missed \in SUBSET Nodes /\ Cardinality(missed) \in Nat /\ faults \in Nat
    BY NodeSets DEF TypeOK
  <1>2. CASE NodeKept
    BY <1>1, <1>2 DEF NodeKept, MissedInv
  <1>3. CASE RestartNode
    BY <1>1, <1>3 DEF RestartNode, Down, MissedInv, TypeOK
  <1>4. CASE DelayOver
    <2>1. CASE TooManyFailures
      BY <1>4, <2>1 DEF DelayOver, EndCheck, cluster, MissedInv
    <2>2. CASE ~TooManyFailures
      <3>1. missed' = missed \cup Unnoticed /\ UNCHANGED <<node, faults>> /\ pc = "delay"
        BY <1>4, <2>2 DEF DelayOver
      <3>2. missed' \subseteq Owed /\ \A n \in missed' : node'[n] = "restarting"
        BY <1>1, <3>1 DEF Unnoticed, MissedInv, Owed, Away
      <3>3. Cardinality(missed') <= Cardinality(Owed) /\ Cardinality(missed') \in Nat /\ Cardinality(Owed) \in Nat
        BY <3>2, AllNodes, NodeSets
      <3>4. Owed \ Excused = Owed
        BY <3>1 DEF Excused
      <3>5. Cardinality(Owed) <= faults
        BY <3>4 DEF SpreadInv, OwedInv
      <3>6. QED
        BY <1>1, <3>1, <3>2, <3>3, <3>5 DEF MissedInv
    <2>3. QED
      BY <2>1, <2>2
  <1>5. ASSUME NEW n \in Nodes, Fails(n) PROVE MissedInv'
    <2>1. missed' = missed /\ faults' = faults + 1 /\ n \notin missed
      BY <1>5 DEF Fails, Fault, MissedInv
    <2>2. \A m \in missed : node'[m] = "restarting"
      BY <1>1, <1>5, <2>1 DEF Fails, Down, MissedInv, TypeOK
    <2>3. QED
      BY <1>1, <2>1, <2>2 DEF MissedInv
  <1>6. ASSUME NEW n \in Nodes, ComesBack(n) PROVE MissedInv'
    <2>1. missed' = missed \ {n} /\ faults' \in {faults, faults + 1}
      BY <1>6 DEF ComesBack, Fault
    <2>2. Cardinality(missed \ {n}) \in Nat /\ Cardinality(missed \ {n}) <= Cardinality(missed)
      BY <1>1, NodeSets
    <2>3. \A m \in missed \ {n} : node'[m] = "restarting"
      BY <1>1, <1>6 DEF ComesBack, MissedInv, TypeOK
    <2>4. QED
      BY <1>1, <2>1, <2>2, <2>3 DEF MissedInv
  <1>7. QED
    BY <1>2, <1>3, <1>4, <1>5, <1>6, NodesOfOthers DEF NodeStep

-----------------------------------------------------------------------------
(* The theorems.                                                           *)

LEMMA InitInv == Init => IInv
  <1> SUFFICES ASSUME Init PROVE IInv
    OBVIOUS
  <1>1. TypeOK
    BY DEF Init, TypeOK, Phases
  <1>2. RestartInv
    <2>1. Exposed = {}
      BY DEF Init, Exposed
    <2>2. Cardinality(Exposed) = 0
      BY <2>1, FS_EmptySet
    <2>3. QED
      BY <2>2, NvkvAssumption DEF Init, RestartInv, Exposed
  <1>3. DrainInv
    BY DEF Init, DrainInv
  <1>4. SpreadInv
    <2>1. Affected = {} /\ Owed = {} /\ Owed \ Excused = {}
      <3>1. Affected = {} /\ Away = {}
        BY DEF Init, Affected, Away, DrivesOf
      <3>2. QED
        BY <3>1 DEF Owed
    <2>2. Cardinality(Affected) = 0 /\ Cardinality(Owed \ Excused) = 0
      BY <2>1, FS_EmptySet
    <2>3. QED
      BY <2>2, NvkvAssumption
         DEF Init, SpreadInv, UnwritableBounded, OwedInv, TargetInv, SeenInv, SettingInv, ReturnInv
  <1>5. MissedInv
    <2>1. missed = {} /\ Cardinality(missed) = 0 /\ faults = 0
      BY FS_EmptySet DEF Init
    <2>2. QED
      BY <2>1 DEF MissedInv
  <1>6. QED
    BY <1>1, <1>2, <1>3, <1>4, <1>5 DEF IInv

\* The types of all variables (nvkv_exhaustion.py: check_once and the reset).
THEOREM TypeCorrect == Spec => []TypeOK
  <1>1. Init => TypeOK
    BY InitInv DEF IInv
  <1>2. QED
    BY <1>1, StepKeepsType, PTL DEF Spec

\* However often the script is killed and run again, its restarts expose no more
\* nodes than the failures allowed and one (lines 141 and 161), but for those that
\* nobody noticed within the delay, of which each took a run that was cut short.
THEOREM NeverTooManyRestarts == Spec => []RestartsWithinAllowed
  <1>1. Init => TypeOK /\ RestartInv /\ SpreadInv /\ MissedInv
    BY InitInv DEF IInv
  <1>2. TypeOK /\ RestartInv /\ SpreadInv /\ MissedInv /\ [Next]_vars
        => (TypeOK /\ RestartInv /\ SpreadInv /\ MissedInv)'
    BY StepKeepsType, StepKeepsRestarts, StepKeepsSpread, StepKeepsMissed DEF TypeOK, NodeTypes
  <1>3. RestartInv /\ MissedInv => RestartsWithinAllowed
    BY DEF RestartInv, MissedInv, RestartsWithinAllowed
  <1>4. QED
    BY <1>1, <1>2, <1>3, PTL DEF Spec

\* The nodes with drives that are not Writable stay within --max-unwritable and the
\* faults, whatever is left behind by runs that are killed, time out or fail (lines 91-119
\* and 141).
THEOREM NeverSpreads == Spec => []UnwritableBounded
  <1>1. Init => TypeOK /\ SpreadInv
    BY InitInv DEF IInv
  <1>2. TypeOK /\ SpreadInv /\ [Next]_vars => (TypeOK /\ SpreadInv)'
    BY StepKeepsType, StepKeepsSpread
  <1>3. SpreadInv => UnwritableBounded
    BY DEF SpreadInv
  <1>4. QED
    BY <1>1, <1>2, <1>3, PTL DEF Spec

\* The script restarts no node of which some drives are Unwritable and others not
\* (lines 147-153).
THEOREM NeverRestartsUndrained == Spec => RestartsDrained
  <1>1. Init => TypeOK /\ DrainInv
    BY InitInv DEF IInv
  <1>2. TypeOK /\ DrainInv /\ [Next]_vars => (TypeOK /\ DrainInv)'
    BY StepKeepsType, StepKeepsDrains
  <1> DEFINE Restart(n) == node[n] = "up" /\ node'[n] = "restarting"
             Alike(n) == \/ \A d \in DrivesOf(n) : state[d] = "Unwritable"
                         \/ \A d \in DrivesOf(n) : state[d] = "Writable"
  <1>3. TypeOK /\ DrainInv /\ [Next]_vars => \A n \in Nodes : Restart(n) => Alike(n)
    <2> SUFFICES ASSUME TypeOK, DrainInv, [Next]_vars, NEW n \in Nodes, Restart(n) PROVE Alike(n)
      OBVIOUS
    <2>1. node' # node
      OBVIOUS
    <2>2. RestartNode \/ DelayOver \/ \E k \in Nodes : Fails(k) \/ ComesBack(k)
      BY <2>1, NodesOfOthers DEF NodeKept, NodeStep
    <2>3. RestartNode /\ n = target
      BY <2>1, <2>2 DEF RestartNode, DelayOver, EndCheck, cluster, Down, Fails, ComesBack, TypeOK
    <2>4. QED
      BY <2>3 DEF RestartNode, DrainInv
  <1>4. QED
    BY <1>1, <1>2, <1>3, PTL DEF Spec, RestartsDrained
=============================================================================
