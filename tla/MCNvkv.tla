------------------------------ MODULE MCNvkv ------------------------------
(* The post-install scripts that look at drives: a small instance of          *)
(* NvkvExhaustion, three nodes of which one has two drives, so that a fault    *)
(* can leave half of a node Unwritable and the next check go on with another;  *)
(* and the advice of PlacementSummary on all small reports about two stripes   *)
(* of four drives.                                                             *)
EXTENDS NvkvExhaustion, PlacementSummary

MCNodes == {"n1", "n2", "n3"}
MCDrives == {"d1", "d2", "d3", "d4"}
MCOwner == [d \in MCDrives |-> CASE d = "d3" -> "n2" [] d = "d4" -> "n3" [] OTHER -> "n1"]

-----------------------------------------------------------------------------
\* Reports of two buckets on stripes that share three drives: with slots dirty or
\* down, and with a slot that has no drive; the later of two replaces the other one
\* when they are of the same placement.
MCStripes == {[slot \in 0..3 |-> <<"a", "b", "c", "d">>[slot + 1]],
              [slot \in 0..3 |-> <<"b", "a", "e", "c">>[slot + 1]]}
MCDead == [slot \in 0..3 |-> NoDisk]
MCPlacements ==
    {[bucket |-> b, idx |-> 1, disks |-> s, dirty |-> y, down |-> n] :
        b \in {1, 2}, s \in MCStripes, y \in {0, 1, 5}, n \in {0, 3, 6, 15}}
    \cup {[bucket |-> 1, idx |-> 1, disks |-> MCDead, dirty |-> 0, down |-> 3]}
MCReports == {<<p>> : p \in MCPlacements} \cup {<<p, q>> : p, q \in MCPlacements}

\* The lists that sorting may leave.
MCLists(needed) ==
    LET left == NewNeededRecoveries(needed)
    IN {list \in [1..Cardinality(left) -> left] : Sorted(list, needed)}

\* What PlacementProofs proves of all reports.
ASSUME AdviceOnSmallReports ==
    /\ \A p \in MCPlacements :
           Cardinality(EnabledBits(p.dirty)) <= StripeProtectionDrives => CanBeRevived(p)
    /\ \A reports \in MCReports :
           \A list \in MCLists(NeededRecoveries({1, 2}, reports)) :
               \A revived \in SUBSET {"a", "b", "c", "d", "e"} :
                   AdviceExact({1, 2}, reports, list, revived)
    \* Something is left to print, and not all of it is printed.
    /\ \E reports \in MCReports :
           \E list \in MCLists(NeededRecoveries({1, 2}, reports)) :
               Cardinality(Printed(list)) < Len(list)
=============================================================================
