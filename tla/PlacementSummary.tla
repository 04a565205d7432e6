-------------------------- MODULE PlacementSummary --------------------------
(***************************************************************************)
(* postinstall/placement_summary.py: asks every compute node for its       *)
(* placements of data on drives, and tells the administrator which drives  *)
(* must be revived before all buckets are available again.  The script     *)
(* only reads and prints: what it computes is defined here, and what its   *)
(* advice is good for.                                                     *)
(*                                                                         *)
(* A report is what one node says of one placement of a bucket:            *)
(*   [bucket, idx, disks, dirty, down]                                     *)
(* disks has a drive, or NoDisk, for each slot of the stripe, numbered from *)
(* 0; dirty and down are bit masks of slots.  A dirty slot lacks data that *)
(* were written while its drive was away, so that reviving does not help.  *)
(***************************************************************************)
EXTENDS Integers, FiniteSets, Sequences

CONSTANTS
    StripeProtectionDrives,  \* drives of a stripe that may fail
    NoDisk                   \* DiskId<INVALID>

ASSUME PlacementAssumption == StripeProtectionDrives \in Nat

EnabledBits(num) == {i \in 0..num : (num \div 2^i) % 2 = 1}

\* A later report of the same placement replaces an earlier one (a bucket may
\* move while the nodes are asked).
Latest(reports) ==
    {reports[i] : i \in {j \in 1..Len(reports) :
        \A k \in (j + 1)..Len(reports) :
            <<reports[k].bucket, reports[k].idx>> # <<reports[j].bucket, reports[j].idx>>}}

\* Placements of the cluster's buckets that could be probed.
Examined(buckets, reports) ==
    {p \in Latest(reports) :
        p.bucket \in buckets /\ \E slot \in DOMAIN p.disks : p.disks[slot] # NoDisk}

DirtyDisks(p) == {p.disks[slot] : slot \in EnabledBits(p.dirty)}
DownDisks(p)  == {p.disks[slot] : slot \in EnabledBits(p.down)}
FailureCount(p) == Cardinality(DirtyDisks(p) \cup DownDisks(p))
TooMany(p) == FailureCount(p) > StripeProtectionDrives

NeededRecovery(p) ==
    [need |-> FailureCount(p) - StripeProtectionDrives,
     revivable |-> DownDisks(p) \ DirtyDisks(p)]

NeededRecoveries(buckets, reports) ==
    {NeededRecovery(p) : p \in {q \in Examined(buckets, reports) : TooMany(q)}}

\* "To recover buckets, must revive drives"
MustRevive(needed) ==
    UNION {r.revivable : r \in {q \in needed : q.need = Cardinality(q.revivable)}}

\* What is needed beyond the drives that must be revived.
Reduced(r, must) ==
    [need |-> r.need - Cardinality(r.revivable \cap must), revivable |-> r.revivable \ must]
NewNeededRecoveries(needed) ==
    {r \in {Reduced(q, MustRevive(needed)) : q \in needed} : r.need > 0}

\* The order of a list sorted by the size of the set; the rest of it is arbitrary.
Sorted(list, needed) ==
    /\ {list[i] : i \in 1..Len(list)} = NewNeededRecoveries(needed)
    /\ \A i, j \in 1..Len(list) :
           i < j => Cardinality(list[i].revivable) <= Cardinality(list[j].revivable)

\* A case that is weaker than an earlier one of the list is not printed.
Weaker(r, earlier) == earlier.revivable \subseteq r.revivable /\ earlier.need >= r.need
Printed(list) ==
    {list[i] : i \in {j \in 1..Len(list) : \A k \in 1..(j - 1) : ~Weaker(list[j], list[k])}}

-----------------------------------------------------------------------------
(* What the advice is for.                                                 *)

\* Reviving drives repairs the slots that are down with one of them and not dirty.
FailedSlots(p, revived) ==
    EnabledBits(p.dirty) \cup {slot \in EnabledBits(p.down) : p.disks[slot] \notin revived}
Available(p, revived) == Cardinality(FailedSlots(p, revived)) <= StripeProtectionDrives

\* A set of drives that the administrator revives is as the script says.
Follows(revived, needed, list) ==
    /\ MustRevive(needed) \subseteq revived
    /\ \A r \in Printed(list) : Cardinality(revived \cap r.revivable) >= r.need

\* The slots that failed have drives, and a stripe has a drive once.
Probed(p) ==
    LET failed == EnabledBits(p.dirty) \cup EnabledBits(p.down)
    IN /\ p.dirty \in Nat /\ p.down \in Nat
       /\ failed \subseteq DOMAIN p.disks
       /\ \A slot \in failed : p.disks[slot] # NoDisk
       /\ \A a, b \in failed : p.disks[a] = p.disks[b] => a = b

\* The advice is exact: every placement that was examined becomes available if
\* and only if the drives that are revived are as printed.
AdviceExact(buckets, reports, list, revived) ==
    (\A p \in Examined(buckets, reports) : Available(p, revived))
        <=> Follows(revived, NeededRecoveries(buckets, reports), list)

\* "assert len(revivable) >= need_revival" (placement_summary.py:172)
CanBeRevived(p) ==
    TooMany(p) => Cardinality(NeededRecovery(p).revivable) >= NeededRecovery(p).need
=============================================================================
