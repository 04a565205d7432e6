-------------------------- MODULE PlacementProofs --------------------------
(***************************************************************************)
(* Proofs about PlacementSummary, for any cluster and any reports: the     *)
(* drives that the script tells the administrator to revive are the ones   *)
(* that are needed, neither fewer nor more.                                *)
(*                                                                         *)
(* There are three steps.  A placement is available again when as many of  *)
(* its revivable drives are revived as it needs, because its slots and     *)
(* their drives correspond to one another.  Where all of them are needed   *)
(* they must be revived, and what the others need is less by those.  And   *)
(* a case that is not printed follows from one that is: the first of the   *)
(* list of which it is a weaker form.                                      *)
(***************************************************************************)
EXTENDS PlacementSummary, FiniteSetTheorems, TLAPS

\* Reviving these drives does what a case asks for.
Enough(revived, r) == Cardinality(revived \cap r.revivable) >= r.need

\* Cases, as they are found: some drives are asked for, of finitely many.
Case(r) == r.need \in Int /\ IsFiniteSet(r.revivable)

-----------------------------------------------------------------------------
(* Sets.                                                                   *)

\* A set of numbers has a first element.
LEMMA LeastElement ==
    ASSUME NEW S \in SUBSET Nat, S # {}
    PROVE  \E x \in S : \A y \in S : x <= y
  <1> DEFINE Less == {pair \in Nat \X Nat : pair[1] < pair[2]}
  <1>1. IsWellFoundedOn(Less, Nat)
    BY NatLessThanWellFounded DEF OpToRel
  <1> HIDE DEF Less
  <1>2. PICK x \in S : \A y \in S : <<y, x>> \notin Less
    BY <1>1, WFMin
  <1>3. ASSUME NEW y \in S
        PROVE  x <= y
    <2>1. x \in Nat /\ y \in Nat /\ <<y, x>> \notin Less
      BY <1>2
    <2> QED
      BY <2>1 DEF Less
  <1> QED
    BY <1>3

\* The parts of a finite set.
LEMMA Parts ==
    ASSUME NEW S, NEW T, IsFiniteSet(S)
    PROVE  /\ IsFiniteSet(S \ T) /\ IsFiniteSet(S \cap T)
           /\ Cardinality(S) \in Nat /\ Cardinality(S \ T) \in Nat /\ Cardinality(S \cap T) \in Nat
           /\ Cardinality(S) = Cardinality(S \ T) + Cardinality(S \cap T)
  <1> DEFINE A == S \ T
             B == S \cap T
  <1>1. A \in SUBSET S /\ B \in SUBSET S /\ A \cup B = S /\ A \cap B = {}
    OBVIOUS
  <1> HIDE DEF A, B
  <1>2. IsFiniteSet(A) /\ IsFiniteSet(B)
    BY <1>1, FS_Subset
  <1>3. Cardinality(S) \in Nat /\ Cardinality(A) \in Nat /\ Cardinality(B) \in Nat
    BY <1>2, FS_CardinalityType
  <1>4. Cardinality(A \cup B) = Cardinality(A) + Cardinality(B) - Cardinality(A \cap B)
    BY <1>2, FS_Union
  <1>5. Cardinality(A \cap B) = 0
    BY <1>1, FS_EmptySet
  <1>6. Cardinality(S) = Cardinality(A) + Cardinality(B)
    BY <1>1, <1>3, <1>4, <1>5
  <1> QED
    BY <1>2, <1>3, <1>6 DEF A, B

\* A function that gives different elements for different ones keeps their number.
LEMMA ImageSize ==
    ASSUME NEW S, IsFiniteSet(S), NEW f, \A a, b \in S : f[a] = f[b] => a = b
    PROVE  /\ IsFiniteSet({f[s] : s \in S})
           /\ Cardinality({f[s] : s \in S}) = Cardinality(S)
  <1> DEFINE T == {f[s] : s \in S}
             g == [s \in S |-> f[s]]
  <1>1. g \in Bijection(S, T)
    <2>1. g \in [S -> T] /\ \A a, b \in S : g[a] = g[b] => a = b
      OBVIOUS
    <2>2. \A t \in T : \E s \in S : g[s] = t
      OBVIOUS
    <2> HIDE DEF T, g
    <2> QED
      BY <2>1, <2>2 DEF Bijection, Injection, Surjection, IsInjective
  <1>2. ExistsBijection(S, T)
    BY <1>1 DEF ExistsBijection
  <1> HIDE DEF T
  <1>3. IsFiniteSet(T) /\ Cardinality(T) = Cardinality(S)
    BY <1>2, FS_Bijection
  <1> QED
    BY <1>3 DEF T

-----------------------------------------------------------------------------
(* One placement.                                                          *)

\* The slots that are enabled in a mask are finitely many.
LEMMA MaskIsFinite ==
    ASSUME NEW num \in Nat
    PROVE  IsFiniteSet(EnabledBits(num))
  <1>1. IsFiniteSet(0..num)
    BY FS_Interval
  <1>2. EnabledBits(num) \in SUBSET (0..num)
    BY DEF EnabledBits
  <1> QED
    BY <1>1, <1>2, FS_Subset

\* Slots that failed are as many as their drives.
LEMMA SlotsAndDrives ==
    ASSUME NEW p, Probed(p),
           NEW S \in SUBSET (EnabledBits(p.dirty) \cup EnabledBits(p.down))
    PROVE  /\ IsFiniteSet(S) /\ IsFiniteSet({p.disks[s] : s \in S})
           /\ Cardinality({p.disks[s] : s \in S}) = Cardinality(S)
  <1> DEFINE failed == EnabledBits(p.dirty) \cup EnabledBits(p.down)
  <1>1. IsFiniteSet(failed)
    BY MaskIsFinite, FS_Union DEF Probed
  <1>2. IsFiniteSet(S)
    BY <1>1, FS_Subset
  <1>3. \A a, b \in S : p.disks[a] = p.disks[b] => a = b
    BY DEF Probed
  <1> QED
    BY <1>2, <1>3, ImageSize

\* The drives of a placement that failed are finitely many, and more may have failed
\* than the revivable ones.
LEMMA FailedDrives ==
    ASSUME NEW p, Probed(p)
    PROVE  /\ IsFiniteSet(DirtyDisks(p)) /\ IsFiniteSet(DownDisks(p))
           /\ FailureCount(p) \in Nat
           /\ Cardinality(DirtyDisks(p)) = Cardinality(EnabledBits(p.dirty))
           /\ Case(NeededRecovery(p))
           /\ FailureCount(p)
              = Cardinality(DirtyDisks(p)) + Cardinality(NeededRecovery(p).revivable)
  <1> DEFINE dirty == DirtyDisks(p)
             down == DownDisks(p)
  <1>1. /\ IsFiniteSet(dirty) /\ IsFiniteSet(down)
        /\ Cardinality(dirty) = Cardinality(EnabledBits(p.dirty))
    BY SlotsAndDrives DEF DirtyDisks, DownDisks
  <1> HIDE DEF dirty, down
  <1>2. IsFiniteSet(dirty \cup down)
    BY <1>1, FS_Union
  <1>3. (dirty \cup down) \ dirty = down \ dirty /\ (dirty \cup down) \cap dirty = dirty
    OBVIOUS
  <1>4. /\ Cardinality(dirty \cup down) \in Nat /\ IsFiniteSet(down \ dirty)
        /\ Cardinality(dirty) \in Nat /\ Cardinality(down \ dirty) \in Nat
        /\ Cardinality(dirty \cup down) = Cardinality(down \ dirty) + Cardinality(dirty)
    <2> DEFINE all == dirty \cup down
    <2>1. /\ Cardinality(all) \in Nat /\ IsFiniteSet(all \ dirty)
          /\ Cardinality(all \ dirty) \in Nat /\ Cardinality(all \cap dirty) \in Nat
          /\ Cardinality(all) = Cardinality(all \ dirty) + Cardinality(all \cap dirty)
      <3> HIDE DEF all
      <3> QED
        BY <1>2, Parts DEF all
    <2> QED
      BY <2>1, <1>3
  <1>5. /\ FailureCount(p) = Cardinality(dirty \cup down)
        /\ NeededRecovery(p).revivable = down \ dirty
        /\ NeededRecovery(p).need = FailureCount(p) - StripeProtectionDrives
    BY DEF FailureCount, NeededRecovery, dirty, down
  <1>6. StripeProtectionDrives \in Nat
    BY PlacementAssumption
  <1>7. Case(NeededRecovery(p))
    BY <1>4, <1>5, <1>6 DEF Case
  <1> QED
    BY <1>1, <1>4, <1>5, <1>7 DEF dirty, down

\* A placement is available when enough of its revivable drives are revived: the
\* slots that stay failed are the ones of its other drives.
LEMMA AvailableAgain ==
    ASSUME NEW p, Probed(p), NEW revived
    PROVE  Available(p, revived) <=> Enough(revived, NeededRecovery(p))
  <1> DEFINE dirty == DirtyDisks(p)
             down == DownDisks(p)
             all == dirty \cup down
             back == revived \cap (down \ dirty)
             S == FailedSlots(p, revived)
  <1>1. {p.disks[s] : s \in S} = all \ back
    BY DEF FailedSlots, DirtyDisks, DownDisks
  <1>2. Cardinality(S) = Cardinality({p.disks[s] : s \in S})
    <2>1. S \in SUBSET (EnabledBits(p.dirty) \cup EnabledBits(p.down))
      BY DEF FailedSlots
    <2> HIDE DEF S
    <2> QED
      BY <2>1, SlotsAndDrives
  <1>3. IsFiniteSet(all)
    BY FailedDrives, FS_Union
  <1>4. all \cap back = back
    OBVIOUS
  <1> HIDE DEF all, back, S
  <1>5. /\ Cardinality(all) \in Nat /\ Cardinality(back) \in Nat /\ Cardinality(all \ back) \in Nat
        /\ Cardinality(all) = Cardinality(all \ back) + Cardinality(back)
    BY <1>3, <1>4, Parts
  <1>6. Cardinality(S) = Cardinality(all) - Cardinality(back)
    <2>1. Cardinality(S) = Cardinality(all \ back)
      BY <1>1, <1>2, Zenon
    <2> QED
      BY <1>5, <2>1
  <1>7. Available(p, revived) <=> Cardinality(S) <= StripeProtectionDrives
    BY DEF Available, S
  <1>8. Enough(revived, NeededRecovery(p))
        <=> Cardinality(back) >= Cardinality(all) - StripeProtectionDrives
    BY DEF Enough, NeededRecovery, FailureCount, all, back
  <1>9. StripeProtectionDrives \in Nat
    BY PlacementAssumption
  <1> QED
    BY <1>5, <1>6, <1>7, <1>8, <1>9

\* What was examined is available when enough drives are revived for every case, as a
\* placement with few failures asks for none.
LEMMA EveryCase ==
    ASSUME NEW buckets, NEW reports, NEW revived,
           \A p \in Examined(buckets, reports) : Probed(p)
    PROVE  /\ \A r \in NeededRecoveries(buckets, reports) : Case(r)
           /\ (\A p \in Examined(buckets, reports) : Available(p, revived))
              <=> (\A r \in NeededRecoveries(buckets, reports) : Enough(revived, r))
  <1> DEFINE examined == Examined(buckets, reports)
             needed == NeededRecoveries(buckets, reports)
  <1>1. needed = {NeededRecovery(p) : p \in {q \in examined : TooMany(q)}}
    BY DEF NeededRecoveries
  <1> HIDE DEF examined, needed
  <1>2. ASSUME NEW p \in examined
        PROVE  /\ Case(NeededRecovery(p))
               /\ Available(p, revived) <=> Enough(revived, NeededRecovery(p))
               /\ ~TooMany(p) => Enough(revived, NeededRecovery(p))
    <2>1. Probed(p)
      BY DEF examined
    <2>2. Case(NeededRecovery(p)) /\ FailureCount(p) \in Nat
      BY <2>1, FailedDrives
    <2>3. Available(p, revived) <=> Enough(revived, NeededRecovery(p))
      BY <2>1, AvailableAgain
    <2>4. ASSUME ~TooMany(p)
          PROVE  Enough(revived, NeededRecovery(p))
      <3> DEFINE back == revived \cap NeededRecovery(p).revivable
                 revivable == NeededRecovery(p).revivable
                 count == FailureCount(p)
      <3>1. IsFiniteSet(revivable) /\ back \in SUBSET revivable
        BY <2>2 DEF Case
      <3>2. NeededRecovery(p).need = count - StripeProtectionDrives
        BY DEF NeededRecovery
      <3>3. count \in Nat /\ StripeProtectionDrives \in Nat /\ ~(count > StripeProtectionDrives)
        BY <2>2, <2>4, PlacementAssumption DEF TooMany
      <3>4. Enough(revived, NeededRecovery(p)) <=> Cardinality(back) >= NeededRecovery(p).need
        BY DEF Enough
      <3> HIDE DEF back, revivable, count
      <3>5. Cardinality(back) \in Nat
        BY <3>1, FS_Subset, FS_CardinalityType
      <3> QED
        BY <3>2, <3>3, <3>4, <3>5
    <2> QED
      BY <2>2, <2>3, <2>4
  <1>3. \A r \in needed : Case(r)
    BY <1>1, <1>2
  <1>4. (\A p \in examined : Available(p, revived)) <=> (\A r \in needed : Enough(revived, r))
    BY <1>1, <1>2
  <1> QED
    BY <1>3, <1>4 DEF examined, needed

-----------------------------------------------------------------------------
(* The drives that must be revived, and what is needed beyond them.        *)

\* A case that asks for all its drives is only met by reviving them.
LEMMA AllOfThem ==
    ASSUME NEW needed, \A r \in needed : Case(r),
           NEW revived, \A r \in needed : Enough(revived, r)
    PROVE  MustRevive(needed) \subseteq revived
  <1>1. ASSUME NEW r \in needed, r.need = Cardinality(r.revivable)
        PROVE  r.revivable \subseteq revived
    <2> DEFINE all == r.revivable
               back == all \cap revived
    <2>1. IsFiniteSet(all) /\ Cardinality(back) >= Cardinality(all)
      <3>1. revived \cap all = all \cap revived
        OBVIOUS
      <3> QED
        BY <1>1, <3>1 DEF Case, Enough
    <2> HIDE DEF all
    <2>2. /\ IsFiniteSet(all \ revived)
          /\ Cardinality(all) \in Nat /\ Cardinality(all \ revived) \in Nat /\ Cardinality(back) \in Nat
          /\ Cardinality(all) = Cardinality(all \ revived) + Cardinality(back)
      BY <2>1, Parts
    <2> HIDE DEF back
    <2>3. Cardinality(all \ revived) = 0
      BY <2>1, <2>2
    <2>4. all \ revived = {}
      BY <2>2, <2>3, FS_EmptySet
    <2> QED
      BY <2>4 DEF all
  <1> QED
    BY <1>1 DEF MustRevive

\* When some drives are revived anyway, what a case needs beyond them is as much as it
\* needs with them.
LEMMA BeyondThem ==
    ASSUME NEW r, Case(r), NEW must, NEW revived, must \subseteq revived
    PROVE  /\ Case(Reduced(r, must))
           /\ Enough(revived, r) <=> Enough(revived, Reduced(r, must))
           /\ ~(Reduced(r, must).need > 0) => Enough(revived, Reduced(r, must))
  <1> DEFINE all == r.revivable
             back == revived \cap all
             rest == revived \cap (all \ must)
             need == r.need
             left == need - Cardinality(all \cap must)
  <1>1. IsFiniteSet(all) /\ need \in Int
    BY DEF Case
  <1>2. IsFiniteSet(back)
    <2>1. back \in SUBSET all
      OBVIOUS
    <2> HIDE DEF back, all
    <2> QED
      BY <1>1, <2>1, FS_Subset
  <1>3. back \ must = rest /\ back \cap must = all \cap must
    OBVIOUS
  <1>4. /\ Reduced(r, must).need = left /\ Reduced(r, must).revivable = all \ must
        /\ Enough(revived, r) <=> Cardinality(back) >= need
        /\ Enough(revived, Reduced(r, must)) <=> Cardinality(rest) >= left
    BY DEF Enough, Reduced
  <1> HIDE DEF all, back, rest, need
  <1>5. /\ Cardinality(back) \in Nat /\ Cardinality(rest) \in Nat
        /\ Cardinality(all \cap must) \in Nat
        /\ Cardinality(back) = Cardinality(rest) + Cardinality(all \cap must)
    BY <1>2, <1>3, Parts
  <1>6. IsFiniteSet(all \ must)
    BY <1>1, Parts
  <1>7. left \in Int
    BY <1>1, <1>5
  <1> QED
    BY <1>1, <1>4, <1>5, <1>6, <1>7 DEF Case

\* All cases are met when the drives that must be revived are, and the cases that are
\* left are met.
LEMMA CasesLeft ==
    ASSUME NEW needed, \A r \in needed : Case(r), NEW revived
    PROVE  /\ \A r \in NewNeededRecoveries(needed) : Case(r)
           /\ (\A r \in needed : Enough(revived, r))
              <=> /\ MustRevive(needed) \subseteq revived
                  /\ \A r \in NewNeededRecoveries(needed) : Enough(revived, r)
  <1> DEFINE must == MustRevive(needed)
             left == NewNeededRecoveries(needed)
  <1>1. left = {r \in {Reduced(q, must) : q \in needed} : r.need > 0}
    BY DEF NewNeededRecoveries
  <1>2. (\A r \in needed : Enough(revived, r)) => must \subseteq revived
    BY AllOfThem
  <1> HIDE DEF must, left
  <1>3. \A r \in left : Case(r)
    <2>1. \A q \in needed : Case(Reduced(q, must))
      <3>1. must \subseteq must
        OBVIOUS
      <3> QED
        BY <3>1, BeyondThem
    <2> QED
      BY <1>1, <2>1
  <1>4. ASSUME must \subseteq revived
        PROVE  (\A r \in needed : Enough(revived, r)) <=> \A r \in left : Enough(revived, r)
    <2>1. \A q \in needed :
              /\ Enough(revived, q) <=> Enough(revived, Reduced(q, must))
              /\ ~(Reduced(q, must).need > 0) => Enough(revived, Reduced(q, must))
      BY <1>4, BeyondThem
    <2> QED
      BY <1>1, <2>1
  <1> QED
    BY <1>2, <1>3, <1>4 DEF must, left

-----------------------------------------------------------------------------
(* What is printed of a list of cases.                                     *)

\* What meets a case meets the weaker ones.
LEMMA WeakerIsMet ==
    ASSUME NEW r, Case(r), NEW earlier, Case(earlier), Weaker(r, earlier),
           NEW revived, Enough(revived, earlier)
    PROVE  Enough(revived, r)
  <1> DEFINE small == revived \cap earlier.revivable
             large == revived \cap r.revivable
  <1>1. small \in SUBSET large /\ large \in SUBSET r.revivable
    BY DEF Weaker
  <1>2. /\ Cardinality(small) >= earlier.need /\ earlier.need >= r.need
        /\ earlier.need \in Int /\ r.need \in Int /\ IsFiniteSet(r.revivable)
    BY DEF Weaker, Enough, Case
  <1>3. Enough(revived, r) <=> Cardinality(large) >= r.need
    BY DEF Enough
  <1> HIDE DEF small, large
  <1>4. IsFiniteSet(large)
    BY <1>1, <1>2, FS_Subset
  <1>5. /\ Cardinality(small) <= Cardinality(large)
        /\ Cardinality(small) \in Nat /\ Cardinality(large) \in Nat
    BY <1>1, <1>4, FS_Subset, FS_CardinalityType
  <1> QED
    BY <1>2, <1>3, <1>5

\* A list is met when the cases of it that are printed are: for every case the first one
\* that it is a weaker form of is printed.
LEMMA PrintedSuffice ==
    ASSUME NEW S, NEW list \in Seq(S), \A i \in 1..Len(list) : Case(list[i]),
           NEW revived
    PROVE  (\A i \in 1..Len(list) : Enough(revived, list[i]))
               <=> (\A r \in Printed(list) : Enough(revived, r))
  <1> DEFINE n == Len(list)
  <1>1. n \in Nat
    OBVIOUS
  <1>2. Printed(list)
        = {list[i] : i \in {j \in 1..n : \A k \in 1..(j - 1) : ~Weaker(list[j], list[k])}}
    BY DEF Printed
  <1> HIDE DEF n
  <1>3. ASSUME \A r \in Printed(list) : Enough(revived, r), NEW i \in 1..n
        PROVE  Enough(revived, list[i])
    <2> DEFINE stronger == {k \in 1..n : Weaker(list[i], list[k])}
    <2>1. Case(list[i])
      BY DEF n
    <2>2. i \in stronger
      BY <2>1 DEF Weaker, Case
    <2>3. stronger \in SUBSET Nat
      BY <1>1
    <2>4. PICK k \in stronger : \A other \in stronger : k <= other
      <3> HIDE DEF stronger
      <3> QED
        BY <2>2, <2>3, LeastElement
    <2>5. k \in 1..n /\ Weaker(list[i], list[k]) /\ Case(list[k])
      BY DEF n
    <2>6. ASSUME NEW m \in 1..(k - 1)
          PROVE  ~Weaker(list[k], list[m])
      <3>1. m \in 1..n /\ m < k
        BY <1>1, <2>5
      <3>2. SUFFICES ASSUME Weaker(list[k], list[m])
                     PROVE  FALSE
        OBVIOUS
      <3>3. Case(list[m])
        BY <3>1 DEF n
      <3>4. Weaker(list[i], list[m])
        <4> DEFINE a == list[i].need
                   b == list[k].need
                   c == list[m].need
        <4>1. a \in Int /\ b \in Int /\ c \in Int /\ b >= a /\ c >= b
          BY <2>1, <2>5, <3>2, <3>3 DEF Case, Weaker
        <4> HIDE DEF a, b, c
        <4>2. c >= a
          BY <4>1
        <4> QED
          BY <2>5, <3>2, <4>2 DEF Weaker, a, c
      <3> QED
        BY <2>3, <2>4, <2>5, <3>1, <3>4
    <2>7. list[k] \in Printed(list)
      BY <1>2, <2>5, <2>6
    <2> QED
      BY <1>3, <2>1, <2>5, <2>7, WeakerIsMet
  <1>4. ASSUME \A i \in 1..n : Enough(revived, list[i]), NEW r \in Printed(list)
        PROVE  Enough(revived, r)
    BY <1>2, <1>4
  <1> QED
    BY <1>3, <1>4 DEF n

-----------------------------------------------------------------------------
(* The advice.                                                             *)

\* The placements that were examined are available again exactly when the drives that
\* "must revive" names are revived, and of every set that is printed as many as it says:
\* an administrator who follows the script revives enough, and whoever revives enough has
\* followed it.  The list may be in any order that its sorting leaves.
THEOREM AdviceHolds ==
    ASSUME NEW buckets, NEW reports, NEW revived,
           \A p \in Examined(buckets, reports) : Probed(p),
           NEW list \in Seq(NewNeededRecoveries(NeededRecoveries(buckets, reports))),
           Sorted(list, NeededRecoveries(buckets, reports))
    PROVE  AdviceExact(buckets, reports, list, revived)
  <1> DEFINE examined == Examined(buckets, reports)
             needed == NeededRecoveries(buckets, reports)
             left == NewNeededRecoveries(needed)
  <1>1. /\ \A r \in needed : Case(r)
        /\ (\A p \in examined : Available(p, revived)) <=> (\A r \in needed : Enough(revived, r))
    BY EveryCase
  <1>2. left = {list[i] : i \in 1..Len(list)}
    BY DEF Sorted
  <1> HIDE DEF examined, needed
  <1>3. /\ \A r \in left : Case(r)
        /\ (\A r \in needed : Enough(revived, r))
           <=> MustRevive(needed) \subseteq revived /\ \A r \in left : Enough(revived, r)
    BY <1>1, CasesLeft
  <1> HIDE DEF left
  <1>4. (\A r \in left : Enough(revived, r)) <=> (\A r \in Printed(list) : Enough(revived, r))
    <2>1. \A i \in 1..Len(list) : Case(list[i])
      BY <1>2, <1>3
    <2>2. (\A i \in 1..Len(list) : Enough(revived, list[i]))
              <=> (\A r \in Printed(list) : Enough(revived, r))
      <3>1. list \in Seq(left)
        BY DEF left, needed
      <3> QED
        BY <2>1, <3>1, PrintedSuffice
    <2> QED
      BY <1>2, <2>2
  <1> QED
    BY <1>1, <1>3, <1>4 DEF AdviceExact, Follows, Enough, examined, needed

\* The assertion of main(), "len(revivable) >= need_revival", holds of a placement that
\* has no more dirty slots than the stripe has protection drives: only what is down can be
\* revived, and what is dirty can be repaired from the rest.
THEOREM RevivalSuffices ==
    ASSUME NEW p, Probed(p), Cardinality(EnabledBits(p.dirty)) <= StripeProtectionDrives
    PROVE  CanBeRevived(p)
  <1> DEFINE count == FailureCount(p)
             dirty == Cardinality(DirtyDisks(p))
             able == Cardinality(NeededRecovery(p).revivable)
  <1>1. /\ dirty = Cardinality(EnabledBits(p.dirty)) /\ count = dirty + able
        /\ IsFiniteSet(DirtyDisks(p)) /\ IsFiniteSet(NeededRecovery(p).revivable)
    BY FailedDrives DEF Case
  <1>2. dirty \in Nat /\ able \in Nat
    BY <1>1, FS_CardinalityType
  <1>3. NeededRecovery(p).need = count - StripeProtectionDrives
    BY DEF NeededRecovery
  <1>4. StripeProtectionDrives \in Nat /\ dirty <= StripeProtectionDrives
    BY <1>1, PlacementAssumption
  <1>5. CanBeRevived(p) <=> (TooMany(p) => able >= NeededRecovery(p).need)
    BY DEF CanBeRevived
  <1> HIDE DEF count, dirty, able
  <1> QED
    BY <1>1, <1>2, <1>3, <1>4, <1>5
=============================================================================
