-------------------------- MODULE ResourcesProofs --------------------------
(***************************************************************************)
(* Proofs about ResourcesGenerator, for any machine and any command line.  *)
(*                                                                         *)
(* What the program ends with is built by loops that interleave with one   *)
(* another only through counters, so that every property needs to be       *)
(* stated for the middle of its loop: how many CPUs each NUMA node has     *)
(* given in this round, which nodes of a role are still in no container,   *)
(* which drives are left and in which round they are handed out.           *)
(***************************************************************************)
EXTENDS ResourcesGenerator, FiniteSetTheorems, SequenceTheorems, TLAPS

\* Phases before there are CPUs to choose from, and before there are containers.
Early == {"args", "net", "drives", "cores"}
Choosing == Early \cup {"count", "pick"}

ContainerSet ==
    [role : Roles, port : Nat, nodes : SUBSET Nat, devices : Seq(Nics),
     drives : SUBSET (1..Len(drives)), memory : Nat]

TypeInv ==
    /\ pc \in Phases \cup Ends
    /\ args \in Arguments
    /\ devices \in Seq(Nics)
    /\ Len(drives) \in Nat
    /\ free \in [Numas -> SUBSET AllCpus]
    /\ turn \in SUBSET Nat
    /\ picked \in Seq(AllCpus)
    /\ wanted \in [Roles -> Nat]
    /\ containers \in Seq(ContainerSet)
    /\ nextPort \in Nat /\ joinPortUsed \in BOOLEAN
    /\ left \in 0..Len(drives)
    /\ asked \in BOOLEAN /\ written \in 0..Len(containers)

PhaseInv ==
    /\ pc \notin {"args", "quit"} => ArgsValid
    /\ pc \in Early \cup {"count"} => picked = << >>
    /\ pc \in Early => free = [n \in Numas |-> {}]
    /\ pc \in Choosing => containers = << >>
    /\ pc \in Phases \ {"pick", "assign"} => turn = {}
    /\ pc = "pick" => turn \subseteq Numas
    /\ pc = "assign" => turn \subseteq Of("DRIVES")
    /\ pc # "assign" => left = 0

\* CPUs that the program chooses by itself.
Automatic == ~RoleIdsGiven /\ args.coreIds = << >>

CoreInv ==
    /\ \A n \in Numas : \A c \in free[n] : NumaOf[c] = n
    /\ \A i \in 1..Len(picked), n \in Numas : picked[i] \notin free[n]
    /\ Distinct(picked)
    /\ Automatic => /\ \A n \in Numas : free[n] \subseteq AutoCpus
                    /\ Elements(picked) \subseteq AutoCpus

CountInv ==
    /\ pc \in {"count", "pick"} => ~RoleIdsGiven
    /\ ~RoleIdsGiven /\ pc \notin Early \cup {"quit"} => ~CoresRefused
    /\ ~RoleIdsGiven /\ pc \notin Early \cup {"count", "quit"} => Required <= ForWeka
    /\ pc \notin Choosing \cup {"quit"} => Required <= Len(picked)

\* While CPUs are picked no NUMA node is ahead of one that has CPUs left, if the
\* turn a node has still to take in this round counts as taken.
Given(n) == Cardinality({i \in 1..Len(picked) : NumaOf[picked[i]] = n})
Level(n) == Given(n) + (IF n \in turn THEN 1 ELSE 0)

LevelInv ==
    /\ pc = "pick" => \A m, n \in Numas : free[m] # {} => Level(n) <= Level(m)
    /\ NumaBalanced

\* The nodes of a role that are in no container are the first ones.
Before(r) == CASE r = "FRONTEND" -> 0
               [] r = "DRIVES"   -> wanted["FRONTEND"]
               [] r = "COMPUTE"  -> wanted["FRONTEND"] + wanted["DRIVES"]
Rest(r) == Most(0, wanted[r] - Cardinality(Of(r)) * args.maxCores)
After(r) == CASE r = "FRONTEND" -> {"DRIVES", "assign", "COMPUTE"}
              [] r = "DRIVES"   -> {"assign", "COMPUTE"}
              [] r = "COMPUTE"  -> {}

NodesInv ==
    /\ \A r \in Roles : NodesOf(r) \ Placed = (Before(r) + 1)..(Before(r) + Rest(r))
    /\ \A i \in 1..Len(containers) :
           /\ containers[i].nodes \subseteq NodesOf(containers[i].role)
           /\ Cardinality(containers[i].nodes) \in 1..args.maxCores
    /\ \A i, j \in 1..Len(containers) :
           containers[i].nodes \cap containers[j].nodes # {} => i = j
    /\ \A r \in Roles : AllPlaced \/ pc \in After(r) => Rest(r) = 0

DevicesInv ==
    ~RoleIdsGiven =>
        /\ pc # "raised"
        /\ Exclusive /\ pc \notin Early \cup {"count", "quit"} =>
               Rest("FRONTEND") + Rest("DRIVES") + Rest("COMPUTE") <= Len(devices)

\* A port is a multiple of a hundred, and 14000 goes to one container.
PortInv ==
    /\ nextPort % 100 = 0 /\ nextPort >= 14200 /\ nextPort # 15000
    /\ \A i \in 1..Len(containers) :
           LET port == containers[i].port IN
           /\ port % 100 = 0 /\ port \notin {14100, 15000}
           /\ port = 14000 \/ port \in 14200..(nextPort - 1)
           /\ port = 14000 => joinPortUsed \/ pc \in {"memory", "files", "done", "quit"}
    /\ \A i, j \in 1..Len(containers) : containers[i].port = containers[j].port => i = j
    /\ joinPortUsed => Of("DRIVES") # {}

\* The drives that are left are the first ones, and every container has taken its
\* share in each of the rounds before, those of this turn not in this round.
Share(i, round) ==
    LET nodes == Cardinality(containers[i].nodes)
        taken == Cardinality(containers[i].drives)
    IN /\ left > 0 => taken = (IF i \in turn THEN round - 1 ELSE round) * nodes
       /\ taken \in ((round - 1) * nodes)..(round * nodes)

DrivesInv ==
    /\ pc \in Choosing \cup {"FRONTEND", "DRIVES"} =>
           \A i \in 1..Len(containers) : containers[i].drives = {}
    /\ \A i \in 1..Len(containers) :
           /\ containers[i].drives \subseteq (left + 1)..Len(drives)
           /\ containers[i].drives # {} => i \in Of("DRIVES")
    /\ \A i, j \in 1..Len(containers) :
           containers[i].drives \cap containers[j].drives # {} => i = j
    /\ args.drives # << >> /\ (AllPlaced \/ pc \in {"assign", "COMPUTE"}) =>
           (left + 1)..Len(drives) \subseteq UNION {containers[i].drives : i \in 1..Len(containers)}
    /\ \E round \in Nat : \A i \in Of("DRIVES") : Share(i, round)

IInv == /\ TypeInv /\ PhaseInv /\ CoreInv /\ CountInv /\ LevelInv
        /\ NodesInv /\ DevicesInv /\ PortInv /\ DrivesInv /\ MemoryFits
-----------------------------------------------------------------------------
(* Numbers and sets of numbers.                                            *)

\* First is the least element of a set of naturals.
LEMMA FirstIsLeast ==
    ASSUME NEW S \in SUBSET Nat, S # {}
    PROVE  First(S) \in S /\ \A y \in S : First(S) <= y
  <1> DEFINE Less == {pair \in Nat \X Nat : pair[1] < pair[2]}
  <1>1. IsWellFoundedOn(Less, Nat)
    BY NatLessThanWellFounded DEF OpToRel
  <1> HIDE DEF Less
  <1>2. PICK x \in S : \A y \in S : <<y, x>> \notin Less
    BY <1>1, WFMin
  <1>3. ASSUME NEW y \in S
        PROVE  x <= y
    <2>1. x \in Nat /\ y \in Nat /\ <<y, x>> \notin Less
      BY <1>2
    <2> QED
      BY <2>1 DEF Less
  <1> QED
    BY <1>3 DEF First

\* Last is the greatest element of a finite one: of all elements the one with the
\* fewest above it.
LEMMA LastIsGreatest ==
    ASSUME NEW S \in SUBSET Nat, S # {}, IsFiniteSet(S)
    PROVE  Last(S) \in S /\ \A y \in S : Last(S) >= y
  <1> DEFINE Above(x) == {y \in S : y > x}
             sizes == {Cardinality(Above(x)) : x \in S}
  <1>1. ASSUME NEW x \in S
        PROVE  IsFiniteSet(Above(x)) /\ Cardinality(Above(x)) \in Nat
    BY FS_Subset, FS_CardinalityType, Above(x) \in SUBSET S
  <1>2. sizes \in SUBSET Nat /\ sizes # {}
    BY <1>1
  <1>3. PICK x \in S : Cardinality(Above(x)) = First(sizes)
    <2> HIDE DEF sizes
    <2>1. First(sizes) \in sizes
      BY <1>2, FirstIsLeast
    <2> QED
      BY <2>1 DEF sizes
  <1>4. ASSUME NEW y \in S
        PROVE  Cardinality(Above(x)) <= Cardinality(Above(y))
    <2>1. Cardinality(Above(y)) \in sizes
      OBVIOUS
    <2> HIDE DEF sizes, Above
    <2>2. First(sizes) <= Cardinality(Above(y))
      BY <2>1, <1>2, FirstIsLeast
    <2> QED
      BY <2>2, <1>3
  <1>5. ASSUME NEW y \in S, y > x
        PROVE  FALSE
    <2>1. y \in Above(x) /\ y \notin Above(y) /\ Above(y) \in SUBSET Above(x)
      <3>1. x \in Nat /\ y \in Nat /\ y > x
        BY <1>5
      <3>2. ASSUME NEW z \in S, z > y
            PROVE  z > x
        <4>1. z \in Nat
          OBVIOUS
        <4> QED
          BY <4>1, <3>1, <3>2
      <3>3. y \in Above(x) /\ ~(y > y)
        BY <3>1
      <3> QED
        BY <3>2, <3>3
    <2>2. IsFiniteSet(Above(x)) /\ Cardinality(Above(x)) \in Nat /\ Cardinality(Above(y)) \in Nat
      BY <1>1
    <2>3. Cardinality(Above(x)) <= Cardinality(Above(y))
      BY <1>4
    <2> HIDE DEF Above
    <2>4. Cardinality(Above(y)) = Cardinality(Above(x))
      BY <2>1, <2>2, <2>3, FS_Subset
    <2>5. Above(x) = Above(y)
      BY <2>1, <2>2, <2>4, FS_Subset
    <2> QED
      BY <2>1, <2>5
  <1>6. \A y \in S : x >= y
    BY <1>5
  <1> QED
    BY <1>6 DEF Last

\* Division rounded up: so many groups of m are needed for w.
LEMMA Ceiling ==
    ASSUME NEW w \in Nat, NEW m \in Nat \ {0}, NEW k \in Nat
    PROVE  /\ (w + m - 1) \div m \in Nat
           /\ k < (w + m - 1) \div m <=> k * m < w
  <1> DEFINE q == (w + m - 1) \div m
  <1>1. q \in Nat /\ q * m <= w + m - 1 /\ w + m - 1 < q * m + m
    OBVIOUS
  <1> HIDE DEF q
  <1>2. k < q => (k + 1) * m <= q * m
    BY <1>1
  <1>3. k >= q => q * m <= k * m
    BY <1>1
  <1>4. (k + 1) * m = k * m + m /\ k * m \in Nat /\ q * m \in Nat
    BY <1>1
  <1>5. k < q <=> k * m < w
    BY <1>1, <1>2, <1>3, <1>4
  <1> QED
    BY <1>1, <1>5 DEF q

\* A function on 1..n is a sequence of length n.
LEMMA FunctionIsSeq ==
    ASSUME NEW S, NEW n \in Nat, NEW f \in [1..n -> S]
    PROVE  f \in Seq(S) /\ Len(f) = n
  <1>1. f \in Seq(S)
    BY SeqDef
  <1>2. Len(f) \in Nat /\ DOMAIN f = 1..Len(f)
    BY <1>1, LenProperties
  <1>3. 1..Len(f) = 1..n
    BY <1>2
  <1>4. \A k \in Nat : Cardinality(1..k) = k
    BY FS_Interval
  <1> QED
    BY <1>1, <1>2, <1>3, <1>4

-----------------------------------------------------------------------------
(* Arguments, nodes and memory.                                            *)

\* What the parser makes of a command line.
LEMMA ArgumentTypes ==
    ASSUME args \in Arguments
    PROVE  /\ args.maxCores \in 1..19 /\ args.spare \in Nat /\ args.numCores \in Nat
           /\ \A r \in Roles : args.dedicated[r] \in Nat \cup {-1}
           /\ Len(args.net) \in Nat /\ Len(args.drives) \in Nat /\ Len(args.coreIds) \in Nat
           /\ args.net \in Seq(Elements(args.net)) /\ args.coreIds \in Seq(Elements(args.coreIds))
           /\ \A r \in Roles : /\ args.roleIds[r] \in Seq(Elements(args.roleIds[r]))
                               /\ Len(args.roleIds[r]) \in Nat
           /\ args.compute \in Int /\ args.hugepages \in Int
           /\ args.spareMemory \in Int /\ args.protocolsMemory \in Int
  <1>1. args.net \in Seq(Elements(args.net)) /\ args.drives \in Seq(Elements(args.drives))
        /\ args.coreIds \in Seq(Elements(args.coreIds))
        /\ \A r \in Roles : args.roleIds[r] \in Seq(Elements(args.roleIds[r]))
    BY MachineAssumption
  <1>2. Len(args.net) \in Nat /\ Len(args.drives) \in Nat /\ Len(args.coreIds) \in Nat
        /\ \A r \in Roles : Len(args.roleIds[r]) \in Nat
    BY <1>1, LenProperties
  <1> QED
    BY <1>1, <1>2, MachineAssumption DEF MaxPerContainer, None

\* The nodes of a role are an interval.
LEMMA NodesOfRole ==
    ASSUME TypeInv, NEW r \in Roles
    PROVE  /\ Before(r) \in Nat /\ wanted[r] \in Nat
           /\ NodesOf(r) = (Before(r) + 1)..(Before(r) + wanted[r])
           /\ NodesOf(r) \subseteq Nat \ {0} /\ IsFiniteSet(NodesOf(r))
  <1>1. /\ Before(r) \in Nat /\ wanted[r] \in Nat
        /\ NodesOf(r) = (Before(r) + 1)..(Before(r) + wanted[r])
    BY DEF TypeInv, Roles, Before, NodesOf
  <1>2. IsFiniteSet((Before(r) + 1)..(Before(r) + wanted[r]))
    BY <1>1, FS_Interval
  <1>3. (Before(r) + 1)..(Before(r) + wanted[r]) \subseteq Nat \ {0}
    BY <1>1
  <1> QED
    BY <1>1, <1>2, <1>3

\* The nodes of a role that run on a NUMA node are so many.
LEMMA NodesOnNuma ==
    ASSUME TypeInv, NEW numa, NEW r \in Roles
    PROVE  Cardinality(On(numa, r)) \in Nat /\ (On(numa, r) # {} => Cardinality(On(numa, r)) > 0)
  <1>1. IsFiniteSet(On(numa, r))
    BY NodesOfRole, FS_Subset, On(numa, r) \in SUBSET NodesOf(r) DEF On
  <1> QED
    BY <1>1, FS_CardinalityType, FS_EmptySet

\* A machine has a NUMA node.
LEMMA SomeNumas == Cardinality(Numas) \in Nat \ {0}
  BY MachineAssumption, FS_CardinalityType, FS_EmptySet

\* The memory available to a NUMA node is a number, perhaps a negative one.
LEMMA AvailableIsNumber ==
    ASSUME TypeInv, NEW numa \in Numas
    PROVE  Available(numa) \in Int /\ Others(numa) \in Nat
  <1>1. Cardinality(On(numa, "COMPUTE")) \in Nat /\ Cardinality(On(numa, "DRIVES")) \in Nat
        /\ Cardinality(On(numa, "FRONTEND")) \in Nat
    BY NodesOnNuma DEF Roles
  <1>2. Resident(numa) \in Int /\ Others(numa) \in Nat
    BY <1>1, SomeNumas DEF Resident, Others
  <1>3. Reserved \in Int
    <2>1. args.spareMemory \in Int /\ args.protocolsMemory \in Int
      BY ArgumentTypes DEF TypeInv
    <2>2. (IF args.noRdma THEN 0 ELSE 200) \in Int
      OBVIOUS
    <2> QED
      BY <2>1, <2>2 DEF Reserved, OsReserved
  <1>4. Reserved \div Cardinality(Numas) \in Int
    BY <1>3, SomeNumas
  <1>5. Memory[numa] \in Int
    BY MachineAssumption
  <1> QED
    BY <1>2, <1>4, <1>5 DEF Available

\* The hugepages of a compute node, as its NUMA node allows, are never fewer than
\* the minimum; when they are more, they fit, and the minimum does.
LEMMA PerNodeFits ==
    ASSUME TypeInv, NEW numa \in ComputeNumas
    PROVE  /\ PerNode(numa) \in Nat /\ PerNode(numa) >= Minimal
           /\ \A slot \in Nat : slot >= Minimal /\ slot <= PerNode(numa) =>
                  slot = Minimal \/ Fits(slot, numa)
           /\ PerNode(numa) > Minimal => Fits(Minimal, numa)
  <1> DEFINE k == Cardinality(On(numa, "COMPUTE"))
             rest == (Available(numa) - Minimal * Others(numa)) * 32768
             pages == rest \div 35173
  <1>1. k \in Nat \ {0} /\ rest \in Int /\ Available(numa) \in Int
    BY NodesOnNuma, AvailableIsNumber DEF ComputeNumas, Roles, Minimal
  <1>2. PerNode(numa) = IF Available(numa) <= 0 THEN Minimal ELSE Most(Minimal, pages \div k)
    BY DEF PerNode
  <1> HIDE DEF k, rest
  <1>3. pages \in Int /\ pages * 35173 <= rest
    BY <1>1
  <1> HIDE DEF pages
  <1>4. pages \div k \in Int /\ (pages \div k) * k <= pages
    BY <1>1, <1>3
  <1>5. PerNode(numa) \in Nat /\ PerNode(numa) >= Minimal
    BY <1>1, <1>2, <1>4 DEF Minimal, Most
  <1>6. ASSUME NEW slot \in Nat, slot <= pages \div k
        PROVE  slot * k * 35173 <= rest
    <2>1. slot <= pages \div k
      BY <1>6
    <2>2. slot * k <= (pages \div k) * k /\ slot * k \in Nat
      BY <2>1, <1>1, <1>4
    <2>3. slot * k <= pages
      BY <2>2, <1>1, <1>3, <1>4
    <2> QED
      BY <2>2, <2>3, <1>1, <1>3
  <1>7. \A slot \in Nat : slot >= Minimal /\ slot <= PerNode(numa) =>
            slot = Minimal \/ slot <= pages \div k
    BY <1>1, <1>2, <1>4 DEF Minimal, Most
  <1>8. PerNode(numa) > Minimal => Minimal \in Nat /\ Minimal <= pages \div k
    BY <1>1, <1>2, <1>4 DEF Minimal, Most
  <1>9. \A slot : Fits(slot, numa) <=> slot * k * 35173 <= rest
    BY DEF Fits, Room, k, rest
  <1> HIDE DEF Minimal
  <1> QED
    BY <1>5, <1>6, <1>7, <1>8, <1>9

\* One amount is used on all NUMA nodes, the least of theirs.
LEMMA SlotIsLeast ==
    ASSUME TypeInv
    PROVE  /\ SlotMemory \in Nat /\ SlotMemory >= Minimal
           /\ \A numa \in ComputeNumas : SlotMemory <= PerNode(numa)
  <1>1. CASE ComputeNumas = {}
    BY <1>1 DEF SlotMemory, Minimal
  <1>2. CASE ComputeNumas # {}
    <2> DEFINE amounts == {PerNode(numa) : numa \in ComputeNumas}
    <2>1. amounts \in SUBSET Nat /\ amounts # {} /\ \A x \in amounts : x >= Minimal
      BY <1>2, PerNodeFits
    <2>2. SlotMemory = First(amounts) /\ \A numa \in ComputeNumas : PerNode(numa) \in amounts
      BY <1>2 DEF SlotMemory
    <2> HIDE DEF amounts
    <2> QED
      BY <2>1, <2>2, FirstIsLeast
  <1> QED
    BY <1>1, <1>2

-----------------------------------------------------------------------------
(* Types.                                                                  *)

\* A container is of a role, and its nodes, drives and memory are numbers.
LEMMA ContainerTypes ==
    ASSUME TypeInv, NEW i \in 1..Len(containers)
    PROVE  /\ containers[i] \in ContainerSet
           /\ containers[i].role \in Roles /\ containers[i].nodes \subseteq Nat
           /\ containers[i].port \in Nat /\ containers[i].drives \subseteq 1..Len(drives)
  <1>1. containers \in [1..Len(containers) -> ContainerSet]
    BY LenProperties DEF TypeInv
  <1> QED
    BY <1>1 DEF ContainerSet

\* A container has a node, and no more than nineteen.
LEMMA NodeCount ==
    ASSUME TypeInv, NodesInv, NEW i \in 1..Len(containers)
    PROVE  Cardinality(containers[i].nodes) \in 1..19 /\ Cardinality(containers[i].nodes) \in Nat \ {0}
  <1> DEFINE n == Cardinality(containers[i].nodes)
  <1>1. args.maxCores \in 1..19
    BY ArgumentTypes DEF TypeInv
  <1>2. n \in 1..args.maxCores
    BY DEF NodesInv
  <1> HIDE DEF n
  <1>3. n \in 1..19 /\ n \in Nat \ {0}
    BY <1>1, <1>2
  <1> QED
    BY <1>3 DEF n

\* When a field of some containers changes, what remains are containers.
LEMMA ContainersStaySequence ==
    ASSUME TypeInv, NEW new,
           new \in [1..Len(containers) -> ContainerSet]
    PROVE  new \in Seq(ContainerSet) /\ Len(new) = Len(containers)
  <1>1. Len(containers) \in Nat
    BY LenProperties DEF TypeInv
  <1> QED
    BY <1>1, FunctionIsSeq

\* A container that is given drives stays what it is otherwise.
LEMMA RolesStay ==
    ASSUME TypeInv, NEW i \in 1..Len(containers), AssignDrives(i)
    PROVE  /\ Len(containers') = Len(containers)
           /\ \A k \in 1..Len(containers) :
                  /\ containers'[k].role = containers[k].role
                  /\ containers'[k].nodes = containers[k].nodes
                  /\ containers'[k].port = containers[k].port
                  /\ containers'[k].drives =
                         IF k # i THEN containers[k].drives
                         ELSE containers[k].drives \cup
                              (left - Least(Cardinality(containers[k].nodes), left) + 1)..left
           /\ \A r \in Roles : Of(r)' = Of(r)
  <1> DEFINE more == (left - Least(Cardinality(containers[i].nodes), left) + 1)..left
  <1>1. containers \in [1..Len(containers) -> ContainerSet] /\ Len(containers) \in Nat
    BY LenProperties DEF TypeInv
  <1>2. containers' = [containers EXCEPT ![i].drives = @ \cup more]
    BY DEF AssignDrives
  <1> HIDE DEF more
  <1>3. containers' = [containers EXCEPT ![i] = [containers[i] EXCEPT !.drives = @ \cup more]]
    BY <1>1, <1>2
  <1>4. DOMAIN containers' = 1..Len(containers)
    BY <1>1, <1>3
  <1>5. Len(containers') = Len(containers)
    <2>1. \A e : [containers EXCEPT ![i] = e] \in [1..Len(containers) -> ContainerSet \cup {e}]
      BY <1>1
    <2>2. \E S : containers' \in [1..Len(containers) -> S]
      BY <1>3, <2>1
    <2> QED
      BY <1>1, <2>2, FunctionIsSeq
  <1>6. \A k \in 1..Len(containers) :
            /\ containers'[k].role = containers[k].role
            /\ containers'[k].nodes = containers[k].nodes
            /\ containers'[k].port = containers[k].port
            /\ containers'[k].drives = IF k # i THEN containers[k].drives
                                       ELSE containers[k].drives \cup more
    BY <1>1, <1>3 DEF ContainerSet
  <1>7. \A r \in Roles : Of(r)' = Of(r)
    BY <1>5, <1>6 DEF Of
  <1> QED
    BY <1>5, <1>6, <1>7 DEF more

\* At first everything is empty.
LEMMA InitType == Init => TypeInv
  <1> SUFFICES ASSUME Init
               PROVE  TypeInv
    OBVIOUS
  <1>1. args \in Arguments /\ Len(drives) = 0 /\ Len(containers) = 0
    BY DEF Init
  <1>2. free \in [Numas -> SUBSET AllCpus] /\ wanted \in [Roles -> Nat] /\ turn = {}
    BY DEF Init
  <1>3. devices \in Seq(Nics) /\ picked \in Seq(AllCpus) /\ containers \in Seq(ContainerSet)
    BY DEF Init
  <1>4. pc = "args" /\ nextPort = 14200 /\ left = 0 /\ written = 0
    BY DEF Init
  <1>5. left \in 0..Len(drives) /\ written \in 0..Len(containers) /\ Len(drives) \in Nat
    BY <1>1, <1>4
  <1>6. nextPort \in Nat /\ turn \in SUBSET Nat
    BY <1>2, <1>4
  <1>7. joinPortUsed = FALSE /\ asked = FALSE
    BY DEF Init
  <1>8. joinPortUsed \in BOOLEAN /\ asked \in BOOLEAN
    BY <1>7
  <1> QED
    BY <1>1, <1>2, <1>3, <1>4, <1>5, <1>6, <1>8 DEF TypeInv, Phases

\* The CPUs named for the roles, one role after another.
LEMMA RoleIdsAreSequence ==
    ASSUME args \in Arguments
    PROVE  /\ Len(RoleIds) = Len(args.roleIds["FRONTEND"]) + Len(args.roleIds["DRIVES"])
                               + Len(args.roleIds["COMPUTE"])
           /\ Elements(RoleIds) \subseteq AllCpus => RoleIds \in Seq(AllCpus)
  <1> DEFINE f == args.roleIds["FRONTEND"]
             d == args.roleIds["DRIVES"]
             c == args.roleIds["COMPUTE"]
             S == Elements(f) \cup Elements(d) \cup Elements(c)
  <1>1. f \in Seq(Elements(f)) /\ d \in Seq(Elements(d)) /\ c \in Seq(Elements(c))
    BY ArgumentTypes DEF Roles
  <1> HIDE DEF f, d, c
  <1>2. f \in Seq(S) /\ d \in Seq(S) /\ c \in Seq(S)
    BY <1>1, SeqMonotonic
  <1> HIDE DEF S
  <1>3. f \o d \in Seq(S) /\ Len(f \o d) = Len(f) + Len(d)
    BY <1>2, ConcatProperties
  <1>4. f \o d \o c \in Seq(S) /\ Len(f \o d \o c) = Len(f \o d) + Len(c)
    BY <1>2, <1>3, ConcatProperties
  <1>5. RoleIds = f \o d \o c
    BY DEF RoleIds, f, d, c
  <1>6. Len(RoleIds) \in Nat /\ RoleIds \in [1..Len(RoleIds) -> S]
    BY <1>4, <1>5, LenProperties
  <1>7. ASSUME Elements(RoleIds) \subseteq AllCpus
        PROVE  RoleIds \in Seq(AllCpus)
    <2>1. RoleIds \in [1..Len(RoleIds) -> AllCpus]
      BY <1>6, <1>7 DEF Elements
    <2> QED
      BY <1>6, <2>1, FunctionIsSeq
  <1> QED
    BY <1>3, <1>4, <1>5, <1>7 DEF f, d, c

\* Without named CPUs by role, each role has a number of nodes.
LEMMA NumbersOfNodes ==
    ASSUME TypeInv
    PROVE  NumFrontend \in Nat /\ NumDrive \in Nat /\ NumCompute \in Nat
           /\ AvailableCores \in Int /\ NumAvailableCores \in Int /\ ForWeka \in Int
           /\ NumSpecified \in Nat
  <1>1. args.numCores \in Nat /\ args.spare \in Nat /\ Len(args.coreIds) \in Nat
        /\ \A r \in Roles : args.dedicated[r] \in Nat \cup {-1}
    BY ArgumentTypes DEF TypeInv
  <1>2. Cardinality(Cpus) \in Nat
    BY MachineAssumption, FS_Subset, FS_CardinalityType, Cpus \in SUBSET AllCpus DEF Cpus
  <1>3. NumSpecified \in Nat /\ ForWeka \in Int
    BY <1>1, <1>2 DEF NumSpecified, ForWeka
  <1>4. NumAvailableCores \in Int
    BY <1>3 DEF NumAvailableCores
  <1>5. AvailableCores \in Int
    BY <1>1, <1>4, LenProperties DEF AvailableCores, Least, TypeInv
  <1>6. NumFrontend \in Nat /\ NumDrive \in Nat
    BY <1>1 DEF NumFrontend, NumDrive, Default, Roles, None, TypeInv
  <1>7. NumCompute \in Nat
    BY <1>1, <1>5, <1>6 DEF NumCompute, Default, Roles, None, Most
  <1> QED
    BY <1>3, <1>4, <1>5, <1>6, <1>7

\* The CPU that is popped is one of the NUMA node's.
LEMMA LastOfFree ==
    ASSUME TypeInv, NEW n \in Numas, free[n] # {}
    PROVE  Last(free[n]) \in free[n] /\ free[n] \subseteq AllCpus
  <1>1. free[n] \in SUBSET AllCpus /\ free[n] \in SUBSET Nat
    BY MachineAssumption DEF TypeInv
  <1>2. IsFiniteSet(free[n])
    BY <1>1, MachineAssumption, FS_Subset
  <1> QED
    BY <1>1, <1>2, LastIsGreatest

\* A container is added, and takes devices from the end of the list.
LEMMA ContainerAdded ==
    ASSUME TypeInv, NEW r \in Roles, AddContainer(r)
    PROVE  /\ containers' \in Seq(ContainerSet) /\ Len(containers') = Len(containers) + 1
           /\ devices' \in Seq(Nics)
           /\ Exclusive => Len(devices') = Len(devices) - Cardinality(Taken(r))
  <1> DEFINE count == Cardinality(Taken(r))
             rest == Len(devices) - count
  <1>1. Len(devices) \in Nat /\ devices \in [1..Len(devices) -> Nics]
    BY LenProperties DEF TypeInv
  <1>2. Taken(r) \subseteq Nat /\ count \in Nat
    <2>1. Taken(r) \in SUBSET NodesOf(r)
      BY DEF Taken
    <2> QED
      BY <2>1, NodesOfRole, FS_Subset, FS_CardinalityType
  <1>3. Exclusive => rest \in 0..Len(devices)
    BY <1>1, <1>2 DEF AddContainer
  <1>4. Exclusive => /\ SubSeq(devices, 1, rest) \in Seq(Nics) /\ Len(SubSeq(devices, 1, rest)) = rest
                     /\ SubSeq(devices, rest + 1, Len(devices)) \in Seq(Nics)
    <2> SUFFICES ASSUME Exclusive
                 PROVE  /\ SubSeq(devices, 1, rest) \in Seq(Nics)
                        /\ Len(SubSeq(devices, 1, rest)) = rest
                        /\ SubSeq(devices, rest + 1, Len(devices)) \in Seq(Nics)
      OBVIOUS
    <2>1. \A i \in 1..rest : devices[i] \in Nics
      BY <1>1, <1>3
    <2>2. \A i \in (rest + 1)..Len(devices) : devices[i] \in Nics
      BY <1>1, <1>3
    <2>3. rest \in Int /\ rest + 1 \in Int /\ Len(devices) \in Int /\ rest >= 0
      BY <1>1, <1>3
    <2> HIDE DEF rest
    <2>4. SubSeq(devices, 1, rest) \in Seq(Nics) /\ Len(SubSeq(devices, 1, rest)) = rest
      BY <2>1, <2>3, SubSeqProperties
    <2>5. SubSeq(devices, rest + 1, Len(devices)) \in Seq(Nics)
      BY <2>2, <2>3, SubSeqProperties
    <2> QED
      BY <2>4, <2>5
  <1>5. devices' = (IF Exclusive THEN SubSeq(devices, 1, rest) ELSE devices)
    BY DEF AddContainer
  <1>6. devices' \in Seq(Nics) /\ (Exclusive => Len(devices') = rest)
    BY <1>4, <1>5 DEF TypeInv
  <1>7. PICK c : /\ containers' = Append(containers, c) /\ c \in ContainerSet
    <2> DEFINE port == IF UsesJoinPort(r) THEN 14000 ELSE nextPort
               nics == IF Exclusive THEN SubSeq(devices, rest + 1, Len(devices)) ELSE devices
    <2>1. containers' = Append(containers, Container(r, port, Taken(r), nics))
      BY DEF AddContainer
    <2>2. port \in Nat /\ nics \in Seq(Nics)
      BY <1>4 DEF TypeInv
    <2> HIDE DEF port, nics
    <2>3. Container(r, port, Taken(r), nics) \in ContainerSet
      BY <1>2, <2>2 DEF Container, ContainerSet
    <2> QED
      BY <2>1, <2>3
  <1>8. containers' \in Seq(ContainerSet) /\ Len(containers') = Len(containers) + 1
    BY <1>7, AppendProperties DEF TypeInv
  <1> QED
    BY <1>6, <1>8

\* The memory of a compute container is a number when it is not refused.
LEMMA MemoryIsNumber ==
    ASSUME TypeInv, NodesInv, ~MemoryRefused, NEW i \in Of("COMPUTE")
    PROVE  /\ NodeMemory \in Nat /\ Cardinality(containers[i].nodes) \in Nat \ {0}
           /\ NodeMemory * Cardinality(containers[i].nodes) \in Nat
  <1>1. i \in 1..Len(containers) /\ containers[i].role = "COMPUTE"
    BY DEF Of
  <1>2. Cardinality(containers[i].nodes) \in Nat \ {0}
    BY <1>1, NodeCount
  <1>3. wanted["COMPUTE"] \in Nat \ {0}
    <2>1. containers[i].nodes \subseteq NodesOf("COMPUTE")
      BY <1>1 DEF NodesInv
    <2>2. containers[i].nodes # {}
      BY <1>2, FS_EmptySet
    <2> QED
      BY <2>1, <2>2, NodesOfRole DEF Roles
  <1>4. Specified \in Int
    <2>1. wanted["DRIVES"] \in Nat /\ wanted["FRONTEND"] \in Nat
      BY DEF TypeInv, Roles
    <2>2. args.hugepages \in Int /\ args.compute \in Int
      BY ArgumentTypes DEF TypeInv
    <2> QED
      BY <2>1, <2>2 DEF Specified, Minimal
  <1>5. PerSpecified \in Int
    BY <1>3, <1>4 DEF PerSpecified
  <1>6. NodeMemory \in Nat
    <2>1. IsSpecified => PerSpecified > 0
      BY <1>5 DEF MemoryRefused
    <2> QED
      BY <2>1, <1>5, SlotIsLeast DEF NodeMemory, Minimal
  <1> QED
    BY <1>2, <1>6

\* Every step keeps the types.
LEMMA NextType ==
    ASSUME TypeInv, PhaseInv, NodesInv, [Next]_vars
    PROVE  TypeInv'
  <1>1. Len(containers) \in Nat /\ Len(devices) \in Nat /\ Len(picked) \in Nat
    BY LenProperties DEF TypeInv
  <1>3. CASE SetUserArgs
    BY <1>3 DEF SetUserArgs, Goto, TypeInv, ContainerSet, Phases
  <1>4. CASE SetNetDevices
    <2>1. ArgsValid
      BY <1>4 DEF SetNetDevices, PhaseInv
    <2>2. Len(args.net) \in Nat
      BY ArgumentTypes DEF TypeInv
    <2>3. devices' \in [1..Len(args.net) -> Nics]
      BY <1>4, <2>1, MachineAssumption DEF SetNetDevices, ArgsValid, NetValid
    <2>4. devices' \in Seq(Nics)
      BY <2>2, <2>3, FunctionIsSeq
    <2> QED
      BY <1>4, <2>4 DEF SetNetDevices, Goto, TypeInv, ContainerSet, Phases
  <1>5. CASE SetDrives /\ ~Stop
    <2>1. containers = << >> /\ left = 0 /\ UNCHANGED <<containers, left>>
      BY <1>5 DEF SetDrives, PhaseInv, Choosing, Early
    <2>2. Len(args.drives) \in Nat /\ Len(Disks) \in Nat
      BY ArgumentTypes, MachineAssumption, LenProperties DEF TypeInv
    <2>3. Len(drives)' \in Nat
      BY <1>5, <2>2 DEF SetDrives
    <2>4. containers' \in Seq(ContainerSet')
      BY <2>1
    <2>5. asked' \in BOOLEAN
      BY <1>5 DEF SetDrives, Warn, TypeInv
    <2>6. pc' = "cores" /\ UNCHANGED <<args, devices, free, turn, picked, wanted, containers,
                                      nextPort, joinPortUsed, left, written>>
      BY <1>5 DEF SetDrives, Goto
    <2> QED
      BY <2>1, <2>3, <2>4, <2>5, <2>6 DEF TypeInv, Phases
  <1>6. CASE SetCores /\ ~Stop
    <2>1. free' \in [Numas -> SUBSET AllCpus]
      <3>1. CASE args.coreIds # << >>
        <4>1. Elements(args.coreIds) \subseteq AllCpus
          BY <1>6 DEF SetCores, PhaseInv, ArgsValid, CoreIdsValid
        <4> QED
          BY <1>6, <3>1, <4>1 DEF SetCores
      <3>2. CASE args.coreIds = << >>
        <4>1. AutoCpus \subseteq AllCpus
          BY MachineAssumption DEF AutoCpus, Cpus
        <4> QED
          BY <1>6, <3>2, <4>1 DEF SetCores
      <3> QED
        BY <3>1, <3>2
    <2>2. asked' \in BOOLEAN
      BY <1>6 DEF SetCores, Warn, TypeInv
    <2>3. pc' = "count" /\ UNCHANGED <<args, devices, drives, turn, picked, wanted, containers,
                                      nextPort, joinPortUsed, left, written>>
      BY <1>6 DEF SetCores, Goto
    <2> QED
      BY <2>1, <2>2, <2>3 DEF TypeInv, ContainerSet, Phases
  <1>7. CASE SetSpecifiedCores
    <2>1. Elements(RoleIds) \subseteq AllCpus
      BY <1>7 DEF SetSpecifiedCores, PhaseInv, ArgsValid, CoreIdsValid
    <2>2. RoleIds \in Seq(AllCpus)
      BY <2>1, RoleIdsAreSequence DEF TypeInv
    <2>3. wanted' \in [Roles -> Nat]
      BY <1>7, ArgumentTypes DEF SetSpecifiedCores, TypeInv
    <2> QED
      BY <1>7, <2>2, <2>3 DEF SetSpecifiedCores, Goto, TypeInv, ContainerSet, Phases, Roles
  <1>8. CASE CountNodes /\ ~Stop
    <2>1. /\ wanted' = [r \in Roles |-> CASE r = "FRONTEND" -> NumFrontend
                                          [] r = "DRIVES" -> NumDrive
                                          [] r = "COMPUTE" -> NumCompute]
          /\ pc' = "pick" /\ UNCHANGED <<args, devices, drives, free, turn, picked, containers,
                                         nextPort, joinPortUsed, left, asked, written>>
      BY <1>8 DEF CountNodes, Goto
    <2>2. NumFrontend \in Nat /\ NumDrive \in Nat /\ NumCompute \in Nat
      BY NumbersOfNodes
    <2>3. wanted' \in [Roles -> Nat]
      BY <2>1, <2>2 DEF Roles
    <2> QED
      BY <2>1, <2>3 DEF TypeInv, ContainerSet, Phases
  <1>9. CASE NextRound
    BY <1>9, MachineAssumption DEF NextRound, Goto, TypeInv, ContainerSet, Phases, Roles
  <1>10. ASSUME NEW n \in Numas, PickCore(n)
         PROVE  TypeInv'
    <2>1. CASE free[n] # {}
      <3>1. Last(free[n]) \in AllCpus
        BY <2>1, LastOfFree
      <3>2. /\ picked' = Append(picked, Last(free[n]))
            /\ free' = [free EXCEPT ![n] = @ \ {Last(free[n])}] /\ turn' = turn \ {n}
            /\ UNCHANGED <<pc, args, devices, drives, wanted, containers, nextPort, joinPortUsed,
                           left, asked, written>>
        BY <1>10, <2>1 DEF PickCore
      <3>3. picked' \in Seq(AllCpus)
        BY <3>1, <3>2, AppendProperties DEF TypeInv
      <3>4. free' \in [Numas -> SUBSET AllCpus]
        BY <3>2 DEF TypeInv
      <3> QED
        BY <3>2, <3>3, <3>4 DEF TypeInv, ContainerSet
    <2>2. CASE free[n] = {}
      BY <1>10, <2>2 DEF PickCore, TypeInv, ContainerSet
    <2> QED
      BY <2>1, <2>2
  <1>11. ASSUME NEW r \in Roles, AddContainer(r)
         PROVE  TypeInv'
    <2>1. /\ containers' \in Seq(ContainerSet) /\ Len(containers') = Len(containers) + 1
          /\ devices' \in Seq(Nics)
      BY <1>11, ContainerAdded
    <2>2. /\ \/ joinPortUsed' = TRUE /\ nextPort' = nextPort
             \/ joinPortUsed' = joinPortUsed /\ nextPort' = NextPort
          /\ UNCHANGED <<pc, args, drives, free, turn, picked, wanted, left, asked, written>>
      BY <1>11 DEF AddContainer
    <2>3. nextPort' \in Nat /\ joinPortUsed' \in BOOLEAN
      <3>1. nextPort \in Nat /\ joinPortUsed \in BOOLEAN
        BY DEF TypeInv
      <3>2. NextPort \in Nat
        BY <3>1 DEF NextPort
      <3> QED
        BY <2>2, <3>1, <3>2
    <2>4. written' \in 0..Len(containers')
      BY <2>1, <2>2, <1>1 DEF TypeInv
    <2> HIDE <1>11
    <2> QED
      BY <2>1, <2>2, <2>3, <2>4 DEF TypeInv, ContainerSet
  <1>12. ASSUME NEW r \in Roles, DevicesRunOut(r)
         PROVE  TypeInv'
    BY <1>12 DEF DevicesRunOut, Goto, TypeInv, ContainerSet, Ends
  <1>13. ASSUME NEW r \in Roles, RoleDone(r)
         PROVE  TypeInv'
    <2>1. left' \in 0..Len(drives)
      BY <1>13 DEF RoleDone, TypeInv, Roles, Least
    <2>2. pc' \in Phases
      BY <1>13 DEF RoleDone, Goto, Phases, Roles
    <2>3. ContainerSet' = ContainerSet
      BY <1>13 DEF RoleDone, ContainerSet
    <2>4. UNCHANGED <<args, devices, drives, free, turn, picked, wanted, containers,
                      nextPort, joinPortUsed, asked, written>>
      BY <1>13 DEF RoleDone
    <2> QED
      BY <2>1, <2>2, <2>3, <2>4 DEF TypeInv
  <1>14. ASSUME NEW i \in 1..Len(containers), AssignDrives(i)
         PROVE  TypeInv'
    <2> DEFINE count == Least(Cardinality(containers[i].nodes), left)
    <2>1. count \in 0..left
      BY ArgumentTypes DEF NodesInv, TypeInv, Least
    <2>2. /\ containers' = [containers EXCEPT ![i].drives = @ \cup (left - count + 1)..left]
          /\ left' = left - count /\ turn' = turn \ {i}
          /\ UNCHANGED <<pc, args, devices, drives, free, picked, wanted, nextPort,
                         joinPortUsed, asked, written>>
      BY <1>14 DEF AssignDrives
    <2>3. containers' \in [1..Len(containers) -> ContainerSet]
      <3>1. containers[i].drives \cup (left - count + 1)..left \subseteq 1..Len(drives)
        BY <2>1, ContainerTypes DEF TypeInv
      <3> HIDE DEF count
      <3>2. [containers[i] EXCEPT !.drives = @ \cup (left - count + 1)..left] \in ContainerSet
        BY <3>1, ContainerTypes DEF ContainerSet
      <3>3. containers \in [1..Len(containers) -> ContainerSet]
        BY LenProperties DEF TypeInv
      <3> QED
        BY <2>2, <3>2, <3>3
    <2>4. containers' \in Seq(ContainerSet) /\ Len(containers') = Len(containers)
      BY <2>3, ContainersStaySequence
    <2>5. left' \in 0..Len(drives)
      BY <2>1, <2>2 DEF TypeInv
    <2> HIDE DEF count
    <2> QED
      BY <2>2, <2>4, <2>5 DEF TypeInv, ContainerSet
  <1>15. CASE NextDriveRound
    BY <1>15, <1>1 DEF NextDriveRound, Of, TypeInv, ContainerSet
  <1>16. CASE DrivesAssigned
    BY <1>16 DEF DrivesAssigned, Goto, TypeInv, ContainerSet, Phases, Roles
  <1>17. CASE EnsurePort14000IsUsed
    <2>1. containers' \in [1..Len(containers) -> ContainerSet]
      <3>1. containers \in [1..Len(containers) -> ContainerSet]
        BY LenProperties DEF TypeInv
      <3>2. \A k \in 1..Len(containers) : [containers[k] EXCEPT !.port = 14000] \in ContainerSet
        BY ContainerTypes DEF ContainerSet
      <3>3. containers' = IF Of("DRIVES") = {} /\ Of("COMPUTE") # {}
                          THEN [containers EXCEPT ![First(Of("COMPUTE"))].port = 14000]
                          ELSE containers
        BY <1>17 DEF EnsurePort14000IsUsed
      <3>4. CASE Of("DRIVES") = {} /\ Of("COMPUTE") # {}
        <4>1. First(Of("COMPUTE")) \in 1..Len(containers)
          BY <3>4, FirstIsLeast, Of("COMPUTE") \in SUBSET Nat DEF Of
        <4>2. containers' = [containers EXCEPT ![First(Of("COMPUTE"))] = [@ EXCEPT !.port = 14000]]
          BY <3>3, <3>4
        <4> QED
          BY <3>1, <3>2, <4>1, <4>2
      <3> QED
        BY <3>1, <3>3, <3>4
    <2>2. containers' \in Seq(ContainerSet) /\ Len(containers') = Len(containers)
      BY <2>1, ContainersStaySequence
    <2> QED
      BY <1>17, <2>2 DEF EnsurePort14000IsUsed, Goto, TypeInv, ContainerSet, Phases
  <1>18. CASE SetMemory /\ ~Stop
    <2>1. containers' \in [1..Len(containers) -> ContainerSet]
      <3>1. ~MemoryRefused
            /\ containers' = [i \in 1..Len(containers) |->
                   IF i \notin Of("COMPUTE") THEN containers[i]
                   ELSE [containers[i] EXCEPT !.memory =
                             NodeMemory * Cardinality(containers[i].nodes)]]
        BY <1>18 DEF SetMemory
      <3>2. ASSUME NEW i \in Of("COMPUTE")
            PROVE  [containers[i] EXCEPT !.memory =
                        NodeMemory * Cardinality(containers[i].nodes)] \in ContainerSet
        <4>1. i \in 1..Len(containers) /\ NodeMemory * Cardinality(containers[i].nodes) \in Nat
          BY <3>1, MemoryIsNumber DEF Of
        <4> QED
          BY <4>1, ContainerTypes DEF ContainerSet
      <3> QED
        BY <3>1, <3>2, ContainerTypes
    <2>2. containers' \in Seq(ContainerSet) /\ Len(containers') = Len(containers)
      BY <2>1, ContainersStaySequence
    <2>3. asked' \in BOOLEAN
      BY <1>18 DEF SetMemory, Warn, TypeInv
    <2> QED
      BY <1>18, <2>2, <2>3 DEF SetMemory, Goto, TypeInv, ContainerSet, Phases
  <1>19. CASE CreateResourcesFile /\ ~Stop
    <2>1. /\ written < Len(containers) /\ written' = written + 1
          /\ UNCHANGED <<pc, args, devices, drives, free, turn, picked, wanted,
                         containers, nextPort, joinPortUsed, left, asked>>
      BY <1>19 DEF CreateResourcesFile
    <2> QED
      BY <2>1, <1>1 DEF TypeInv, ContainerSet
  <1>20. CASE Generated
    BY <1>20 DEF Generated, Goto, TypeInv, ContainerSet, Ends
  <1>21. CASE UNCHANGED vars
    BY <1>21 DEF vars, TypeInv, ContainerSet
  <1>22. ASSUME Stop
         PROVE  TypeInv'
    BY <1>22 DEF Stop, Goto, TypeInv, ContainerSet, Ends
  <1> QED
    BY <1>3, <1>4, <1>5, <1>6, <1>7, <1>8, <1>9, <1>10, <1>11, <1>12, <1>13, <1>14, <1>15, <1>16,
       <1>17, <1>18, <1>19, <1>20, <1>21, <1>22 DEF Next, ArgsRefused, AddressRefused

-----------------------------------------------------------------------------
(* Phases.                                                                 *)

\* The command line does not change.
LEMMA ArgsStay == ASSUME [Next]_vars PROVE args' = args
  BY DEF Next, vars, Stop, SetUserArgs, ArgsRefused, SetNetDevices, AddressRefused, SetDrives,
     SetCores, SetSpecifiedCores, CountNodes, NextRound, PickCore, AddContainer, DevicesRunOut,
     RoleDone, AssignDrives, NextDriveRound, DrivesAssigned, EnsurePort14000IsUsed, SetMemory,
     CreateResourcesFile, Generated

\* Every step of the loops over containers finds them in the phase's order.
LEMMA NextPhase ==
    ASSUME TypeInv, PhaseInv, [Next]_vars
    PROVE  PhaseInv'
  <1> USE DEF PhaseInv, Choosing, Early, Phases, Goto
  <1>1. args' = args
    BY ArgsStay
  <1>2. ArgsValid' <=> ArgsValid
    BY <1>1 DEF ArgsValid, NetValid, CoreIdsValid, SizesValid, Named, RoleIds
  <1>3. CASE SetUserArgs
    BY <1>3, <1>2 DEF SetUserArgs
  <1>4. CASE SetNetDevices
    BY <1>4, <1>2 DEF SetNetDevices
  <1>5. CASE SetDrives /\ ~Stop
    BY <1>5, <1>2 DEF SetDrives
  <1>6. CASE SetCores /\ ~Stop
    BY <1>6, <1>2 DEF SetCores
  <1>7. CASE SetSpecifiedCores
    BY <1>7, <1>2 DEF SetSpecifiedCores, Roles
  <1>8. CASE CountNodes /\ ~Stop
    BY <1>8, <1>2 DEF CountNodes
  <1>9. CASE NextRound
    BY <1>9, <1>2 DEF NextRound, Roles
  <1>10. ASSUME NEW n \in Numas, PickCore(n)
         PROVE  PhaseInv'
    BY <1>10, <1>2 DEF PickCore, Roles
  <1>11. ASSUME NEW r \in Roles, AddContainer(r)
         PROVE  PhaseInv'
    <2>1. pc \in Roles /\ UNCHANGED <<pc, args, drives, free, turn, picked, wanted, left>>
      BY <1>11 DEF AddContainer
    <2> QED
      BY <2>1, <1>2 DEF Roles
  <1>12. ASSUME NEW r \in Roles, DevicesRunOut(r)
         PROVE  PhaseInv'
    BY <1>12, <1>2 DEF DevicesRunOut, Roles, Ends
  <1>13. ASSUME NEW r \in Roles, RoleDone(r)
         PROVE  PhaseInv'
    <2>1. turn = {}
      BY <1>13 DEF RoleDone, Roles
    <2>2. pc' = "assign" \/ left' = 0
      BY <1>13 DEF RoleDone, Roles
    <2> QED
      BY <1>13, <1>2, <2>1, <2>2 DEF RoleDone, Roles
  <1>14. ASSUME NEW i \in 1..Len(containers), AssignDrives(i)
         PROVE  PhaseInv'
    <2>1. /\ pc = "assign" /\ pc' = "assign" /\ turn' \subseteq turn
          /\ UNCHANGED <<args, picked, free>>
      BY <1>14 DEF AssignDrives
    <2>2. Of("DRIVES")' = Of("DRIVES")
      BY <1>14, RolesStay DEF Roles
    <2> QED
      BY <2>1, <2>2, <1>2 DEF Roles
  <1>15. CASE NextDriveRound
    <2>1. Of("DRIVES")' = Of("DRIVES")
      BY <1>15 DEF NextDriveRound, Of
    <2> QED
      BY <1>15, <2>1, <1>2 DEF NextDriveRound, Roles
  <1>16. CASE DrivesAssigned
    BY <1>16, <1>2 DEF DrivesAssigned, Roles
  <1>17. CASE EnsurePort14000IsUsed
    BY <1>17, <1>2 DEF EnsurePort14000IsUsed, Roles
  <1>18. CASE SetMemory /\ ~Stop
    BY <1>18, <1>2 DEF SetMemory, Roles
  <1>19. CASE CreateResourcesFile /\ ~Stop
    BY <1>19, <1>2 DEF CreateResourcesFile, Roles
  <1>20. CASE Generated
    BY <1>20, <1>2 DEF Generated, Roles
  <1>21. CASE UNCHANGED vars
    BY <1>21, <1>2 DEF vars, Of
  <1>22. ASSUME Stop, pc # "assign"
         PROVE  PhaseInv'
    BY <1>22 DEF Stop, Roles
  <1>23. ASSUME Stop, pc = "assign", Next
         PROVE  PhaseInv'
    BY <1>23 DEF Stop, Roles, Next, SetUserArgs, ArgsRefused, SetNetDevices, AddressRefused, SetDrives,
     SetCores, SetSpecifiedCores, CountNodes, NextRound, PickCore, AddContainer, DevicesRunOut,
     RoleDone, AssignDrives, NextDriveRound, DrivesAssigned, EnsurePort14000IsUsed, SetMemory,
     CreateResourcesFile, Generated
  <1> QED
    BY <1>3, <1>4, <1>5, <1>6, <1>7, <1>8, <1>9, <1>10, <1>11, <1>12, <1>13, <1>14, <1>15, <1>16,
       <1>17, <1>18, <1>19, <1>20, <1>21, <1>22, <1>23 DEF Next, ArgsRefused, AddressRefused

-----------------------------------------------------------------------------
(* CPUs.                                                                   *)

\* What the steps do to the CPUs, the numbers of nodes and the phase.
LEMMA CpuSteps ==
    ASSUME PhaseInv, [Next]_vars
    PROVE  \/ SetCores /\ ~Stop
           \/ SetSpecifiedCores
           \/ CountNodes /\ ~Stop
           \/ NextRound
           \/ \E n \in Numas : PickCore(n)
           \/ /\ UNCHANGED <<args, free, picked, wanted>>
              /\ \/ pc' \in Early \cup {"quit"}
                 \/ pc \notin Choosing \cup {"quit"} /\ pc' \notin Choosing
                 \/ UNCHANGED <<pc, turn>>
  <1> USE DEF Choosing, Early, Goto
  <1>1. CASE SetUserArgs \/ ArgsRefused \/ SetNetDevices \/ AddressRefused \/ SetDrives \/ Stop
    BY <1>1 DEF SetUserArgs, ArgsRefused, SetNetDevices, AddressRefused, SetDrives, Stop
  <1>2. CASE (\E r \in Roles : AddContainer(r) \/ DevicesRunOut(r) \/ RoleDone(r))
    BY <1>2 DEF AddContainer, DevicesRunOut, RoleDone, Roles
  <1>3. CASE (\E i \in 1..Len(containers) : AssignDrives(i)) \/ NextDriveRound \/ DrivesAssigned
    BY <1>3 DEF AssignDrives, NextDriveRound, DrivesAssigned
  <1>4. CASE EnsurePort14000IsUsed \/ SetMemory \/ CreateResourcesFile \/ Generated
    BY <1>4 DEF EnsurePort14000IsUsed, SetMemory, CreateResourcesFile, Generated, Stop
  <1>5. CASE UNCHANGED vars
    BY <1>5 DEF vars
  <1> QED
    BY <1>1, <1>2, <1>3, <1>4, <1>5 DEF Next

\* At first no CPU is free, and none picked.
LEMMA InitCores == Init => CoreInv /\ CountInv
  BY DEF Init, CoreInv, CountInv, Distinct, Elements, Early, Choosing

\* What a list of CPUs becomes when one is appended.
LEMMA CpuAppended ==
    ASSUME TypeInv, NEW c \in AllCpus, picked' = Append(picked, c)
    PROVE  /\ Len(picked) \in Nat /\ Len(picked') = Len(picked) + 1
           /\ \A i \in 1..Len(picked) : picked'[i] = picked[i]
           /\ picked'[Len(picked) + 1] = c
  BY AppendProperties, LenProperties DEF TypeInv

\* A CPU is free, or picked once.
LEMMA NextCores ==
    ASSUME TypeInv, PhaseInv, CoreInv, [Next]_vars
    PROVE  CoreInv'
  <1>1. args' = args
    BY ArgsStay
  <1>2. (Automatic' <=> Automatic) /\ AutoCpus' = AutoCpus /\ RoleIds' = RoleIds
    BY <1>1 DEF Automatic, RoleIdsGiven, RoleIds, AutoCpus
  <1>3. CASE UNCHANGED <<free, picked>>
    BY <1>2, <1>3 DEF CoreInv, Distinct, Elements
  <1>4. CASE SetCores /\ ~Stop
    <2>1. picked = << >> /\ picked' = << >>
      BY <1>4 DEF SetCores, PhaseInv, Early
    <2>2. free' = [n \in Numas |->
              {c \in (IF args.coreIds # << >> THEN Elements(args.coreIds) ELSE AutoCpus) : NumaOf[c] = n}]
      BY <1>4 DEF SetCores
    <2>3. Automatic => \A n \in Numas : free'[n] \subseteq AutoCpus
      BY <2>2 DEF Automatic
    <2> QED
      BY <2>1, <2>2, <2>3, <1>2 DEF CoreInv, Distinct, Elements
  <1>5. CASE SetSpecifiedCores
    <2>1. free' = [n \in Numas |-> {}] /\ ~Automatic /\ picked' = RoleIds /\ Distinct(RoleIds)
      BY <1>5 DEF SetSpecifiedCores, PhaseInv, Early, ArgsValid, CoreIdsValid, Automatic
    <2> QED
      BY <2>1, <1>2 DEF CoreInv, Distinct
  <1>6. ASSUME NEW n \in Numas, PickCore(n), free[n] # {}
        PROVE  CoreInv'
    <2> DEFINE c == Last(free[n])
    <2>1. c \in free[n] /\ c \in AllCpus
      BY <1>6, LastOfFree
    <2>2. /\ picked' = Append(picked, c)
          /\ free' = [free EXCEPT ![n] = @ \ {c}]
      BY <1>6 DEF PickCore
    <2> HIDE DEF c
    <2>3. /\ Len(picked) \in Nat /\ Len(picked') = Len(picked) + 1
          /\ \A i \in 1..Len(picked) : picked'[i] = picked[i]
          /\ picked'[Len(picked) + 1] = c
      BY <2>1, <2>2, CpuAppended
    <2>4. \A m \in Numas : free'[m] = IF m = n THEN free[n] \ {c} ELSE free[m]
      BY <2>2 DEF TypeInv
    <2>5. \A m \in Numas : c \notin free'[m]
      BY <2>1, <2>4 DEF CoreInv
    <2>6. \A i \in 1..Len(picked) : picked[i] # c
      BY <2>1 DEF CoreInv
    <2>7. Distinct(picked)'
      BY <2>3, <2>6 DEF CoreInv, Distinct
    <2>8. \A i \in 1..Len(picked'), m \in Numas : picked'[i] \notin free'[m]
      BY <2>3, <2>4, <2>5 DEF CoreInv
    <2>9. Automatic => (\A m \in Numas : free'[m] \subseteq AutoCpus) /\ Elements(picked)' \subseteq AutoCpus
      BY <2>1, <2>3, <2>4 DEF CoreInv, Elements
    <2> QED
      BY <2>4, <2>7, <2>8, <2>9, <1>2 DEF CoreInv
  <1>7. ASSUME NEW n \in Numas, PickCore(n), free[n] = {}
        PROVE  CoreInv'
    BY <1>3, <1>7 DEF PickCore
  <1>8. CASE CountNodes /\ ~Stop
    BY <1>3, <1>8 DEF CountNodes
  <1>9. CASE NextRound
    BY <1>3, <1>9 DEF NextRound
  <1> QED
    BY <1>3, <1>4, <1>5, <1>6, <1>7, <1>8, <1>9, CpuSteps

\* The nodes are as many as there are CPUs for them, less the ones to be spared.
LEMMA CountedNodesFit ==
    ASSUME TypeInv, PhaseInv, CountInv, CountNodes, ~Stop
    PROVE  /\ Required' = NumFrontend + NumDrive + NumCompute
           /\ Required' <= ForWeka
           /\ Exclusive => Required' <= Len(devices)
  <1>1. /\ ~CountsRefused /\ pc = "count"
        /\ wanted' = [r \in Roles |-> CASE r = "FRONTEND" -> NumFrontend
                                        [] r = "DRIVES" -> NumDrive
                                        [] r = "COMPUTE" -> NumCompute]
    BY DEF CountNodes
  <1>2. /\ NumFrontend \in Nat /\ NumDrive \in Nat /\ NumCompute \in Nat
        /\ AvailableCores \in Int /\ NumAvailableCores \in Int /\ ForWeka \in Int
        /\ NumSpecified \in Nat
    BY NumbersOfNodes
  <1>3. Required' = NumFrontend + NumDrive + NumCompute
    BY <1>1, <1>2 DEF Required, Roles
  <1>4. Required' <= AvailableCores
    BY <1>1, <1>2, <1>3 DEF CountsRefused
  <1>5. NumAvailableCores <= ForWeka
    BY <1>1, <1>2 DEF CountInv, Early, CoresRefused, NumAvailableCores
  <1>6. args.numCores \in Nat /\ Len(args.coreIds) \in Nat /\ Len(devices) \in Nat
    BY ArgumentTypes, LenProperties DEF TypeInv
  <1>7. CASE args.numCores # 0
    <2>1. args.coreIds # << >> => args.numCores = Len(args.coreIds)
      BY <1>1, <1>7 DEF PhaseInv, ArgsValid, CoreIdsValid
    <2>2. NumAvailableCores = args.numCores
      BY <1>7, <2>1, <1>6 DEF NumAvailableCores, NumSpecified
    <2>3. Exclusive => args.numCores <= Len(devices)
      BY <1>1, <1>7, <1>6 DEF CountsRefused
    <2> QED
      BY <1>3, <1>4, <1>5, <1>6, <1>7, <1>2, <2>2, <2>3 DEF AvailableCores
  <1>8. CASE args.numCores = 0
    BY <1>3, <1>4, <1>5, <1>6, <1>8, <1>2 DEF AvailableCores, Least
  <1> QED
    BY <1>7, <1>8

\* No more nodes are wanted than there are CPUs for them.
LEMMA NextCounts ==
    ASSUME TypeInv, PhaseInv, CountInv, [Next]_vars
    PROVE  CountInv'
  <1>1. args' = args
    BY ArgsStay
  <1>2. (RoleIdsGiven' <=> RoleIdsGiven) /\ (CoresRefused' <=> CoresRefused) /\ ForWeka' = ForWeka
    BY <1>1 DEF RoleIdsGiven, RoleIds, CoresRefused, NumSpecified, ForWeka
  <1>3. Len(picked) \in Nat
    BY LenProperties DEF TypeInv
  <1>4. CASE /\ UNCHANGED <<picked, wanted>>
             /\ \/ pc' \in Early \cup {"quit"}
                \/ pc \notin Choosing \cup {"quit"} /\ pc' \notin Choosing
                \/ UNCHANGED <<pc, turn>>
    BY <1>4, <1>2 DEF CountInv, Early, Choosing, Required
  <1>5. CASE SetCores /\ ~Stop
    BY <1>5, <1>2 DEF SetCores, CountInv, Early, Choosing, Goto
  <1>6. CASE SetSpecifiedCores
    <2>1. /\ picked' = RoleIds /\ RoleIdsGiven /\ pc' = "FRONTEND"
          /\ wanted' = [r \in Roles |-> Len(args.roleIds[r])]
      BY <1>6 DEF SetSpecifiedCores, Goto
    <2>2. Len(RoleIds) \in Nat /\ Required' = Len(RoleIds)
      <3>1. \A r \in Roles : Len(args.roleIds[r]) \in Nat
        BY ArgumentTypes DEF TypeInv
      <3>2. Len(RoleIds) = Len(args.roleIds["FRONTEND"]) + Len(args.roleIds["DRIVES"])
                           + Len(args.roleIds["COMPUTE"])
        BY RoleIdsAreSequence DEF TypeInv
      <3>3. \A r \in Roles : wanted'[r] = Len(args.roleIds[r])
        BY <2>1
      <3>4. Len(RoleIds) = wanted'["FRONTEND"] + wanted'["DRIVES"] + wanted'["COMPUTE"]
        BY <3>2, <3>3 DEF Roles
      <3>5. wanted'["FRONTEND"] \in Nat /\ wanted'["DRIVES"] \in Nat /\ wanted'["COMPUTE"] \in Nat
        BY <3>1, <3>3 DEF Roles
      <3> QED
        BY <3>4, <3>5 DEF Required
    <2> QED
      BY <2>1, <2>2, <1>2 DEF CountInv
  <1>7. CASE CountNodes /\ ~Stop
    <2>1. pc = "count" /\ pc' = "pick"
      BY <1>7 DEF CountNodes, Goto
    <2> QED
      BY <1>7, <2>1, <1>2, CountedNodesFit DEF CountInv, Choosing, Early
  <1>8. CASE NextRound
    <2>1. pc = "pick" /\ UNCHANGED <<picked, wanted>>
          /\ (pc' = "pick" \/ (pc' = "FRONTEND" /\ ~(Len(picked) < Required)))
      BY <1>8 DEF NextRound, Goto
    <2>2. Required' = Required /\ Required \in Nat
      BY <2>1 DEF Required, TypeInv, Roles
    <2> QED
      BY <2>1, <2>2, <1>2, <1>3 DEF CountInv, Choosing, Early
  <1>9. ASSUME NEW n \in Numas, PickCore(n)
        PROVE  CountInv'
    BY <1>9, <1>2 DEF PickCore, CountInv, Choosing, Early, Required
  <1> QED
    BY <1>4, <1>5, <1>6, <1>7, <1>8, <1>9, CpuSteps

-----------------------------------------------------------------------------
(* NUMA nodes.                                                             *)

\* What a NUMA node has given is a number; the CPU appended counts for its own.
LEMMA GivenIsNumber ==
    ASSUME TypeInv, NEW n
    PROVE  Given(n) \in Nat /\ IsFiniteSet({i \in 1..Len(picked) : NumaOf[picked[i]] = n})
  <1> DEFINE S == {i \in 1..Len(picked) : NumaOf[picked[i]] = n}
  <1>1. Len(picked) \in Nat
    BY LenProperties DEF TypeInv
  <1>2. IsFiniteSet(1..Len(picked))
    BY <1>1, FS_Interval
  <1>3. S \in SUBSET (1..Len(picked))
    OBVIOUS
  <1> HIDE DEF S
  <1>4. IsFiniteSet(S) /\ Cardinality(S) \in Nat
    BY <1>2, <1>3, FS_Subset, FS_CardinalityType
  <1> QED
    BY <1>4 DEF S, Given

LEMMA GivenAppended ==
    ASSUME TypeInv, NEW c \in AllCpus, picked' = Append(picked, c), NEW n
    PROVE  Given(n)' = IF n = NumaOf[c] THEN Given(n) + 1 ELSE Given(n)
  <1> DEFINE S == {i \in 1..Len(picked) : NumaOf[picked[i]] = n}
             T == {i \in 1..Len(picked') : NumaOf[picked'[i]] = n}
  <1>1. /\ Len(picked) \in Nat /\ Len(picked') = Len(picked) + 1
        /\ \A i \in 1..Len(picked) : picked'[i] = picked[i]
        /\ picked'[Len(picked) + 1] = c
    BY CpuAppended
  <1>2. T = IF n = NumaOf[c] THEN S \cup {Len(picked) + 1} ELSE S
    BY <1>1
  <1>3. IsFiniteSet(S) /\ Cardinality(S) = Given(n)
    BY GivenIsNumber DEF Given
  <1>4. Len(picked) + 1 \notin S
    BY <1>1
  <1>5. Given(n)' = Cardinality(T)
    BY DEF Given
  <1> HIDE DEF S, T
  <1> QED
    BY <1>2, <1>3, <1>4, <1>5, FS_AddElement

\* No NUMA node is ahead of one that has CPUs left.
LEMMA NextLevels ==
    ASSUME TypeInv, PhaseInv, CoreInv, LevelInv, [Next]_vars
    PROVE  LevelInv'
  <1>1. RoleIdsGiven' <=> RoleIdsGiven
    BY ArgsStay DEF RoleIdsGiven, RoleIds
  <1>2. \A n : Given(n) \in Nat
    BY GivenIsNumber
  <1>3. ASSUME UNCHANGED <<free, picked>>, pc' # "pick" \/ UNCHANGED <<pc, turn>>
        PROVE  LevelInv'
    <2>1. \A n : Given(n)' = Given(n)
      BY <1>3 DEF Given
    <2>2. pc' = "pick" => \A n : Level(n)' = Level(n)
      BY <1>3, <2>1 DEF Level
    <2> QED
      BY <1>1, <1>3, <2>1, <2>2 DEF LevelInv, NumaBalanced, Given
  <1>4. ASSUME pc' = "pick", \A m, n \in Numas : free'[m] # {} => Level(n)' <= Level(m)',
               \A n \in Numas : Given(n)' \in Nat
        PROVE  LevelInv'
    <2>1. \A m, n \in Numas : free'[m] # {} => Given(n)' <= Given(m)' + 1
      BY <1>4 DEF Level
    <2>2. \A m, n \in Numas : Given(m)' + 1 < Given(n)' => free'[m] = {}
      BY <1>4, <2>1
    <2> QED
      BY <1>4, <2>2 DEF LevelInv, NumaBalanced, Given
  <1>5. CASE SetCores /\ ~Stop
    <2>1. picked' = << >> /\ pc' = "count"
      BY <1>5 DEF SetCores, PhaseInv, Early, Goto
    <2>2. \A n : Given(n)' = 0
      BY <2>1, FS_EmptySet DEF Given
    <2> QED
      BY <2>1, <2>2 DEF LevelInv, NumaBalanced, Given
  <1>6. CASE SetSpecifiedCores
    BY <1>6, <1>1 DEF SetSpecifiedCores, LevelInv, NumaBalanced, Goto
  <1>7. CASE CountNodes /\ ~Stop
    <2>1. picked' = << >> /\ turn' = {} /\ pc' = "pick"
      BY <1>7 DEF CountNodes, PhaseInv, Early, Goto, Phases
    <2>2. \A n : Given(n)' = 0
      BY <2>1, FS_EmptySet DEF Given
    <2> QED
      BY <2>1, <2>2, <1>4 DEF Level
  <1>8. CASE NextRound /\ pc' = "pick"
    <2>1. pc = "pick" /\ turn = {} /\ turn' = Numas /\ UNCHANGED <<free, picked>>
      BY <1>8 DEF NextRound, Goto
    <2>2. \A n \in Numas : Given(n)' = Given(n)
      BY <2>1 DEF Given
    <2>3. \A n \in Numas : Level(n)' = Given(n) + 1 /\ Level(n) = Given(n)
      BY <1>2, <2>1, <2>2 DEF Level
    <2> QED
      BY <1>2, <1>4, <1>8, <2>1, <2>2, <2>3 DEF LevelInv
  <1>9. CASE NextRound /\ pc' # "pick"
    BY <1>3, <1>9 DEF NextRound
  <1>10. ASSUME NEW n \in Numas, PickCore(n)
         PROVE  LevelInv'
    <2>1. pc = "pick" /\ pc' = "pick" /\ turn' = turn \ {n} /\ n \in turn
      <3>1. turn # {} /\ turn \subseteq Numas /\ turn \in SUBSET Nat /\ n = First(turn)
        BY <1>10, MachineAssumption DEF PickCore, PhaseInv
      <3> QED
        BY <1>10, <3>1, FirstIsLeast DEF PickCore
    <2>2. CASE free[n] # {}
      <3> DEFINE c == Last(free[n])
      <3>1. c \in free[n] /\ c \in AllCpus
        BY <2>2, LastOfFree
      <3>2. picked' = Append(picked, c) /\ free' = [free EXCEPT ![n] = @ \ {c}]
        BY <1>10, <2>2 DEF PickCore
      <3>3. NumaOf[c] = n
        BY <3>1 DEF CoreInv
      <3> HIDE DEF c
      <3>4. \A m \in Numas : Given(m)' = IF m = n THEN Given(m) + 1 ELSE Given(m)
        BY <3>1, <3>2, <3>3, GivenAppended
      <3>5. \A m \in Numas : Level(m)' = Level(m)
        BY <2>1, <3>4, <1>2 DEF Level
      <3>6. \A m \in Numas : free'[m] # {} => free[m] # {}
        BY <2>2, <3>2 DEF TypeInv
      <3> QED
        BY <1>2, <1>4, <2>1, <3>4, <3>5, <3>6 DEF LevelInv
    <2>3. CASE free[n] = {}
      <3>1. UNCHANGED <<free, picked>>
        BY <1>10, <2>3 DEF PickCore
      <3>2. \A m \in Numas : Given(m)' = Given(m)
        BY <3>1 DEF Given
      <3>3. \A m \in Numas : Level(m)' = IF m = n THEN Level(m) - 1 ELSE Level(m)
        BY <2>1, <3>2, <1>2 DEF Level
      <3>4. \A m \in Numas : Level(m) \in Nat
        BY <1>2 DEF Level
      <3> QED
        BY <1>2, <1>4, <2>1, <2>3, <3>1, <3>2, <3>3, <3>4 DEF LevelInv
    <2> QED
      BY <2>2, <2>3
  <1>11. Early \cap {"pick"} = {} /\ "pick" \in Choosing
    BY DEF Early, Choosing
  <1> QED
    BY <1>3, <1>5, <1>6, <1>7, <1>8, <1>9, <1>10, <1>11, CpuSteps

-----------------------------------------------------------------------------
(* Nodes in containers.                                                    *)

\* What the steps do to the containers, and when.
LEMMA ContainerSteps ==
    ASSUME PhaseInv, [Next]_vars
    PROVE  \/ /\ containers = << >> /\ containers' = << >> /\ left' = 0
              /\ pc \in Choosing /\ pc' \in Choosing \cup {"FRONTEND", "quit"}
              /\ UNCHANGED <<nextPort, joinPortUsed>>
           \/ \E r \in Roles : AddContainer(r) \/ DevicesRunOut(r) \/ RoleDone(r)
           \/ \E i \in 1..Len(containers) : AssignDrives(i)
           \/ NextDriveRound \/ DrivesAssigned \/ EnsurePort14000IsUsed
           \/ SetMemory /\ ~Stop
           \/ /\ UNCHANGED <<args, devices, drives, wanted, containers, nextPort, joinPortUsed,
                             left, turn>>
              /\ pc' \in {"quit", pc} \/ (pc = "files" /\ pc' = "done")
  <1> USE DEF Choosing, Early, Goto, PhaseInv
  <1>1. CASE SetUserArgs \/ SetNetDevices \/ (SetDrives /\ ~Stop) \/ (SetCores /\ ~Stop)
    BY <1>1 DEF SetUserArgs, SetNetDevices, SetDrives, SetCores
  <1>2. CASE SetSpecifiedCores \/ (CountNodes /\ ~Stop) \/ NextRound \/ \E n \in Numas : PickCore(n)
    BY <1>2 DEF SetSpecifiedCores, CountNodes, NextRound, PickCore
  <1>3. CASE Stop
    BY <1>3 DEF Stop
  <1>4. CASE (CreateResourcesFile /\ ~Stop) \/ Generated
    BY <1>4 DEF CreateResourcesFile, Generated
  <1>5. CASE UNCHANGED vars
    BY <1>5 DEF vars
  <1> QED
    BY <1>1, <1>2, <1>3, <1>4, <1>5 DEF Next, ArgsRefused, AddressRefused

\* Containers of a role are finitely many.
LEMMA OfIsFinite ==
    ASSUME TypeInv, NEW r
    PROVE  IsFiniteSet(Of(r)) /\ Cardinality(Of(r)) \in Nat /\ Of(r) \subseteq 1..Len(containers)
  <1>1. IsFiniteSet(1..Len(containers))
    BY LenProperties, FS_Interval DEF TypeInv
  <1>2. Of(r) \in SUBSET (1..Len(containers))
    BY DEF Of
  <1> QED
    BY <1>1, <1>2, FS_Subset, FS_CardinalityType

\* Before there are containers, all nodes are to be placed.
LEMMA NothingPlaced ==
    ASSUME containers = << >>, args \in Arguments, wanted \in [Roles -> Nat]
    PROVE  /\ Placed = {} /\ \A r : Of(r) = {}
           /\ \A r \in Roles : Rest(r) = wanted[r]
  <1>1. Len(containers) = 0
    OBVIOUS
  <1>2. Placed = {} /\ \A r : Of(r) = {}
    BY <1>1 DEF Placed, Of
  <1>3. \A r : Cardinality(Of(r)) = 0
    BY <1>2, FS_EmptySet
  <1>4. args.maxCores \in 1..19
    BY ArgumentTypes
  <1>5. ASSUME NEW r \in Roles
        PROVE  Rest(r) = wanted[r]
    <2>1. Cardinality(Of(r)) * args.maxCores = 0
      BY <1>3, <1>4
    <2> QED
      BY <2>1 DEF Rest, Most
  <1> QED
    BY <1>2, <1>5

\* Another container is needed as long as nodes are left, and it takes the last of
\* them, as many as it may have.
LEMMA TakenNodes ==
    ASSUME TypeInv, NodesInv, NEW r \in Roles
    PROVE  /\ Rest(r) \in Nat
           /\ Cardinality(Of(r)) < NumContainers(r) => Rest(r) > 0
           /\ Cardinality(Of(r)) = NumContainers(r) => Rest(r) = 0
           /\ Cardinality(Taken(r)) = Least(Rest(r), args.maxCores)
           /\ Taken(r) = (Before(r) + Rest(r) - Cardinality(Taken(r)) + 1)..(Before(r) + Rest(r))
           /\ Taken(r) \subseteq NodesOf(r) \ Placed
  <1> DEFINE k == Cardinality(Of(r))
             m == args.maxCores
             b == Before(r)
             x == Rest(r)
             n == Least(x, m)
  <1>1. k \in Nat /\ m \in 1..19 /\ b \in Nat /\ wanted[r] \in Nat
    BY OfIsFinite, ArgumentTypes, NodesOfRole DEF TypeInv
  <1>2. x = Most(0, wanted[r] - k * m)
    BY DEF Rest
  <1>3. NumContainers(r) = (wanted[r] + m - 1) \div m
    BY DEF NumContainers
  <1>4. NodesOf(r) \ Placed = (b + 1)..(b + x)
    BY DEF NodesInv
  <1>5. Taken(r) = {i \in (b + 1)..(b + x) : Cardinality({j \in (b + 1)..(b + x) : j > i}) < m}
    BY <1>4 DEF Taken
  <1> HIDE DEF k, m, b, x
  <1>6. x \in Nat /\ k * m \in Nat
    BY <1>1, <1>2 DEF Most
  <1>7. NumContainers(r) \in Nat /\ (k < NumContainers(r) <=> k * m < wanted[r])
    BY <1>1, <1>3, Ceiling
  <1>8. (k < NumContainers(r) => x > 0) /\ (k = NumContainers(r) => x = 0)
    BY <1>1, <1>2, <1>6, <1>7 DEF Most
  <1>9. ASSUME NEW i \in (b + 1)..(b + x)
        PROVE  Cardinality({j \in (b + 1)..(b + x) : j > i}) = b + x - i
    <2>1. {j \in (b + 1)..(b + x) : j > i} = (i + 1)..(b + x)
      BY <1>1, <1>6
    <2>2. Cardinality((i + 1)..(b + x)) = b + x - i
      BY <1>1, <1>6, FS_Interval
    <2> QED
      BY <2>1, <2>2
  <1>10. Taken(r) = (b + x - n + 1)..(b + x)
    <2>1. Taken(r) = {i \in (b + 1)..(b + x) : b + x - i < m}
      BY <1>5, <1>9
    <2> QED
      BY <2>1, <1>1, <1>6 DEF Least
  <1>11. Cardinality(Taken(r)) = n
    <2>1. n \in 0..x
      BY <1>1, <1>6 DEF Least
    <2> HIDE DEF n
    <2> QED
      BY <2>1, <1>1, <1>6, <1>10, FS_Interval
  <1>12. Taken(r) \subseteq NodesOf(r) \ Placed
    BY DEF Taken
  <1> QED
    BY <1>6, <1>8, <1>10, <1>11, <1>12 DEF k, m, b, x

\* The containers, when one is added for a role.
LEMMA Added ==
    ASSUME TypeInv, NEW r \in Roles, AddContainer(r)
    PROVE  /\ Len(containers) \in Nat /\ Len(containers') = Len(containers) + 1
           /\ \A i \in 1..Len(containers) : containers'[i] = containers[i]
           /\ containers'[Len(containers) + 1].role = r
           /\ containers'[Len(containers) + 1].nodes = Taken(r)
           /\ containers'[Len(containers) + 1].port = IF UsesJoinPort(r) THEN 14000 ELSE nextPort
           /\ containers'[Len(containers) + 1].drives = {}
           /\ Of(r)' = Of(r) \cup {Len(containers) + 1}
           /\ Cardinality(Of(r)') = Cardinality(Of(r)) + 1
           /\ \A q \in Roles \ {r} : Of(q)' = Of(q)
           /\ Placed' = Placed \cup Taken(r)
           /\ UNCHANGED <<pc, args, drives, turn, wanted, left>>
  <1> DEFINE new == Len(containers) + 1
  <1>1. PICK c : /\ containers' = Append(containers, c)
                 /\ c.role = r /\ c.nodes = Taken(r) /\ c.drives = {}
                 /\ c.port = IF UsesJoinPort(r) THEN 14000 ELSE nextPort
    BY DEF AddContainer, Container
  <1>2. Len(containers) \in Nat /\ containers \in [1..Len(containers) -> ContainerSet]
    BY LenProperties DEF TypeInv
  <1>3. containers \in Seq(ContainerSet \cup {c})
    BY SeqMonotonic DEF TypeInv
  <1>4. /\ Len(containers') = new /\ containers'[new] = c
        /\ \A i \in 1..Len(containers) : containers'[i] = containers[i]
    BY <1>1, <1>3, AppendProperties
  <1>5. 1..new = (1..Len(containers)) \cup {new} /\ new \notin 1..Len(containers)
    BY <1>2
  <1>6. Of(r)' = Of(r) \cup {new} /\ new \notin Of(r)
    BY <1>1, <1>4, <1>5 DEF Of
  <1>7. \A q \in Roles \ {r} : Of(q)' = Of(q)
    BY <1>1, <1>4, <1>5 DEF Of
  <1>8. Cardinality(Of(r)') = Cardinality(Of(r)) + 1
    BY <1>6, OfIsFinite, FS_AddElement
  <1>9. Placed' = Placed \cup Taken(r)
    <2>1. Placed' = UNION {containers'[i].nodes : i \in 1..new}
      BY <1>4 DEF Placed
    <2>2. {containers'[i].nodes : i \in 1..new} = {containers[i].nodes : i \in 1..Len(containers)} \cup {c.nodes}
      BY <1>4, <1>5
    <2> QED
      BY <2>1, <2>2, <1>1 DEF Placed
  <1>10. UNCHANGED <<pc, args, drives, turn, wanted, left>>
    BY DEF AddContainer
  <1> QED
    BY <1>1, <1>2, <1>4, <1>6, <1>7, <1>8, <1>9, <1>10

\* Port 14000 goes to the first compute container, if there are no drives
\* containers; nothing else changes.
LEMMA PortEnsured ==
    ASSUME TypeInv, EnsurePort14000IsUsed
    PROVE  /\ Len(containers') = Len(containers)
           /\ \A k \in 1..Len(containers) :
                  /\ containers'[k].role = containers[k].role
                  /\ containers'[k].nodes = containers[k].nodes
                  /\ containers'[k].drives = containers[k].drives
                  /\ containers'[k].port =
                         IF Of("DRIVES") = {} /\ Of("COMPUTE") # {} /\ k = First(Of("COMPUTE"))
                         THEN 14000 ELSE containers[k].port
  <1>1. containers \in [1..Len(containers) -> ContainerSet] /\ Len(containers) \in Nat
    BY LenProperties DEF TypeInv
  <1>2. CASE Of("DRIVES") = {} /\ Of("COMPUTE") # {}
    <2> DEFINE i == First(Of("COMPUTE"))
    <2>1. i \in 1..Len(containers)
      BY <1>2, FirstIsLeast, Of("COMPUTE") \in SUBSET Nat DEF Of
    <2>2. containers' = [containers EXCEPT ![i].port = 14000]
      BY <1>2 DEF EnsurePort14000IsUsed
    <2> HIDE DEF i
    <2> DEFINE c == [containers[i] EXCEPT !.port = 14000]
    <2>3. containers' = [containers EXCEPT ![i] = c]
      BY <1>1, <2>1, <2>2
    <2>4. /\ c \in ContainerSet /\ c.port = 14000 /\ c.role = containers[i].role
          /\ c.nodes = containers[i].nodes /\ c.drives = containers[i].drives
      <3>1. containers[i] \in ContainerSet
        BY <1>1, <2>1
      <3> DEFINE old == containers[i]
      <3> HIDE DEF old
      <3>2. ASSUME old \in ContainerSet
            PROVE  /\ [old EXCEPT !.port = 14000] \in ContainerSet
                   /\ [old EXCEPT !.port = 14000].port = 14000
                   /\ [old EXCEPT !.port = 14000].role = old.role
                   /\ [old EXCEPT !.port = 14000].nodes = old.nodes
                   /\ [old EXCEPT !.port = 14000].drives = old.drives
        BY <3>2 DEF ContainerSet
      <3> QED
        BY <3>1, <3>2 DEF old
    <2> HIDE DEF c
    <2>5. containers' \in [1..Len(containers) -> ContainerSet]
      <3>1. \A k \in 1..Len(containers) : (IF k = i THEN c ELSE containers[k]) \in ContainerSet
        BY <1>1, <2>4
      <3>2. containers' = [k \in 1..Len(containers) |-> IF k = i THEN c ELSE containers[k]]
        BY <1>1, <2>3
      <3> HIDE DEF ContainerSet
      <3> QED
        BY <3>1, <3>2
    <2>6. Len(containers') = Len(containers)
      BY <1>1, <2>5, FunctionIsSeq
    <2>7. \A k \in 1..Len(containers) : containers'[k] = IF k = i THEN c ELSE containers[k]
      BY <1>1, <2>3
    <2> QED
      BY <1>2, <2>4, <2>6, <2>7 DEF i
  <1>3. CASE ~(Of("DRIVES") = {} /\ Of("COMPUTE") # {})
    BY <1>3 DEF EnsurePort14000IsUsed
  <1> QED
    BY <1>2, <1>3

\* Only the memory of compute containers is set.
LEMMA MemorySet ==
    ASSUME TypeInv, SetMemory, ~Stop
    PROVE  /\ Len(containers') = Len(containers)
           /\ \A k \in 1..Len(containers) :
                  /\ containers'[k].role = containers[k].role
                  /\ containers'[k].nodes = containers[k].nodes
                  /\ containers'[k].drives = containers[k].drives
                  /\ containers'[k].port = containers[k].port
                  /\ k \in Of("COMPUTE") =>
                        containers'[k].memory = NodeMemory * Cardinality(containers[k].nodes)
           /\ ~MemoryRefused /\ asked' = Warn(MemoryUnwise)
           /\ pc = "memory" /\ pc' = "files"
           /\ UNCHANGED <<args, devices, drives, free, turn, picked, wanted, nextPort, joinPortUsed,
                          left, written>>
  <1>1. containers \in [1..Len(containers) -> ContainerSet] /\ Len(containers) \in Nat
    BY LenProperties DEF TypeInv
  <1>2. /\ ~MemoryRefused /\ asked' = Warn(MemoryUnwise)
        /\ pc = "memory" /\ pc' = "files"
        /\ UNCHANGED <<args, devices, drives, free, turn, picked, wanted, nextPort, joinPortUsed,
                       left, written>>
    BY DEF SetMemory, Goto
  <1>3. containers' = [i \in 1..Len(containers) |->
                 IF i \notin Of("COMPUTE") THEN containers[i]
                 ELSE [containers[i] EXCEPT !.memory =
                           NodeMemory * Cardinality(containers[i].nodes)]]
    BY DEF SetMemory
  <1>4. Len(containers') = Len(containers)
    <2>1. containers' \in [1..Len(containers) -> {containers'[i] : i \in 1..Len(containers)}]
      BY <1>3
    <2> QED
      BY <1>1, <2>1, FunctionIsSeq
  <1>5. \A k \in 1..Len(containers) :
            /\ containers'[k].role = containers[k].role
            /\ containers'[k].nodes = containers[k].nodes
            /\ containers'[k].drives = containers[k].drives
            /\ containers'[k].port = containers[k].port
            /\ k \in Of("COMPUTE") =>
                  containers'[k].memory = NodeMemory * Cardinality(containers[k].nodes)
    BY <1>1, <1>3 DEF ContainerSet
  <1> QED
    BY <1>2, <1>4, <1>5

\* Steps that leave the nodes of the containers alone.
LEMMA NodesStay ==
    ASSUME TypeInv, NodesInv, Len(containers') = Len(containers), UNCHANGED <<args, wanted>>,
           \A k \in 1..Len(containers) : /\ containers'[k].role = containers[k].role
                                        /\ containers'[k].nodes = containers[k].nodes,
           \A r \in Roles : AllPlaced' \/ pc' \in After(r) =>
                             AllPlaced \/ pc \in After(r) \/ Rest(r) = 0
    PROVE  NodesInv' /\ Placed' = Placed /\ \A r : Of(r)' = Of(r)
  <1>1. \A r : Of(r)' = Of(r)
    BY DEF Of
  <1>2. Placed' = Placed
    BY DEF Placed
  <1>3. ASSUME NEW r \in Roles
        PROVE  NodesOf(r)' = NodesOf(r) /\ Before(r)' = Before(r) /\ Rest(r)' = Rest(r)
               /\ After(r)' = After(r)
    BY <1>1 DEF NodesOf, Before, Rest, After
  <1>4. \A k \in 1..Len(containers) : containers[k].role \in Roles
    BY ContainerTypes
  <1>5. \A r \in Roles : NodesOf(r)' \ Placed' = (Before(r)' + 1)..(Before(r)' + Rest(r)')
    BY <1>2, <1>3 DEF NodesInv
  <1>6. ASSUME NEW k \in 1..Len(containers')
        PROVE  (/\ containers[k].nodes \subseteq NodesOf(containers[k].role)
                /\ Cardinality(containers[k].nodes) \in 1..args.maxCores)'
    <2>1. /\ containers[k].nodes \subseteq NodesOf(containers[k].role)
          /\ Cardinality(containers[k].nodes) \in 1..args.maxCores
      BY DEF NodesInv
    <2> QED
      BY <2>1 DEF NodesOf
  <1>7. \A i, j \in 1..Len(containers') :
            containers'[i].nodes \cap containers'[j].nodes # {} => i = j
    BY DEF NodesInv
  <1>8. \A r \in Roles : AllPlaced' \/ pc' \in After(r)' => Rest(r)' = 0
    BY <1>3 DEF NodesInv
  <1> QED
    BY <1>1, <1>2, <1>5, <1>6, <1>7, <1>8 DEF NodesInv

\* The nodes of different roles differ.
LEMMA RolesApart ==
    ASSUME TypeInv, NEW q \in Roles, NEW r \in Roles, q # r
    PROVE  NodesOf(q) \cap NodesOf(r) = {}
  <1>1. \A s \in Roles : wanted[s] \in Nat
    BY DEF TypeInv
  <1> QED
    BY <1>1 DEF NodesOf, Roles

\* A container that is added leaves fewer nodes of its role, and none fewer of the others.
LEMMA RestLowered ==
    ASSUME TypeInv, NodesInv, NEW r \in Roles, AddContainer(r)
    PROVE  /\ Cardinality(Taken(r)) \in 1..args.maxCores /\ Cardinality(Taken(r)) \in 0..Rest(r)
           /\ Rest(r)' = Rest(r) - Cardinality(Taken(r))
           /\ \A q \in Roles \ {r} : Rest(q)' = Rest(q)
  <1> DEFINE km == Cardinality(Of(r)) * args.maxCores
  <1>1. /\ Cardinality(Of(r)') = Cardinality(Of(r)) + 1
        /\ \A q \in Roles \ {r} : Of(q)' = Of(q)
        /\ UNCHANGED <<args, wanted>>
    BY Added
  <1>2. Rest(r) \in Nat /\ Rest(r) > 0 /\ Cardinality(Taken(r)) = Least(Rest(r), args.maxCores)
    BY TakenNodes DEF AddContainer
  <1>3. args.maxCores \in 1..19 /\ Cardinality(Of(r)) \in Nat /\ wanted[r] \in Nat
    BY ArgumentTypes, OfIsFinite DEF TypeInv
  <1>4. Rest(r)' = Most(0, wanted[r] - (Cardinality(Of(r)) + 1) * args.maxCores)
    BY <1>1 DEF Rest
  <1>5. (Cardinality(Of(r)) + 1) * args.maxCores = km + args.maxCores /\ km \in Nat
    BY <1>3
  <1>6. Rest(r) = Most(0, wanted[r] - km)
    BY DEF Rest
  <1>7. Rest(r)' = Most(0, wanted[r] - km - args.maxCores)
    BY <1>4, <1>5, <1>3
  <1> HIDE DEF km
  <1>8. args.maxCores \in 1..19 /\ wanted[r] \in Nat /\ km \in Nat
    BY <1>3, <1>5
  <1>9. Cardinality(Taken(r)) \in 1..args.maxCores /\ Cardinality(Taken(r)) \in 0..Rest(r)
    BY <1>2, <1>8 DEF Least
  <1>10. Rest(r)' = Rest(r) - Cardinality(Taken(r))
    BY <1>2, <1>6, <1>7, <1>8 DEF Most, Least
  <1>11. \A q \in Roles \ {r} : Rest(q)' = Rest(q)
    BY <1>1 DEF Rest
  <1> QED
    BY <1>9, <1>10, <1>11

\* At first there are no nodes.
LEMMA InitNodes == Init => NodesInv
  <1> SUFFICES ASSUME Init
               PROVE  NodesInv
    OBVIOUS
  <1>1. containers = << >> /\ args \in Arguments /\ wanted = [r \in Roles |-> 0] /\ pc = "args"
    BY DEF Init
  <1>2. Placed = {} /\ \A r \in Roles : Rest(r) = 0
    BY <1>1, NothingPlaced
  <1>3. \A r \in Roles : NodesOf(r) = {} /\ (Before(r) + 1)..(Before(r) + 0) = {}
    BY <1>1 DEF Roles, NodesOf, Before
  <1>4. Len(containers) = 0
    BY <1>1
  <1>5. \A r \in Roles : NodesOf(r) \ Placed = (Before(r) + 1)..(Before(r) + Rest(r))
    BY <1>2, <1>3
  <1> QED
    BY <1>2, <1>4, <1>5 DEF NodesInv

\* Every node of a role that is passed is in one container.
LEMMA NextNodes ==
    ASSUME TypeInv, TypeInv', PhaseInv, NodesInv, [Next]_vars
    PROVE  NodesInv'
  <1>0. args' = args
    BY ArgsStay
  <1>1. CASE containers' = << >> /\ pc' \in Choosing \cup {"FRONTEND", "quit"}
    <2>1. Len(containers') = 0
      BY <1>1
    <2>2. Placed' = {} /\ \A r \in Roles : Of(r)' = {}
      BY <2>1 DEF Placed, Of
    <2>3. args'.maxCores \in 1..19
      BY <1>0, ArgumentTypes DEF TypeInv
    <2>4. ASSUME NEW r \in Roles
          PROVE  Rest(r)' = wanted'[r]
      <3>1. Cardinality(Of(r)') = 0
        BY <2>2, FS_EmptySet
      <3>2. Cardinality(Of(r)') * args'.maxCores = 0
        BY <3>1, <2>3
      <3> QED
        BY <3>2 DEF Rest, Most, TypeInv
    <2>5. ASSUME NEW r \in Roles
          PROVE  NodesOf(r)' = (Before(r)' + 1)..(Before(r)' + wanted'[r])
      BY DEF NodesOf, Before, Roles
    <2>6. ~AllPlaced' /\ \A r \in Roles : pc' \notin After(r)'
      BY <1>1 DEF AllPlaced, After, Roles, Choosing, Early
    <2> QED
      BY <2>1, <2>2, <2>4, <2>5, <2>6 DEF NodesInv
  <1>2. ASSUME NEW r \in Roles, AddContainer(r)
        PROVE  NodesInv'
    <2> DEFINE new == Len(containers) + 1
    <2>1. /\ Len(containers) \in Nat /\ Len(containers') = new
          /\ \A i \in 1..Len(containers) : containers'[i] = containers[i]
          /\ containers'[new].role = r /\ containers'[new].nodes = Taken(r)
          /\ Cardinality(Of(r)') = Cardinality(Of(r)) + 1
          /\ \A q \in Roles \ {r} : Of(q)' = Of(q)
          /\ Placed' = Placed \cup Taken(r)
          /\ UNCHANGED <<pc, args, wanted>>
      BY <1>2, Added
    <2>2. /\ Rest(r) \in Nat /\ Rest(r) > 0
          /\ Cardinality(Taken(r)) = Least(Rest(r), args.maxCores)
          /\ Taken(r) = (Before(r) + Rest(r) - Cardinality(Taken(r)) + 1)..(Before(r) + Rest(r))
          /\ Taken(r) \subseteq NodesOf(r) \ Placed
      BY <1>2, TakenNodes DEF AddContainer
    <2>3. \A q \in Roles : NodesOf(q)' = NodesOf(q) /\ Before(q)' = Before(q) /\ After(q)' = After(q)
      BY <2>1 DEF NodesOf, Before, After
    <2>4. \A q \in Roles \ {r} : Rest(q)' = Rest(q)
      BY <1>2, RestLowered
    <2>5. Before(r) \in Nat
      BY NodesOfRole
    <2>6. Rest(r)' = Rest(r) - Cardinality(Taken(r))
      BY <1>2, RestLowered
    <2>10. Cardinality(Taken(r)) \in 1..args.maxCores /\ Cardinality(Taken(r)) \in 0..Rest(r)
      BY <1>2, RestLowered
    <2>7. NodesOf(r) \ Placed' = (Before(r) + 1)..(Before(r) + Rest(r)')
      <3>1. NodesOf(r) \ Placed' = ((Before(r) + 1)..(Before(r) + Rest(r))) \ Taken(r)
        BY <2>1 DEF NodesInv
      <3>2. Taken(r) = (Before(r) + Rest(r) - Cardinality(Taken(r)) + 1)..(Before(r) + Rest(r))
            /\ Rest(r) \in Nat /\ Before(r) \in Nat
        BY <2>2, <2>5
      <3> QED
        BY <3>1, <3>2, <2>10, <2>6
    <2>8. ASSUME NEW q \in Roles \ {r}
          PROVE  NodesOf(q) \ Placed' = NodesOf(q) \ Placed
      BY <2>1, <2>2, RolesApart
    <2>9. \A q \in Roles : NodesOf(q)' \ Placed' = (Before(q)' + 1)..(Before(q)' + Rest(q)')
      BY <2>3, <2>4, <2>7, <2>8 DEF NodesInv
    <2>11. ASSUME NEW i \in 1..Len(containers')
           PROVE  (/\ containers[i].nodes \subseteq NodesOf(containers[i].role)
                   /\ Cardinality(containers[i].nodes) \in 1..args.maxCores)'
      <3>1. CASE i = new
        <4>1. containers'[i].nodes = Taken(r) /\ containers'[i].role = r /\ args' = args
          BY <3>1, <2>1
        <4>2. Taken(r) \subseteq NodesOf(r)
          BY <2>2
        <4> QED
          BY <4>1, <4>2, <2>1, <2>10 DEF NodesOf
      <3>2. CASE i \in 1..Len(containers)
        <4>1. containers[i].role \in Roles /\ containers'[i] = containers[i] /\ args' = args
          BY <3>2, ContainerTypes, <2>1
        <4>2. containers[i].nodes \subseteq NodesOf(containers[i].role)
              /\ Cardinality(containers[i].nodes) \in 1..args.maxCores
          BY <3>2 DEF NodesInv
        <4> QED
          BY <4>1, <4>2, <2>1 DEF NodesOf
      <3> QED
        BY <3>1, <3>2, <2>1
    <2>12. ASSUME NEW i \in 1..Len(containers), containers[i].nodes \cap Taken(r) # {}
           PROVE  FALSE
      BY <2>2, <2>12 DEF Placed
    <2>13. \A i, j \in 1..Len(containers') : containers'[i].nodes \cap containers'[j].nodes # {} => i = j
      <3>1. \A i \in 1..Len(containers') : i \in 1..Len(containers) \/ i = new
        BY <2>1
      <3>2. /\ \A i \in 1..Len(containers) : containers'[i].nodes = containers[i].nodes
            /\ containers'[new].nodes = Taken(r)
        BY <2>1
      <3> HIDE DEF new
      <3>3. \A i, j \in 1..Len(containers) :
                containers[i].nodes \cap containers[j].nodes # {} => i = j
        BY DEF NodesInv
      <3> QED
        BY <3>1, <3>2, <3>3, <2>12
    <2>14. \A q \in Roles : AllPlaced' \/ pc' \in After(q)' => Rest(q)' = 0
      <3>1. pc = r /\ ~AllPlaced' /\ pc \notin After(r)
        BY <1>2, <2>1 DEF AddContainer, AllPlaced, After, Roles
      <3> QED
        BY <3>1, <2>1, <2>3, <2>4 DEF NodesInv
    <2>15. \A q \in Roles : AllPlaced' \/ pc' \in After(q)' => Rest(q)' = 0
      BY <2>14, <2>3
    <2> HIDE DEF new
    <2> QED
      BY <2>9, <2>11, <2>13, <2>15 DEF NodesInv
  <1>3. ASSUME NEW r \in Roles, DevicesRunOut(r)
        PROVE  NodesInv'
    <2>1. UNCHANGED <<args, wanted, containers>> /\ pc' = "raised"
      BY <1>3 DEF DevicesRunOut, Goto
    <2> QED
      BY <2>1, NodesStay DEF AllPlaced, After, Roles
  <1>4. ASSUME NEW r \in Roles, RoleDone(r)
        PROVE  NodesInv'
    <2>1. /\ UNCHANGED <<args, wanted, containers>> /\ pc = r /\ Rest(r) = 0
          /\ pc' = CASE r = "FRONTEND" -> "DRIVES" [] r = "DRIVES" -> "assign" [] r = "COMPUTE" -> "port"
      BY <1>4, TakenNodes DEF RoleDone, Goto
    <2>2. \A q \in Roles : AllPlaced' \/ pc' \in After(q) => pc \in After(q) \/ Rest(q) = 0
      BY <2>1 DEF AllPlaced, After, Roles
    <2> QED
      BY <2>1, <2>2, NodesStay
  <1>5. ASSUME NEW i \in 1..Len(containers), AssignDrives(i)
        PROVE  NodesInv'
    <2>1. UNCHANGED <<pc, args, wanted>>
      BY <1>5 DEF AssignDrives
    <2> QED
      BY <1>5, <2>1, RolesStay, NodesStay DEF AllPlaced
  <1>6. CASE NextDriveRound \/ DrivesAssigned
    <2>1. UNCHANGED <<args, wanted, containers>> /\ pc = "assign" /\ pc' \in {"assign", "COMPUTE"}
      BY <1>6 DEF NextDriveRound, DrivesAssigned, Goto
    <2>2. \A r \in Roles : AllPlaced' \/ pc' \in After(r) => pc \in After(r)
      BY <2>1 DEF AllPlaced, After, Roles
    <2> QED
      BY <2>1, <2>2, NodesStay
  <1>7. CASE EnsurePort14000IsUsed
    <2>1. UNCHANGED <<args, wanted>> /\ pc = "port" /\ pc' = "memory"
      BY <1>7 DEF EnsurePort14000IsUsed, Goto
    <2> QED
      BY <1>7, <2>1, PortEnsured, NodesStay DEF AllPlaced
  <1>8. CASE SetMemory /\ ~Stop
    <2>1. UNCHANGED <<args, wanted>> /\ pc = "memory" /\ pc' = "files"
      BY <1>8, MemorySet
    <2> QED
      BY <1>8, <2>1, MemorySet, NodesStay DEF AllPlaced
  <1>9. CASE /\ UNCHANGED <<args, wanted, containers>>
             /\ pc' \in {"quit", pc} \/ (pc = "files" /\ pc' = "done")
    <2>1. \A r \in Roles : AllPlaced' \/ pc' \in After(r) => AllPlaced \/ pc \in After(r)
      BY <1>9 DEF AllPlaced, After, Roles
    <2> QED
      BY <1>9, <2>1, NodesStay
  <1> QED
    BY <1>1, <1>2, <1>3, <1>4, <1>5, <1>6, <1>7, <1>8, <1>9, ContainerSteps

-----------------------------------------------------------------------------
(* Network devices.                                                        *)

\* What the steps do to the numbers of nodes and of devices.
LEMMA DeviceSteps ==
    ASSUME TypeInv, PhaseInv, [Next]_vars
    PROVE  \/ pc' \in Early \cup {"count", "quit"}
           \/ CountNodes /\ ~Stop
           \/ SetSpecifiedCores
           \/ \E r \in Roles : AddContainer(r) \/ DevicesRunOut(r)
           \/ /\ UNCHANGED <<devices, wanted>> /\ (pc' # "raised" \/ pc = "raised")
              /\ pc \notin Early \cup {"count", "quit"}
              /\ \A r \in Roles : Of(r)' = Of(r)
  <1> USE DEF Early, Goto
  <1>1. CASE SetUserArgs \/ SetNetDevices \/ (SetDrives /\ ~Stop) \/ (SetCores /\ ~Stop) \/ Stop
    BY <1>1 DEF SetUserArgs, SetNetDevices, SetDrives, SetCores, Stop
  <1>2. CASE NextRound \/ \E n \in Numas : PickCore(n)
    BY <1>2 DEF NextRound, PickCore, Of
  <1>3. ASSUME NEW r \in Roles, RoleDone(r)
        PROVE  /\ UNCHANGED <<devices, wanted>> /\ pc' # "raised"
               /\ pc \notin Early \cup {"count", "quit"}
               /\ \A q \in Roles : Of(q)' = Of(q)
    BY <1>3 DEF RoleDone, Roles, Of
  <1>4. ASSUME NEW i \in 1..Len(containers), AssignDrives(i)
        PROVE  /\ UNCHANGED <<devices, wanted>> /\ pc' # "raised"
               /\ pc \notin Early \cup {"count", "quit"}
               /\ \A q \in Roles : Of(q)' = Of(q)
    BY <1>4, RolesStay DEF AssignDrives
  <1>5. CASE NextDriveRound \/ DrivesAssigned
    BY <1>5 DEF NextDriveRound, DrivesAssigned, Of
  <1>6. CASE EnsurePort14000IsUsed
    <2>1. \A q \in Roles : Of(q)' = Of(q)
      <3>1. /\ Len(containers') = Len(containers)
            /\ \A k \in 1..Len(containers) : containers'[k].role = containers[k].role
        BY <1>6, PortEnsured
      <3> QED
        BY <3>1 DEF Of
    <2> QED
      BY <1>6, <2>1 DEF EnsurePort14000IsUsed
  <1>7. CASE SetMemory /\ ~Stop
    <2>1. \A q \in Roles : Of(q)' = Of(q)
      BY <1>7, MemorySet DEF Of
    <2> QED
      BY <1>7, <2>1, MemorySet
  <1>8. CASE (CreateResourcesFile /\ ~Stop) \/ Generated
    BY <1>8 DEF CreateResourcesFile, Generated, Of
  <1>9. CASE UNCHANGED vars
    BY <1>9 DEF vars, Of
  <1> QED
    BY <1>1, <1>2, <1>3, <1>4, <1>5, <1>6, <1>7, <1>8, <1>9 DEF Next, ArgsRefused, AddressRefused

\* With the exclusive policy there is a network device for every node that is in no
\* container yet.
LEMMA NextDevices ==
    ASSUME TypeInv, TypeInv', PhaseInv, CountInv, NodesInv, DevicesInv, [Next]_vars
    PROVE  DevicesInv'
  <1>1. args' = args
    BY ArgsStay
  <1>2. (RoleIdsGiven' <=> RoleIdsGiven) /\ (Exclusive' <=> Exclusive)
    BY <1>1 DEF RoleIdsGiven, RoleIds, Exclusive, IsCloudEnv
  <1>3. CASE pc' \in Early \cup {"count", "quit"}
    BY <1>3 DEF DevicesInv, Early
  <1>4. CASE CountNodes /\ ~Stop
    <2>1. /\ UNCHANGED <<devices, containers>> /\ pc = "count" /\ pc' = "pick"
          /\ containers = << >>
      BY <1>4 DEF CountNodes, Goto, PhaseInv, Choosing
    <2>2. \A r \in Roles : Cardinality(Of(r)') = 0
      <3>1. \A r \in Roles : Of(r)' = {}
        BY <2>1 DEF Of
      <3> QED
        BY <3>1, FS_EmptySet
    <2>3. \A r \in Roles : Rest(r)' = wanted'[r]
      <3>1. args'.maxCores \in 1..19 /\ \A r \in Roles : wanted'[r] \in Nat
        BY <1>1, ArgumentTypes DEF TypeInv
      <3>2. \A r \in Roles : Cardinality(Of(r)') * args'.maxCores = 0
        BY <2>2, <3>1
      <3> QED
        BY <3>1, <3>2 DEF Rest, Most
    <2>4. Exclusive => Required' <= Len(devices)
      BY <1>4, CountedNodesFit
    <2> QED
      BY <2>1, <2>3, <2>4, <1>2 DEF DevicesInv, Required, Roles
  <1>5. CASE SetSpecifiedCores
    BY <1>5, <1>2 DEF SetSpecifiedCores, DevicesInv
  <1>6. ASSUME NEW r \in Roles, AddContainer(r), ~RoleIdsGiven
        PROVE  DevicesInv'
    <2>1. pc = r /\ pc' = pc
      BY <1>6 DEF AddContainer
    <2>2. Exclusive => Len(devices') = Len(devices) - Cardinality(Taken(r))
      BY <1>6, ContainerAdded
    <2>3. /\ Cardinality(Taken(r)) \in 0..Rest(r)
          /\ Rest(r)' = Rest(r) - Cardinality(Taken(r))
          /\ \A q \in Roles \ {r} : Rest(q)' = Rest(q)
      BY <1>6, RestLowered
    <2>4. \A q \in Roles : Rest(q) \in Nat
      BY TakenNodes
    <2>5. Len(devices) \in Nat
      BY LenProperties DEF TypeInv
    <2>6. Exclusive => Rest("FRONTEND") + Rest("DRIVES") + Rest("COMPUTE") <= Len(devices)
      BY <2>1, <1>6 DEF DevicesInv, Early, Roles
    <2>7. Exclusive => Rest("FRONTEND")' + Rest("DRIVES")' + Rest("COMPUTE")' <= Len(devices')
      BY <2>2, <2>3, <2>4, <2>5, <2>6 DEF Roles
    <2> QED
      BY <2>1, <2>7, <1>2 DEF DevicesInv, Roles
  <1>7. ASSUME NEW r \in Roles, DevicesRunOut(r), ~RoleIdsGiven
        PROVE  FALSE
    <2>1. /\ pc = r /\ Exclusive /\ Cardinality(Taken(r)) > Len(devices)
      BY <1>7 DEF DevicesRunOut
    <2>2. Rest("FRONTEND") + Rest("DRIVES") + Rest("COMPUTE") <= Len(devices)
      BY <2>1, <1>7 DEF DevicesInv, Early, Roles
    <2>3. /\ \A q \in Roles : Rest(q) \in Nat
          /\ Cardinality(Taken(r)) = Least(Rest(r), args.maxCores)
      BY TakenNodes
    <2>4. Len(devices) \in Nat /\ args.maxCores \in 1..19
      BY LenProperties, ArgumentTypes DEF TypeInv
    <2>5. Rest("FRONTEND") \in Nat /\ Rest("DRIVES") \in Nat /\ Rest("COMPUTE") \in Nat
      BY <2>3 DEF Roles
    <2>6. /\ Rest("FRONTEND") + Rest("DRIVES") + Rest("COMPUTE") \in Nat
          /\ Rest(r) <= Rest("FRONTEND") + Rest("DRIVES") + Rest("COMPUTE") /\ Rest(r) \in Nat
      <3> DEFINE f == Rest("FRONTEND")
                 d == Rest("DRIVES")
                 c == Rest("COMPUTE")
      <3>1. Rest(r) = f \/ Rest(r) = d \/ Rest(r) = c
        <4>1. r = "FRONTEND" \/ r = "DRIVES" \/ r = "COMPUTE"
          BY DEF Roles
        <4> QED
          BY <4>1
      <3>2. f \in Nat /\ d \in Nat /\ c \in Nat
        BY <2>5
      <3> HIDE DEF f, d, c
      <3>3. f + d + c \in Nat /\ f <= f + d + c /\ d <= f + d + c /\ c <= f + d + c
        BY <3>2
      <3>4. f + d + c \in Nat /\ Rest(r) <= f + d + c /\ Rest(r) \in Nat
        BY <3>1, <3>2, <3>3
      <3> QED
        BY <3>4 DEF f, d, c
    <2>7. Least(Rest(r), args.maxCores) \in 0..Rest(r)
      <3>1. \A a \in Nat, b \in 1..19 : Least(a, b) \in 0..a
        BY DEF Least
      <3> QED
        BY <2>4, <2>6, <3>1
    <2> QED
      BY <2>1, <2>2, <2>3, <2>4, <2>5, <2>6, <2>7
  <1>8. CASE /\ UNCHANGED <<devices, wanted>> /\ (pc' # "raised" \/ pc = "raised")
             /\ pc \notin Early \cup {"count", "quit"}
             /\ \A r \in Roles : Of(r)' = Of(r)
    <2>1. \A r \in Roles : Rest(r)' = Rest(r)
      BY <1>1, <1>8 DEF Rest
    <2> QED
      BY <1>2, <1>8, <2>1 DEF DevicesInv, Roles
  <1>9. CASE RoleIdsGiven
    BY <1>2, <1>9 DEF DevicesInv
  <1> QED
    BY <1>3, <1>4, <1>5, <1>6, <1>7, <1>8, <1>9, DeviceSteps

-----------------------------------------------------------------------------
(* Ports.                                                                  *)

\* Steps that leave the ports of the containers alone.
LEMMA PortsStay ==
    ASSUME PortInv, Len(containers') = Len(containers), UNCHANGED <<nextPort, joinPortUsed>>,
           \A k \in 1..Len(containers) : /\ containers'[k].role = containers[k].role
                                        /\ containers'[k].port = containers[k].port,
           pc \in {"memory", "files", "done", "quit"} => pc' \in {"memory", "files", "done", "quit"}
    PROVE  PortInv'
  <1>1. Of("DRIVES")' = Of("DRIVES")
    BY DEF Of
  <1>2. (nextPort % 100 = 0 /\ nextPort >= 14200 /\ nextPort # 15000)'
        /\ (joinPortUsed => Of("DRIVES") # {})'
    BY <1>1 DEF PortInv
  <1>3. ASSUME NEW i \in 1..Len(containers')
        PROVE  LET port == containers'[i].port IN
               /\ port % 100 = 0 /\ port \notin {14100, 15000}
               /\ port = 14000 \/ port \in 14200..(nextPort' - 1)
               /\ port = 14000 => joinPortUsed' \/ pc' \in {"memory", "files", "done", "quit"}
    BY DEF PortInv
  <1>4. \A i, j \in 1..Len(containers') : containers'[i].port = containers'[j].port => i = j
    BY DEF PortInv
  <1> QED
    BY <1>2, <1>3, <1>4 DEF PortInv

\* No two containers have the same port.
LEMMA NextPorts ==
    ASSUME TypeInv, PhaseInv, PortInv, [Next]_vars
    PROVE  PortInv'
  <1>1. CASE /\ containers = << >> /\ containers' = << >>
             /\ UNCHANGED <<nextPort, joinPortUsed>>
    <2>1. Len(containers) = 0 /\ Len(containers') = 0
      BY <1>1
    <2>2. Of("DRIVES") = {}
      BY <2>1 DEF Of
    <2> QED
      BY <1>1, <2>1, <2>2 DEF PortInv
  <1>2. ASSUME NEW r \in Roles, AddContainer(r)
        PROVE  PortInv'
    <2> DEFINE new == Len(containers) + 1
               given == IF UsesJoinPort(r) THEN 14000 ELSE nextPort
    <2>1. /\ Len(containers) \in Nat /\ Len(containers') = new
          /\ \A i \in 1..Len(containers) : containers'[i] = containers[i]
          /\ containers'[new].port = given
          /\ Of(r)' = Of(r) \cup {new}
          /\ \A q \in Roles \ {r} : Of(q)' = Of(q)
          /\ UNCHANGED pc
      BY <1>2, Added
    <2>2. \A i \in 1..Len(containers') : i \in 1..Len(containers) \/ i = new
      BY <2>1
    <2>3. pc = r /\ pc \notin {"memory", "files", "done", "quit"}
      BY <1>2 DEF AddContainer, Roles
    <2>4. CASE UsesJoinPort(r)
      <3>1. r = "DRIVES" /\ ~joinPortUsed /\ joinPortUsed' = TRUE /\ nextPort' = nextPort
        BY <1>2, <2>4 DEF AddContainer, UsesJoinPort
      <3>2. containers'[new].port = 14000
        BY <2>1, <2>4
      <3>3. \A i \in 1..Len(containers) : containers[i].port # 14000
        BY <2>3, <3>1 DEF PortInv
      <3>4. Of("DRIVES")' # {}
        BY <2>1, <3>1
      <3>5. (nextPort % 100 = 0 /\ nextPort >= 14200 /\ nextPort # 15000)'
        BY <3>1 DEF PortInv
      <3>6. ASSUME NEW i \in 1..Len(containers')
            PROVE  LET port == containers'[i].port IN
                   /\ port % 100 = 0 /\ port \notin {14100, 15000}
                   /\ port = 14000 \/ port \in 14200..(nextPort' - 1)
        <4>1. CASE i = new
          BY <3>2, <4>1
        <4>2. CASE i \in 1..Len(containers)
          BY <2>1, <3>1, <4>2 DEF PortInv
        <4> QED
          BY <2>2, <4>1, <4>2
      <3>8. \A i \in 1..Len(containers) : containers'[i].port = containers[i].port
        BY <2>1
      <3> HIDE DEF new
      <3>7. \A i, j \in 1..Len(containers') : containers'[i].port = containers'[j].port => i = j
        <4>1. \A i, j \in 1..Len(containers) : containers[i].port = containers[j].port => i = j
          BY DEF PortInv
        <4> QED
          BY <2>2, <3>2, <3>3, <3>8, <4>1
      <3> QED
        BY <3>1, <3>4, <3>5, <3>6, <3>7 DEF PortInv
    <2>5. CASE ~UsesJoinPort(r)
      <3>1. nextPort' = NextPort /\ joinPortUsed' = joinPortUsed
        BY <1>2, <2>5 DEF AddContainer
      <3>2. containers'[new].port = nextPort
        BY <2>1, <2>5
      <3>3. nextPort \in Nat /\ nextPort % 100 = 0 /\ nextPort >= 14200 /\ nextPort # 15000
        BY DEF TypeInv, PortInv
      <3>4. /\ nextPort' % 100 = 0 /\ nextPort' >= 14200 /\ nextPort' # 15000
            /\ nextPort' \in Nat /\ nextPort' > nextPort
        BY <3>1, <3>3 DEF NextPort
      <3>5. ASSUME NEW i \in 1..Len(containers')
            PROVE  LET port == containers'[i].port IN
                   /\ port % 100 = 0 /\ port \notin {14100, 15000}
                   /\ port = 14000 \/ port \in 14200..(nextPort' - 1)
                   /\ port = 14000 => joinPortUsed' \/ pc' \in {"memory", "files", "done", "quit"}
        <4>1. CASE i = new
          BY <3>2, <3>3, <3>4, <4>1
        <4>2. CASE i \in 1..Len(containers)
          <5>1. containers'[i].port = containers[i].port /\ containers[i].port \in Nat
            BY <2>1, <4>2, ContainerTypes
          <5> DEFINE port == containers[i].port
          <5>2. /\ port % 100 = 0 /\ port \notin {14100, 15000}
                /\ port = 14000 \/ port \in 14200..(nextPort - 1)
                /\ port = 14000 => joinPortUsed \/ pc \in {"memory", "files", "done", "quit"}
            BY <4>2 DEF PortInv
          <5> HIDE DEF port
          <5>3. /\ port % 100 = 0 /\ port \notin {14100, 15000}
                /\ port = 14000 \/ port \in 14200..(nextPort' - 1)
                /\ port = 14000 => joinPortUsed' \/ pc' \in {"memory", "files", "done", "quit"}
            BY <5>2, <3>1, <3>3, <3>4, <2>1
          <5> QED
            BY <5>1, <5>3 DEF port
        <4> QED
          BY <2>2, <4>1, <4>2
      <3>6. \A i \in 1..Len(containers) : containers[i].port # nextPort
        BY <3>3 DEF PortInv
      <3>7. (nextPort % 100 = 0 /\ nextPort >= 14200 /\ nextPort # 15000)'
            /\ (joinPortUsed => Of("DRIVES") # {})'
        BY <2>1, <3>1, <3>4 DEF PortInv, Roles
      <3> HIDE DEF new
      <3>8. \A i, j \in 1..Len(containers') : containers'[i].port = containers'[j].port => i = j
        BY <2>1, <2>2, <3>2, <3>6 DEF PortInv
      <3> QED
        BY <3>5, <3>7, <3>8 DEF PortInv
    <2> QED
      BY <2>4, <2>5
  <1>3. ASSUME NEW r \in Roles, DevicesRunOut(r) \/ RoleDone(r)
        PROVE  PortInv'
    <2>1. UNCHANGED <<containers, nextPort, joinPortUsed>> /\ pc = r
      BY <1>3 DEF DevicesRunOut, RoleDone
    <2> QED
      BY <2>1, PortsStay DEF Roles
  <1>4. ASSUME NEW i \in 1..Len(containers), AssignDrives(i)
        PROVE  PortInv'
    <2>1. UNCHANGED <<nextPort, joinPortUsed, pc>>
      BY <1>4 DEF AssignDrives
    <2> QED
      BY <1>4, <2>1, RolesStay, PortsStay
  <1>5. CASE NextDriveRound \/ DrivesAssigned
    <2>1. UNCHANGED <<containers, nextPort, joinPortUsed>> /\ pc = "assign"
      BY <1>5 DEF NextDriveRound, DrivesAssigned
    <2> QED
      BY <2>1, PortsStay
  <1>6. CASE EnsurePort14000IsUsed
    <2>1. UNCHANGED <<nextPort, joinPortUsed>> /\ pc = "port" /\ pc' = "memory"
      BY <1>6 DEF EnsurePort14000IsUsed, Goto
    <2>2. /\ Len(containers') = Len(containers)
          /\ \A k \in 1..Len(containers) :
                 /\ containers'[k].role = containers[k].role
                 /\ containers'[k].port =
                        IF Of("DRIVES") = {} /\ Of("COMPUTE") # {} /\ k = First(Of("COMPUTE"))
                        THEN 14000 ELSE containers[k].port
      BY <1>6, PortEnsured
    <2>3. CASE Of("DRIVES") = {} /\ Of("COMPUTE") # {}
      <3>1. \A i \in 1..Len(containers) : containers[i].port # 14000
        BY <2>1, <2>3 DEF PortInv
      <3> DEFINE first == First(Of("COMPUTE"))
      <3>2. \A k \in 1..Len(containers) :
                containers'[k].port = IF k = first THEN 14000 ELSE containers[k].port
        BY <2>2, <2>3
      <3> HIDE DEF first
      <3>3. ~joinPortUsed /\ Of("DRIVES")' = {}
        <4>1. /\ Len(containers') = Len(containers)
              /\ \A k \in 1..Len(containers) : containers'[k].role = containers[k].role
          BY <2>2
        <4>2. Of("DRIVES")' = Of("DRIVES")
          BY <4>1 DEF Of
        <4> QED
          BY <2>3, <4>2 DEF PortInv
      <3>4. ASSUME NEW i \in 1..Len(containers')
            PROVE  LET port == containers'[i].port IN
                   /\ port % 100 = 0 /\ port \notin {14100, 15000}
                   /\ port = 14000 \/ port \in 14200..(nextPort' - 1)
        <4>1. CASE i = first
          BY <2>2, <3>2, <4>1
        <4>2. CASE i # first
          BY <2>1, <2>2, <3>2, <4>2 DEF PortInv
        <4> QED
          BY <4>1, <4>2
      <3>5. \A i, j \in 1..Len(containers') : containers'[i].port = containers'[j].port => i = j
        BY <2>2, <3>1, <3>2 DEF PortInv
      <3> QED
        BY <2>1, <3>3, <3>4, <3>5 DEF PortInv
    <2>4. CASE ~(Of("DRIVES") = {} /\ Of("COMPUTE") # {})
      BY <2>1, <2>2, <2>4, PortsStay
    <2> QED
      BY <2>3, <2>4
  <1>7. CASE SetMemory /\ ~Stop
    BY <1>7, MemorySet, PortsStay
  <1>8. CASE /\ UNCHANGED <<containers, nextPort, joinPortUsed>>
             /\ pc' \in {"quit", pc} \/ (pc = "files" /\ pc' = "done")
    BY <1>8, PortsStay
  <1> QED
    BY <1>1, <1>2, <1>3, <1>4, <1>5, <1>6, <1>7, <1>8, ContainerSteps

-----------------------------------------------------------------------------
(* Drives.                                                                 *)

\* Phases in which no container has a drive.
Driveless == Choosing \cup {"FRONTEND", "DRIVES"}
\* Phases in which the drives that the user named are handed out, or have been.
Handing == {"assign", "COMPUTE", "port", "memory", "files", "done"}

\* Steps that leave the drives alone.
LEMMA DrivesStay ==
    ASSUME DrivesInv, Len(containers') = Len(containers), UNCHANGED <<args, drives, left, turn>>,
           \A k \in 1..Len(containers) : /\ containers'[k].role = containers[k].role
                                        /\ containers'[k].nodes = containers[k].nodes
                                        /\ containers'[k].drives = containers[k].drives,
           pc' \in Driveless => pc \in Driveless,
           pc' \in Handing => pc \in Handing
    PROVE  DrivesInv'
  <1>1. Of("DRIVES")' = Of("DRIVES") /\ Of("DRIVES") \subseteq 1..Len(containers)
    BY DEF Of
  <1>2. \A i \in 1..Len(containers), round \in Nat : Share(i, round) => Share(i, round)'
    BY DEF Share
  <1>3. (\E round \in Nat : \A i \in Of("DRIVES") : Share(i, round))'
    BY <1>1, <1>2 DEF DrivesInv
  <1>4. (pc \in Choosing \cup {"FRONTEND", "DRIVES"} =>
            \A i \in 1..Len(containers) : containers[i].drives = {})'
    BY DEF DrivesInv, Driveless, Choosing, Early
  <1>5. (\A i \in 1..Len(containers) :
            /\ containers[i].drives \subseteq (left + 1)..Len(drives)
            /\ containers[i].drives # {} => i \in Of("DRIVES"))'
    BY <1>1 DEF DrivesInv
  <1>6. (\A i, j \in 1..Len(containers) :
            containers[i].drives \cap containers[j].drives # {} => i = j)'
    BY DEF DrivesInv
  <1>7. (args.drives # << >> /\ (AllPlaced \/ pc \in {"assign", "COMPUTE"}) =>
            (left + 1)..Len(drives)
                \subseteq UNION {containers[i].drives : i \in 1..Len(containers)})'
    <2>1. UNION {containers'[i].drives : i \in 1..Len(containers')}
          = UNION {containers[i].drives : i \in 1..Len(containers)}
      OBVIOUS
    <2>2. AllPlaced' \/ pc' \in {"assign", "COMPUTE"} => AllPlaced \/ pc \in {"assign", "COMPUTE"}
      BY DEF AllPlaced, Handing
    <2> QED
      BY <2>1, <2>2 DEF DrivesInv
  <1> QED
    BY <1>3, <1>4, <1>5, <1>6, <1>7 DEF DrivesInv

\* Two finite sets without a common element.
LEMMA DisjointUnion ==
    ASSUME NEW S, NEW T, IsFiniteSet(S), IsFiniteSet(T), S \cap T = {}
    PROVE  Cardinality(S \cup T) = Cardinality(S) + Cardinality(T) /\ Cardinality(S) \in Nat
  <1>1. Cardinality(S \cap T) = 0
    BY FS_EmptySet
  <1>2. Cardinality(S) \in Nat /\ Cardinality(T) \in Nat
    BY FS_CardinalityType
  <1>3. Cardinality(S \cup T) = Cardinality(S) + Cardinality(T) - Cardinality(S \cap T)
    BY FS_Union
  <1> QED
    BY <1>1, <1>2, <1>3

\* A container that takes its share keeps the rounds fair.
LEMMA ShareTaken ==
    ASSUME TypeInv, NodesInv, DrivesInv, NEW i \in Of("DRIVES"), AssignDrives(i),
           NEW round \in Nat, \A k \in Of("DRIVES") : Share(k, round)
    PROVE  \A k \in Of("DRIVES")' : Share(k, round)'
  <1>1. i \in 1..Len(containers) /\ Of("DRIVES")' = Of("DRIVES")
        /\ Of("DRIVES") \subseteq 1..Len(containers)
    BY RolesStay DEF Of, Roles
  <1> DEFINE n == Cardinality(containers[i].nodes)
             count == Least(n, left)
  <1>2. /\ left \in Nat /\ left > 0 /\ left <= Len(drives) /\ Len(drives) \in Nat
        /\ left' = left - count /\ turn' = turn \ {i} /\ i \in turn
    BY FirstIsLeast DEF AssignDrives, TypeInv
  <1>3. n \in Nat
    BY <1>1, ArgumentTypes DEF NodesInv, TypeInv
  <1>4. count \in 0..left /\ count \in 0..n /\ (count < left => count = n)
    BY <1>2, <1>3 DEF Least
  <1>5. \A k \in 1..Len(containers) :
            /\ containers'[k].nodes = containers[k].nodes
            /\ k # i => containers'[k].drives = containers[k].drives
    BY <1>1, RolesStay
  <1>6. Cardinality(containers'[i].drives) = Cardinality(containers[i].drives) + count
        /\ Cardinality(containers[i].drives) \in Nat
    <2> DEFINE more == (left - count + 1)..left
               rest == (left + 1)..Len(drives)
    <2>1. containers[i].drives \subseteq rest
      BY <1>1 DEF DrivesInv
    <2>2. containers'[i].drives = containers[i].drives \cup more
      BY <1>1, RolesStay
    <2> HIDE DEF count
    <2>3. left \in Nat /\ count \in 0..left /\ Len(drives) \in Nat
      BY <1>2, <1>4
    <2>4. IsFiniteSet(more) /\ Cardinality(more) = count /\ IsFiniteSet(rest) /\ more \cap rest = {}
      <3>1. left + 1 \in Int /\ left - count + 1 \in Int /\ left \in Int /\ Len(drives) \in Int
        BY <2>3
      <3>2. IsFiniteSet(rest)
        BY <3>1, FS_Interval
      <3>3. IsFiniteSet(more) /\ Cardinality(more) = count
        <4> DEFINE low == left - count + 1
        <4>1. low \in Int /\ left \in Int /\ count = (IF low > left THEN 0 ELSE left - low + 1)
          BY <2>3
        <4> HIDE DEF low
        <4>2. IsFiniteSet(low..left) /\ Cardinality(low..left) = (IF low > left THEN 0 ELSE left - low + 1)
          BY <4>1, FS_Interval
        <4> QED
          BY <4>1, <4>2 DEF low
      <3>4. more \cap rest = {}
        BY <2>3
      <3> QED
        BY <3>2, <3>3, <3>4
    <2> HIDE DEF more, rest
    <2>5. IsFiniteSet(containers[i].drives) /\ containers[i].drives \cap more = {}
      BY <2>1, <2>4, FS_Subset
    <2> QED
      BY <2>2, <2>4, <2>5, DisjointUnion
  <1>7. ASSUME NEW k \in Of("DRIVES"), k # i
        PROVE  Share(k, round)'
    <2>1. (k \in turn') <=> (k \in turn)
      BY <1>2, <1>7
    <2>2. left' > 0 => left > 0
      BY <1>2
    <2> QED
      BY <2>1, <2>2, <1>1, <1>5, <1>7 DEF Share
  <1>8. Share(i, round)'
    <2> DEFINE before == Cardinality(containers[i].drives)
    <2>1. before = (round - 1) * n
      BY <1>2 DEF Share
    <2>2. round * n = (round - 1) * n + n /\ round * n \in Nat /\ (round - 1) * n \in Int
      BY <1>3
    <2>3. /\ Cardinality(containers'[i].drives) = (round - 1) * n + count
          /\ Cardinality(containers'[i].nodes) = n
      BY <2>1, <1>1, <1>5, <1>6
    <2>4. i \notin turn'
      BY <1>2
    <2> HIDE DEF n, count
    <2> DEFINE low == (round - 1) * n
               high == round * n
    <2>5. /\ left' > 0 => Cardinality(containers'[i].drives) = high
          /\ Cardinality(containers'[i].drives) \in low..high
      <3> HIDE DEF low, high
      <3> QED
        BY <2>2, <2>3, <1>2, <1>3, <1>4 DEF low, high
    <2> QED
      BY <2>3, <2>4, <2>5 DEF Share
  <1> QED
    BY <1>1, <1>7, <1>8

\* What a container takes was in no container before, and nothing is left out.
LEMMA DrivesTaken ==
    ASSUME TypeInv, PhaseInv, NodesInv, DrivesInv, NEW i \in 1..Len(containers), AssignDrives(i)
    PROVE  DrivesInv'
  <1> DEFINE count == Least(Cardinality(containers[i].nodes), left)
             more == (left - count + 1)..left
  <1>1. /\ Len(containers') = Len(containers) /\ Of("DRIVES")' = Of("DRIVES")
        /\ \A k \in 1..Len(containers) :
               containers'[k].drives = IF k # i THEN containers[k].drives
                                       ELSE containers[k].drives \cup more
    BY RolesStay DEF Roles
  <1>2. /\ pc = "assign" /\ pc' = pc /\ UNCHANGED <<args, drives>> /\ i \in turn
        /\ left' = left - count /\ left \in Nat /\ left <= Len(drives) /\ Len(drives) \in Nat
    <2>1. i = First(turn) /\ turn # {} /\ turn \in SUBSET Nat
      BY DEF AssignDrives, TypeInv
    <2>2. i \in turn
      BY <2>1, FirstIsLeast
    <2> QED
      BY <2>2 DEF AssignDrives, TypeInv
  <1>3. i \in Of("DRIVES")
    BY <1>2 DEF PhaseInv
  <1>4. count \in 0..left
    <2>1. Cardinality(containers[i].nodes) \in Nat
      BY ArgumentTypes DEF NodesInv, TypeInv
    <2> QED
      BY <2>1, <1>2 DEF Least
  <1>5. (\E round \in Nat : \A k \in Of("DRIVES") : Share(k, round))'
    <2>1. PICK round \in Nat : \A k \in Of("DRIVES") : Share(k, round)
      BY DEF DrivesInv
    <2>2. \A k \in Of("DRIVES")' : Share(k, round)'
      BY <1>3, <2>1, ShareTaken
    <2> QED
      BY <2>2
  <1> HIDE DEF count
  <1>6. \A k \in 1..Len(containers) : containers[k].drives \subseteq (left + 1)..Len(drives)
    BY DEF DrivesInv
  <1>7. more \subseteq (left' + 1)..Len(drives) /\ (left + 1)..Len(drives) \subseteq (left' + 1)..Len(drives)
        /\ (left' + 1)..Len(drives) \subseteq more \cup (left + 1)..Len(drives)
        /\ more \cap (left + 1)..Len(drives) = {}
    BY <1>2, <1>4
  <1> HIDE DEF more
  <1>8. (\A k \in 1..Len(containers) :
            /\ containers[k].drives \subseteq (left + 1)..Len(drives)
            /\ containers[k].drives # {} => k \in Of("DRIVES"))'
    <2>1. ASSUME NEW k \in 1..Len(containers)
          PROVE  /\ containers'[k].drives \subseteq (left' + 1)..Len(drives)
                 /\ containers'[k].drives # {} => k \in Of("DRIVES")
      BY <1>1, <1>3, <1>6, <1>7 DEF DrivesInv
    <2> QED
      BY <2>1, <1>1, <1>2
  <1>9. (\A k, l \in 1..Len(containers) :
            containers[k].drives \cap containers[l].drives # {} => k = l)'
    <2>1. ASSUME NEW k \in 1..Len(containers), NEW l \in 1..Len(containers),
                 containers'[k].drives \cap containers'[l].drives # {}
          PROVE  k = l
      <3>1. more \cap containers[k].drives = {} /\ more \cap containers[l].drives = {}
        BY <1>6, <1>7
      <3>2. containers[k].drives \cap containers[l].drives # {} => k = l
        BY DEF DrivesInv
      <3> QED
        BY <2>1, <3>1, <3>2, <1>1
    <2> QED
      BY <2>1, <1>1
  <1>10. (args.drives # << >> =>
             (left + 1)..Len(drives)
                 \subseteq UNION {containers[k].drives : k \in 1..Len(containers)})'
    <2>1. more \subseteq containers'[i].drives
          /\ \A k \in 1..Len(containers) : containers[k].drives \subseteq containers'[k].drives
      BY <1>1
    <2>2. UNION {containers[k].drives : k \in 1..Len(containers)}
          \subseteq UNION {containers'[k].drives : k \in 1..Len(containers)}
      BY <2>1
    <2>3. more \subseteq UNION {containers'[k].drives : k \in 1..Len(containers)}
      BY <2>1
    <2>4. args.drives # << >> =>
             (left + 1)..Len(drives)
                 \subseteq UNION {containers[k].drives : k \in 1..Len(containers)}
      BY <1>2 DEF DrivesInv
    <2> QED
      BY <2>2, <2>3, <2>4, <1>1, <1>2, <1>7
  <1> QED
    BY <1>2, <1>5, <1>8, <1>9, <1>10 DEF DrivesInv, AllPlaced, Choosing, Early

\* A container that is added has no drives.
LEMMA DrivelessAdded ==
    ASSUME TypeInv, PhaseInv, NodesInv, NodesInv', DrivesInv, NEW r \in Roles, AddContainer(r)
    PROVE  DrivesInv'
  <1> DEFINE new == Len(containers) + 1
  <1>1. /\ Len(containers) \in Nat /\ Len(containers') = new
        /\ \A k \in 1..Len(containers) : containers'[k] = containers[k]
        /\ containers'[new].drives = {}
        /\ Of(r)' = Of(r) \cup {new}
        /\ \A q \in Roles \ {r} : Of(q)' = Of(q)
        /\ UNCHANGED <<pc, args, drives, turn, wanted, left>>
    BY Added
  <1>2. pc = r /\ left = 0 /\ ~AllPlaced
    BY DEF AddContainer, Roles, PhaseInv, AllPlaced
  <1>3. \A k \in 1..Len(containers') : k \in 1..Len(containers) \/ k = new
    BY <1>1
  <1>4. \A k \in 1..Len(containers) : k \in 1..Len(containers')
    BY <1>1
  <1> HIDE DEF new
  <1>5. (\E round \in Nat : \A k \in Of("DRIVES") : Share(k, round))'
    <2>1. CASE r = "COMPUTE"
      <3>1. Of("DRIVES")' = Of("DRIVES") /\ Of("DRIVES") \subseteq 1..Len(containers)
        BY <1>1, <2>1 DEF Roles, Of
      <3>2. \A k \in Of("DRIVES"), round \in Nat : Share(k, round) => Share(k, round)'
        BY <1>1, <3>1 DEF Share
      <3> QED
        BY <3>1, <3>2 DEF DrivesInv
    <2>2. CASE r # "COMPUTE"
      <3>1. \A k \in 1..Len(containers') : containers'[k].drives = {}
        BY <1>1, <1>2, <1>3, <2>2 DEF DrivesInv, Roles
      <3>2. \A k \in 1..Len(containers') : Cardinality(containers'[k].nodes) \in Nat
        BY <1>1, ArgumentTypes DEF NodesInv, TypeInv
      <3>3. ASSUME NEW k \in Of("DRIVES")'
            PROVE  Share(k, 0)'
        <4>1. k \in 1..Len(containers')
          BY DEF Of
        <4>2. Cardinality(containers'[k].drives) = 0
          BY <3>1, <4>1, FS_EmptySet
        <4>3. Cardinality(containers'[k].nodes) \in Nat /\ ~(left' > 0)
          BY <3>2, <4>1, <1>1, <1>2
        <4> DEFINE n == Cardinality(containers'[k].nodes)
        <4>4. 0 \in ((0 - 1) * n)..(0 * n)
          BY <4>3
        <4> QED
          BY <4>2, <4>3, <4>4 DEF Share
      <3> QED
        BY <3>3
    <2> QED
      BY <2>1, <2>2
  <1>6. (\A k \in 1..Len(containers) :
            /\ containers[k].drives \subseteq (left + 1)..Len(drives)
            /\ containers[k].drives # {} => k \in Of("DRIVES"))'
    <2>1. Of("DRIVES") \subseteq Of("DRIVES")'
      BY <1>1 DEF Roles
    <2> QED
      BY <1>1, <1>3, <2>1 DEF DrivesInv
  <1>7. (\A k, l \in 1..Len(containers) :
            containers[k].drives \cap containers[l].drives # {} => k = l)'
    BY <1>1, <1>3 DEF DrivesInv
  <1>8. (args.drives # << >> /\ pc = "COMPUTE" =>
            (left + 1)..Len(drives)
                \subseteq UNION {containers[k].drives : k \in 1..Len(containers)})'
    <2>1. UNION {containers[k].drives : k \in 1..Len(containers)}
          \subseteq UNION {containers'[k].drives : k \in 1..Len(containers')}
      BY <1>1, <1>4
    <2>2. args.drives # << >> /\ pc = "COMPUTE" =>
             (left + 1)..Len(drives)
                 \subseteq UNION {containers[k].drives : k \in 1..Len(containers)}
      BY DEF DrivesInv
    <2> QED
      BY <2>1, <2>2, <1>1
  <1>9. (pc \in Choosing \cup {"FRONTEND", "DRIVES"} =>
            \A k \in 1..Len(containers) : containers[k].drives = {})'
    BY <1>1, <1>3 DEF DrivesInv, Choosing, Early
  <1>10. pc' # "assign" /\ ~AllPlaced'
    BY <1>1, <1>2 DEF AllPlaced, Roles
  <1> QED
    BY <1>5, <1>6, <1>7, <1>8, <1>9, <1>10 DEF DrivesInv

\* Every container has taken its share in each of the rounds before.
LEMMA NextDrives ==
    ASSUME TypeInv, TypeInv', PhaseInv, NodesInv, NodesInv', DrivesInv, [Next]_vars
    PROVE  DrivesInv'
  <1> USE DEF Handing
  <1>1. CASE containers' = << >> /\ pc' \in Choosing \cup {"FRONTEND", "quit"}
    <2>1. Len(containers') = 0
      BY <1>1
    <2>2. Of("DRIVES")' = {}
      BY <2>1 DEF Of
    <2>3. pc' \notin {"assign", "COMPUTE"} /\ ~AllPlaced'
      BY <1>1 DEF AllPlaced, Choosing, Early
    <2> QED
      BY <2>1, <2>2, <2>3 DEF DrivesInv
  <1>2. ASSUME NEW r \in Roles, AddContainer(r)
        PROVE  DrivesInv'
    BY <1>2, DrivelessAdded
  <1>3. ASSUME NEW r \in Roles, DevicesRunOut(r)
        PROVE  DrivesInv'
    <2>1. UNCHANGED <<args, drives, left, turn, containers>> /\ pc' = "raised"
      BY <1>3 DEF DevicesRunOut, Goto
    <2> QED
      BY <2>1, DrivesStay DEF Driveless, Choosing, Early
  <1>4. ASSUME NEW r \in Roles, RoleDone(r), r # "DRIVES"
        PROVE  DrivesInv'
    <2>1. /\ UNCHANGED <<args, drives, left, turn, containers>> /\ pc = r
          /\ pc' = IF r = "FRONTEND" THEN "DRIVES" ELSE "port"
      BY <1>4 DEF RoleDone, Goto, Roles
    <2> QED
      BY <2>1, <1>4, DrivesStay DEF Driveless, Choosing, Early, Roles
  <1>5. CASE RoleDone("DRIVES")
    <2>1. /\ UNCHANGED <<args, drives, turn, containers>> /\ pc = "DRIVES" /\ pc' = "assign"
          /\ args.drives # << >> => left' = Len(drives)
      BY <1>5 DEF RoleDone, Goto
    <2>2. /\ \A i \in 1..Len(containers) : containers[i].drives = {}
          /\ turn = {}
      BY <2>1 DEF DrivesInv, PhaseInv, Phases, Roles
    <2>3. \A i \in Of("DRIVES")' : Share(i, 0)'
      <3>1. ASSUME NEW i \in Of("DRIVES")'
            PROVE  Share(i, 0)'
        <4> DEFINE n == Cardinality(containers'[i].nodes)
        <4>1. i \in 1..Len(containers') /\ i \notin turn'
          BY <2>1, <2>2 DEF Of
        <4>2. Cardinality(containers'[i].drives) = 0
          BY <4>1, <2>1, <2>2, FS_EmptySet
        <4>3. n \in Nat
          BY <4>1, <2>1, NodeCount
        <4> HIDE DEF n
        <4>4. 0 \in ((0 - 1) * n)..(0 * n) /\ 0 = 0 * n
          BY <4>3
        <4> QED
          BY <4>1, <4>2, <4>4 DEF Share, n
      <3> QED
        BY <3>1
    <2>4. args'.drives # << >> => (left' + 1)..Len(drives') = {}
      <3>1. Len(drives) \in Nat
        BY DEF TypeInv
      <3> QED
        BY <3>1, <2>1
    <2>5. pc' \notin Choosing \cup {"FRONTEND", "DRIVES"} /\ ~AllPlaced'
      BY <2>1 DEF Choosing, Early, AllPlaced
    <2>6. \A i \in 1..Len(containers') : containers'[i].drives = {}
      BY <2>1, <2>2
    <2> QED
      BY <2>3, <2>4, <2>5, <2>6 DEF DrivesInv
  <1>6. ASSUME NEW i \in 1..Len(containers), AssignDrives(i)
        PROVE  DrivesInv'
    BY <1>6, DrivesTaken
  <1>7. CASE NextDriveRound
    <2>1. /\ UNCHANGED <<args, drives, left, containers, pc>> /\ turn = {} /\ turn' = Of("DRIVES")
          /\ left > 0
      BY <1>7 DEF NextDriveRound
    <2>2. PICK round \in Nat : \A i \in Of("DRIVES") : Share(i, round)
      BY DEF DrivesInv
    <2>3. Of("DRIVES")' = Of("DRIVES")
      BY <2>1 DEF Of
    <2>4. ASSUME NEW i \in Of("DRIVES")
          PROVE  Share(i, round + 1)'
      <3> DEFINE n == Cardinality(containers[i].nodes)
                 taken == Cardinality(containers[i].drives)
      <3>1. taken = round * n
        BY <2>1, <2>2 DEF Share
      <3>2. n \in Nat
        BY NodeCount DEF Of
      <3> HIDE DEF n, taken
      <3>3. /\ taken = (round + 1 - 1) * n
            /\ taken \in ((round + 1 - 1) * n)..((round + 1) * n)
        <4>1. round + 1 - 1 = round /\ round * n \in Nat /\ (round + 1) * n = round * n + n
          BY <3>2
        <4> QED
          BY <3>1, <3>2, <4>1
      <3> QED
        BY <3>3, <2>1, <2>3 DEF Share, n, taken
    <2>5. (\E k \in Nat : \A i \in Of("DRIVES") : Share(i, k))'
      <3>1. \A i \in Of("DRIVES")' : Share(i, round + 1)'
        BY <2>3, <2>4
      <3>2. round + 1 \in Nat
        OBVIOUS
      <3> QED
        BY <3>1, <3>2
    <2>6. AllPlaced' <=> AllPlaced
      BY <2>1 DEF AllPlaced
    <2> QED
      BY <2>1, <2>3, <2>5, <2>6 DEF DrivesInv
  <1>8. CASE DrivesAssigned
    <2>1. /\ UNCHANGED <<args, drives, left, containers>> /\ left = 0
          /\ pc = "assign" /\ pc' = "COMPUTE"
      BY <1>8 DEF DrivesAssigned, Goto
    <2>2. Of("DRIVES")' = Of("DRIVES")
      BY <2>1 DEF Of
    <2>3. \A i \in Of("DRIVES"), round \in Nat : Share(i, round) => Share(i, round)'
      BY <2>1 DEF Share
    <2>4. (\E round \in Nat : \A i \in Of("DRIVES") : Share(i, round))'
      BY <2>2, <2>3 DEF DrivesInv
    <2>5. pc' \notin Choosing \cup {"FRONTEND", "DRIVES"} /\ ~AllPlaced'
      BY <2>1 DEF Choosing, Early, AllPlaced
    <2> QED
      BY <2>1, <2>2, <2>4, <2>5 DEF DrivesInv
  <1>9. CASE EnsurePort14000IsUsed
    <2>1. UNCHANGED <<args, drives, left, turn>> /\ pc = "port" /\ pc' = "memory"
      BY <1>9 DEF EnsurePort14000IsUsed, Goto
    <2> QED
      BY <1>9, <2>1, PortEnsured, DrivesStay DEF Driveless, Choosing, Early
  <1>10. CASE SetMemory /\ ~Stop
    BY <1>10, MemorySet, DrivesStay DEF Driveless, Choosing, Early
  <1>11. CASE /\ UNCHANGED <<args, drives, containers, left, turn>>
              /\ pc' \in {"quit", pc} \/ (pc = "files" /\ pc' = "done")
    BY <1>11, DrivesStay DEF Driveless, Choosing, Early
  <1> QED
    BY <1>1, <1>2, <1>3, <1>4, <1>5, <1>6, <1>7, <1>8, <1>9, <1>10, <1>11, ContainerSteps DEF Roles

-----------------------------------------------------------------------------
(* Memory.                                                                 *)

\* What the amounts of memory are compared with stays as it is.
LEMMA MemoryStays ==
    ASSUME UNCHANGED <<args, picked, wanted>>
    PROVE  /\ ComputeNumas' = ComputeNumas
           /\ \A numa : /\ On(numa, "COMPUTE")' = On(numa, "COMPUTE")
                        /\ Room(numa)' = Room(numa)
  BY DEF ComputeNumas, On, NodesOf, Room, Available, Others, Reserved, Resident

\* Unless a warning was overridden, the memory set is one that was found to fit.
LEMMA NextMemory ==
    ASSUME TypeInv, NodesInv, MemoryFits, [Next]_vars
    PROVE  MemoryFits'
  <1>1. CASE SetMemory /\ ~Stop /\ ~asked'
    <2>1. /\ Len(containers') = Len(containers)
          /\ \A k \in 1..Len(containers) :
                 /\ containers'[k].role = containers[k].role
                 /\ containers'[k].nodes = containers[k].nodes
                 /\ k \in Of("COMPUTE") =>
                       containers'[k].memory = NodeMemory * Cardinality(containers[k].nodes)
          /\ ~MemoryRefused /\ ~MemoryUnwise
          /\ UNCHANGED <<args, picked, wanted>>
      BY <1>1, MemorySet DEF Warn
    <2>2. Of("COMPUTE")' = Of("COMPUTE")
      BY <2>1 DEF Of
    <2>3. ASSUME NEW i \in Of("COMPUTE")
          PROVE  LET slot == containers'[i].memory \div Cardinality(containers'[i].nodes)
                 IN IF \A numa \in ComputeNumas : Fits(Minimal, numa)
                    THEN slot >= Minimal /\ \A numa \in ComputeNumas : Fits(slot, numa)
                    ELSE slot = Minimal
      <3> DEFINE n == Cardinality(containers[i].nodes)
      <3>1. NodeMemory \in Nat /\ n \in Nat \ {0}
        BY <2>1, MemoryIsNumber
      <3>2. i \in 1..Len(containers)
        BY DEF Of
      <3>3. containers'[i].memory \div Cardinality(containers'[i].nodes) = (NodeMemory * n) \div n
        BY <2>1, <3>2
      <3> HIDE DEF n
      <3>4. (NodeMemory * n) \div n = NodeMemory
        BY <3>1
      <3>5. SlotMemory \in Nat /\ SlotMemory >= Minimal
            /\ \A numa \in ComputeNumas : SlotMemory <= PerNode(numa)
        BY SlotIsLeast
      <3>6. \/ NodeMemory = Minimal
            \/ NodeMemory >= Minimal /\ NodeMemory <= SlotMemory
        <4>1. Of("COMPUTE") # {}
          OBVIOUS
        <4>2. IsSpecified /\ ~args.minimal => ~(PerSpecified > SlotMemory) /\ ~(PerSpecified < Minimal)
          BY <2>1, <4>1 DEF MemoryUnwise
        <4> QED
          BY <3>1, <3>5, <4>2 DEF NodeMemory, Minimal
      <3>7. \A numa \in ComputeNumas : PerNode(numa) \in Nat
        BY PerNodeFits
      <3>8. \A numa \in ComputeNumas : \/ NodeMemory >= Minimal /\ NodeMemory <= PerNode(numa)
                                       \/ NodeMemory = Minimal
        BY <3>1, <3>5, <3>6, <3>7 DEF Minimal
      <3>9. \A numa \in ComputeNumas : NodeMemory = Minimal \/ Fits(NodeMemory, numa)
        BY <3>1, <3>8, PerNodeFits
      <3>10. NodeMemory >= Minimal
        BY <3>1, <3>6 DEF Minimal
      <3>11. \A numa \in ComputeNumas : ~Fits(Minimal, numa) => NodeMemory = Minimal
        <4> SUFFICES ASSUME NEW numa \in ComputeNumas, ~Fits(Minimal, numa) PROVE NodeMemory = Minimal
          OBVIOUS
        <4>1. ~(PerNode(numa) > Minimal) /\ PerNode(numa) >= Minimal /\ PerNode(numa) \in Nat
          BY PerNodeFits
        <4> QED
          BY <3>1, <3>8, <4>1 DEF Minimal
      <3> HIDE DEF Minimal
      <3> QED
        BY <3>3, <3>4, <3>9, <3>10, <3>11
    <2>4. /\ ComputeNumas' = ComputeNumas
          /\ \A numa : On(numa, "COMPUTE")' = On(numa, "COMPUTE") /\ Room(numa)' = Room(numa)
      BY <2>1, MemoryStays
    <2> QED
      BY <2>2, <2>3, <2>4 DEF MemoryFits, Fits
  <1>2. CASE UNCHANGED <<args, picked, wanted, containers, asked>> /\ pc \in {"files", "done"}
    <2>1. Of("COMPUTE")' = Of("COMPUTE")
      BY <1>2 DEF Of
    <2> QED
      BY <1>2, <2>1, MemoryStays DEF MemoryFits, Fits
  <1>3. CASE pc' \notin {"files", "done"} \/ asked'
    BY <1>3 DEF MemoryFits
  <1>4. \/ SetMemory /\ ~Stop
        \/ UNCHANGED <<args, picked, wanted, containers, asked>> /\ pc \in {"files", "done"}
        \/ pc' \notin {"files", "done"}
    BY DEF Next, vars, Stop, SetUserArgs, ArgsRefused, SetNetDevices, AddressRefused, SetDrives,
       SetCores, SetSpecifiedCores, CountNodes, NextRound, PickCore, AddContainer, DevicesRunOut,
       RoleDone, AssignDrives, NextDriveRound, DrivesAssigned, EnsurePort14000IsUsed,
       CreateResourcesFile, Generated, Goto, Roles
  <1> QED
    BY <1>1, <1>2, <1>3, <1>4

-----------------------------------------------------------------------------
(* The properties.                                                         *)

\* At first there is nothing that could be wrong.
LEMMA InitInv == Init => IInv
  <1> SUFFICES ASSUME Init
               PROVE  IInv
    OBVIOUS
  <1>1. TypeInv /\ CoreInv /\ CountInv /\ NodesInv
    BY InitType, InitCores, InitNodes
  <1>2. /\ pc = "args" /\ containers = << >> /\ picked = << >> /\ turn = {} /\ left = 0
        /\ nextPort = 14200 /\ joinPortUsed = FALSE /\ free = [n \in Numas |-> {}]
    BY DEF Init
  <1>3. Len(containers) = 0
    BY <1>2
  <1>4. Of("DRIVES") = {}
    BY <1>3 DEF Of
  <1>5. PhaseInv
    BY <1>2 DEF PhaseInv, Early, Choosing
  <1>6. LevelInv
    BY <1>2 DEF LevelInv, NumaBalanced
  <1>7. DevicesInv
    BY <1>2 DEF DevicesInv, Early
  <1>8. PortInv
    BY <1>2, <1>3 DEF PortInv
  <1>9. DrivesInv
    BY <1>2, <1>3, <1>4 DEF DrivesInv, AllPlaced
  <1>10. MemoryFits
    BY <1>2 DEF MemoryFits
  <1> QED
    BY <1>1, <1>5, <1>6, <1>7, <1>8, <1>9, <1>10 DEF IInv

\* The invariant of all loops together.
LEMMA Invariance == Spec => []IInv
  <1>1. IInv /\ [Next]_vars => IInv'
    <2> SUFFICES ASSUME IInv, [Next]_vars
                 PROVE  IInv'
      OBVIOUS
    <2>1. /\ TypeInv /\ PhaseInv /\ CoreInv /\ CountInv /\ LevelInv
          /\ NodesInv /\ DevicesInv /\ PortInv /\ DrivesInv /\ MemoryFits
      BY DEF IInv
    <2>2. TypeInv'
      BY <2>1, NextType
    <2>3. PhaseInv' /\ CoreInv' /\ CountInv' /\ LevelInv'
      BY <2>1, NextPhase, NextCores, NextCounts, NextLevels
    <2>4. NodesInv'
      BY <2>1, <2>2, NextNodes
    <2>5. DevicesInv'
      BY <2>1, <2>2, NextDevices
    <2>6. PortInv'
      BY <2>1, NextPorts
    <2>7. DrivesInv'
      BY <2>1, <2>2, <2>4, NextDrives
    <2>8. MemoryFits'
      BY <2>1, NextMemory
    <2> QED
      BY <2>2, <2>3, <2>4, <2>5, <2>6, <2>7, <2>8 DEF IInv
  <1> QED
    BY <1>1, InitInv, PTL DEF Spec

\* The program's lists, sets and counters hold what they are meant for.
THEOREM Types == Spec => []TypeOK
  <1>1. TypeInv => TypeOK
    <2> SUFFICES ASSUME TypeInv
                 PROVE  TypeOK
      OBVIOUS
    <2>1. /\ \A i \in 1..Len(devices) : devices[i] \in Nics
          /\ \A i \in 1..Len(picked) : picked[i] \in AllCpus
          /\ containers \in [1..Len(containers) -> ContainerSet]
      BY LenProperties DEF TypeInv
    <2>2. ASSUME NEW c \in ContainerSet
          PROVE  IsContainer(c)
      <3>1. \A i \in 1..Len(c.devices) : c.devices[i] \in Nics
        BY LenProperties, c.devices \in Seq(Nics) DEF ContainerSet
      <3> QED
        BY <3>1 DEF ContainerSet, IsContainer
    <2> QED
      BY <2>1, <2>2 DEF TypeInv, TypeOK
  <1> QED
    BY <1>1, Invariance, PTL DEF IInv

\* No CPU is given to two nodes; unless the user named CPUs, no physical core is
\* either, and the cores to be spared are left (set_cores, set_nodes).
THEOREM CoresAreExclusive == Spec => []CoresExclusive
  <1>1. TypeInv /\ CoreInv /\ CountInv => CoresExclusive
    <2> SUFFICES ASSUME TypeInv, CoreInv, CountInv
                 PROVE  CoresExclusive
      OBVIOUS
    <2>1. Len(picked) \in Nat /\ picked \in [1..Len(picked) -> AllCpus]
      BY LenProperties DEF TypeInv
    <2>2. Distinct(picked)
      BY DEF CoreInv
    <2>3. ASSUME Automatic
          PROVE  /\ Distinct([i \in 1..Len(picked) |-> FirstSibling[picked[i]]])
                 /\ args.spare # 0 /\ Cardinality(Cpus) > 1 => 0 \notin Elements(picked)
      <3>1. Elements(picked) \subseteq AutoCpus /\ AutoCpus \subseteq Cpus
        BY <2>3 DEF CoreInv, AutoCpus
      <3>2. \A c \in Cpus : FirstSibling[c] = c
        BY MachineAssumption DEF Cpus
      <3>3. \A i \in 1..Len(picked) : FirstSibling[picked[i]] = picked[i]
        BY <3>1, <3>2 DEF Elements
      <3>4. [i \in 1..Len(picked) |-> FirstSibling[picked[i]]] = picked
        BY <3>3, <2>1
      <3>5. args.spare # 0 /\ Cardinality(Cpus) > 1 => 0 \notin AutoCpus
        BY DEF AutoCpus
      <3> QED
        BY <3>1, <3>4, <3>5, <2>2
    <2>4. ~RoleIdsGiven /\ AllPlaced => Required <= Cardinality(Cpus) - args.spare
      BY DEF CountInv, AllPlaced, Early, ForWeka
    <2> QED
      BY <2>2, <2>3, <2>4 DEF CoresExclusive, Automatic
  <1> QED
    BY <1>1, Invariance, PTL DEF IInv

\* A NUMA node that gave fewer CPUs than another, by more than one, has none left
\* (the rounds of set_nodes).
THEOREM NumasAreBalanced == Spec => []NumaBalanced
  BY Invariance, PTL DEF IInv, LevelInv

\* Every node is in one container, and no container is too big (_set_containers).
THEOREM NodesArePlaced == Spec => []NodesPlaced
  <1>1. TypeInv /\ CountInv /\ NodesInv => NodesPlaced
    <2> SUFFICES ASSUME TypeInv, CountInv, NodesInv
                 PROVE  NodesPlaced
      OBVIOUS
    <2>1. /\ \A i, j \in 1..Len(containers) :
                  containers[i].nodes \cap containers[j].nodes # {} => i = j
          /\ \A i \in 1..Len(containers) : Cardinality(containers[i].nodes) \in 1..args.maxCores
      BY DEF NodesInv
    <2>2. ASSUME AllPlaced
          PROVE  Placed = 1..Required
      <3> DEFINE All == NodesOf("FRONTEND") \cup NodesOf("DRIVES") \cup NodesOf("COMPUTE")
      <3>1. ASSUME NEW r \in Roles
            PROVE  NodesOf(r) \subseteq Placed
        <4>1. NodesOf(r) \ Placed = (Before(r) + 1)..(Before(r) + 0)
          BY <2>2 DEF NodesInv
        <4>2. (Before(r) + 1)..(Before(r) + 0) = {}
          BY NodesOfRole
        <4> QED
          BY <4>1, <4>2
      <3>2. Placed \subseteq All
        <4>1. \A i \in 1..Len(containers) : containers[i].nodes \subseteq All
          BY ContainerTypes DEF NodesInv, Roles
        <4> QED
          BY <4>1 DEF Placed
      <3>3. All = 1..Required
        <4>1. wanted["FRONTEND"] \in Nat /\ wanted["DRIVES"] \in Nat /\ wanted["COMPUTE"] \in Nat
          BY DEF TypeInv, Roles
        <4> QED
          BY <4>1 DEF NodesOf, Required
      <3>4. All \subseteq Placed
        BY <3>1 DEF Roles
      <3> QED
        BY <3>2, <3>3, <3>4
    <2>3. AllPlaced => Required <= Len(picked)
      BY DEF CountInv, AllPlaced, Choosing, Early
    <2> QED
      BY <2>1, <2>2, <2>3 DEF NodesPlaced
  <1> QED
    BY <1>1, Invariance, PTL DEF IInv

\* The ports of two containers differ, with those of their processes
\* (_get_next_base_port, _ensure_port_14000_is_used).
THEOREM PortsAreDisjoint == Spec => []PortsDisjoint
  <1>1. TypeInv /\ NodesInv /\ PortInv => PortsDisjoint
    <2> SUFFICES ASSUME TypeInv, NodesInv, PortInv
                 PROVE  PortsDisjoint
      OBVIOUS
    <2>1. ASSUME NEW i \in 1..Len(containers)
          PROVE  /\ containers[i].port \in Nat /\ containers[i].port % 100 = 0
                 /\ containers[i].port \notin {14100, 15000}
                 /\ PortsOf(containers[i]) \subseteq containers[i].port..(containers[i].port + 19)
      <3>1. Cardinality(containers[i].nodes) \in 1..19 /\ containers[i].port \in Nat
        BY NodeCount, ContainerTypes
      <3>2. containers[i].port % 100 = 0 /\ containers[i].port \notin {14100, 15000}
        BY DEF PortInv
      <3>3. PortsOf(containers[i]) \subseteq containers[i].port..(containers[i].port + 19)
        <4> DEFINE port == containers[i].port
                   n == Cardinality(containers[i].nodes)
        <4>1. n \in 1..19 /\ port \in Nat
          BY <3>1
        <4>2. PortsOf(containers[i]) = port..(port + n)
          BY DEF PortsOf
        <4> HIDE DEF port, n
        <4>3. PortsOf(containers[i]) \subseteq port..(port + 19)
          BY <4>1, <4>2
        <4> QED
          BY <4>3 DEF port
      <3> QED
        BY <3>1, <3>2, <3>3
    <2>2. \A a, b \in Nat : a % 100 = 0 /\ b % 100 = 0 /\ (a..(a + 19)) \cap (b..(b + 19)) # {} => a = b
      <3> SUFFICES ASSUME NEW a \in Nat, NEW b \in Nat, a % 100 = 0, b % 100 = 0,
                          NEW p \in (a..(a + 19)) \cap (b..(b + 19))
                   PROVE  a = b
        OBVIOUS
      <3>1. a = 100 * (a \div 100) /\ b = 100 * (b \div 100) /\ a \div 100 \in Nat /\ b \div 100 \in Nat
        OBVIOUS
      <3>2. a - b <= 19 /\ b - a <= 19
        OBVIOUS
      <3> QED
        BY <3>1, <3>2
    <2>3. ASSUME NEW i \in 1..Len(containers), NEW reserved \in {14100, 15000}
          PROVE  reserved \notin PortsOf(containers[i])
      <3> DEFINE port == containers[i].port
      <3>1. port \in Nat /\ port % 100 = 0 /\ port # reserved
            /\ PortsOf(containers[i]) \subseteq port..(port + 19)
        BY <2>1
      <3> HIDE DEF port
      <3>2. reserved \in Nat /\ reserved % 100 = 0 /\ reserved \in reserved..(reserved + 19)
        OBVIOUS
      <3>3. (port..(port + 19)) \cap (reserved..(reserved + 19)) = {}
        BY <2>2, <3>1, <3>2
      <3> QED
        BY <3>1, <3>2, <3>3
    <2>4. ASSUME NEW i \in 1..Len(containers), NEW j \in 1..Len(containers),
                 PortsOf(containers[i]) \cap PortsOf(containers[j]) # {}
          PROVE  i = j
      <3> DEFINE a == containers[i].port
                 b == containers[j].port
      <3>1. /\ a \in Nat /\ a % 100 = 0 /\ PortsOf(containers[i]) \subseteq a..(a + 19)
            /\ b \in Nat /\ b % 100 = 0 /\ PortsOf(containers[j]) \subseteq b..(b + 19)
        BY <2>1
      <3> HIDE DEF a, b
      <3>2. (a..(a + 19)) \cap (b..(b + 19)) # {}
        BY <3>1, <2>4
      <3>3. a = b
        BY <2>2, <3>1, <3>2
      <3> QED
        BY <3>3 DEF PortInv, a, b
    <2>5. \A i \in 1..Len(containers) : PortsOf(containers[i]) \cap {14100, 15000} = {}
      BY <2>3
    <2> QED
      BY <2>4, <2>5 DEF PortsDisjoint
  <1> QED
    BY <1>1, Invariance, PTL DEF IInv

\* Every drive that the user named is in one container, and the rounds in which
\* they were handed out are fair (_add_drives).
THEOREM DrivesArePlaced == Spec => []DrivesPlaced
  <1>1. TypeInv /\ PhaseInv /\ NodesInv /\ DrivesInv => DrivesPlaced
    <2> SUFFICES ASSUME TypeInv, PhaseInv, NodesInv, DrivesInv, AllPlaced
                 PROVE  DrivesPlaced
      BY DEF DrivesPlaced
    <2>1. left = 0 /\ Len(drives) \in Nat
      BY DEF AllPlaced, PhaseInv, TypeInv
    <2>2. \A i, j \in 1..Len(containers) :
              containers[i].drives \cap containers[j].drives # {} => i = j
      BY DEF DrivesInv
    <2>3. args.drives # << >> =>
              UNION {containers[i].drives : i \in 1..Len(containers)} = 1..Len(drives)
      <3>1. \A i \in 1..Len(containers) : containers[i].drives \subseteq 1..Len(drives)
        BY ContainerTypes
      <3>2. args.drives # << >> =>
              1..Len(drives) \subseteq UNION {containers[i].drives : i \in 1..Len(containers)}
        BY <2>1 DEF DrivesInv
      <3> QED
        BY <3>1, <3>2
    <2>4. ASSUME NEW i \in Of("DRIVES")
          PROVE  /\ Cardinality(containers[i].nodes) \in Nat \ {0}
                 /\ Cardinality(containers[i].drives) \in 0..Len(drives)
      <3>1. i \in 1..Len(containers)
        BY DEF Of
      <3>2. Cardinality(containers[i].nodes) \in Nat \ {0}
        BY <3>1, NodeCount
      <3>3. containers[i].drives \in SUBSET (1..Len(drives))
        BY <3>1, ContainerTypes
      <3>4. IsFiniteSet(1..Len(drives)) /\ Cardinality(1..Len(drives)) = Len(drives)
        <4>1. \A last \in Nat : IsFiniteSet(1..last) /\ Cardinality(1..last) = last
          BY FS_Interval
        <4> QED
          BY <4>1, <2>1
      <3>5. IsFiniteSet(containers[i].drives) /\ Cardinality(containers[i].drives) <= Len(drives)
        BY <3>3, <3>4, FS_Subset
      <3>6. Cardinality(containers[i].drives) \in Nat
        BY <3>5, FS_CardinalityType
      <3> QED
        BY <3>2, <3>5, <3>6, <2>1
    <2> DEFINE Fair(round) == \A i \in Of("DRIVES") :
                   LET nodes == Cardinality(containers[i].nodes)
                   IN Cardinality(containers[i].drives) \in (round * nodes)..((round + 1) * nodes)
    <2>5. \E round \in 0..Len(drives) : Fair(round)
      <3>1. PICK round \in Nat : \A i \in Of("DRIVES") :
                Cardinality(containers[i].drives)
                    \in ((round - 1) * Cardinality(containers[i].nodes))
                        ..(round * Cardinality(containers[i].nodes))
        BY DEF DrivesInv, Share
      <3>2. CASE round = 0 \/ Of("DRIVES") = {}
        <4>1. ASSUME NEW i \in Of("DRIVES")
              PROVE  Cardinality(containers[i].drives)
                         \in (0 * Cardinality(containers[i].nodes))
                             ..((0 + 1) * Cardinality(containers[i].nodes))
          <5> DEFINE n == Cardinality(containers[i].nodes)
                     d == Cardinality(containers[i].drives)
          <5>1. n \in Nat \ {0} /\ d \in Nat /\ round = 0 /\ d \in ((0 - 1) * n)..(0 * n)
            BY <2>4, <3>1, <3>2
          <5> HIDE DEF n, d
          <5>2. d \in (0 * n)..((0 + 1) * n)
            BY <5>1
          <5> QED
            BY <5>2 DEF n, d
        <4>2. 0 \in 0..Len(drives)
          BY <2>1
        <4> QED
          BY <4>1, <4>2
      <3>3. CASE round # 0 /\ Of("DRIVES") # {}
        <4>1. PICK i \in Of("DRIVES") : TRUE
          BY <3>3
        <4>2. round - 1 \in 0..Len(drives)
          <5> DEFINE n == Cardinality(containers[i].nodes)
                     d == Cardinality(containers[i].drives)
          <5>1. n \in Nat \ {0} /\ d \in 0..Len(drives) /\ d >= (round - 1) * n
            BY <2>4, <3>1
          <5>2. round - 1 \in Nat
            BY <3>3
          <5> HIDE DEF n, d
          <5>3. (round - 1) * n >= round - 1
            BY <5>1, <5>2
          <5>4. (round - 1) * n \in Nat
            BY <5>1, <5>2
          <5> QED
            BY <5>1, <5>2, <5>3, <5>4, <2>1
        <4>3. Fair(round - 1)
          <5>1. round - 1 + 1 = round
            OBVIOUS
          <5> QED
            BY <3>1, <5>1
        <4> HIDE DEF Fair
        <4> QED
          BY <4>2, <4>3
      <3> QED
        BY <3>2, <3>3
    <2> QED
      BY <2>2, <2>3, <2>5 DEF DrivesPlaced
  <1> QED
    BY <1>1, Invariance, PTL DEF IInv

\* The program never pops a device from an empty list when it counted the nodes by
\* itself (set_nodes, _set_containers).
THEOREM DevicesAlwaysSuffice == Spec => []DevicesSuffice
  <1>1. DevicesInv => DevicesSuffice
    BY DEF DevicesInv, DevicesSuffice
  <1> QED
    BY <1>1, Invariance, PTL DEF IInv

\* Unless a warning was overridden, the hugepages of the compute nodes fit into every
\* NUMA node they run on whenever the least amount does; where that does not fit, it is
\* what is written (_get_compute_slot_memory_requirement, set_memory).
THEOREM MemoryAlwaysFits == Spec => []MemoryFits
  BY Invariance, PTL DEF IInv
=============================================================================
