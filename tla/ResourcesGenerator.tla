------------------------- MODULE ResourcesGenerator -------------------------
(***************************************************************************)
(* install/resources_generator.py: divides the CPUs, network devices,      *)
(* drives, ports and memory of one machine among the containers of weka,   *)
(* and writes a resources file for each.                                   *)
(*                                                                         *)
(* A node is a number: the place of its CPU in the list of allocated ones; *)
(* frontend nodes come first, then drive nodes, then compute nodes.        *)
(* Memory is counted in hundredths of a GiB, rounded down.                 *)
(***************************************************************************)
EXTENDS Integers, FiniteSets, Sequences

CONSTANTS
    Numas,       \* NUMA nodes, numbered
    AllCpus,     \* CPU ids
    FirstSibling,\* the first CPU of the physical core a CPU belongs to
    NumaOf, Memory,
    Disks,       \* unmounted devices, as found on the machine
    Nics, Master,\* network interfaces, and the bond of each: itself if none
    Arguments    \* command lines

None == -1
Roles == {"FRONTEND", "DRIVES", "COMPUTE"}
MaxPerContainer == 19

Elements(s) == {s[i] : i \in 1..Len(s)}
Distinct(s) == \A i, j \in 1..Len(s) : s[i] = s[j] => i = j

ASSUME MachineAssumption ==
    /\ Numas \subseteq Nat /\ IsFiniteSet(Numas) /\ Numas # {}
    /\ AllCpus \subseteq Nat /\ IsFiniteSet(AllCpus)
    /\ FirstSibling \in [AllCpus -> AllCpus]
    /\ \A c \in AllCpus : FirstSibling[FirstSibling[c]] = FirstSibling[c]
    /\ NumaOf \in [AllCpus -> Numas] /\ Memory \in [Numas -> Nat]
    /\ Disks \in Seq(Elements(Disks))
    /\ Master \in [Nics -> Nics]
    /\ \A a \in Arguments :
           /\ a.maxCores \in 1..MaxPerContainer /\ a.spare \in Nat /\ a.numCores \in Nat
           /\ \A r \in Roles : a.dedicated[r] \in Nat \cup {None}
           /\ a.net \in Seq(Elements(a.net)) /\ a.drives \in Seq(Elements(a.drives))
           /\ a.coreIds \in Seq(Elements(a.coreIds))
           /\ \A r \in Roles : a.roleIds[r] \in Seq(Elements(a.roleIds[r]))
           /\ {a.compute, a.hugepages, a.spareMemory, a.protocolsMemory} \subseteq Nat \cup {None}

VARIABLES
    pc,        \* the method that runs, or how the program ended
    args,
    devices,   \* net_devices
    drives,    \* drives to be used
    free,      \* free[n]: pre_allocated_cores of NUMA node n
    turn,      \* what the running loop has not reached in this round
    picked,    \* cores_to_allocate
    wanted,    \* wanted[r]: the number of nodes of role r
    containers,
    nextPort, joinPortUsed,
    left,      \* drives_to_allocate: the first so many of drives
    asked,     \* a warning was printed, and the answer was to continue
    written    \* resources files written

vars == <<pc, args, devices, drives, free, turn, picked, wanted, containers, nextPort,
          joinPortUsed, left, asked, written>>

Ends == {"done", "quit", "raised"}
Phases == {"args", "net", "drives", "cores", "count", "pick", "assign", "port",
           "memory", "files"} \cup Roles

First(S) == CHOOSE x \in S : \A y \in S : x <= y
Last(S) == CHOOSE x \in S : \A y \in S : x >= y
Least(a, b) == IF a <= b THEN a ELSE b
Most(a, b) == IF a >= b THEN a ELSE b
Goto(phase) == pc' = phase

Cpus == {FirstSibling[c] : c \in AllCpus}
Required == wanted["FRONTEND"] + wanted["DRIVES"] + wanted["COMPUTE"]

\* The nodes of a role, in the order in which they were given their cores.
NodesOf(r) ==
    LET before == CASE r = "FRONTEND" -> 0
                    [] r = "DRIVES"   -> wanted["FRONTEND"]
                    [] r = "COMPUTE"  -> wanted["FRONTEND"] + wanted["DRIVES"]
    IN (before + 1)..(before + wanted[r])

Init ==
    /\ pc = "args"
    /\ args \in Arguments
    /\ devices = << >> /\ drives = << >>
    /\ free = [n \in Numas |-> {}] /\ turn = {} /\ picked = << >>
    /\ wanted = [r \in Roles |-> 0]
    /\ containers = << >> /\ nextPort = 14200 /\ joinPortUsed = FALSE
    /\ left = 0 /\ asked = FALSE /\ written = 0

\* "Would you like to continue? (y/n)"
Warn(condition) == condition \/ asked
Stop == Goto("quit") /\ UNCHANGED <<args, devices, drives, free, turn, picked, wanted,
                                    containers, nextPort, joinPortUsed, left, asked, written>>

\* A metadata service answers, within four tries: in a cloud every node takes a
\* network device of its own.
IsCloudEnv == args.metadata # {}
Exclusive == IsCloudEnv \/ args.exclusive

-----------------------------------------------------------------------------
(* The arguments.  A net argument names an interface, or gives its MAC     *)
(* address, which a bond shares with its slaves.                           *)

Named(net) == IF net.byMac THEN Master[net.nic] ELSE net.nic

NetValid ==
    /\ args.net # << >>
    /\ \A i \in 1..Len(args.net) : args.net[i].nic \in Nics
    /\ Distinct([i \in 1..Len(args.net) |-> Named(args.net[i])])

\* Mutant: the same CPU is accepted for two roles.
CoreIdsValidPerRole ==
    LET ids == args.coreIds IN
    /\ Distinct(ids) /\ Elements(ids) \subseteq AllCpus
    /\ \A r \in Roles : Distinct(args.roleIds[r]) /\ Elements(args.roleIds[r]) \subseteq AllCpus
    /\ args.numCores # 0 /\ ids # << >> => args.numCores = Len(ids)

RoleIds == args.roleIds["FRONTEND"] \o args.roleIds["DRIVES"] \o args.roleIds["COMPUTE"]

CoreIdsValid ==
    LET ids == args.coreIds IN
    /\ Distinct(ids) /\ Elements(ids) \subseteq AllCpus
    /\ Distinct(RoleIds) /\ Elements(RoleIds) \subseteq AllCpus
    /\ args.numCores # 0 /\ ids # << >> => args.numCores = Len(ids)

\* A size that is negative, or not a number of a known unit, is None.
SizesValid ==
    \A size \in {args.compute, args.hugepages, args.spareMemory, args.protocolsMemory} :
        size # None

ArgsValid == NetValid /\ CoreIdsValid /\ SizesValid

SetUserArgs ==
    /\ pc = "args" /\ ArgsValid
    /\ Goto("net")
    /\ UNCHANGED <<args, devices, drives, free, turn, picked, wanted, containers,
                   nextPort, joinPortUsed, left, asked, written>>

ArgsRefused == pc = "args" /\ ~ArgsValid /\ Stop

\* Addresses, netmask and gateway are looked at when the device is made.
AddressesValid == \A i \in 1..Len(args.net) : args.net[i].wellFormed

\* The master of a slave is used instead of it.
SetNetDevices ==
    /\ pc = "net" /\ AddressesValid
    /\ devices' = [i \in 1..Len(args.net) |-> Master[args.net[i].nic]]
    /\ Goto("drives")
    /\ UNCHANGED <<args, drives, free, turn, picked, wanted, containers, nextPort,
                   joinPortUsed, left, asked, written>>

AddressRefused == pc = "net" /\ ~AddressesValid /\ Stop

RoleIdsGiven == RoleIds # << >>

SetDrives ==
    LET unknown == args.drives # << >> /\ ~(Elements(args.drives) \subseteq Elements(Disks)) IN
    /\ pc = "drives"
    /\ \/ /\ drives' = IF args.drives # << >> THEN args.drives ELSE Disks
          /\ asked' = Warn(unknown)
          /\ Goto("cores")
          /\ UNCHANGED <<args, devices, free, turn, picked, wanted, containers, nextPort,
                         joinPortUsed, left, written>>
       \/ unknown /\ ~args.force /\ Stop

-----------------------------------------------------------------------------
(* CPUs and nodes.                                                         *)

\* One CPU of each physical core, but for CPU 0.
AutoCpus == IF Cardinality(Cpus) > 1 /\ args.spare # 0 THEN Cpus \ {0} ELSE Cpus

NumSpecified == IF args.coreIds # << >> THEN Len(args.coreIds) ELSE args.numCores
ForWeka == Cardinality(Cpus) - args.spare
NumAvailableCores == IF NumSpecified # 0 THEN NumSpecified ELSE ForWeka
CoresRefused == ForWeka < 0 \/ NumSpecified > ForWeka

SetCores ==
    LET given == Elements(args.coreIds)
        usable == IF args.coreIds # << >> THEN given ELSE AutoCpus
        unwise == 0 \in given \/ Cardinality(given) = Cardinality(Cpus)
    IN /\ pc = "cores" /\ ~RoleIdsGiven
       /\ \/ /\ ~CoresRefused
             /\ free' = [n \in Numas |-> {c \in usable : NumaOf[c] = n}]
             /\ asked' = Warn(unwise)
             /\ Goto("count")
             /\ UNCHANGED <<args, devices, drives, turn, picked, wanted, containers,
                            nextPort, joinPortUsed, left, written>>
          \/ (CoresRefused \/ (unwise /\ ~args.force)) /\ Stop

SetSpecifiedCores ==
    /\ pc = "cores" /\ RoleIdsGiven
    /\ picked' = RoleIds
    /\ wanted' = [r \in Roles |-> Len(args.roleIds[r])]
    /\ Goto("FRONTEND")
    /\ UNCHANGED <<args, devices, drives, free, turn, containers, nextPort, joinPortUsed,
                   left, asked, written>>

\* How many nodes of each role: a drive node per drive, one frontend node, and
\* compute nodes for the rest, unless the arguments say otherwise.
AvailableCores ==
    IF args.numCores # 0 THEN args.numCores
    ELSE IF Exclusive THEN Least(NumAvailableCores, Len(devices))
    ELSE NumAvailableCores

Default(r, n) == IF args.dedicated[r] # None THEN args.dedicated[r] ELSE n
NumDrive == Default("DRIVES", Len(drives))
NumFrontend == Default("FRONTEND", 1)
NumCompute == Default("COMPUTE", Most(0, AvailableCores - (NumDrive + NumFrontend)))

\* Mutant: network devices are not counted.
CountsRefusedWithoutNics ==
    \/ NumDrive + NumFrontend + NumCompute >
           (IF args.numCores # 0 THEN args.numCores ELSE NumAvailableCores)
    \/ args.dedicated["COMPUTE"] # 0 /\ NumCompute < 1

\* Mutant: the cores required are not compared with the ones available.
CountsRefusedWithoutCores == args.dedicated["COMPUTE"] # 0 /\ NumCompute < 1

CountsRefused ==
    \/ args.numCores # 0 /\ Exclusive /\ args.numCores > Len(devices)
    \/ NumDrive + NumFrontend + NumCompute > AvailableCores
    \/ args.dedicated["COMPUTE"] # 0 /\ NumCompute < 1

CountNodes ==
    /\ pc = "count"
    /\ \/ /\ ~CountsRefused
          /\ wanted' = [r \in Roles |-> CASE r = "FRONTEND" -> NumFrontend
                                          [] r = "DRIVES" -> NumDrive
                                          [] r = "COMPUTE" -> NumCompute]
          /\ Goto("pick")
          /\ UNCHANGED <<args, devices, drives, free, turn, picked, containers, nextPort,
                         joinPortUsed, left, asked, written>>
       \/ CountsRefused /\ Stop

\* Mutant: the rounds always begin, and may end, with the first NUMA node.
NextRoundFirstOnly ==
    /\ pc = "pick" /\ turn = {}
    /\ IF Len(picked) < Required
       THEN turn' = (IF free[First(Numas)] # {} THEN {First(Numas)} ELSE Numas) /\ UNCHANGED pc
       ELSE Goto("FRONTEND") /\ UNCHANGED turn
    /\ UNCHANGED <<args, devices, drives, free, picked, wanted, containers, nextPort,
                   joinPortUsed, left, asked, written>>

\* The CPUs of a NUMA node are interchangeable: pop() takes the biggest.
PickCore(n) ==
    /\ pc = "pick" /\ turn # {} /\ n = First(turn)
    /\ turn' = turn \ {n}
    /\ IF free[n] # {}
       THEN /\ picked' = Append(picked, Last(free[n]))
            /\ free' = [free EXCEPT ![n] = @ \ {Last(free[n])}]
       ELSE UNCHANGED <<picked, free>>
    /\ UNCHANGED <<pc, args, devices, drives, wanted, containers, nextPort, joinPortUsed,
                   left, asked, written>>

NextRound ==
    /\ pc = "pick" /\ turn = {}
    /\ IF Len(picked) < Required THEN turn' = Numas /\ UNCHANGED pc
                                 ELSE Goto("FRONTEND") /\ UNCHANGED turn
    /\ UNCHANGED <<args, devices, drives, free, picked, wanted, containers, nextPort,
                   joinPortUsed, left, asked, written>>

-----------------------------------------------------------------------------
(* Containers.                                                             *)

Of(r) == {i \in 1..Len(containers) : containers[i].role = r}

\* Mutant: rounded down.
NumContainersFloor(r) == wanted[r] \div args.maxCores
NumContainers(r) == (wanted[r] + args.maxCores - 1) \div args.maxCores
Placed == UNION {containers[i].nodes : i \in 1..Len(containers)}

\* The last nodes that are in no container, as many as a container may have.
Taken(r) ==
    LET rest == NodesOf(r) \ Placed
    IN {n \in rest : Cardinality({m \in rest : m > n}) < args.maxCores}

UsesJoinPort(r) == r = "DRIVES" /\ ~joinPortUsed

\* Mutant: the port of the talker is not skipped.
NextPortUnskipped == nextPort + 100
\* 15000 is the port of the talker.
NextPort == IF nextPort + 100 = 15000 THEN 16000 ELSE nextPort + 100

Container(r, port, nodes, nics) ==
    [role |-> r, port |-> port, nodes |-> nodes, devices |-> nics, drives |-> {}, memory |-> 0]

\* With the exclusive policy a container takes a network device for each node.
AddContainer(r) ==
    LET taken == Taken(r)
        count == Cardinality(taken)
        rest == Len(devices) - count
    IN /\ pc = r /\ Cardinality(Of(r)) < NumContainers(r)
       /\ Exclusive => rest >= 0
       /\ containers' = Append(containers,
              Container(r, IF UsesJoinPort(r) THEN 14000 ELSE nextPort, taken,
                  IF Exclusive THEN SubSeq(devices, rest + 1, Len(devices)) ELSE devices))
       /\ devices' = IF Exclusive THEN SubSeq(devices, 1, rest) ELSE devices
       /\ IF UsesJoinPort(r) THEN joinPortUsed' = TRUE /\ UNCHANGED nextPort
                             ELSE nextPort' = NextPort /\ UNCHANGED joinPortUsed
       /\ UNCHANGED <<pc, args, drives, free, turn, picked, wanted, left, asked, written>>

\* net_devices.pop() from an empty list.
DevicesRunOut(r) ==
    /\ pc = r /\ Cardinality(Of(r)) < NumContainers(r)
    /\ Exclusive /\ Cardinality(Taken(r)) > Len(devices)
    /\ Goto("raised")
    /\ UNCHANGED <<args, devices, drives, free, turn, picked, wanted, containers,
                   nextPort, joinPortUsed, left, asked, written>>

RoleDone(r) ==
    /\ pc = r /\ Cardinality(Of(r)) = NumContainers(r)
    /\ Goto(CASE r = "FRONTEND" -> "DRIVES" [] r = "DRIVES" -> "assign" [] r = "COMPUTE" -> "port")
    /\ left' = IF r # "DRIVES" THEN left
               ELSE IF args.drives # << >> THEN Len(drives)
               ELSE Least(wanted["DRIVES"], Len(drives))
    /\ UNCHANGED <<args, devices, drives, free, turn, picked, wanted, containers,
                   nextPort, joinPortUsed, asked, written>>

\* Mutant: a container takes drives that stay to be allocated.
AssignDrivesKept(i) ==
    LET count == Least(Cardinality(containers[i].nodes), left) IN
    /\ pc = "assign" /\ left > 0 /\ turn # {} /\ i = First(turn)
    /\ containers' = [containers EXCEPT ![i].drives = @ \cup (left - count + 1)..left]
    /\ left' = left - 1
    /\ turn' = turn \ {i}
    /\ UNCHANGED <<pc, args, devices, drives, free, picked, wanted, nextPort,
                   joinPortUsed, asked, written>>

\* Mutant: more drives are taken than are left.
AssignDrivesPastEnd(i) ==
    LET count == Cardinality(containers[i].nodes) IN
    /\ pc = "assign" /\ left > 0 /\ turn # {} /\ i = First(turn)
    /\ containers' = [containers EXCEPT ![i].drives = @ \cup (left - count + 1)..left]
    /\ left' = left - count
    /\ turn' = turn \ {i}
    /\ UNCHANGED <<pc, args, devices, drives, free, picked, wanted, nextPort,
                   joinPortUsed, asked, written>>

\* In each round a container takes a drive for each of its nodes.
AssignDrives(i) ==
    LET count == Least(Cardinality(containers[i].nodes), left) IN
    /\ pc = "assign" /\ left > 0 /\ turn # {} /\ i = First(turn)
    /\ containers' = [containers EXCEPT ![i].drives = @ \cup (left - count + 1)..left]
    /\ left' = left - count
    /\ turn' = turn \ {i}
    /\ UNCHANGED <<pc, args, devices, drives, free, picked, wanted, nextPort,
                   joinPortUsed, asked, written>>

\* Without a drive container this goes on for ever.
NextDriveRound ==
    /\ pc = "assign" /\ left > 0 /\ turn = {}
    /\ turn' = Of("DRIVES")
    /\ UNCHANGED <<pc, args, devices, drives, free, picked, wanted, containers, nextPort,
                   joinPortUsed, left, asked, written>>

DrivesAssigned ==
    /\ pc = "assign" /\ left = 0
    /\ turn' = {}
    /\ Goto("COMPUTE")
    /\ UNCHANGED <<args, devices, drives, free, picked, wanted, containers, nextPort,
                   joinPortUsed, left, asked, written>>

EnsurePort14000IsUsed ==
    /\ pc = "port"
    /\ containers' = IF Of("DRIVES") = {} /\ Of("COMPUTE") # {}
                     THEN [containers EXCEPT ![First(Of("COMPUTE"))].port = 14000]
                     ELSE containers
    /\ Goto("memory")
    /\ UNCHANGED <<args, devices, drives, free, turn, picked, wanted, nextPort,
                   joinPortUsed, left, asked, written>>

-----------------------------------------------------------------------------
(* Memory.                                                                 *)

Minimal == 140      \* DEFAULT_NODE_HUGEPAGES_MEMORY_BYTES
OsReserved == 800   \* MIN_OS_RESERVED_MEMORY
On(numa, r) == {n \in NodesOf(r) : NumaOf[picked[n]] = numa}
Others(numa) == Cardinality(On(numa, "FRONTEND")) + Cardinality(On(numa, "DRIVES"))

\* The management processes are taken to be as many as there are roles.
Resident(numa) ==
    390 * Cardinality(On(numa, "COMPUTE")) + 220 * Cardinality(On(numa, "DRIVES"))
    + 250 * Cardinality(On(numa, "FRONTEND")) + (3 * 310) \div Cardinality(Numas)

Reserved == OsReserved + args.spareMemory + args.protocolsMemory
            + (IF args.noRdma THEN 0 ELSE 200)

Available(numa) ==
    Memory[numa] - Reserved \div Cardinality(Numas) - (Resident(numa) * 105) \div 100

\* A hugepage has an overhead of its own: 2 MiB of 2251072 bytes are usable.
PerNode(numa) ==
    LET pages == ((Available(numa) - Minimal * Others(numa)) * 32768) \div 35173
    IN IF Available(numa) <= 0 THEN Minimal
       ELSE Most(Minimal, pages \div Cardinality(On(numa, "COMPUTE")))

ComputeNumas == {numa \in Numas : On(numa, "COMPUTE") # {}}

\* Mutant: the best NUMA node decides.
SlotMemoryBest ==
    IF ComputeNumas = {} THEN Minimal ELSE Last({PerNode(numa) : numa \in ComputeNumas})

SlotMemory ==
    IF ComputeNumas = {} THEN Minimal ELSE First({PerNode(numa) : numa \in ComputeNumas})

\* --weka-hugepages-memory is a total, from which the other nodes have a share.
Specified ==
    IF args.hugepages # 0
    THEN args.hugepages - Minimal * (wanted["DRIVES"] + wanted["FRONTEND"])
    ELSE args.compute
IsSpecified == ~args.minimal /\ (args.hugepages # 0 \/ args.compute # 0)
PerSpecified == Specified \div wanted["COMPUTE"]

TotalMemory ==
    LET sum[S \in SUBSET Numas] ==
            IF S = {} THEN 0 ELSE Memory[First(S)] + sum[S \ {First(S)}]
    IN sum[Numas]

NodeMemory == IF args.minimal THEN Minimal ELSE IF IsSpecified THEN PerSpecified ELSE SlotMemory

MemoryRefused ==
    /\ Of("COMPUTE") # {}
    /\ \/ args.minimal /\ args.compute # 0
       \/ IsSpecified /\ PerSpecified <= 0

MemoryUnwise ==
    /\ Of("COMPUTE") # {} /\ ~args.minimal
    /\ \/ args.spareMemory # 0 /\ args.spareMemory < OsReserved
       \/ IsSpecified /\ \/ PerSpecified > SlotMemory
                         \/ Specified > TotalMemory - Reserved
                         \/ PerSpecified < Minimal

SetMemory ==
    /\ pc = "memory"
    /\ \/ /\ ~MemoryRefused
          /\ containers' = [i \in 1..Len(containers) |->
                 IF i \notin Of("COMPUTE") THEN containers[i]
                 ELSE [containers[i] EXCEPT !.memory =
                           NodeMemory * Cardinality(containers[i].nodes)]]
          /\ asked' = Warn(MemoryUnwise)
          /\ Goto("files")
          /\ UNCHANGED <<args, devices, drives, free, turn, picked, wanted, nextPort,
                         joinPortUsed, left, written>>
       \/ (MemoryRefused \/ (MemoryUnwise /\ ~args.force)) /\ Stop

\* A file of an earlier run is overwritten, if the answer is to continue.
CreateResourcesFile ==
    /\ pc = "files" /\ written < Len(containers)
    /\ \/ /\ written' = written + 1
          /\ UNCHANGED <<pc, args, devices, drives, free, turn, picked, wanted,
                         containers, nextPort, joinPortUsed, left, asked>>
       \/ args.filesExist /\ ~args.force /\ Stop

Generated ==
    /\ pc = "files" /\ written = Len(containers)
    /\ Goto("done")
    /\ UNCHANGED <<args, devices, drives, free, turn, picked, wanted, containers,
                   nextPort, joinPortUsed, left, asked, written>>

Next ==
    \/ SetUserArgs \/ ArgsRefused \/ SetNetDevices \/ AddressRefused \/ SetDrives
    \/ SetCores \/ SetSpecifiedCores \/ CountNodes \/ NextRound
    \/ \E n \in Numas : PickCore(n)
    \/ \E r \in Roles : AddContainer(r) \/ DevicesRunOut(r) \/ RoleDone(r)
    \/ \E i \in 1..Len(containers) : AssignDrives(i)
    \/ NextDriveRound \/ DrivesAssigned \/ EnsurePort14000IsUsed
    \/ SetMemory \/ CreateResourcesFile \/ Generated

Spec == Init /\ [][Next]_vars
FairSpec == Spec /\ WF_vars(Next)

-----------------------------------------------------------------------------
IsContainer(c) ==
    /\ c.role \in Roles /\ c.port \in Nat /\ c.nodes \subseteq Nat
    /\ \A i \in 1..Len(c.devices) : c.devices[i] \in Nics
    /\ c.drives \subseteq 1..Len(drives) /\ c.memory \in Nat

TypeOK ==
    /\ pc \in Phases \cup Ends
    /\ \A i \in 1..Len(devices) : devices[i] \in Nics
    /\ \A n \in Numas : free[n] \subseteq AllCpus
    /\ turn \subseteq Nat
    /\ \A i \in 1..Len(picked) : picked[i] \in AllCpus
    /\ wanted \in [Roles -> Nat]
    /\ \A i \in 1..Len(containers) : IsContainer(containers[i])
    /\ nextPort \in Nat /\ joinPortUsed \in BOOLEAN
    /\ left \in 0..Len(drives)
    /\ asked \in BOOLEAN /\ written \in 0..Len(containers)

AllPlaced == pc \in {"port", "memory", "files", "done"}

\* No CPU is given to two nodes, nor one physical core unless the user named the
\* CPUs (set_cores, set_nodes, _verify_core_ids); without named CPUs the cores
\* to be spared are left, CPU 0 among them.
CoresExclusive ==
    /\ Distinct(picked)
    /\ ~RoleIdsGiven /\ args.coreIds = << >> =>
           /\ Distinct([i \in 1..Len(picked) |-> FirstSibling[picked[i]]])
           /\ AllPlaced => Required <= Cardinality(Cpus) - args.spare
           /\ args.spare # 0 /\ Cardinality(Cpus) > 1 => 0 \notin Elements(picked)

\* The nodes are spread over the NUMA nodes as evenly as their CPUs allow: one
\* that gave fewer CPUs than another, by more than one, has none left.
NumaBalanced ==
    LET given(n) == Cardinality({i \in 1..Len(picked) : NumaOf[picked[i]] = n})
    IN ~RoleIdsGiven => \A m, n \in Numas : given(m) + 1 < given(n) => free[m] = {}

\* Every node has its core and is in one container, which has no more nodes
\* than allowed (_init_num_containers_by_role, _set_containers).
NodesPlaced ==
    /\ \A i, j \in 1..Len(containers) :
           containers[i].nodes \cap containers[j].nodes # {} => i = j
    /\ \A i \in 1..Len(containers) :
           Cardinality(containers[i].nodes) \in 1..args.maxCores
    /\ AllPlaced => Placed = 1..Required /\ Required <= Len(picked)

\* The ports of the processes of two containers differ, and none is the agent's
\* or the talker's (_get_next_base_port, _ensure_port_14000_is_used).
PortsOf(c) == c.port..(c.port + Cardinality(c.nodes))
PortsDisjoint ==
    \A i, j \in 1..Len(containers) :
        /\ PortsOf(containers[i]) \cap {14100, 15000} = {}
        /\ PortsOf(containers[i]) \cap PortsOf(containers[j]) # {} => i = j

\* Every drive that the user named is in one container, and the rounds are fair:
\* no container has a drive more per node than another could take (_add_drives).
DrivesPlaced ==
    AllPlaced =>
        /\ \A i, j \in 1..Len(containers) :
               containers[i].drives \cap containers[j].drives # {} => i = j
        /\ args.drives # << >> =>
               UNION {containers[i].drives : i \in 1..Len(containers)} = 1..Len(drives)
        /\ \E round \in 0..Len(drives) : \A i \in Of("DRIVES") :
               LET nodes == Cardinality(containers[i].nodes)
               IN Cardinality(containers[i].drives) \in (round * nodes)..((round + 1) * nodes)

\* The network devices suffice when set_nodes counted the nodes.
DevicesSuffice == ~RoleIdsGiven => pc # "raised"

\* Unless a warning was overridden, the hugepages of the compute nodes fit into
\* every NUMA node they run on, next to all that is reserved there, although
\* one amount is used for all of them (_get_compute_slot_memory_requirement),
\* whenever the least amount does.  Where even that does not fit, it is written
\* nevertheless, with no more than a line in the log, and never a larger one.
Room(numa) == (Available(numa) - Minimal * Others(numa)) * 32768
Fits(slot, numa) == slot * Cardinality(On(numa, "COMPUTE")) * 35173 <= Room(numa)
MemoryFits ==
    pc \in {"files", "done"} /\ ~asked =>
        \A i \in Of("COMPUTE") :
            LET slot == containers[i].memory \div Cardinality(containers[i].nodes)
            IN IF \A numa \in ComputeNumas : Fits(Minimal, numa)
               THEN slot >= Minimal /\ \A numa \in ComputeNumas : Fits(slot, numa)
               ELSE slot = Minimal

\* The program ends, unless drives were named and no node is to serve them.
Terminates == <>(pc \in Ends \/ (left > 0 /\ wanted["DRIVES"] = 0))
=============================================================================
