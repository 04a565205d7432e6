---------------------------- MODULE MCResources ----------------------------
(* Machines and command lines for ResourcesGenerator: twelve physical cores   *)
(* on two NUMA nodes, two of them with a second CPU, and four interfaces, two *)
(* of which are the slaves of a bond.                                         *)
EXTENDS ResourcesGenerator

MCAllCpus == 0..13
MCFirstSibling == [c \in MCAllCpus |-> IF c >= 12 THEN c - 12 ELSE c]
MCNumas == {0, 1}
MCNumaOf == [c \in MCAllCpus |-> IF MCFirstSibling[c] < 4 THEN 0 ELSE 1]
MCMemory == [n \in MCNumas |-> IF n = 0 THEN 3200 ELSE 4800]
MCDisks == <<"d1", "d2", "d3">>
MCNics == {"eth0", "eth1", "eth2", "eth3", "eth4", "bond0"}
MCMaster == [n \in MCNics |-> IF n \in {"eth3", "eth4"} THEN "bond0" ELSE n]

Name(nic) == [nic |-> nic, byMac |-> FALSE, wellFormed |-> TRUE]
Mac(nic) == [nic |-> nic, byMac |-> TRUE, wellFormed |-> TRUE]
Misaddressed(nic) == [nic |-> nic, byMac |-> FALSE, wellFormed |-> FALSE]
NoIds == [r \in Roles |-> << >>]
ByRole(f, d, c) == [r \in Roles |-> CASE r = "FRONTEND" -> f [] r = "DRIVES" -> d [] r = "COMPUTE" -> c]

Default0 ==
    [net |-> <<Name("eth0")>>, exclusive |-> FALSE, metadata |-> {}, drives |-> << >>, force |-> TRUE,
     spare |-> 1, numCores |-> 0, maxCores |-> 19, dedicated |-> ByRole(None, None, None),
     coreIds |-> << >>, roleIds |-> NoIds, minimal |-> FALSE, compute |-> 0, hugepages |-> 0,
     spareMemory |-> 0, protocolsMemory |-> 0, noRdma |-> TRUE, filesExist |-> FALSE]

\* Counts of cores and nodes, up to ten containers.
Counts == {[Default0 EXCEPT !.maxCores = m, !.spare = s, !.numCores = n, !.drives = d,
                           !.dedicated = ByRole(f, dn, c)] :
              m \in {1, 2, 19}, s \in {0, 1, 3, 13}, n \in {0, 4, 11}, d \in {<< >>, <<"d1">>},
              f \in {None, 0, 2}, dn \in {None, 0, 2}, c \in {None, 0, 12}}

\* Drives named by the user, for few and many drive nodes.
Drives == {[Default0 EXCEPT !.maxCores = m, !.drives = SubSeq(<<"d1", "d2", "d3", "d4", "d5">>, 1, k),
                           !.dedicated = ByRole(0, dn, 1), !.force = f] :
              m \in {1, 2, 3}, k \in 0..5, dn \in 0..5, f \in BOOLEAN}

\* CPUs named by the user, siblings and CPU 0 among them, at random or by role.
Ids == {<< >>, <<2, 3>>, <<4, 4>>, <<0, 5, 12>>, <<6, 99>>, <<2, 3, 4, 5, 6, 7, 8, 9>>}
CoreIds == {[Default0 EXCEPT !.coreIds = i, !.numCores = n, !.force = f, !.maxCores = m] :
              i \in Ids, n \in {0, 3, 8}, f \in BOOLEAN, m \in {1, 19}}
RoleCoreIds == {[Default0 EXCEPT !.roleIds = ByRole(f, d, c), !.maxCores = m, !.exclusive = e] :
              f \in {<< >>, <<1>>}, d \in {<< >>, <<2, 3, 5>>}, c \in Ids,
              m \in {1, 2}, e \in BOOLEAN}

\* Network devices, shared or exclusive.
Nets(names) == {[Default0 EXCEPT !.net = n, !.exclusive = e, !.numCores = c, !.maxCores = m,
                           !.dedicated = ByRole(None, 1, None)] :
              n \in names, e \in BOOLEAN, c \in {0, 3, 4}, m \in {1, 19}}
Distinguished == {<< >>, <<Name("eth0"), Name("eth1"), Name("eth2"), Name("bond0")>>,
                  <<Name("eth0"), Name("eth1"), Mac("eth3")>>,
                  <<Name("eth0"), Mac("eth0"), Name("eth1")>>,
                  <<Name("eth0"), Name("eth1"), Name("eth3")>>, <<Name("eth9"), Name("eth1")>>,
                  <<Name("eth0"), Misaddressed("eth1")>>}
InCloud == {[a EXCEPT !.exclusive = FALSE, !.metadata = {"oci"}] : a \in Nets(Distinguished)}

\* Memory: little or much of it reserved, and amounts given by the user.
MemoryArgs == {[Default0 EXCEPT !.minimal = mi, !.compute = c, !.hugepages = h, !.noRdma = r,
                           !.spareMemory = s, !.protocolsMemory = p, !.numCores = n,
                           !.force = f, !.filesExist = f] :
              mi \in BOOLEAN, c \in {0, 300, 2500}, h \in {0, 200, 1600}, r \in BOOLEAN,
              s \in {0, 400, 2400}, p \in {0, 1000, 4000}, n \in {5, 7}, f \in BOOLEAN}
NoSizes == {[Default0 EXCEPT !.compute = None], [Default0 EXCEPT !.protocolsMemory = None]}
Unforced == {[a EXCEPT !.force = FALSE, !.filesExist = TRUE] : a \in CoreIds}

AllArguments == Counts \cup Drives \cup CoreIds \cup RoleCoreIds \cup Nets(Distinguished)
                  \cup InCloud \cup MemoryArgs \cup NoSizes \cup Unforced
=============================================================================
