--------------------------- MODULE MCMaintenance ---------------------------
(* Small instances of Maintenance.                                          *)
EXTENDS Maintenance

TwoMachines == {1, 2}
OneContainer == {1}
TwoContainers == {1, 2}
AllTools == {"fd", "upgrade", "cores"}
FDOnly == {"fd"}
FirstOnly == {1}
NoLeftover == {}
LeftoverOnFirst == {<<1, 1>>}
NoFault == {}

\* No name is part of another, or 1 is, as weka1 of weka10 (see README.md).
Apart == [m \in TwoMachines |-> {m}]
Prefixed == [m \in TwoMachines |-> IF m = 1 THEN TwoMachines ELSE {m}]

\* Every command of the scripts that may fail.
AnyFault ==
    {"fd health", "fd etcd", "fd drain", "fd stop", "fd name", "fd apply", "fd container",
     "fd start", "fd healthy", "up stop", "up containers", "up move", "up start", "up started",
     "up backup", "core check", "core reaper", "core cfgdump", "core allow", "core next",
     "core download", "core nodes", "core black", "core readmit", "core back", "core enable",
     "core forbid"}
=============================================================================
