------------------------- MODULE RollingMaintenance -------------------------
(***************************************************************************)
(* What every rolling tool of the repository promises the storage cluster: *)
(* machines are serviced one after the other, and no machine is taken down *)
(* while the data another one serves still misses a copy.                  *)
(*                                                                         *)
(* "exposed" is the set of machines whose share of the data is not fully   *)
(* protected: taking a machine down exposes it, the rebuild ends that.     *)
(***************************************************************************)
EXTENDS Naturals, FiniteSets

CONSTANT Machines

VARIABLE exposed

TypeOK == exposed \subseteq Machines

Init == exposed = {}

\* A machine already exposed may go down again (a retry of the same host).
TakeDown(m) ==
    /\ exposed \subseteq {m}
    /\ exposed' = {m}

Reprotected(m) ==
    /\ m \in exposed
    /\ exposed' = exposed \ {m}

Next == \E m \in Machines : TakeDown(m) \/ Reprotected(m)

Spec == Init /\ [][Next]_exposed

\* The cluster never misses the copies of two machines at once.
OneExposed == \A m, n \in exposed : m = n
=============================================================================
