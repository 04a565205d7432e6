-------------------------- MODULE MCEtcdMigration --------------------------
(* Small instances of EtcdMigration.                                        *)
EXTENDS EtcdMigration

TwoHosts == {1, 2}
ThreeHosts == {1, 2, 3}
OneWrite == {"w1"}
TwoWrites == {"w1", "w2"}
AnyFault == Steps \cup {"copy", "crash", "cancel"}
=============================================================================
