--------------------------- MODULE MCUpgradeMany ---------------------------
(* Small instances of UpgradeMany.                                          *)
EXTENDS UpgradeMany

ThreeHosts == {1, 2, 3}
TwoHosts   == {1, 2}
FirstTwo   == {1, 2}

AnyFault   == Steps \ {"drivecheck"}
RolledBack == Steps \ {"rollback", "setback", "startback"}
=============================================================================
