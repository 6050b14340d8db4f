----------------------------- MODULE MCMigrate -----------------------------
(* Small instances of Migrate for TLC.                                      *)
EXTENDS Migrate

CONSTANTS m1, m2

TwoProcesses == {m1, m2}
=============================================================================
