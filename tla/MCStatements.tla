---------------------------- MODULE MCStatements ----------------------------
(* A small instance of Statements for TLC.                                  *)
EXTENDS Statements

CONSTANTS s1, s2

TwoStatements == {s1, s2}
=============================================================================
