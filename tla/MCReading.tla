------------------------------ MODULE MCReading ------------------------------
(* A small instance of Reading for TLC: the statement of a cursor and        *)
(* another.                                                                  *)
EXTENDS Reading

CONSTANTS c, s1, i1, i2

TwoStatements == {c, s1}
TwoIterators == {i1, i2}
=============================================================================
