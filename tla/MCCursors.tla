------------------------------ MODULE MCCursors ------------------------------
(* A small instance of Cursors for TLC.                                     *)
EXTENDS Cursors

CONSTANT i1

OneIterator == {i1}
=============================================================================
