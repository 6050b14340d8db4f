--------------------------- MODULE MCTransaction ---------------------------
(* Small instances of Transaction for TLC.                                  *)
EXTENDS Transaction, TLC

CONSTANTS t1, t2, w1, w2, w3

TwoThreads == {t1, t2}
OneThread  == {t1}
ThreeWrites == {w1, w2, w3}

Symmetry == Permutations(TwoThreads) \cup Permutations(ThreeWrites)
=============================================================================
