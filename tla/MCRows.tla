------------------------------- MODULE MCRows -------------------------------
(* Small instances of Rows for TLC.                                         *)
EXTENDS Rows

CONSTANTS c1, c2, t

TwoClients == {c1, c2}

(* Two instances that clash on the UNIQUE column, and two that do not.      *)
TwoBatches == {<<New(t, Null), New(t, Null)>>,
                <<New(Null, "pi"), New(Null, "pi")>>}
=============================================================================
