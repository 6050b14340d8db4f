----------------------------- MODULE AtomicFile -----------------------------
(***************************************************************************)
(* What a transaction of the bundled SQLite promises about the database      *)
(* file, without locks, journal or cache: a commit replaces the pages it     *)
(* wrote in one step, nobody reads while it does, a process that dies takes   *)
(* nothing back, and a loss of power takes back the last commit at most.     *)
(*                                                                           *)
(* A page is named by the transaction that wrote it last.  Transaction and   *)
(* Migrate take this for granted; Pager implements it.                       *)
(***************************************************************************)
EXTENDS Naturals

CONSTANTS Conns, Pages, Txns     \* transaction 0 wrote the file at first

VARIABLES
    file,       \* what the next reader of the file will see
    previous,   \* what it would see if the last commit were taken back
    reading     \* the connections that have a read transaction

vars == <<file, previous, reading>>

Init ==
    /\ file = [p \in Pages |-> 0]
    /\ previous = file
    /\ reading = {}

Begin(c) ==
    /\ reading' = reading \union {c}
    /\ UNCHANGED <<file, previous>>

(* The read transactions of some connections end, in an orderly way or not.   *)
End(C) ==
    /\ reading' = reading \ C
    /\ UNCHANGED <<file, previous>>

(* t has written the pages W; only its connection has a read transaction.     *)
Commit(c, t, W) ==
    /\ reading = {c}
    /\ file' = [p \in Pages |-> IF p \in W THEN t ELSE file[p]]
    /\ previous' = file
    /\ UNCHANGED reading

PowerLoss ==
    /\ file' \in {file, previous}
    /\ previous' = file'
    /\ reading' = {}

Next ==
    \/ \E c \in Conns : Begin(c)
    \/ \E C \in SUBSET Conns : End(C)
    \/ \E c \in Conns, t \in Txns, W \in SUBSET Pages : Commit(c, t, W)
    \/ PowerLoss

Spec == Init /\ [][Next]_vars
=============================================================================
