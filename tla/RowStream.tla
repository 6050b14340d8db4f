------------------------------ MODULE RowStream ------------------------------
(***************************************************************************)
(* What a RowCursor promises the loops over it, with no statement in sight:  *)
(* each iterator hands out rows of the query in order and says that it is    *)
(* complete after the last one, or hands out one failure and nothing after   *)
(* it.  It begins with the first row; if the cursor resumes, also where a    *)
(* loop that was left before its end had come to, and then the row that loop *)
(* had asked for and not been handed may be missing.                         *)
(***************************************************************************)
EXTENDS Naturals, Sequences

CONSTANTS Iterators, RowCount, Failure

VARIABLES
    out,        \* what each iterator has handed out
    resumes,    \* a loop that was left keeps its place in the rows
    from,       \* how many rows come before its first
    status      \* "none", "reading", "complete" or "failed"

vars == <<out, resumes, from, status>>

Init ==
    /\ out = [i \in Iterators |-> <<>>]
    /\ resumes \in BOOLEAN
    /\ from = [i \in Iterators |-> 0]
    /\ status = [i \in Iterators |-> "none"]

(* Where i has come to: the row after that may have been fetched for it.      *)
Reached(i) == {from[i] + Len(out[i]), from[i] + Len(out[i]) + 1}

Left == IF resumes THEN {i \in Iterators : status[i] = "reading"} ELSE {}

Start(i) ==
    /\ status[i] = "none"
    /\ \E first \in {0} \cup UNION {Reached(j) : j \in Left} :
          from' = [from EXCEPT ![i] = first]
    /\ status' = [status EXCEPT ![i] = "reading"]
    /\ UNCHANGED <<out, resumes>>

Deliver(i) ==
    /\ status[i] = "reading"
    /\ from[i] + Len(out[i]) < RowCount
    /\ out' = [out EXCEPT ![i] = Append(@, from[i] + Len(@) + 1)]
    /\ UNCHANGED <<resumes, from, status>>

Fail(i) ==
    /\ status[i] = "reading"
    /\ out' = [out EXCEPT ![i] = Append(@, Failure)]
    /\ status' = [status EXCEPT ![i] = "failed"]
    /\ UNCHANGED <<resumes, from>>

Complete(i) ==
    /\ status[i] = "reading"
    /\ from[i] + Len(out[i]) = RowCount
    /\ status' = [status EXCEPT ![i] = "complete"]
    /\ UNCHANGED <<out, resumes, from>>

Next == \E i \in Iterators : Start(i) \/ Deliver(i) \/ Fail(i) \/ Complete(i)

Spec == Init /\ [][Next]_vars
=============================================================================
