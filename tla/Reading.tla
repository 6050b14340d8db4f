------------------------------- MODULE Reading -------------------------------
(***************************************************************************)
(* Statements and Cursors together: one of the statements of a connection    *)
(* is the one behind a RowCursor.                                            *)
(*                                                                           *)
(* SQLContext.cursor prepares and binds it like any other; from then on it   *)
(* is the iterators that step it and, with the cursor, close it, while other *)
(* clients of the connection prepare, step and close theirs, exec() calls    *)
(* are under way and somebody tries to close the connection.  A step of an   *)
(* iterator is a step of Cursors and one of Statements at once; the two      *)
(* share the statement's closed.                                             *)
(***************************************************************************)
EXTENDS Statements, Sequences

CONSTANTS
    Opened,         \* the statement of the cursor
    Iterators, RowCount, None, Platforms, Faults, EarlyClose, MaxResults
                    \* those of Cursors

VARIABLES platform, position, state, errorOccurred, nextElement, asked, ended,
          out, from

Loop == INSTANCE Cursors WITH closed <- closed[Opened]

ASSUME OpenedIsAStatement == Opened \in Handles
ASSUME LoopConstants == Loop!ConstantsOK

loopVars == <<platform, position, state,
              errorOccurred, nextElement, asked, ended, out, from>>
readVars == <<vars, loopVars>>

ReadInit == Init /\ Loop!Init

-----------------------------------------------------------------------------
(* SQLContext.cursor: prepare, bind, and a RowCursor around the statement.    *)
OpenCursor ==
    /\ \E n \in HelperArrays : PrepareBound(Opened, n)
    /\ UNCHANGED loopVars

HasCursor == Opened \in held

(* RowCursor.makeIterator: the iterator shares the cursor's statement.        *)
MakeIterator(i) ==
    /\ HasCursor
    /\ UNCHANGED vars
    /\ Loop!MakeIterator(i)

(* The iterator is about to call stmnt.next(), and that reaches SQLite.       *)
WillStep(i) == ~closed[Opened] /\ ~errorOccurred[i] /\ ~asked[i]

(* A call of the iterator: what it does to the loop, and to the statement.    *)
Continue(i) ==
    /\ HasCursor
    /\ IF WillStep(i)
       THEN Advance(Opened) \/ CloseStatement(Opened)
       ELSE UNCHANGED vars
    /\ Loop!Advance(i)
    /\ closed'[Opened] \/ (Opened \in active' <=> position' > 0)

(* The iterator goes; on iOS its deinit closes the statement.                 *)
Release(i) ==
    /\ HasCursor
    /\ CloseStatement(Opened) \/ UNCHANGED vars
    /\ Loop!Drop(i)

(* On Android its finalizer does, perhaps, and later.                         *)
Collect(i) ==
    /\ HasCursor
    /\ CloseStatement(Opened)
    /\ Loop!Collect(i)

CloseCursor ==
    /\ HasCursor
    /\ CloseStatement(Opened) \/ UNCHANGED vars
    /\ Loop!CloseCursor

(* The last reference to the cursor goes when no iterator is left.            *)
ForgetCursor ==
    /\ \A i \in Iterators : state[i] # "open"
    /\ Drop(Opened)
    /\ UNCHANGED loopVars

(* What the rest of the connection's clients do.                              *)
Other(s) ==
    /\ \/ Prepare(s) \/ Advance(s) \/ AdvanceAndClose(s) \/ Reset(s)
       \/ CloseStatement(s) \/ Drop(s)
       \/ \E n \in HelperArrays : PrepareBound(s, n)
       \/ ExecPrepare(s) \/ ExecClose(s)
       \/ \E n \in 0 .. MaxGiven : UpdateBind(s, n)
       \/ UpdateStep(s) \/ UpdateReset(s)
       \/ \E i \in Parameters : Bind(s, i)
    /\ UNCHANGED loopVars

CloseConnection == CloseContext /\ UNCHANGED loopVars

ReadNext ==
    \/ OpenCursor \/ CloseCursor \/ ForgetCursor \/ CloseConnection
    \/ \E i \in Iterators : MakeIterator(i) \/ Continue(i) \/ Release(i) \/ Collect(i)
    \/ \E s \in Handles \ {Opened} : Other(s)

ReadSpec == ReadInit /\ [][ReadNext]_readVars

(* The thread of an update, or of the exec() that calls it, goes on.          *)
GoesOn(s) ==
    /\ \/ UpdateStep(s) \/ UpdateReset(s) \/ ExecClose(s)
       \/ \E n \in 0 .. MaxGiven : execing[s] = "update" /\ UpdateBind(s, n)
    /\ UNCHANGED loopVars

(* Loops go on until they are told to stop, and let go of their iterator      *)
(* then; update and exec() run on; clients close what they hold, and somebody      *)
(* closes the connection.                                                     *)
FairReadSpec ==
    /\ ReadSpec
    /\ \A i \in Iterators :
          WF_readVars(Continue(i)) /\ WF_readVars(ended[i] /\ Release(i))
    /\ WF_readVars(CloseCursor)
    /\ \A s \in Handles \ {Opened} :
          /\ WF_readVars(GoesOn(s))
          /\ SF_readVars(CloseStatement(s) /\ UNCHANGED loopVars)
    /\ WF_readVars(CloseConnection)

-----------------------------------------------------------------------------
(* The types of the statements, the connection and the iterators.             *)
ReadTypeOK == TypeOK /\ Loop!TypeOK

(* The statement of a cursor is in the middle of its rows only while a loop   *)
(* is going on, or, on Android, after one that was left early and whose       *)
(* iterator was not collected yet: in every other state it holds no lock and  *)
(* keeps no interrupt pending.                                                *)
ReaderReleased ==
    Opened \in active =>
        \E i \in Iterators :
            \/ state[i] = "open"
            \/ platform = "kotlin" /\ state[i] = "dropped" /\ ~ended[i]

(* On Android a loop that was told to stop, at the end or by an error it      *)
(* never saw, leaves no statement behind, although nothing is dropped yet.    *)
EndReleases == Loop!EndReleases

(* Whatever else is done on the connection, a cursor implements RowStream.    *)
StreamSpec == Loop!StreamSpec

(* A loop over a cursor comes to its end.                                     *)
LoopEnds == Loop!LoopEnds

(* Once close() of the connection has returned no loop is handed a row, but   *)
(* the one that a hasNext() of Android had fetched before: a loop in the      *)
(* middle of its rows makes close() fail, and one that was cut short by its   *)
(* cursor's close() gets an error.                                            *)
NoRowAfterClose ==
    [][\A i \in Iterators :
          contextClosed /\ out'[i] # out[i]
             => asked[i] \/ out'[i][Len(out'[i])] = Loop!Failure]_readVars
=============================================================================
