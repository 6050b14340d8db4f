------------------------------- MODULE Cursors -------------------------------
(***************************************************************************)
(* RowCursor and RowIterator: the loops over the rows of one query.          *)
(*                                                                           *)
(* A cursor owns one SQLStatement, every iterator it makes steps that same   *)
(* statement, and both close it: the cursor when told to, an iterator in its *)
(* deinit.  The iterator exists twice: Swift's next(), and hasNext() with    *)
(* next() in the Kotlin that is generated for Android.  There deinit is a    *)
(* finalizer, which runs at some time after the iterator was let go, or      *)
(* never: until then a second loop goes on where the first one was left.     *)
(***************************************************************************)
EXTENDS Naturals, Sequences

CONSTANTS
    Iterators,      \* the iterators that may be made
    RowCount,       \* the rows of the query
    None,           \* nothing fetched yet
    Platforms,      \* the iterators there are: "swift", "kotlin"
    Faults,         \* {"step", "creator"}: a step fails, a row has the wrong type
    EarlyClose,     \* TRUE: clients close the cursor before its loop is over
    MaxResults      \* bound: how many results one iterator may hand out

(* Assumed by the modules that use this one.                                  *)
ConstantsOK ==
    /\ RowCount \in Nat /\ MaxResults \in Nat
    /\ EarlyClose \in BOOLEAN
    /\ Platforms \subseteq {"swift", "kotlin"}
    /\ Faults \subseteq {"step", "creator"}
    /\ None \notin Nat

Failure == 0        \* Result.failure; a success is the number of its row

VARIABLES
    platform,       \* which of them this is
    closed,         \* SQLStatement.closed
    position,       \* the row the statement is at; 0: to be run from the start
    state,          \* of each iterator: "none", "open" or "dropped"
    errorOccurred,  \* RowIterator.errorOccurred
    nextElement,    \* RowIterator.nextElement (Kotlin)
    asked,          \* hasNext() returned true, next() is to follow (Kotlin)
    ended,          \* next() returned nil, or hasNext() false
    out,            \* what the client has been handed
    from            \* history: the row the statement was at when it was made

iterVars == <<errorOccurred, nextElement, asked, ended, out, from>>
vars == <<platform, closed, position, state, iterVars>>

Init ==
    /\ platform \in Platforms
    /\ closed = FALSE
    /\ position = 0
    /\ state = [i \in Iterators |-> "none"]
    /\ errorOccurred = [i \in Iterators |-> FALSE]
    /\ nextElement = [i \in Iterators |-> None]
    /\ asked = [i \in Iterators |-> FALSE]
    /\ ended = [i \in Iterators |-> FALSE]
    /\ out = [i \in Iterators |-> <<>>]
    /\ from = [i \in Iterators |-> 0]

-----------------------------------------------------------------------------
(* The client goes on with i: it has not been told that the rows are over.    *)
Asking(i) ==
    /\ state[i] = "open"
    /\ ~ended[i]
    /\ Len(out[i]) < MaxResults

(* Mutant: a step that does not see the end.                                  *)
StepRowOn == ~closed /\ position' = position + 1

(* stmnt.next(): a statement that is at its end or has failed is run from the *)
(* start by the next step.                                                    *)
StepRow == ~closed /\ position < RowCount /\ position' = position + 1

StepDone == ~closed /\ position = RowCount /\ position' = 0
StepThrows ==
    \/ closed /\ UNCHANGED position
    \/ ~closed /\ "step" \in Faults /\ position' = 0

(* stmnt.next() and creator(stmnt): a row, the end, or an error.              *)
FetchThrows == StepThrows \/ ("creator" \in Faults /\ StepRow)

Close == closed' = TRUE

-----------------------------------------------------------------------------
(* makeIterator() / iterator().                                               *)
MakeIterator(i) ==
    /\ state[i] = "none"
    /\ \A j \in Iterators : state[j] # "open"
    /\ state' = [state EXCEPT ![i] = "open"]
    /\ from' = [from EXCEPT ![i] = IF closed THEN 0 ELSE position]
    /\ UNCHANGED <<platform, closed, position,
                   errorOccurred, nextElement, asked, ended, out>>

(* Swift: next() returns a row.                                               *)
NextRow(i) ==
    /\ platform = "swift" /\ Asking(i) /\ ~errorOccurred[i]
    /\ StepRow
    /\ out' = [out EXCEPT ![i] = Append(@, position')]
    /\ UNCHANGED <<platform, closed, state, errorOccurred, nextElement, asked, ended, from>>

(* Swift: next() returns nil, after an error without a step.                  *)
NextNil(i) ==
    /\ platform = "swift" /\ Asking(i)
    /\ \/ errorOccurred[i] /\ UNCHANGED position
       \/ ~errorOccurred[i] /\ StepDone
    /\ ended' = [ended EXCEPT ![i] = TRUE]
    /\ UNCHANGED <<platform, closed, state, errorOccurred, nextElement, asked, out, from>>

(* Mutant: a next() that does not remember its error.                         *)
NextFailsForgetting(i) ==
    /\ platform = "swift" /\ Asking(i) /\ ~errorOccurred[i]
    /\ FetchThrows
    /\ out' = [out EXCEPT ![i] = Append(@, Failure)]
    /\ UNCHANGED <<platform, closed, state, errorOccurred, nextElement, asked, ended, from>>

(* Swift: next() returns the failure.                                         *)
NextFails(i) ==
    /\ platform = "swift" /\ Asking(i) /\ ~errorOccurred[i]
    /\ FetchThrows
    /\ errorOccurred' = [errorOccurred EXCEPT ![i] = TRUE]
    /\ out' = [out EXCEPT ![i] = Append(@, Failure)]
    /\ UNCHANGED <<platform, closed, state, nextElement, asked, ended, from>>

-----------------------------------------------------------------------------
(* Kotlin: hasNext() has fetched a row.                                       *)
HasNextTrue(i) ==
    /\ platform = "kotlin" /\ Asking(i) /\ ~errorOccurred[i]
    /\ ~asked[i]
    /\ StepRow
    /\ nextElement' = [nextElement EXCEPT ![i] = position']
    /\ asked' = [asked EXCEPT ![i] = TRUE]
    /\ UNCHANGED <<platform, closed, state, errorOccurred, ended, out, from>>

(* Kotlin: hasNext() returns false at the end, and closes.                    *)
HasNextFalse(i) ==
    /\ platform = "kotlin" /\ Asking(i)
    /\ ~asked[i]
    /\ \/ errorOccurred[i] /\ UNCHANGED <<closed, position>>
       \/ ~errorOccurred[i] /\ StepDone /\ Close
    /\ ended' = [ended EXCEPT ![i] = TRUE]
    /\ UNCHANGED <<platform, state, errorOccurred, nextElement, asked, out, from>>

(* Mutant: a hasNext() that catches the error and does not close.             *)
HasNextFailsOpen(i) ==
    /\ platform = "kotlin" /\ Asking(i) /\ ~errorOccurred[i]
    /\ ~asked[i]
    /\ FetchThrows
    /\ errorOccurred' = [errorOccurred EXCEPT ![i] = TRUE]
    /\ nextElement' = [nextElement EXCEPT ![i] = Failure]
    /\ ended' = [ended EXCEPT ![i] = TRUE]
    /\ UNCHANGED <<platform, closed, state, asked, out, from>>

(* Kotlin: hasNext() catches the error, stores it for next(), closes, and     *)
(* returns false.                                                             *)
HasNextFails(i) ==
    /\ platform = "kotlin" /\ Asking(i) /\ ~errorOccurred[i]
    /\ ~asked[i]
    /\ FetchThrows
    /\ Close
    /\ errorOccurred' = [errorOccurred EXCEPT ![i] = TRUE]
    /\ nextElement' = [nextElement EXCEPT ![i] = Failure]
    /\ ended' = [ended EXCEPT ![i] = TRUE]
    /\ UNCHANGED <<platform, state, asked, out, from>>

(* Kotlin: next() returns what hasNext() fetched, and keeps it.               *)
NextElement(i) ==
    /\ platform = "kotlin" /\ Asking(i) /\ asked[i]
    /\ nextElement[i] # None
    /\ out' = [out EXCEPT ![i] = Append(@, nextElement[i])]
    /\ asked' = [asked EXCEPT ![i] = FALSE]
    /\ UNCHANGED <<platform, closed, position, state, errorOccurred, nextElement, ended, from>>

-----------------------------------------------------------------------------
(* Mutant: an iterator that leaves the statement to its cursor.               *)
DropOnly(i) ==
    /\ state[i] = "open"
    /\ state' = [state EXCEPT ![i] = "dropped"]
    /\ UNCHANGED <<platform, closed, position, iterVars>>

(* The last reference to an iterator goes: at the end of a loop, of load()    *)
(* when it has its count, or of an expression.  On iOS deinit closes at once; *)
(* on Android nothing happens yet.                                            *)
Drop(i) ==
    /\ state[i] = "open"
    /\ state' = [state EXCEPT ![i] = "dropped"]
    /\ \/ platform = "swift" /\ Close
       \/ platform = "kotlin" /\ UNCHANGED closed
    /\ UNCHANGED <<platform, position, iterVars>>

(* Android: the collector finds the iterator, and its finalizer closes,       *)
(* whoever steps the statement by then.                                       *)
Collect(i) ==
    /\ platform = "kotlin" /\ state[i] = "dropped"
    /\ ~closed
    /\ Close
    /\ UNCHANGED <<platform, position, state, iterVars>>

(* RowCursor.close().                                                         *)
CloseCursor ==
    /\ ~closed
    /\ EarlyClose \/ \A i \in Iterators : ended[i] \/ state[i] = "dropped"
    /\ Close
    /\ UNCHANGED <<platform, position, state, iterVars>>

Advance(i) ==
    \/ NextRow(i) \/ NextNil(i) \/ NextFails(i)
    \/ HasNextTrue(i) \/ HasNextFalse(i) \/ HasNextFails(i) \/ NextElement(i)

Next ==
    \/ \E i \in Iterators : MakeIterator(i) \/ Advance(i) \/ Drop(i) \/ Collect(i)
    \/ CloseCursor

Spec == Init /\ [][Next]_vars

-----------------------------------------------------------------------------
(* The types of the statement and its iterators.                              *)
TypeOK ==
    /\ platform \in Platforms
    /\ closed \in BOOLEAN
    /\ position \in 0 .. RowCount
    /\ state \in [Iterators -> {"none", "open", "dropped"}]
    /\ errorOccurred \in [Iterators -> BOOLEAN]
    /\ nextElement \in [Iterators -> {None} \cup 0 .. RowCount]
    /\ asked \in [Iterators -> BOOLEAN]
    /\ ended \in [Iterators -> BOOLEAN]
    /\ out \in [Iterators -> Seq(0 .. RowCount)]
    /\ from \in [Iterators -> 0 .. RowCount]

Failed(i) == \E k \in DOMAIN out[i] : out[i][k] = Failure

(* A loop that ran to its end without a failure has had every row.            *)
CompleteOrFailed ==
    \A i \in Iterators :
        ended[i] => Failed(i) \/ out[i] = [k \in 1 .. RowCount |-> k]

(* On Android a loop that was told to stop, at the end or by an error it      *)
(* never saw, leaves no statement behind, although nothing is dropped yet.    *)
EndReleases ==
    platform = "kotlin" => \A i \in Iterators : ended[i] => closed

(* A loop over a cursor comes to its end.                                     *)
LoopEnds ==
    \A i \in Iterators : state[i] = "open" ~> ended[i] \/ state[i] = "dropped"

(* RowCursor implements RowStream, as far as the iterator goes: on Android    *)
(* the failure is in nextElement, where next() would find it.                 *)
Stream == INSTANCE RowStream WITH
    resumes <- platform = "kotlin",
    out <- [i \in Iterators |->
              IF platform = "kotlin" /\ errorOccurred[i]
              THEN Append(out[i], nextElement[i]) ELSE out[i]],
    status <- [i \in Iterators |->
                 IF errorOccurred[i] THEN "failed"
                 ELSE IF ended[i] THEN "complete"
                 ELSE IF state[i] = "none" THEN "none" ELSE "reading"]
StreamSpec == Stream!Spec

-----------------------------------------------------------------------------
(* What the refinement rests on.  An iterator starts from nothing, on iOS     *)
(* with the first row; while the statement lives it is where its last         *)
(* iterator is, or was when it was left; a row that hasNext() has fetched is  *)
(* the next one.                                                              *)
Started(i) ==
    /\ state[i] = "none" =>
          /\ out[i] = <<>> /\ from[i] = 0
          /\ ~errorOccurred[i] /\ ~asked[i] /\ ~ended[i]
    /\ platform = "swift" => from[i] = 0

At(i) == from[i] + Len(out[i]) + (IF asked[i] THEN 1 ELSE 0)

InStep(i) ==
    state[i] = "open" /\ ~closed /\ ~errorOccurred[i] /\ ~ended[i]
        => position = At(i)

Fetched(i) ==
    asked[i] =>
        /\ platform = "kotlin" /\ ~errorOccurred[i] /\ ~ended[i]
        /\ nextElement[i] = from[i] + Len(out[i]) + 1
        /\ nextElement[i] <= RowCount

(* Who has moved a statement: the open iterator, or on Android one that was   *)
(* left before its end.                                                       *)
LeftAt(i) ==
    /\ platform = "kotlin" /\ state[i] = "dropped"
    /\ ~ended[i] /\ ~errorOccurred[i]
    /\ position = At(i)

OneReader ==
    /\ \A i, j \in Iterators : state[i] = "open" /\ state[j] = "open" => i = j
    /\ position > 0 /\ ~closed =>
          \E i \in Iterators : state[i] = "open" \/ LeftAt(i)

Inductive ==
    /\ TypeOK
    /\ EndReleases
    /\ OneReader
    /\ \A i \in Iterators :
          /\ Started(i) /\ InStep(i) /\ Fetched(i)
          /\ Failed(i) => errorOccurred[i]
          /\ platform = "kotlin" /\ errorOccurred[i] => closed

(* What an iterator has handed out are the rows from its first on, then on    *)
(* iOS the failure; without an error it has ended after the last.             *)
HandedOut(i) ==
    /\ \A k \in DOMAIN out[i] : out[i][k] \in {from[i] + k, Failure}
    /\ ended[i] /\ ~errorOccurred[i] => from[i] + Len(out[i]) = RowCount
    /\ platform = "swift" /\ errorOccurred[i] => Failed(i)

(* How many calls of next() and hasNext() a loop can still make: two for each *)
(* row that is left and two for the end, one after an error.                  *)
CallsLeft(i) ==
    IF ended[i] THEN 0
    ELSE IF errorOccurred[i] THEN 1
    ELSE 2 * (RowCount - from[i] - Len(out[i])) + (IF asked[i] THEN 1 ELSE 2)

(* A loop goes on to its end: each call brings it nearer, and no other loop,  *)
(* failure or close() takes it back.                                          *)
LoopsAreShort ==
    [][\A i \in Iterators :
          /\ CallsLeft(i) \in 0 .. 2 * RowCount + 2
          /\ CallsLeft(i)' <= CallsLeft(i)
          /\ Advance(i) => CallsLeft(i)' < CallsLeft(i)]_vars
=============================================================================
