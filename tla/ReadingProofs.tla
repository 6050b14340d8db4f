---------------------------- MODULE ReadingProofs ----------------------------
(***************************************************************************)
(* Proofs about Statements, for any number of statements, parameters and     *)
(* refused binds; and about Reading, which composes Statements and Cursors:  *)
(* it takes no step the two do not allow, so what holds of each holds of it. *)
(***************************************************************************)
EXTENDS Reading, TLAPS

(* At the start there is no statement and nobody has used one.                *)
LEMMA InitInductive == ASSUME Init PROVE Inductive
  BY DEF Init, Inductive, TypeOK, HandlesOK, NeverAfterFinalize, NoStaleBindings,
         ConnectionOutlives, Unbound

(* Bindings keep their type, and only update's binds are marked "call".       *)
LEMMA AfterTypes ==
    ASSUME TypeOK, NEW s \in Handles, NEW n \in Nat, NEW who \in {"bind", "call"}
    PROVE  /\ After(s, n, who) \in [Parameters -> {"null", "bind", "call"}]
           /\ who = "bind" /\ (\A i \in Parameters : bound[s][i] # "call")
                 => \A i \in Parameters : After(s, n, who)[i] # "call"
  BY DEF After, TypeOK

(* A call on a statement that is there is not a use after its finalize.       *)
LEMMA TouchesLive ==
    ASSUME NEW s \in Handles, native[s] # "finalized", ~misused, Touch(s)
    PROVE  ~misused'
  BY DEF Touch

(* What a close does to the invariant, whoever calls it.                      *)
LEMMA FinalizeStep ==
    ASSUME Inductive, NEW s \in Handles, native[s] = "live",
           Touch(s), Finalize(s), UNCHANGED held,
           updating[s] = "no", UNCHANGED <<updating, contextClosed>>,
           \/ UNCHANGED execing
           \/ execing' = [execing EXCEPT ![s] = "no"],
           execing'[s] = "no"
    PROVE  Inductive'
<1>1. ~misused' /\ misused' \in BOOLEAN
  BY TouchesLive, Zenon DEF Inductive, NeverAfterFinalize, Touch, TypeOK
<1>2. TypeOK'
  BY <1>1 DEF Inductive, TypeOK, Finalize, Unbound
<1>3. HandlesOK'
  BY DEF Inductive, TypeOK, HandlesOK, Finalize
<1>4. NoStaleBindings'
  BY DEF Inductive, TypeOK, NoStaleBindings, Finalize, Unbound
<1>5. ConnectionOutlives'
  BY DEF Inductive, TypeOK, ConnectionOutlives, Finalize
<1> QED
  BY <1>1, <1>2, <1>3, <1>4, <1>5 DEF Inductive, NeverAfterFinalize

(* Every call on a statement keeps the invariant.                             *)
LEMMA InductiveStep ==
    ASSUME CountsAreNatural, ArraysAreGiven, Inductive, [Next]_vars
    PROVE  Inductive'
<1> USE DEF Inductive, TypeOK, HandlesOK, NeverAfterFinalize, NoStaleBindings,
            ConnectionOutlives
<1>1. CASE UNCHANGED vars
  BY <1>1 DEF vars, stmtVars
<1>2. ASSUME NEW s \in Handles, Prepare(s)
      PROVE  Inductive'
  BY <1>2 DEF Prepare
<1>3. ASSUME NEW s \in Handles, NEW n \in HelperArrays, PrepareBound(s, n)
      PROVE  Inductive'
  <2>1. PICK b \in Nat : /\ bound' = [bound EXCEPT ![s] = After(s, b, "bind")]
                         /\ held' \in {held, held \cup {s}}
    BY <1>3, ArraysAreGiven, CountsAreNatural DEF PrepareBound
  <2>2. After(s, b, "bind") \in [Parameters -> {"null", "bind", "call"}]
    BY AfterTypes
  <2>3. \A i \in Parameters : After(s, b, "bind")[i] # "call"
    <3>1. \A i \in Parameters : bound[s][i] # "call"
      BY <1>3 DEF PrepareBound
    <3> QED BY <3>1, AfterTypes
  <2> QED BY <1>3, <2>1, <2>2, <2>3 DEF PrepareBound
<1>4. ASSUME NEW s \in Handles, ExecPrepare(s)
      PROVE  Inductive'
  BY <1>4 DEF ExecPrepare
<1>5. ASSUME NEW s \in Handles, UpdateStep(s) \/ UpdateReset(s)
      PROVE  Inductive'
  <2>1. ~misused' /\ misused' \in BOOLEAN
    BY <1>5, TouchesLive, Zenon DEF UpdateStep, UpdateReset, Touch
  <2>2. CASE UpdateStep(s)
    BY <2>1, <2>2 DEF UpdateStep, Step
  <2>3. CASE UpdateReset(s)
    BY <2>1, <2>3 DEF UpdateReset, ExecCatches, Unbound
  <2> QED BY <1>5, <2>2, <2>3
<1>6. ASSUME NEW s \in Handles, ExecClose(s)
      PROVE  Inductive'
  BY <1>6, FinalizeStep DEF ExecClose
<1>7. ASSUME NEW s \in Handles, NEW i \in Parameters, Bind(s, i)
      PROVE  Inductive'
  <2>1. ~misused' /\ misused' \in BOOLEAN
    BY <1>7, TouchesLive, Zenon DEF Bind, Calling, Touch
  <2>2. CASE bound' = [bound EXCEPT ![s][i] = "bind"]
    BY <1>7, <2>1, <2>2 DEF Bind, Calling
  <2>3. CASE UNCHANGED bound
    BY <1>7, <2>1, <2>3 DEF Bind, Calling
  <2> QED BY <1>7, <2>2, <2>3 DEF Bind
<1>8. ASSUME NEW s \in Handles, NEW n \in 0 .. MaxGiven, UpdateBind(s, n)
      PROVE  Inductive'
  <2>1. native[s] = "live" /\ updating[s] = "no" /\ (s \in held \/ execing[s] = "update")
    BY <1>8 DEF UpdateBind, MayUpdate, Calling
  <2>2. ~misused' /\ misused' \in BOOLEAN
    BY <1>8, <2>1, TouchesLive, Zenon DEF UpdateBind, Touch
  <2>3. PICK b \in Nat, next \in {"step", "reset"} :
            /\ bound' = [bound EXCEPT ![s] = After(s, b, "call")]
            /\ updating' = [updating EXCEPT ![s] = next]
    BY <1>8, CountsAreNatural DEF UpdateBind
  <2>4. After(s, b, "call") \in [Parameters -> {"null", "bind", "call"}]
    BY AfterTypes
  <2> QED BY <1>8, <2>1, <2>2, <2>3, <2>4 DEF UpdateBind
<1>9. ASSUME NEW s \in Handles, Advance(s)
      PROVE  Inductive'
  <2>1. ~misused' /\ misused' \in BOOLEAN
    BY <1>9, TouchesLive, Zenon DEF Advance, Calling, Touch
  <2> QED BY <1>9, <2>1 DEF Advance, Calling, Step
<1>10. ASSUME NEW s \in Handles, AdvanceAndClose(s)
       PROVE  Inductive'
  <2>1. ~misused' /\ misused' \in BOOLEAN
    BY <1>10, TouchesLive, Zenon DEF AdvanceAndClose, Calling, Touch
  <2>2. CASE Finalize(s) /\ UNCHANGED held
    BY <1>10, <2>2, FinalizeStep DEF AdvanceAndClose, Calling
  <2>3. CASE active' = active \ {s} /\ UNCHANGED <<native, closed, bound, held>>
    BY <1>10, <2>1, <2>3 DEF AdvanceAndClose, Calling
  <2> QED BY <1>10, <2>2, <2>3 DEF AdvanceAndClose
<1>11. ASSUME NEW s \in Handles, Reset(s)
       PROVE  Inductive'
  <2>1. ~misused' /\ misused' \in BOOLEAN
    BY <1>11, TouchesLive, Zenon DEF Reset, Calling, Touch
  <2> QED BY <1>11, <2>1 DEF Reset, Calling, Unbound
<1>12. ASSUME NEW s \in Handles, CloseStatement(s)
       PROVE  Inductive'
  <2>1. CASE ~closed[s]
    BY <1>12, <2>1, FinalizeStep DEF CloseStatement
  <2>2. CASE closed[s]
    BY <1>12, <2>2 DEF CloseStatement
  <2> QED BY <2>1, <2>2
<1>13. ASSUME NEW s \in Handles, Drop(s)
       PROVE  Inductive'
  BY <1>13 DEF Drop
<1>14. CASE CloseContext
  BY <1>14 DEF CloseContext, stmtVars
<1> QED
  BY <1>1, <1>2, <1>3, <1>4, <1>5, <1>6, <1>7, <1>8, <1>9, <1>10, <1>11, <1>12,
     <1>13, <1>14 DEF Next

(* The invariant of Statements, for any number of statements and parameters   *)
(* and whoever's values are refused.                                          *)
THEOREM StatementsInductive == Spec => []Inductive
<1>1. Inductive /\ [Next]_vars => Inductive'
  BY InductiveStep, CountsAreNatural, ArraysAreGiven
<1> QED
  BY <1>1, InitInductive, PTL DEF Spec

(* What the clients of a connection can rely on: no statement is used after   *)
(* its finalize however often close is repeated, no binding of an update      *)
(* survives it, and no statement outlives the connection.                     *)
THEOREM StatementsSafe ==
    Spec => [](NeverAfterFinalize /\ NoStaleBindings /\ ConnectionOutlives)
<1>1. Inductive => NeverAfterFinalize /\ NoStaleBindings /\ ConnectionOutlives
  BY DEF Inductive
<1> QED
  BY <1>1, StatementsInductive, PTL

-----------------------------------------------------------------------------
(* prepare(expr:) and cursor pass as many parameters as the SQL has or fewer, *)
(* and SQLite accepts their values: the condition under which nothing leaks.  *)
HelpersBind ==
    /\ "helper" \notin RefusedIn
    /\ \A n \in HelperArrays : n <= ParameterCount

(* A statement somebody can finalize stays one, when the helpers bind.        *)
LEMMA NoLeakStep ==
    ASSUME CountsAreNatural, ArraysAreGiven, HelpersBind,
           Inductive, NoLeak, [Next]_vars
    PROVE  NoLeak'
<1> USE DEF Inductive, TypeOK, HandlesOK, NoLeak, Leaked
<1>1. CASE UNCHANGED vars
  BY <1>1 DEF vars, stmtVars
<1>2. ASSUME NEW s \in Handles, Prepare(s)
      PROVE  NoLeak'
  BY <1>2 DEF Prepare
<1>3. ASSUME NEW s \in Handles, NEW n \in HelperArrays, PrepareBound(s, n)
      PROVE  NoLeak'
  <2>1. native[s] = "none" /\ s \notin active
    BY <1>3 DEF PrepareBound
  <2>2. ASSUME NEW b \in 0 .. MaxGiven PROVE ~BindsFail(s, n, b, "helper")
    BY <2>1, CountsAreNatural, ArraysAreGiven DEF BindsFail, HelpersBind
  <2>3. held' = held \cup {s}
    BY <1>3, <2>2 DEF PrepareBound
  <2> QED BY <1>3, <2>3 DEF PrepareBound
<1>4. ASSUME NEW s \in Handles, ExecPrepare(s)
      PROVE  NoLeak'
  BY <1>4 DEF ExecPrepare
<1>5. ASSUME NEW s \in Handles, UpdateReset(s)
      PROVE  NoLeak'
  BY <1>5 DEF UpdateReset, ExecCatches
<1>6. ASSUME NEW s \in Handles, ExecClose(s)
      PROVE  NoLeak'
  BY <1>6 DEF ExecClose, Finalize
<1>7. ASSUME NEW s \in Handles,
             \/ \E i \in Parameters : Bind(s, i)
             \/ \E n \in 0 .. MaxGiven : UpdateBind(s, n)
             \/ UpdateStep(s) \/ Advance(s) \/ Reset(s)
      PROVE  NoLeak'
  BY <1>7 DEF Bind, UpdateBind, UpdateStep, Advance, Reset
<1>8. ASSUME NEW s \in Handles, AdvanceAndClose(s) \/ CloseStatement(s)
      PROVE  NoLeak'
  <2>1. UNCHANGED <<held, execing>> /\ native'[s] \in {native[s], "finalized"}
        /\ \A r \in Handles \ {s} : native'[r] = native[r]
    BY <1>8 DEF AdvanceAndClose, CloseStatement, Finalize
  <2> QED BY <2>1
<1>9. ASSUME NEW s \in Handles, Drop(s)
      PROVE  NoLeak'
  BY <1>9 DEF Drop
<1>10. CASE CloseContext
  BY <1>10 DEF CloseContext, stmtVars
<1> QED
  BY <1>1, <1>2, <1>3, <1>4, <1>5, <1>6, <1>7, <1>8, <1>9, <1>10 DEF Next

(* As long as the helpers' binds succeed every native statement is in         *)
(* somebody's hands; without that condition it is false.                      *)
THEOREM NothingLeaks == ASSUME HelpersBind PROVE Spec => []NoLeak
<1>1. Init => NoLeak
  BY DEF Init, NoLeak, Leaked
<1>2. Inductive /\ NoLeak /\ [Next]_vars => NoLeak'
  BY NoLeakStep, CountsAreNatural, ArraysAreGiven
<1> QED
  BY <1>1, <1>2, StatementsInductive, PTL DEF Spec

-----------------------------------------------------------------------------
(* Without that condition: which steps lose a statement.                      *)
LEMMA LeakStep ==
    ASSUME Inductive, Inductive', Next, NEW s \in Handles
    PROVE  /\ ~Leaked(s) /\ Leaked(s)' =>
                /\ native[s] = "none"
                /\ \E n \in HelperArrays : \E b \in 0 .. MaxGiven :
                      BindsFail(s, n, b, "helper")
           /\ Leaked(s) => Leaked(s)' /\ ~contextClosed'
<1> DEFINE Refuses == \E n \in HelperArrays : \E b \in 0 .. MaxGiven :
                         BindsFail(s, n, b, "helper")
           Kept == /\ ~Leaked(s) /\ Leaked(s)' => native[s] = "none" /\ Refuses
                   /\ Leaked(s) => Leaked(s)'
<1> USE DEF Inductive, TypeOK, HandlesOK, Leaked
<1>1. ASSUME NEW r \in Handles, Prepare(r) \/ ExecPrepare(r)
      PROVE  Kept
  BY <1>1 DEF Prepare, ExecPrepare
<1>2. ASSUME NEW r \in Handles, NEW n \in HelperArrays, PrepareBound(r, n)
      PROVE  Kept
  <2>1. /\ native[r] = "none" /\ native'[r] = "live" /\ UNCHANGED execing
        /\ \A q \in Handles \ {r} : native'[q] = native[q]
        /\ \/ held' = held \cup {r}
           \/ UNCHANGED held /\ \E b \in 0 .. MaxGiven : BindsFail(r, n, b, "helper")
    BY <1>2 DEF PrepareBound
  <2> QED
    BY <2>1
<1>3. ASSUME NEW r \in Handles,
             \/ \E i \in Parameters : Bind(r, i)
             \/ \E n \in 0 .. MaxGiven : UpdateBind(r, n)
             \/ UpdateStep(r) \/ UpdateReset(r) \/ Advance(r) \/ Reset(r)
      PROVE  Kept
  BY <1>3 DEF Bind, UpdateBind, UpdateStep, UpdateReset, ExecCatches, Advance, Reset
<1>4. ASSUME NEW r \in Handles, AdvanceAndClose(r) \/ CloseStatement(r)
      PROVE  Kept
  <2>1. /\ r \in held /\ UNCHANGED <<held, execing>> /\ native'[r] \in {native[r], "finalized"}
        /\ \A q \in Handles \ {r} : native'[q] = native[q]
    BY <1>4 DEF AdvanceAndClose, Calling, CloseStatement, Finalize
  <2> QED
    BY <2>1
<1>5. ASSUME NEW r \in Handles, ExecClose(r) \/ Drop(r)
      PROVE  Kept
  BY <1>5 DEF ExecClose, Drop, Finalize
<1>6. CASE CloseContext
  BY <1>6 DEF CloseContext, stmtVars
<1>7. Kept
  BY <1>1, <1>2, <1>3, <1>4, <1>5, <1>6 DEF Next
<1>8. Leaked(s)' => ~contextClosed'
  BY DEF ConnectionOutlives
<1> QED
  BY <1>7, <1>8

(* A statement is lost by a refused bind of prepare(expr:) or cursor, in the  *)
(* step that makes it, and by no other call in no other order.                *)
THEOREM LeakedByABindOnly == Spec => LeaksWhenMade
<1> DEFINE ByBind ==
       \A s \in Handles :
          ~Leaked(s) /\ Leaked(s)' =>
             /\ native[s] = "none"
             /\ \E n \in HelperArrays : \E b \in 0 .. MaxGiven : BindsFail(s, n, b, "helper")
<1>1. Inductive /\ Inductive' /\ [Next]_vars => [ByBind]_vars
  BY LeakStep
<1> QED
  BY <1>1, StatementsInductive, PTL DEF Spec, LeaksWhenMade

(* A lost statement is lost whatever is called afterwards, and no close() of  *)
(* its connection succeeds any more.                                          *)
THEOREM LeakKeepsConnectionOpen == Spec => LeaksForGood
<1> DEFINE Stays == \A s \in Handles : Leaked(s) => Leaked(s)' /\ ~contextClosed'
<1>1. Inductive /\ Inductive' /\ [Next]_vars => [Stays]_vars
  BY LeakStep
<1> QED
  BY <1>1, StatementsInductive, PTL DEF Spec, LeaksForGood

-----------------------------------------------------------------------------
(* A step of Reading is a step of Statements or none.                         *)
LEMMA StatementsSide == ASSUME [ReadNext]_readVars PROVE [Next]_vars
<1>1. CASE UNCHANGED readVars
  BY <1>1 DEF readVars
<1>2. CASE OpenCursor \/ ForgetCursor
  BY <1>2, OpenedIsAStatement DEF OpenCursor, ForgetCursor, Next
<1>3. CASE CloseCursor
  BY <1>3, OpenedIsAStatement DEF CloseCursor, Next
<1>4. CASE CloseConnection
  BY <1>4 DEF CloseConnection, Next
<1>5. ASSUME NEW i \in Iterators, MakeIterator(i) \/ Continue(i) \/ Release(i) \/ Collect(i)
      PROVE  [Next]_vars
  BY <1>5, OpenedIsAStatement DEF MakeIterator, Continue, Release, Collect, Next
<1>6. ASSUME NEW s \in Handles \ {Opened}, Other(s)
      PROVE  [Next]_vars
  BY <1>6 DEF Other, Next
<1> QED
  BY <1>1, <1>2, <1>3, <1>4, <1>5, <1>6 DEF ReadNext

(* The composition implements Statements: cursors and iterators use their     *)
(* statement as any client may, so the promises above are kept with them.     *)
THEOREM ReadingImplementsStatements == ReadSpec => Spec
  BY StatementsSide, PTL DEF ReadSpec, ReadInit, Spec

(* However often the cursor, its iterators and the client call close, SQLite  *)
(* is given a statement to finalize once, and never one that it has freed.    *)
THEOREM NothingUsedAfterFinalize == ReadSpec => []NeverAfterFinalize
  BY ReadingImplementsStatements, StatementsSafe, PTL

(* What an update has bound is bound only until it returns, whether a value   *)
(* was refused in the middle, the step failed, or exec() catches the error.   *)
THEOREM BindingsAreFresh == ReadSpec => []NoStaleBindings
  BY ReadingImplementsStatements, StatementsSafe, PTL

(* close() of the connection succeeds only when no statement of it is left.   *)
THEOREM ConnectionIsLast == ReadSpec => []ConnectionOutlives
  BY ReadingImplementsStatements, StatementsSafe, PTL

(* With cursors and loops as well, only a refused bind loses a statement, and *)
(* the connection it is lost on stays open.                                   *)
THEOREM LeaksTogether == ReadSpec => LeaksWhenMade /\ LeaksForGood
  BY ReadingImplementsStatements, LeakedByABindOnly, LeakKeepsConnectionOpen, PTL

-----------------------------------------------------------------------------
LoopProofs == INSTANCE CursorsProofs WITH closed <- closed[Opened]

(* Nobody but the loop and its cursor closes the statement behind them.       *)
LEMMA OthersLeaveIt ==
    ASSUME Inductive, NEW s \in Handles \ {Opened}, Other(s)
    PROVE  closed'[Opened] = closed[Opened]
<1>1. closed' = closed \/ closed' = [closed EXCEPT ![s] = TRUE]
  BY DEF Other, Prepare, Advance, AdvanceAndClose, Reset, CloseStatement, Drop,
         PrepareBound, ExecPrepare, ExecClose, UpdateBind, UpdateStep, UpdateReset,
         Bind, Finalize
<1> QED
  BY <1>1, OpenedIsAStatement DEF Inductive, TypeOK

(* A step of Reading is a step of the cursor's loops or none.                 *)
LEMMA LoopSide ==
    ASSUME Inductive, [ReadNext]_readVars
    PROVE  [Loop!Next]_(Loop!vars)
<1> USE DEF Loop!vars, Loop!iterVars, loopVars
<1>1. CASE UNCHANGED readVars
  BY <1>1 DEF readVars, vars, stmtVars
<1>2. CASE OpenCursor
  BY <1>2 DEF OpenCursor, PrepareBound
<1>3. CASE CloseCursor
  BY <1>3 DEF CloseCursor, Loop!Next
<1>4. CASE ForgetCursor
  BY <1>4 DEF ForgetCursor, Drop
<1>5. CASE CloseConnection
  BY <1>5 DEF CloseConnection, CloseContext, stmtVars
<1>6. ASSUME NEW i \in Iterators, MakeIterator(i) \/ Continue(i) \/ Release(i) \/ Collect(i)
      PROVE  Loop!Next
  BY <1>6 DEF MakeIterator, Continue, Release, Collect, Loop!Next
<1>7. ASSUME NEW s \in Handles \ {Opened}, Other(s)
      PROVE  UNCHANGED Loop!vars
  BY <1>7, OthersLeaveIt DEF Other
<1> QED
  BY <1>1, <1>2, <1>3, <1>4, <1>5, <1>6, <1>7 DEF ReadNext

(* The composition implements Cursors.                                        *)
LEMMA ReadingImplementsCursors == ReadSpec => Loop!Spec
<1>1. Inductive /\ [ReadNext]_readVars => [Loop!Next]_(Loop!vars)
  BY LoopSide
<1> QED
  BY <1>1, ReadingImplementsStatements, StatementsInductive, PTL
     DEF ReadSpec, ReadInit, Loop!Spec

(* The two instances of Cursors are one.                                      *)
LEMMA SameLoop == Loop!Spec => LoopProofs!Spec
<1>1. Loop!Init => LoopProofs!Init
  BY DEF Loop!Init, LoopProofs!Init
<1>2. [Loop!Next]_(Loop!vars) => [LoopProofs!Next]_(LoopProofs!vars)
  BY DEF Loop!Next, LoopProofs!Next, Loop!Advance, LoopProofs!Advance,
         Loop!MakeIterator, LoopProofs!MakeIterator, Loop!NextRow,
         LoopProofs!NextRow, Loop!NextNil, LoopProofs!NextNil,
         Loop!NextFails, LoopProofs!NextFails, Loop!HasNextTrue,
         LoopProofs!HasNextTrue, Loop!HasNextFalse,
         LoopProofs!HasNextFalse, Loop!HasNextFails,
         LoopProofs!HasNextFails, Loop!NextElement, LoopProofs!NextElement,
         Loop!Drop, LoopProofs!Drop, Loop!Collect, LoopProofs!Collect, Loop!CloseCursor,
         LoopProofs!CloseCursor, Loop!Close, LoopProofs!Close, Loop!Asking,
         LoopProofs!Asking, Loop!StepRow, LoopProofs!StepRow,
         Loop!StepDone, LoopProofs!StepDone, Loop!StepThrows,
         LoopProofs!StepThrows, Loop!FetchThrows, LoopProofs!FetchThrows,
         Loop!Failure, LoopProofs!Failure, Loop!iterVars,
         LoopProofs!iterVars, Loop!vars, LoopProofs!vars
<1> QED BY <1>1, <1>2, PTL DEF Loop!Spec, LoopProofs!Spec

(* Whatever else is done on the connection, its cursor implements RowStream.  *)
THEOREM ReadingImplementsRowStream == ReadSpec => StreamSpec
<1>1. LoopProofs!Spec => LoopProofs!StreamSpec
  BY LoopProofs!CursorsImplementRowStream, LoopConstants
     DEF Loop!ConstantsOK, LoopProofs!ConstantsOK
<1>2. LoopProofs!StreamSpec => Loop!StreamSpec
  <2>1. LoopProofs!Stream!Init => Loop!Stream!Init
    BY DEF LoopProofs!Stream!Init, Loop!Stream!Init
  <2>2. [LoopProofs!Stream!Next]_(LoopProofs!Stream!vars)
          => [Loop!Stream!Next]_(Loop!Stream!vars)
    BY DEF Loop!Stream!Next, LoopProofs!Stream!Next, Loop!Stream!Start,
           LoopProofs!Stream!Start, Loop!Stream!Reached, LoopProofs!Stream!Reached,
           Loop!Stream!Left, LoopProofs!Stream!Left, Loop!Stream!Deliver,
           LoopProofs!Stream!Deliver, Loop!Stream!Fail,
           LoopProofs!Stream!Fail, Loop!Stream!Complete,
           LoopProofs!Stream!Complete, Loop!Stream!vars,
           LoopProofs!Stream!vars, Loop!Failure, LoopProofs!Failure
  <2> QED
    BY <2>1, <2>2, PTL DEF LoopProofs!StreamSpec, LoopProofs!Stream!Spec,
                           Loop!StreamSpec, Loop!Stream!Spec
<1> QED
  BY <1>1, <1>2, SameLoop, ReadingImplementsCursors, PTL DEF StreamSpec

(* What the proofs about Cursors show of the loops of a connection.           *)
LEMMA LoopsInductive == ReadSpec => []LoopProofs!Inductive
<1>1. LoopProofs!Spec => []LoopProofs!Inductive
  BY LoopProofs!CursorsInductive, LoopConstants
     DEF Loop!ConstantsOK, LoopProofs!ConstantsOK
<1> QED
  BY <1>1, SameLoop, ReadingImplementsCursors, PTL

(* The statements, the connection and the iterators keep their types.         *)
THEOREM ReadingTypes == ReadSpec => []ReadTypeOK
<1>1. Inductive /\ LoopProofs!Inductive => ReadTypeOK
  BY DEF Inductive, LoopProofs!Inductive, LoopProofs!TypeOK, Loop!TypeOK, ReadTypeOK
<1> QED
  BY <1>1, LoopsInductive, ReadingImplementsStatements, StatementsInductive, PTL

(* SQLite has the statement of the cursor in the middle of its rows exactly   *)
(* when the loops have moved it and it is not closed.                         *)
InMiddle == Opened \in active <=> position > 0 /\ ~closed[Opened]

LEMMA InMiddleStep ==
    ASSUME Inductive, Inductive', Loop!TypeOK, InMiddle, [ReadNext]_readVars
    PROVE  InMiddle'
<1>0. /\ Opened \in active => native[Opened] = "live" /\ ~closed[Opened]
      /\ (Opened \in active => ~closed[Opened])'
  BY OpenedIsAStatement DEF Inductive, TypeOK, HandlesOK
<1> USE DEF InMiddle
<1>1. CASE UNCHANGED readVars
  BY <1>1 DEF readVars, vars, stmtVars, loopVars
<1>2. CASE OpenCursor
  BY <1>2 DEF OpenCursor, PrepareBound, loopVars
<1>3. CASE ForgetCursor
  BY <1>3 DEF ForgetCursor, Drop, loopVars
<1>4. CASE CloseConnection
  BY <1>4 DEF CloseConnection, CloseContext, stmtVars, loopVars
<1>5. CASE CloseCursor
  <2>1. closed'[Opened]
    BY <1>5 DEF CloseCursor, Loop!CloseCursor, Loop!Close
  <2> QED BY <1>0, <2>1
<1>6. ASSUME NEW i \in Iterators, MakeIterator(i)
      PROVE  InMiddle'
  BY <1>6 DEF MakeIterator, Loop!MakeIterator, vars, stmtVars
<1>7. ASSUME NEW i \in Iterators, Continue(i)
      PROVE  InMiddle'
  BY <1>0, <1>7 DEF Continue
<1>8. ASSUME NEW i \in Iterators, Release(i) \/ Collect(i)
      PROVE  InMiddle'
  <2>1. UNCHANGED position
    BY <1>8 DEF Release, Collect, Loop!Drop, Loop!Collect
  <2>2. closed'[Opened] \/ UNCHANGED <<active, closed>>
    BY <1>8, OpenedIsAStatement
       DEF Release, Collect, CloseStatement, Finalize, vars, stmtVars, Inductive, TypeOK
  <2> QED BY <1>0, <2>1, <2>2
<1>9. ASSUME NEW s \in Handles \ {Opened}, Other(s)
      PROVE  InMiddle'
  <2>1. active' \in {active, active \cup {s}, active \ {s}} /\ UNCHANGED position
    BY <1>9 DEF Other, Prepare, Advance, AdvanceAndClose, Reset, CloseStatement, Drop,
       PrepareBound, ExecPrepare, ExecClose, UpdateBind, UpdateStep, UpdateReset,
       Bind, Step, Finalize, loopVars
  <2> QED BY <1>9, <2>1, OthersLeaveIt
<1> QED
  BY <1>1, <1>2, <1>3, <1>4, <1>5, <1>6, <1>7, <1>8, <1>9 DEF ReadNext

(* Whatever else is done on the connection, the statement of a cursor is in   *)
(* the middle of its rows only under a loop that goes on, or, on Android, one *)
(* that was left early and whose iterator was not collected.                  *)
THEOREM ReadersReleased == ReadSpec => []ReaderReleased
<1>1. LoopProofs!Inductive => Loop!TypeOK
  BY DEF LoopProofs!Inductive, LoopProofs!TypeOK, Loop!TypeOK
<1>2. ReadInit => InMiddle
  BY DEF ReadInit, Init, Loop!Init, InMiddle
<1>3. Inductive /\ Inductive' /\ LoopProofs!Inductive /\ InMiddle /\ [ReadNext]_readVars
        => InMiddle'
  BY <1>1, InMiddleStep
<1>4. InMiddle /\ LoopProofs!Inductive => ReaderReleased
  BY DEF InMiddle, LoopProofs!Inductive, LoopProofs!OneReader, LoopProofs!LeftAt,
         ReaderReleased
<1> QED
  BY <1>2, <1>3, <1>4, LoopsInductive, ReadingImplementsStatements, StatementsInductive,
     PTL DEF ReadSpec

(* On Android a loop that has ended leaves the statement closed, before its   *)
(* iterator goes.                                                             *)
THEOREM EndsRelease == ReadSpec => []EndReleases
<1>1. LoopProofs!Inductive => EndReleases
  BY DEF LoopProofs!Inductive, LoopProofs!EndReleases, EndReleases, Loop!EndReleases
<1> QED
  BY <1>1, LoopsInductive, PTL

(* Whatever else is done on the connection, closing it under the loop         *)
(* included, a loop that ended without a failure has had every row; on Android*)
(* that is so unless a hasNext() has caught an error.                         *)
THEOREM LoopsCompleteTogether == ReadSpec => []LoopProofs!CompleteUnlessCaught
<1>1. LoopProofs!Spec => []LoopProofs!CompleteUnlessCaught
  BY LoopProofs!LoopsComplete, LoopConstants
     DEF Loop!ConstantsOK, LoopProofs!ConstantsOK
<1> QED
  BY <1>1, SameLoop, ReadingImplementsCursors, PTL

(* Whatever else is done on the connection, it takes no loop back: a loop asks *)
(* next() and hasNext() at most two times for each row and two times more.     *)
THEOREM LoopsGoForwardTogether == ReadSpec => LoopProofs!LoopsAreShort
<1>1. LoopProofs!Spec => LoopProofs!LoopsAreShort
  BY LoopProofs!LoopsOnlyGoForward, LoopConstants
     DEF Loop!ConstantsOK, LoopProofs!ConstantsOK
<1> QED
  BY <1>1, SameLoop, ReadingImplementsCursors, PTL

(* No loop is handed a row after the connection was closed, but the one that  *)
(* its hasNext() had fetched before.                                          *)
THEOREM RowsEndWithConnection == ReadSpec => NoRowAfterClose
<1> DEFINE Fine == \A i \in Iterators :
          contextClosed /\ out'[i] # out[i]
             => asked[i] \/ out'[i][Len(out'[i])] = Loop!Failure
<1>1. ASSUME Inductive, Loop!TypeOK, [ReadNext]_readVars PROVE Fine
  <2> SUFFICES ASSUME contextClosed PROVE Fine
    OBVIOUS
  <2>1. Opened \in held => closed[Opened]
    BY <1>1, OpenedIsAStatement
       DEF Inductive, TypeOK, HandlesOK, ConnectionOutlives
  <2>2. ASSUME NEW i \in Iterators, Continue(i)
        PROVE  Fine
    <3>1. Loop!Advance(i) /\ closed[Opened]
      BY <2>1, <2>2 DEF Continue, HasCursor
    <3>2. ASSUME Loop!NextRow(i) \/ Loop!HasNextTrue(i) PROVE FALSE
      BY <3>1, <3>2 DEF Loop!NextRow, Loop!HasNextTrue, Loop!StepRow
    <3>3. CASE Loop!NextFails(i)
      <4>1. out' = [out EXCEPT ![i] = Append(out[i], Loop!Failure)]
        BY <3>3 DEF Loop!NextFails
      <4>2. out[i] \in Seq(0 .. RowCount)
        BY <1>1 DEF Loop!TypeOK
      <4> QED BY <1>1, <4>1, <4>2 DEF Loop!TypeOK
    <3>4. CASE Loop!NextElement(i)
      BY <1>1, <3>4 DEF Loop!NextElement, Loop!TypeOK
    <3>5. CASE Loop!NextNil(i) \/ Loop!HasNextFalse(i) \/ Loop!HasNextFails(i)
      BY <3>5 DEF Loop!NextNil, Loop!HasNextFalse, Loop!HasNextFails
    <3> QED BY <3>1, <3>2, <3>3, <3>4, <3>5 DEF Loop!Advance
  <2>3. ASSUME ~\E i \in Iterators : Continue(i)
        PROVE  UNCHANGED out
    BY <1>1, <2>3 DEF ReadNext, readVars, loopVars, OpenCursor, ForgetCursor,
       CloseCursor, CloseConnection, Other, MakeIterator, Release, Collect,
       Loop!MakeIterator, Loop!Drop, Loop!Collect, Loop!CloseCursor, Loop!iterVars
  <2> QED BY <2>2, <2>3
<1>2. LoopProofs!Inductive => Loop!TypeOK
  BY DEF LoopProofs!Inductive, LoopProofs!TypeOK, Loop!TypeOK
<1> QED
  BY <1>1, <1>2, LoopsInductive, StatementsInductive, ReadingImplementsStatements, PTL
     DEF ReadSpec, NoRowAfterClose
=============================================================================
