----------------------------- MODULE Statements -----------------------------
(***************************************************************************)
(* SQLStatement and the calls of SQLContext that make statements: prepare,   *)
(* prepare(expr:), cursor, exec and close.                                   *)
(*                                                                           *)
(* SQLite keeps a native statement until it is finalized, and refuses to     *)
(* close a connection that has one.  SQLStatement finalizes it in close()    *)
(* and nowhere else (its deinit does nothing), so a statement that nobody    *)
(* can reach any more keeps its connection open for good.  Threads may use   *)
(* different statements of one connection, each statement one thread at a    *)
(* time.  A call on a statement is one step, with every way it can fail; an  *)
(* update is three, its bind, its step and its reset, and exec is five.      *)
(***************************************************************************)
EXTENDS Naturals, FiniteSets

CONSTANTS
    Handles,        \* the statements that may be made, one sqlite3_stmt each
    ParameterCount, \* how many ? the SQL has
    MaxGiven,       \* bound: the longest array of parameters a caller passes
    HelperArrays,   \* the lengths callers pass to prepare(expr:) and cursor
    RefusedIn       \* whose values SQLite may refuse (too big, out of memory):
                    \* those of "helper" (prepare(expr:), cursor), of "client"

ASSUME CountsAreNatural == ParameterCount \in Nat /\ MaxGiven \in Nat
ASSUME ArraysAreGiven == HelperArrays \subseteq 0 .. MaxGiven
ASSUME KnownCallers == RefusedIn \subseteq {"helper", "client"}

VARIABLES
    native,         \* the sqlite3_stmt: "none", "live" or "finalized"
    closed,         \* SQLStatement.closed
    active,         \* the statements that have been stepped to a row
    bound,          \* the parameters that are not NULL, and who bound them
    held,           \* the statements a client can reach
    execing,        \* the statements of exec() calls, with how far they are
    updating,       \* the statements in an update, with what comes next
    contextClosed,  \* SQLContext.closed
    misused         \* a sqlite3_* call was given a finalized statement

stmtVars == <<native, closed, active, bound, held, execing, updating>>
vars == <<stmtVars, contextClosed, misused>>

Parameters == 1 .. ParameterCount
Unbound == [i \in Parameters |-> "null"]

Init ==
    /\ native = [s \in Handles |-> "none"]
    /\ closed = [s \in Handles |-> FALSE]
    /\ active = {}
    /\ bound = [s \in Handles |-> Unbound]
    /\ held = {}
    /\ execing = [s \in Handles |-> "no"]
    /\ updating = [s \in Handles |-> "no"]
    /\ contextClosed = FALSE
    /\ misused = FALSE

-----------------------------------------------------------------------------
(* A sqlite3_* call on s.                                                     *)
Touch(s) == misused' = (misused \/ native[s] = "finalized")

(* The first n parameters are bound one after the other; b is how far a       *)
(* failing bind gets.  A statement in the middle of its rows is refused, and  *)
(* so is an index beyond the last ?.                                          *)
BindsOk(s, n) == n = 0 \/ (n <= ParameterCount /\ s \notin active)
BindsFail(s, n, b, caller) ==
    /\ b < n
    /\ \/ s \in active /\ b = 0
       \/ s \notin active /\ b = ParameterCount
       \/ s \notin active /\ b < ParameterCount /\ caller \in RefusedIn
(* Mutant: bind(parameters:) that forgets the "at: i + 1".                    *)
AfterShifted(s, n, who) ==
    [i \in 0 .. ParameterCount |-> IF i < n \/ i = 0 THEN who ELSE bound[s][i]]

After(s, n, who) == [i \in Parameters |-> IF i <= n THEN who ELSE bound[s][i]]

(* Mutant: a finalize that forgets to set closed.                             *)
FinalizeUnmarked(s) ==
    /\ native' = [native EXCEPT ![s] = "finalized"]
    /\ active' = active \ {s}
    /\ bound' = [bound EXCEPT ![s] = Unbound]
    /\ UNCHANGED closed

(* close(): reset, then finalize; after a reset finalize has no error left    *)
(* to report, and closed is set.                                              *)
Finalize(s) ==
    /\ native' = [native EXCEPT ![s] = "finalized"]
    /\ closed' = [closed EXCEPT ![s] = TRUE]
    /\ active' = active \ {s}
    /\ bound' = [bound EXCEPT ![s] = Unbound]

-----------------------------------------------------------------------------
(* prepare(sql:): checkClosed, then sqlite3_prepare_v2.                       *)
Prepare(s) ==
    /\ ~contextClosed /\ native[s] = "none"
    /\ native' = [native EXCEPT ![s] = "live"]
    /\ held' = held \cup {s}
    /\ UNCHANGED <<closed, active, bound, execing, updating, contextClosed, misused>>

(* prepare(expr:) and cursor: prepare, then bind(parameters:).  When the bind *)
(* throws the statement just made is dropped without a close.                 *)
PrepareBound(s, n) ==
    /\ ~contextClosed /\ native[s] = "none"
    /\ native' = [native EXCEPT ![s] = "live"]
    /\ \/ /\ BindsOk(s, n)
          /\ bound' = [bound EXCEPT ![s] = After(s, n, "bind")]
          /\ held' = held \cup {s}
       \/ \E b \in 0 .. MaxGiven :
            /\ BindsFail(s, n, b, "helper")
            /\ bound' = [bound EXCEPT ![s] = After(s, b, "bind")]
            /\ UNCHANGED held
    /\ UNCHANGED <<closed, active, execing, updating, contextClosed, misused>>

(* exec: prepare(sql:); the statement is known to this call only.             *)
ExecPrepare(s) ==
    /\ ~contextClosed /\ native[s] = "none"
    /\ native' = [native EXCEPT ![s] = "live"]
    /\ execing' = [execing EXCEPT ![s] = "update"]
    /\ UNCHANGED <<closed, active, bound, held, updating, contextClosed, misused>>

(* close(); then the error of the update is thrown, if there was one.         *)
ExecClose(s) ==
    /\ execing[s] = "close"
    /\ Touch(s)
    /\ Finalize(s)
    /\ execing' = [execing EXCEPT ![s] = "no"]
    /\ UNCHANGED <<held, updating, contextClosed>>

(* A call of the client that has the statement, and no other call under way.  *)
Calling(s) == s \in held /\ ~closed[s] /\ updating[s] = "no"

(* bind(value, at:) on a statement the client has not closed; a bind that     *)
(* fails changes nothing.                                                     *)
Bind(s, i) ==
    /\ Calling(s)
    /\ Touch(s)
    /\ \/ s \notin active /\ bound' = [bound EXCEPT ![s][i] = "bind"]
       \/ (s \in active \/ "client" \in RefusedIn) /\ UNCHANGED bound
    /\ UNCHANGED <<native, closed, active, held, execing, updating, contextClosed>>

(* update(parameters:), of a client or of exec: checkClosed.                  *)
MayUpdate(s) == Calling(s) \/ (execing[s] = "update" /\ updating[s] = "no")

(* Mutant: an update that resets only when nothing was thrown.                *)
UpdateBindEscapes(s, n) ==
    /\ MayUpdate(s)
    /\ Touch(s)
    /\ \/ /\ BindsOk(s, n)
          /\ bound' = [bound EXCEPT ![s] = After(s, n, "call")]
          /\ updating' = [updating EXCEPT ![s] = "step"]
       \/ \E b \in 0 .. MaxGiven :
            /\ BindsFail(s, n, b, "client")
            /\ bound' = [bound EXCEPT ![s] = After(s, b, "call")]
            /\ UNCHANGED updating
    /\ UNCHANGED <<native, closed, active, held, execing, contextClosed>>

(* It binds; when that throws, the values before the refused one are bound,   *)
(* and the deferred reset comes next.                                         *)
UpdateBind(s, n) ==
    /\ MayUpdate(s)
    /\ Touch(s)
    /\ \/ /\ BindsOk(s, n)
          /\ bound' = [bound EXCEPT ![s] = After(s, n, "call")]
          /\ updating' = [updating EXCEPT ![s] = "step"]
       \/ \E b \in 0 .. MaxGiven :
            /\ BindsFail(s, n, b, "client")
            /\ bound' = [bound EXCEPT ![s] = After(s, b, "call")]
            /\ updating' = [updating EXCEPT ![s] = "reset"]
    /\ UNCHANGED <<native, closed, active, held, execing, contextClosed>>

(* next(): a row, the end, or an error; the last two end the execution and    *)
(* leave the bindings.                                                        *)
Step(s) ==
    \/ active' = active \cup {s}
    \/ active' = active \ {s}

(* It steps; done, a row and an error are all followed by the reset.          *)
UpdateStep(s) ==
    /\ updating[s] = "step"
    /\ Touch(s)
    /\ Step(s)
    /\ updating' = [updating EXCEPT ![s] = "reset"]
    /\ UNCHANGED <<native, closed, bound, held, execing, contextClosed>>

(* Mutant: an exec that lets the error of its update out at once.             *)
ExecEscapes(s) ==
    \/ execing[s] = "update" /\ execing' = [execing EXCEPT ![s] = "close"]
    \/ execing[s] = "update" /\ execing' = [execing EXCEPT ![s] = "no"]
    \/ execing[s] # "update" /\ UNCHANGED execing

(* exec keeps the error of its update until it has closed the statement.      *)
ExecCatches(s) ==
    \/ execing[s] = "update" /\ execing' = [execing EXCEPT ![s] = "close"]
    \/ execing[s] # "update" /\ UNCHANGED execing

(* The deferred reset(): the execution is over and no parameter is bound.     *)
UpdateReset(s) ==
    /\ updating[s] = "reset"
    /\ Touch(s)
    /\ active' = active \ {s}
    /\ bound' = [bound EXCEPT ![s] = Unbound]
    /\ updating' = [updating EXCEPT ![s] = "no"]
    /\ ExecCatches(s)
    /\ UNCHANGED <<native, closed, held, contextClosed>>

(* next(), of a client.                                                       *)
Advance(s) ==
    /\ Calling(s)
    /\ Touch(s)
    /\ Step(s)
    /\ UNCHANGED <<native, closed, bound, held, execing, updating, contextClosed>>

(* nextValues(close: true): the statement is closed only after a row.         *)
AdvanceAndClose(s) ==
    /\ Calling(s)
    /\ Touch(s)
    /\ \/ /\ Finalize(s)
          /\ UNCHANGED held
       \/ /\ active' = active \ {s}
          /\ UNCHANGED <<native, closed, bound, held>>
    /\ UNCHANGED <<execing, updating, contextClosed>>

(* reset().                                                                   *)
Reset(s) ==
    /\ Calling(s)
    /\ Touch(s)
    /\ active' = active \ {s}
    /\ bound' = [bound EXCEPT ![s] = Unbound]
    /\ UNCHANGED <<native, closed, held, execing, updating, contextClosed>>

(* Mutant: a close that leaves a statement in the middle of its rows alone.   *)
CloseStatementIdle(s) ==
    /\ s \in held /\ updating[s] = "no"
    /\ \/ /\ ~closed[s] /\ s \notin active
          /\ Touch(s)
          /\ Finalize(s)
       \/ (closed[s] \/ s \in active)
          /\ UNCHANGED <<native, closed, active, bound, misused>>
    /\ UNCHANGED <<held, execing, updating, contextClosed>>

(* close(): nothing when closed; a RowCursor, its iterators and the client    *)
(* may all call it.                                                           *)
CloseStatement(s) ==
    /\ s \in held /\ updating[s] = "no"
    /\ \/ /\ ~closed[s]
          /\ Touch(s)
          /\ Finalize(s)
       \/ closed[s] /\ UNCHANGED <<native, closed, active, bound, misused>>
    /\ UNCHANGED <<held, execing, updating, contextClosed>>

(* The client lets go of a statement it has closed.                           *)
Drop(s) ==
    /\ s \in held /\ closed[s]
    /\ held' = held \ {s}
    /\ UNCHANGED <<native, closed, active, bound, execing, updating, contextClosed, misused>>

(* Mutant: a close that does not look for statements (sqlite3_close_v2).      *)
CloseContextAnyway ==
    /\ ~contextClosed
    /\ contextClosed' = TRUE
    /\ UNCHANGED <<stmtVars, misused>>

(* SQLContext.close: SQLITE_BUSY, and no change, while any statement lives.   *)
CloseContext ==
    /\ ~contextClosed
    /\ \A s \in Handles : native[s] # "live"
    /\ contextClosed' = TRUE
    /\ UNCHANGED <<stmtVars, misused>>

Next ==
    \/ \E s \in Handles :
         \/ Prepare(s) \/ Advance(s) \/ AdvanceAndClose(s) \/ Reset(s)
         \/ CloseStatement(s) \/ Drop(s)
         \/ \E n \in HelperArrays : PrepareBound(s, n)
         \/ ExecPrepare(s) \/ ExecClose(s)
         \/ \E n \in 0 .. MaxGiven : UpdateBind(s, n)
         \/ UpdateStep(s) \/ UpdateReset(s)
         \/ \E i \in Parameters : Bind(s, i)
    \/ CloseContext

Spec == Init /\ [][Next]_vars

-----------------------------------------------------------------------------
(* The types of the statements and the connection.                            *)
TypeOK ==
    /\ native \in [Handles -> {"none", "live", "finalized"}]
    /\ closed \in [Handles -> BOOLEAN]
    /\ active \subseteq Handles
    /\ bound \in [Handles -> [Parameters -> {"null", "bind", "call"}]]
    /\ held \subseteq Handles
    /\ execing \in [Handles -> {"no", "update", "close"}]
    /\ updating \in [Handles -> {"no", "step", "reset"}]
    /\ contextClosed \in BOOLEAN
    /\ misused \in BOOLEAN

(* A native statement that nobody can finalize any more.                      *)
Leaked(s) == native[s] = "live" /\ s \notin held /\ execing[s] = "no"

(* Every native statement can still be finalized by somebody: a client that   *)
(* holds it or the exec that made it.                                         *)
NoLeak == \A s \in Handles : ~Leaked(s)

(* A statement leaks in the step that makes it, when a bind of prepare(expr:) *)
(* or cursor is refused, or never.                                            *)
LeaksWhenMade ==
    [][\A s \in Handles :
          ~Leaked(s) /\ Leaked(s)' =>
             /\ native[s] = "none"
             /\ \E n \in HelperArrays : \E b \in 0 .. MaxGiven : BindsFail(s, n, b, "helper")]_vars

(* Whatever is called after that, the connection is never closed again.       *)
LeaksForGood ==
    [][\A s \in Handles : Leaked(s) => Leaked(s)' /\ ~contextClosed']_vars

(* However close is repeated, by cursors, iterators and clients, SQLite is    *)
(* never handed a statement that has been finalized.                          *)
NeverAfterFinalize == ~misused

(* What an update has bound is bound until that update returns, and never in  *)
(* a later execution of the statement, also when the update was refused half  *)
(* way through its values or its step has failed.                             *)
NoStaleBindings ==
    \A s \in Handles :
        (\E i \in Parameters : bound[s][i] = "call") => updating[s] # "no"

(* No statement outlives its connection, so none is in use when exec and      *)
(* close of different threads meet.                                           *)
ConnectionOutlives ==
    contextClosed => \A s \in Handles : native[s] # "live" /\ execing[s] = "no"

(* The connection can be closed in the end.                                   *)
ContextCloses == <>contextClosed

-----------------------------------------------------------------------------
(* Who has what.  A handle is one call's own until it is closed; what is      *)
(* being executed or stepped is there.                                        *)
HandlesOK ==
    \A s \in Handles :
        /\ closed[s] <=> native[s] = "finalized"
        /\ s \in held => native[s] # "none"
        /\ execing[s] # "no" => native[s] = "live" /\ s \notin held
        /\ s \in active => native[s] = "live"
        /\ updating[s] # "no" =>
              native[s] = "live" /\ (s \in held \/ execing[s] = "update")

(* The inductive invariant behind the safety properties.                      *)
Inductive ==
    /\ TypeOK
    /\ HandlesOK
    /\ NeverAfterFinalize
    /\ NoStaleBindings
    /\ ConnectionOutlives
=============================================================================
