----------------------------- MODULE Transaction -----------------------------
(***************************************************************************)
(* SQLContext.transaction / perform / exec / mutex / close / interrupt over  *)
(* one connection that several threads may share.                            *)
(*                                                                           *)
(* The unit of interleaving is one exec(): the SQLite calls it makes act on  *)
(* the connection once, in sqlite3_step.  Between two execs of a block any   *)
(* other thread may run.  What SQLite does to the transaction when a         *)
(* statement fails (nothing, or an automatic rollback of everything) is      *)
(* taken from sqlite3VdbeHalt, OP_AutoCommit and sqlite3Step.                *)
(*                                                                           *)
(* A write is an identifier used by one exec only, so that where it ended    *)
(* up (durable, pending, nowhere) can be compared with what its caller was   *)
(* told.                                                                     *)
(***************************************************************************)
EXTENDS Naturals, FiniteSets

CONSTANTS
    Threads,        \* the threads that share the SQLContext
    Writes,         \* the writing statements they may execute, once each
    None,           \* no thread, no error
    MaxDepth,       \* bound: how deep transaction() calls nest
    FullMutex,      \* TRUE: the connection has a mutex (OpenFlags.fullMutex)
    RequireMutex,   \* TRUE: clients call transaction() only inside mutex()
    Faults,         \* the failures SQLite may report: a subset of SQLiteFaults
    Interruptible,  \* TRUE: interrupt() may be called while a cursor is open
    Swallow,        \* the errors a block may catch and go on after
    Modes           \* the TransactionModes callers ask for

(* statement:  the failing statement had no effect and the transaction is     *)
(*             intact (constraint, SQLITE_BUSY, a deferred foreign key)       *)
(* rolledBack: SQLite rolled the whole transaction back (SQLITE_FULL, IOERR,  *)
(*             NOMEM, or SQLITE_INTERRUPT while a write was being stepped)    *)
(* interrupt:  an sqlite3_interrupt() arrived: while the statement was being   *)
(*             stepped (a fault), or earlier and is still pending (Refusals)  *)
SQLiteFaults == {"statement", "rolledBack", "interrupt"}

(* The errors a caller can see: the faults, an error of the block itself, and *)
(* the errors of calls made in the wrong state.                               *)
Errors == SQLiteFaults \cup {"app", "nested", "inactive", "closed"}

ASSUME NoneIsNew == None \notin Threads /\ None \notin Errors
ASSUME DepthIsPositive == MaxDepth \in Nat \ {0}
ASSUME FlagsAreBoolean == {FullMutex, RequireMutex, Interruptible} \subseteq BOOLEAN
ASSUME KnownModes == Modes \subseteq {"deferred", "immediate", "exclusive"}
ASSUME KnownErrors == Faults \subseteq SQLiteFaults /\ Swallow \subseteq Errors

VARIABLES
    \* the connection (external: SQLite)
    autoCommit,     \* db->autoCommit: no transaction is open
    pending,        \* the writes of the open transaction
    durable,        \* the committed writes
    cursor,         \* a statement is active: a RowCursor has been stepped
    interrupted,    \* db->u1.isInterrupted, while a statement is active
    closed,         \* SQLContext.closed
    \* the threads, each in a stack of perform() calls
    inMutex,        \* the thread is inside mutex { }
    depth,          \* how many perform() calls it is in, past their BEGIN
    unwinding,      \* the innermost one is in its catch, before ROLLBACK
    err,            \* the error the thread has in hand, or None
    \* history, read by no guard
    opener,         \* the thread whose BEGIN opened the open transaction
    tried,          \* the writes executed so far
    wrote,          \* the writes each open block was told had succeeded
    promised,       \* the writes reported as committed
    refused         \* the writes of blocks that threw

connVars   == <<autoCommit, pending, durable, opener>>
flagVars   == <<cursor, interrupted, closed>>
threadVars == <<inMutex, depth, unwinding, err>>
reportVars == <<tried, wrote, promised, refused>>
vars == <<connVars, flagVars, threadVars, reportVars>>

Depths == 1 .. MaxDepth

Init ==
    /\ autoCommit = TRUE
    /\ pending = {} /\ durable = {}
    /\ cursor = FALSE /\ interrupted = FALSE /\ closed = FALSE
    /\ inMutex = [t \in Threads |-> FALSE]
    /\ depth = [t \in Threads |-> 0]
    /\ unwinding = [t \in Threads |-> FALSE]
    /\ err = [t \in Threads |-> None]
    /\ opener = None
    /\ tried = {} /\ promised = {} /\ refused = {}
    /\ wrote = [t \in Threads |-> [d \in Depths |-> {}]]

-----------------------------------------------------------------------------
(* Mutant: a connection whose calls do not wait for the mutex.                *)
MayUseAlways(t) == t \in Threads

(* Every sqlite3_* call enters db->mutex, which another thread may hold       *)
(* through mutex { }; without fullMutex db->mutex is NULL and entering it     *)
(* does nothing.                                                              *)
MayUse(t) == FullMutex => \A u \in Threads \ {t} : ~inMutex[u]

(* The thread is in client code: at top level or in the block of a perform.   *)
Calling(t) == ~unwinding[t] /\ err[t] = None

(* What can make a statement fail: checkClosed, the interrupt flag (an active  *)
(* statement keeps it from being cleared), or a fault while it runs.          *)
Refusals ==
    IF closed THEN {"closed"} ELSE IF interrupted THEN {"interrupt"} ELSE {}
Causes == IF Refusals # {} THEN Refusals ELSE Faults

(* SQLite ends the open transaction and keeps none of its writes.             *)
DropTransaction ==
    /\ autoCommit' = TRUE
    /\ pending' = {}
    /\ opener' = None
    /\ UNCHANGED durable

(* exec() throws because of c.  While an interrupt is pending (Refusals) it is *)
(* sqlite3_prepare that fails: no opcode runs and the transaction is intact.   *)
(* An interrupt that arrives while a statement that is not read-only is being  *)
(* stepped takes the transaction with it, as the other special errors do.  Its *)
(* flag outlives it only while another statement is active.                    *)
ExecThrows(t, c, readOnly) ==
    LET stepped == Refusals = {}
        e == IF c = "interrupt" /\ stepped /\ ~readOnly THEN "rolledBack" ELSE c
    IN  /\ err' = [err EXCEPT ![t] = e]
        /\ IF e = "rolledBack" THEN DropTransaction ELSE UNCHANGED connVars
        /\ interrupted' = (interrupted \/ (c = "interrupt" /\ cursor))
        /\ UNCHANGED <<cursor, closed>>

-----------------------------------------------------------------------------
(* Mutant: a mutex() that does not enter the lock.                            *)
MutexEnterFree(t) ==
    /\ Calling(t) /\ depth[t] = 0 /\ ~inMutex[t]
    /\ inMutex' = [inMutex EXCEPT ![t] = TRUE]
    /\ UNCHANGED <<connVars, flagVars, depth, unwinding, err, reportVars>>

(* mutex(): the enter blocks while another thread is inside a real mutex.     *)
MutexEnter(t) ==
    /\ Calling(t) /\ depth[t] = 0 /\ ~inMutex[t]
    /\ MayUse(t)
    /\ inMutex' = [inMutex EXCEPT ![t] = TRUE]
    /\ UNCHANGED <<connVars, flagVars, depth, unwinding, err, reportVars>>

(* mutex(): the defer leaves it however the block ended.                      *)
MutexLeave(t) ==
    /\ Calling(t) /\ depth[t] = 0 /\ inMutex[t]
    /\ inMutex' = [inMutex EXCEPT ![t] = FALSE]
    /\ UNCHANGED <<connVars, flagVars, depth, unwinding, err, reportVars>>

(* Mutant: a transaction() that joins the one already open.                   *)
BeginJoins(t) ==
    /\ Refusals = {}
    /\ autoCommit' = FALSE
    /\ opener' = t
    /\ depth' = [depth EXCEPT ![t] = @ + 1]
    /\ wrote' = [wrote EXCEPT ![t][depth[t] + 1] = {}]
    /\ UNCHANGED <<pending, durable, flagVars, inMutex, unwinding, err,
                   tried, promised, refused>>

(* perform(): exec(sql: begin) succeeds and the block starts.                 *)
BeginOk(t) ==
    /\ Refusals = {} /\ autoCommit
    /\ autoCommit' = FALSE
    /\ opener' = t
    /\ depth' = [depth EXCEPT ![t] = @ + 1]
    /\ wrote' = [wrote EXCEPT ![t][depth[t] + 1] = {}]
    /\ UNCHANGED <<pending, durable, flagVars, inMutex, unwinding, err,
                   tried, promised, refused>>

(* BEGIN DEFERRED touches no file; the other modes take locks first.          *)
BeginCauses(mode) ==
    IF Refusals # {} THEN Refusals
    ELSE (IF mode = "deferred" THEN Faults \cap {"interrupt"} ELSE Faults)
         \cup (IF autoCommit THEN {} ELSE {"nested"})

(* Mutant: BEGIN inside the do, so that its failure is rolled back as well.   *)
BeginInsideDo(t, mode) ==
    /\ \E c \in BeginCauses(mode) : ExecThrows(t, c, mode = "deferred")
    /\ depth' = [depth EXCEPT ![t] = @ + 1]
    /\ wrote' = [wrote EXCEPT ![t][depth[t] + 1] = {}]
    /\ unwinding' = [unwinding EXCEPT ![t] = TRUE]
    /\ UNCHANGED <<inMutex, tried, promised, refused>>

(* perform(): exec(sql: begin) throws, outside the do: no ROLLBACK follows.   *)
BeginThrows(t, mode) ==
    /\ \E c \in BeginCauses(mode) : ExecThrows(t, c, mode = "deferred")
    /\ UNCHANGED <<inMutex, depth, unwinding, reportVars>>

Begin(t, mode) ==
    /\ Calling(t) /\ depth[t] < MaxDepth
    /\ RequireMutex => inMutex[t]
    /\ MayUse(t)
    /\ BeginOk(t) \/ BeginThrows(t, mode)

(* Mutant: every write is committed by itself, block or not.                  *)
WriteAutoCommits(t, w) ==
    /\ Refusals = {}
    /\ durable' = durable \cup {w}
    /\ IF depth[t] = 0
       THEN promised' = promised \cup {w} /\ UNCHANGED wrote
       ELSE /\ wrote' = [wrote EXCEPT ![t][depth[t]] = @ \cup {w}]
            /\ UNCHANGED promised
    /\ UNCHANGED <<autoCommit, pending, opener, flagVars, threadVars, refused>>

(* exec() of a write: it joins the open transaction, whoever opened it, or is *)
(* committed by itself.  At top level success means committed to its caller.  *)
WriteOk(t, w) ==
    /\ Refusals = {}
    /\ IF autoCommit
       THEN durable' = durable \cup {w} /\ UNCHANGED pending
       ELSE pending' = pending \cup {w} /\ UNCHANGED durable
    /\ IF depth[t] = 0
       THEN promised' = promised \cup {w} /\ UNCHANGED wrote
       ELSE /\ wrote' = [wrote EXCEPT ![t][depth[t]] = @ \cup {w}]
            /\ UNCHANGED promised
    /\ UNCHANGED <<autoCommit, opener, flagVars, threadVars, refused>>

(* exec() of a write throws: it had no effect, or SQLite rolled the whole     *)
(* transaction back with it.                                                  *)
WriteThrows(t) ==
    /\ \E c \in Causes : ExecThrows(t, c, FALSE)
    /\ UNCHANGED <<inMutex, depth, unwinding, wrote, promised, refused>>

Write(t, w) ==
    /\ Calling(t)
    /\ MayUse(t)
    /\ w \notin tried
    /\ tried' = tried \cup {w}
    /\ WriteOk(t, w) \/ WriteThrows(t)

(* perform(): the block returned and exec(sql: commit) succeeds.              *)
CommitOk(t) ==
    /\ Refusals = {} /\ ~autoCommit
    /\ autoCommit' = TRUE
    /\ durable' = durable \cup pending
    /\ pending' = {}
    /\ opener' = None
    /\ depth' = [depth EXCEPT ![t] = @ - 1]
    /\ IF depth[t] = 1
       THEN promised' = promised \cup wrote[t][1] /\ UNCHANGED wrote
       ELSE /\ wrote' = [wrote EXCEPT ![t][depth[t] - 1] =
                                          @ \cup wrote[t][depth[t]]]
            /\ UNCHANGED promised
    /\ UNCHANGED <<flagVars, inMutex, unwinding, err, tried, refused>>

(* perform(): exec(sql: commit) throws into the catch.  A failed COMMIT leaves *)
(* the transaction open unless writing it out failed.                         *)
CommitThrows(t) ==
    /\ \E c \in IF Refusals = {} /\ autoCommit THEN {"inactive"} ELSE Causes :
           ExecThrows(t, c, TRUE)
    /\ unwinding' = [unwinding EXCEPT ![t] = TRUE]
    /\ UNCHANGED <<inMutex, depth, reportVars>>

Commit(t) ==
    /\ Calling(t) /\ depth[t] > 0
    /\ MayUse(t)
    /\ CommitOk(t) \/ CommitThrows(t)

(* The block throws, an error of its own or the one it has in hand.           *)
Throw(t) ==
    /\ ~unwinding[t] /\ depth[t] > 0
    /\ unwinding' = [unwinding EXCEPT ![t] = TRUE]
    /\ err' = [err EXCEPT ![t] = IF @ = None THEN "app" ELSE @]
    /\ UNCHANGED <<connVars, flagVars, inMutex, depth, reportVars>>

(* Mutant: a block that catches every error and goes on.                      *)
HandleAll(t) ==
    /\ ~unwinding[t] /\ err[t] # None
    /\ err' = [err EXCEPT ![t] = None]
    /\ UNCHANGED <<connVars, flagVars, inMutex, depth, unwinding, reportVars>>

(* Client code catches the error and goes on; at top level it always may.     *)
Handle(t) ==
    /\ ~unwinding[t] /\ err[t] # None
    /\ depth[t] = 0 \/ err[t] \in Swallow
    /\ err' = [err EXCEPT ![t] = None]
    /\ UNCHANGED <<connVars, flagVars, inMutex, depth, unwinding, reportVars>>

(* Mutant: a catch that throws an error of its own.                           *)
RollbackOtherError(t) ==
    /\ Refusals = {} /\ ~autoCommit
    /\ DropTransaction
    /\ err' = [err EXCEPT ![t] = "app"]
    /\ UNCHANGED flagVars

RollbackOk(t) ==
    /\ Refusals = {} /\ ~autoCommit
    /\ DropTransaction
    /\ UNCHANGED <<flagVars, err>>

RollbackThrows(t) ==
    \E c \in IF Refusals # {} THEN Refusals
            ELSE IF autoCommit THEN {"inactive"} ELSE Faults \cap {"interrupt"} :
        ExecThrows(t, c, TRUE)

(* Mutant: an error that leaves the enclosing perform as well.                *)
RollbackLeavesTwice(t) ==
    /\ unwinding[t]
    /\ MayUse(t)
    /\ RollbackOk(t) \/ RollbackThrows(t)
    /\ unwinding' = [unwinding EXCEPT ![t] = FALSE]
    /\ depth' = [depth EXCEPT ![t] = @ - 2]
    /\ refused' = refused \cup wrote[t][depth[t]]
    /\ UNCHANGED <<inMutex, tried, wrote, promised>>

(* Mutant: a catch that only rethrows.                                        *)
RollbackMissing(t) ==
    /\ unwinding[t]
    /\ MayUse(t)
    /\ unwinding' = [unwinding EXCEPT ![t] = FALSE]
    /\ depth' = [depth EXCEPT ![t] = @ - 1]
    /\ refused' = refused \cup wrote[t][depth[t]]
    /\ UNCHANGED <<connVars, flagVars, inMutex, err, tried, wrote, promised>>

(* Mutant: a catch that repeats the ROLLBACK until it succeeds.               *)
RollbackRetries(t) ==
    /\ unwinding[t]
    /\ MayUse(t)
    /\ \/ /\ RollbackOk(t)
          /\ unwinding' = [unwinding EXCEPT ![t] = FALSE]
          /\ depth' = [depth EXCEPT ![t] = @ - 1]
          /\ refused' = refused \cup wrote[t][depth[t]]
       \/ RollbackThrows(t) /\ UNCHANGED <<unwinding, depth, refused>>
    /\ UNCHANGED <<inMutex, tried, wrote, promised>>

(* perform(): the catch executes ROLLBACK and rethrows; when the ROLLBACK     *)
(* itself throws, its error replaces the one being handled.                   *)
Rollback(t) ==
    /\ unwinding[t]
    /\ MayUse(t)
    /\ RollbackOk(t) \/ RollbackThrows(t)
    /\ unwinding' = [unwinding EXCEPT ![t] = FALSE]
    /\ depth' = [depth EXCEPT ![t] = @ - 1]
    /\ refused' = refused \cup wrote[t][depth[t]]
    /\ UNCHANGED <<inMutex, tried, wrote, promised>>

-----------------------------------------------------------------------------
(* A RowCursor is stepped to its first row and kept.                          *)
OpenCursor(t) ==
    /\ Calling(t) /\ MayUse(t)
    /\ ~closed /\ ~cursor
    /\ cursor' = TRUE
    /\ UNCHANGED <<connVars, interrupted, closed, threadVars, reportVars>>

(* It is closed, exhausted or reaches its error: no statement is active, so   *)
(* the next one to start clears the interrupt flag.                           *)
CloseCursor(t) ==
    /\ MayUse(t)
    /\ cursor
    /\ cursor' = FALSE
    /\ interrupted' = FALSE
    /\ UNCHANGED <<connVars, closed, threadVars, reportVars>>

(* interrupt(): any thread, at any time, without the mutex.                   *)
Interrupt ==
    /\ Interruptible
    /\ cursor /\ ~interrupted
    /\ interrupted' = TRUE
    /\ UNCHANGED <<connVars, cursor, closed, threadVars, reportVars>>

(* close(): SQLITE_BUSY while a statement is unfinalized; otherwise the open  *)
(* transaction, if there is one, goes with the connection.                    *)
Close(t) ==
    /\ Calling(t) /\ MayUse(t)
    /\ ~closed
    /\ IF cursor
       THEN /\ err' = [err EXCEPT ![t] = "statement"]
            /\ UNCHANGED <<connVars, closed>>
       ELSE /\ closed' = TRUE
            /\ DropTransaction
            /\ UNCHANGED err
    /\ UNCHANGED <<cursor, interrupted, inMutex, depth, unwinding, reportVars>>

-----------------------------------------------------------------------------
Step(t) ==
    \/ MutexEnter(t) \/ MutexLeave(t)
    \/ \E mode \in Modes : Begin(t, mode)
    \/ Commit(t) \/ Throw(t) \/ Handle(t) \/ Rollback(t)
    \/ \E w \in Writes : Write(t, w)
    \/ OpenCursor(t) \/ CloseCursor(t) \/ Close(t)

Next == Interrupt \/ \E t \in Threads : Step(t)

Spec == Init /\ [][Next]_vars

(* A thread that has entered the catch of perform runs on: nothing waits      *)
(* there but db->mutex, which the thread holds when it obeys RequireMutex.    *)
FairSpec == Spec /\ \A t \in Threads : WF_vars(Rollback(t))

-----------------------------------------------------------------------------
(* The types of the variables of the connection and of the threads in it.     *)
TypeOK ==
    /\ autoCommit \in BOOLEAN /\ cursor \in BOOLEAN
    /\ interrupted \in BOOLEAN /\ closed \in BOOLEAN
    /\ pending \subseteq Writes /\ durable \subseteq Writes
    /\ tried \subseteq Writes
    /\ promised \subseteq Writes /\ refused \subseteq Writes
    /\ inMutex \in [Threads -> BOOLEAN]
    /\ depth \in [Threads -> 0 .. MaxDepth]
    /\ unwinding \in [Threads -> BOOLEAN]
    /\ err \in [Threads -> Errors \cup {None}]
    /\ opener \in Threads \cup {None}
    /\ wrote \in [Threads -> [Depths -> SUBSET Writes]]

(* Whatever a caller was told is committed (a plain exec that returned, every *)
(* write of a transaction that returned) has reached the database for good.   *)
PromisedDurable == promised \subseteq durable

(* The writes of a block that threw are nowhere: neither kept nor waiting in  *)
(* a transaction somebody else may still commit.                              *)
RefusedGone == refused \cap (durable \cup pending) = {}

(* The weaker half that survives interrupts: a block that threw never becomes *)
(* durable, although its transaction may still be open.                       *)
RefusedNeverDurable == refused \cap durable = {}

(* A write that a caller was told is refused is never committed after that.   *)
RefusedNeverCommitted == [][refused \cap durable' \subseteq durable]_vars

(* An open transaction always belongs to a perform() call that is going to    *)
(* end it: when every thread is back in top-level code the connection is in   *)
(* autocommit mode.                                                           *)
NoOrphanTransaction ==
    ~autoCommit => \E t \in Threads : opener = t /\ depth[t] > 0

(* Nothing becomes durable through a connection on which a failed ROLLBACK    *)
(* left the writes of a block pending: every later transaction() fails to     *)
(* BEGIN, and every later exec() joins the orphan.                            *)
NothingDurableWhileOrphaned ==
    [][refused \cap pending # {} => UNCHANGED durable]_vars

(* A transaction is left without a block only by a perform() whose ROLLBACK   *)
(* was interrupted, and which says so to its caller.                          *)
OrphanedOnlyByInterrupt ==
    [][NoOrphanTransaction /\ ~NoOrphanTransaction' =>
          \E t \in Threads :
              opener = t /\ unwinding[t] /\ ~unwinding'[t] /\ err'[t] = "interrupt"]_vars

(* mutex { } gives exclusion: never two threads inside it.                    *)
MutexExcludes ==
    \A t, u \in Threads : inMutex[t] /\ inMutex[u] => t = u

(* perform rethrows the error its block or its COMMIT met.  A failing         *)
(* ROLLBACK replaces it only when SQLite has rolled back already or the       *)
(* context was closed under the block.                                        *)
OriginalErrorSurvives ==
    [][\A t \in Threads :
          unwinding[t] /\ ~unwinding'[t] /\ err'[t] # err[t]
             => closed \/ err[t] = "rolledBack"]_vars

(* With interrupts: the error is replaced by an interrupt as well, and then   *)
(* the caller is told of the interrupt and not of the error.                  *)
OriginalOrInterrupt ==
    [][\A t \in Threads :
          unwinding[t] /\ ~unwinding'[t] /\ err'[t] # err[t]
             => closed \/ err[t] = "rolledBack" \/ err'[t] = "interrupt"]_vars

(* A perform() that entered its catch gets out of it.                         *)
UnwindingEnds == \A t \in Threads : unwinding[t] ~> ~unwinding[t]

-----------------------------------------------------------------------------
(* The conditions under which the transaction promises hold for every value   *)
(* of the constants.  Exclusive: one thread, or the discipline of a real      *)
(* mutex (an actor is one too) around every transaction().                    *)
Exclusive    == (FullMutex /\ RequireMutex) \/ \A t, u \in Threads : t = u
NoInterrupts == ~Interruptible /\ "interrupt" \notin Faults
NoBlindCatch == "rolledBack" \notin Swallow

(* The connection knows whose transaction is open.                            *)
ConnectionOK ==
    /\ ~interrupted
    /\ autoCommit <=> opener = None
    /\ autoCommit => pending = {}
    /\ closed => autoCommit

(* A thread is at most one block deep and in the mutex while it is; a block   *)
(* that no longer has its transaction cannot go on.                           *)
BlocksOK ==
    \A t \in Threads :
        /\ depth[t] <= 1
        /\ unwinding[t] => depth[t] = 1
        /\ RequireMutex /\ depth[t] = 1 => inMutex[t]
        /\ depth[t] = 1 => opener = t \/ closed \/ err[t] = "rolledBack"
        /\ opener = t => depth[t] = 1 /\ pending = wrote[t][1]

(* Where the writes are agrees with what the threads were told.               *)
ReportsOK ==
    /\ durable \cup pending \cup refused \subseteq tried
    /\ \A t \in Threads :
          /\ wrote[t][1] \subseteq tried
          /\ depth[t] = 1 => wrote[t][1] \cap durable = {}
    /\ RefusedGone
    /\ PromisedDurable

(* The inductive invariant: PromisedDurable, RefusedGone and                  *)
(* NoOrphanTransaction alone do not say who may end the open transaction.     *)
Inductive ==
    /\ TypeOK
    /\ ConnectionOK
    /\ FullMutex => MutexExcludes
    /\ BlocksOK
    /\ ReportsOK

(* What is left of it when blocks may catch any error and go on: a block may  *)
(* have lost its transaction and still run, but an open transaction is that   *)
(* of its thread's innermost block, and what is pending is what it wrote.     *)
StandingOK ==
    \A t \in Threads :
        /\ RequireMutex /\ depth[t] > 0 => inMutex[t]
        /\ unwinding[t] => depth[t] > 0
        /\ opener = t => depth[t] > 0 /\ pending = wrote[t][depth[t]]
AccountsOK ==
    /\ durable \cup pending \cup refused \subseteq tried
    /\ \A t \in Threads : \A d \in Depths : wrote[t][d] \subseteq tried
    /\ pending \cap refused = {}
    /\ PromisedDurable

(* The inductive invariant of a connection whose blocks may catch any error.  *)
SwallowInductive ==
    /\ TypeOK
    /\ ConnectionOK
    /\ FullMutex => MutexExcludes
    /\ StandingOK
    /\ AccountsOK

(* What is left of it when interrupts reach statements: an interrupted         *)
(* ROLLBACK leaves a transaction with no block, the orphan.  Who is in a block *)
(* has a transaction of its own or none, and what is pending is its writes.    *)
OpenerOK ==
    /\ autoCommit <=> opener = None
    /\ autoCommit => pending = {}
    /\ closed => autoCommit
EnclosedOK ==
    \A t \in Threads :
        /\ depth[t] <= 1
        /\ unwinding[t] => depth[t] = 1
        /\ RequireMutex /\ depth[t] = 1 => inMutex[t]
        /\ depth[t] = 1 => opener = t \/ closed \/ err[t] = "rolledBack"
        /\ opener = t /\ depth[t] = 1 => pending = wrote[t][1]
HistoryOK ==
    /\ durable \cup pending \cup refused \subseteq tried
    /\ \A t \in Threads :
          /\ wrote[t][1] \subseteq tried
          /\ depth[t] = 1 => wrote[t][1] \cap (durable \cup refused) = {}
    /\ RefusedNeverDurable

(* The inductive invariant of a connection that may be interrupted.           *)
OrphanInductive ==
    /\ TypeOK
    /\ OpenerOK
    /\ FullMutex => MutexExcludes
    /\ EnclosedOK
    /\ HistoryOK

(* The blocks the threads see, and what they are told of their writes, are    *)
(* those of AtomicBlocks.                                                     *)
Blocks == INSTANCE AtomicBlocks
            WITH store <- durable, buffer <- pending, holder <- opener,
                 kept <- promised, gone <- refused
AtomicBlocksSpec == Blocks!Spec
=============================================================================
