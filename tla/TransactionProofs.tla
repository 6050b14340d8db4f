-------------------------- MODULE TransactionProofs --------------------------
(* Theorems about Transaction, for any threads, writes, faults and depth.     *)
EXTENDS Transaction, TLAPS

(* Type correctness of the connection and of the threads in perform(): it     *)
(* needs only that a thread in its catch is inside some block.                *)
Typed == TypeOK /\ \A t \in Threads : unwinding[t] => depth[t] > 0

LEMMA TypedInit == Init => Typed
<1> SUFFICES ASSUME Init PROVE Typed
  OBVIOUS
<1>1. wrote \in [Threads -> [Depths -> SUBSET Writes]]
  BY DEF Init
<1>2. depth \in [Threads -> 0 .. MaxDepth]
  BY DepthIsPositive DEF Init
<1> QED
  BY <1>1, <1>2, DepthIsPositive DEF Init, Typed, TypeOK

LEMMA ExecThrowsTypes ==
    ASSUME TypeOK, NEW t \in Threads, NEW c \in Errors, NEW ro \in BOOLEAN,
           ExecThrows(t, c, ro)
    PROVE  /\ err' \in [Threads -> Errors \cup {None}]
           /\ autoCommit' \in BOOLEAN /\ cursor' \in BOOLEAN
           /\ interrupted' \in BOOLEAN /\ closed' \in BOOLEAN
           /\ pending' \subseteq Writes /\ durable' \subseteq Writes
           /\ opener' \in Threads \cup {None}
  BY DEF TypeOK, ExecThrows, DropTransaction, connVars, Errors, SQLiteFaults

LEMMA CausesAreErrors ==
    /\ Refusals \subseteq Errors
    /\ Causes \subseteq Errors
    /\ \A mode \in Modes : BeginCauses(mode) \subseteq Errors
  BY KnownErrors DEF Refusals, Causes, BeginCauses, Errors, SQLiteFaults

LEMMA WroteTypes ==
    ASSUME wrote \in [Threads -> [Depths -> SUBSET Writes]],
           NEW t \in Threads, NEW d \in Depths, NEW S \in SUBSET Writes
    PROVE  [wrote EXCEPT ![t][d] = S] \in [Threads -> [Depths -> SUBSET Writes]]
  OBVIOUS

LEMMA TypedStep == Typed /\ [Next]_vars => Typed'
<1> SUFFICES ASSUME Typed, [Next]_vars PROVE Typed'
  OBVIOUS
<1> USE DEF Typed, TypeOK
<1>1. CASE Interrupt
  BY <1>1 DEF Interrupt, connVars, threadVars, reportVars
<1>2. ASSUME NEW t \in Threads, Step(t) PROVE Typed'
  <2>1. CASE MutexEnter(t) \/ MutexLeave(t)
    BY <2>1 DEF MutexEnter, MutexLeave, connVars, flagVars, reportVars
  <2>2. ASSUME NEW mode \in Modes, Begin(t, mode) PROVE Typed'
    <3>1. CASE BeginOk(t)
      <4>1. depth[t] + 1 \in Depths /\ depth' \in [Threads -> 0 .. MaxDepth]
        BY <2>2, <3>1, DepthIsPositive DEF Begin, BeginOk, Depths
      <4>2. wrote' \in [Threads -> [Depths -> SUBSET Writes]]
        BY <3>1, <4>1, WroteTypes DEF BeginOk
      <4>3. \A u \in Threads : unwinding'[u] => depth'[u] > 0
        BY <3>1, DepthIsPositive DEF BeginOk
      <4> QED
        BY <3>1, <4>1, <4>2, <4>3 DEF BeginOk, flagVars
    <3>2. CASE BeginThrows(t, mode)
      <4>1. PICK c \in BeginCauses(mode) : ExecThrows(t, c, mode = "deferred")
        BY <3>2 DEF BeginThrows
      <4> QED
        BY <3>2, <4>1, CausesAreErrors, ExecThrowsTypes
        DEF BeginThrows, reportVars
    <3> QED
      BY <2>2, <3>1, <3>2 DEF Begin
  <2>3. CASE Commit(t)
    <3>1. CASE CommitOk(t)
      <4>1. depth[t] \in Depths /\ depth' \in [Threads -> 0 .. MaxDepth]
        BY <2>3, <3>1, DepthIsPositive DEF Commit, CommitOk, Depths
      <4>2. depth[t] # 1 => depth[t] - 1 \in Depths
        BY <4>1, DepthIsPositive DEF Depths
      <4>3. wrote' \in [Threads -> [Depths -> SUBSET Writes]]
        <5>1. CASE depth[t] = 1
          BY <3>1, <5>1 DEF CommitOk
        <5>2. CASE depth[t] # 1
          <6>1. wrote' = [wrote EXCEPT ![t][depth[t] - 1] =
                            wrote[t][depth[t] - 1] \cup wrote[t][depth[t]]]
            BY <3>1, <5>2 DEF CommitOk
          <6>2. wrote[t][depth[t] - 1] \cup wrote[t][depth[t]] \in SUBSET Writes
            BY <4>1, <4>2, <5>2
          <6> QED
            BY <4>2, <5>2, <6>1, <6>2, WroteTypes
        <5> QED
          BY <5>1, <5>2
      <4>4. promised' \subseteq Writes /\ durable' \subseteq Writes
        BY <3>1, <4>1 DEF CommitOk
      <4>5. \A u \in Threads : unwinding'[u] => depth'[u] > 0
        BY <2>3, <3>1, DepthIsPositive DEF Commit, CommitOk, Calling
      <4> QED
        BY <3>1, <4>1, <4>3, <4>4, <4>5 DEF CommitOk, flagVars
    <3>2. CASE CommitThrows(t)
      <4>1. PICK c \in Errors : ExecThrows(t, c, TRUE)
        BY <3>2, CausesAreErrors DEF CommitThrows, Errors
      <4> QED
        BY <2>3, <3>2, <4>1, ExecThrowsTypes DEF Commit, CommitThrows, reportVars
    <3> QED
      BY <2>3, <3>1, <3>2 DEF Commit
  <2>4. CASE Throw(t)
    BY <2>4 DEF Throw, connVars, flagVars, reportVars, Errors
  <2>5. CASE Handle(t)
    BY <2>5 DEF Handle, connVars, flagVars, reportVars
  <2>6. CASE Rollback(t)
    <3>1. /\ err' \in [Threads -> Errors \cup {None}]
          /\ autoCommit' \in BOOLEAN /\ cursor' \in BOOLEAN
          /\ interrupted' \in BOOLEAN /\ closed' \in BOOLEAN
          /\ pending' \subseteq Writes /\ durable' \subseteq Writes
          /\ opener' \in Threads \cup {None}
      <4>1. CASE RollbackOk(t)
        BY <4>1 DEF RollbackOk, DropTransaction, flagVars
      <4>2. CASE RollbackThrows(t)
        <5>1. PICK c \in Errors : ExecThrows(t, c, TRUE)
          BY <4>2, CausesAreErrors, KnownErrors
          DEF RollbackThrows, Errors, SQLiteFaults
        <5> QED
          BY <5>1, ExecThrowsTypes
      <4> QED
        BY <2>6, <4>1, <4>2 DEF Rollback
    <3> QED
      <4>1. depth[t] \in Depths /\ depth' \in [Threads -> 0 .. MaxDepth]
        BY <2>6, DepthIsPositive DEF Rollback, Depths
      <4>2. refused' \subseteq Writes
        BY <2>6, <4>1 DEF Rollback
      <4>3. \A u \in Threads : unwinding'[u] => depth'[u] > 0
        BY <2>6 DEF Rollback
      <4> QED
        BY <2>6, <3>1, <4>1, <4>2, <4>3 DEF Rollback
  <2>7. ASSUME NEW w \in Writes, Write(t, w) PROVE Typed'
    <3>1. CASE WriteOk(t, w)
      <4>1. wrote' \in [Threads -> [Depths -> SUBSET Writes]]
        <5>1. CASE depth[t] = 0
          BY <3>1, <5>1 DEF WriteOk
        <5>2. CASE depth[t] # 0
          <6>1. depth[t] \in Depths
            BY <5>2, DepthIsPositive DEF Depths
          <6>2. wrote' = [wrote EXCEPT ![t][depth[t]] = wrote[t][depth[t]] \cup {w}]
            BY <3>1, <5>2 DEF WriteOk
          <6>3. wrote[t][depth[t]] \cup {w} \in SUBSET Writes
            BY <6>1
          <6> QED
            BY <6>1, <6>2, <6>3, WroteTypes
        <5> QED
          BY <5>1, <5>2
      <4>2. /\ promised' \subseteq Writes /\ tried' \subseteq Writes
            /\ durable' \subseteq Writes /\ pending' \subseteq Writes
        BY <2>7, <3>1 DEF Write, WriteOk
      <4> QED
        BY <3>1, <4>1, <4>2 DEF WriteOk, flagVars, threadVars
    <3>2. CASE WriteThrows(t)
      <4>1. PICK c \in Causes : ExecThrows(t, c, FALSE)
        BY <3>2 DEF WriteThrows
      <4> QED
        BY <2>7, <3>2, <4>1, CausesAreErrors, ExecThrowsTypes
        DEF Write, WriteThrows
    <3> QED
      BY <2>7, <3>1, <3>2 DEF Write
  <2>8. CASE OpenCursor(t) \/ CloseCursor(t)
    BY <2>8 DEF OpenCursor, CloseCursor, connVars, threadVars, reportVars
  <2>9. CASE Close(t)
    BY <2>9 DEF Close, DropTransaction, connVars, reportVars, Errors, SQLiteFaults
  <2> QED
    BY <1>2, <2>1, <2>2, <2>3, <2>4, <2>5, <2>6, <2>7, <2>8, <2>9 DEF Step
<1>3. CASE UNCHANGED vars
  BY <1>3 DEF vars, connVars, flagVars, threadVars, reportVars
<1> QED
  BY <1>1, <1>2, <1>3 DEF Next

(* The type invariant, under no condition on the clients at all.              *)
THEOREM TypeCorrect == Spec => []TypeOK
<1>1. Typed => TypeOK
  BY DEF Typed
<1> QED
  BY <1>1, TypedInit, TypedStep, PTL DEF Spec
-----------------------------------------------------------------------------
(* The promises of transaction(), under the three conditions.                 *)
Conditions == Exclusive /\ NoInterrupts /\ NoBlindCatch

LEMMA NotRolledBack == None # "rolledBack" /\ None \notin Threads
  BY NoneIsNew DEF Errors, SQLiteFaults

LEMMA Refused == Refusals = {} => ~closed /\ ~interrupted
  BY DEF Refusals

(* A thread that may use the connection is alone in a block, if any thread is *)
(* in one: the mutex it passed is held by every thread in a block.            *)
LEMMA Alone ==
    ASSUME Inductive, Exclusive, NEW t \in Threads, NEW u \in Threads,
           MayUse(t), depth[u] > 0
    PROVE  u = t
  BY DEF Inductive, TypeOK, BlocksOK, Exclusive, MayUse

LEMMA InductiveInit == Init => Inductive
<1> SUFFICES ASSUME Init PROVE Inductive
  OBVIOUS
<1>1. TypeOK
  BY TypedInit DEF Typed
<1>2. 1 \in Depths
  BY DepthIsPositive DEF Depths
<1>3. ConnectionOK /\ BlocksOK
  BY NoneIsNew DEF Init, ConnectionOK, BlocksOK
<1>4. ReportsOK /\ MutexExcludes
  BY <1>2 DEF Init, ReportsOK, RefusedGone, PromisedDurable, MutexExcludes
<1> QED
  BY <1>1, <1>3, <1>4 DEF Inductive

(* An exec that throws: the transaction stays with its block, or the error    *)
(* says that it is gone.                                                      *)
LEMMA ThrowsKeep ==
    ASSUME Conditions, Inductive, NEW t \in Threads, MayUse(t),
           NEW c \in Errors, c # "interrupt", NEW ro \in BOOLEAN,
           ExecThrows(t, c, ro)
    PROVE  /\ ConnectionOK'
           /\ \/ UNCHANGED connVars
              \/ /\ autoCommit' /\ opener' = None /\ pending' = {}
                 /\ err'[t] = "rolledBack"
                 /\ UNCHANGED durable
           /\ \A u \in Threads \ {t} : err'[u] = err[u]
           /\ UNCHANGED <<cursor, interrupted, closed>>
  BY DEF ExecThrows, DropTransaction, connVars, ConnectionOK, Inductive, TypeOK

(* Preserving the inductive invariant, one action at a time.                  *)
LEMMA MutexKeeps ==
    ASSUME Conditions, Inductive, NEW t \in Threads,
           MutexEnter(t) \/ MutexLeave(t)
    PROVE  ConnectionOK' /\ (FullMutex => MutexExcludes)' /\ BlocksOK' /\ ReportsOK'
<1> USE DEF Inductive, TypeOK, MutexEnter, MutexLeave, connVars, flagVars, reportVars
<1>1. ConnectionOK'
  BY DEF ConnectionOK
<1>2. (FullMutex => MutexExcludes)'
  BY DEF MutexExcludes, MayUse
<1>3. BlocksOK'
  BY DEF BlocksOK
<1>4. ReportsOK'
  BY DEF ReportsOK, RefusedGone, PromisedDurable
<1> QED
  BY <1>1, <1>2, <1>3, <1>4

LEMMA BeginKeeps ==
    ASSUME Conditions, Inductive, NEW t \in Threads, NEW mode \in Modes,
           Begin(t, mode)
    PROVE  ConnectionOK' /\ (FullMutex => MutexExcludes)' /\ BlocksOK' /\ ReportsOK'
<1>0. \A u \in Threads : depth[u] > 0 => u = t
  BY Alone DEF Begin, Conditions
<1>1. (FullMutex => MutexExcludes)'
  BY DEF Inductive, Begin, BeginOk, BeginThrows, MutexExcludes
<1>2. CASE BeginOk(t)
  <2>1. depth[t] = 0
    <3>1. ~closed /\ opener # t /\ err[t] # "rolledBack"
      BY <1>2, NotRolledBack, Refused
      DEF Inductive, ConnectionOK, Begin, BeginOk, Calling
    <3>2. depth[t] \in Nat /\ depth[t] <= 1 /\ depth[t] # 1
      BY <3>1, DepthIsPositive DEF Inductive, TypeOK, BlocksOK
    <3> QED
      BY <3>2
  <2>2. ConnectionOK'
    BY <1>2, NoneIsNew DEF Inductive, ConnectionOK, BeginOk, flagVars, Refusals
  <2>3. wrote'[t][1] = {} /\ \A u \in Threads \ {t} : wrote'[u] = wrote[u]
    BY <1>2, <2>1, DepthIsPositive DEF BeginOk, Inductive, TypeOK, Depths
  <2>4. BlocksOK'
    <3>1. depth'[t] = 1 /\ opener' = t
      BY <1>2, <2>1 DEF Inductive, TypeOK, BeginOk
    <3>3. pending' = wrote'[t][1]
      BY <1>2, <2>3 DEF Inductive, ConnectionOK, BeginOk
    <3>4. ~unwinding'[t] /\ (RequireMutex => inMutex'[t])
      BY <1>2 DEF Begin, BeginOk, Calling
    <3>2. \A u \in Threads \ {t} : depth'[u] = 0 /\ ~unwinding'[u]
      BY <1>0, <1>2 DEF Inductive, TypeOK, BlocksOK, BeginOk
    <3> QED
      BY <3>1, <3>2, <3>3, <3>4 DEF BlocksOK
  <2>5. ReportsOK'
    BY <1>0, <1>2, <2>1, <2>3
    DEF Inductive, TypeOK, ReportsOK, RefusedGone, PromisedDurable, BeginOk
  <2> QED
    BY <1>1, <2>2, <2>4, <2>5
<1>3. CASE BeginThrows(t, mode)
  <2>1. PICK c \in Errors :
            c # "interrupt" /\ ExecThrows(t, c, mode = "deferred")
    BY <1>3, CausesAreErrors
    DEF BeginThrows, BeginCauses, Refusals, Conditions, NoInterrupts, Inductive,
        ConnectionOK, Errors
  <2>2. /\ ConnectionOK'
        /\ \/ UNCHANGED connVars
           \/ /\ autoCommit' /\ opener' = None /\ pending' = {}
              /\ err'[t] = "rolledBack"
              /\ UNCHANGED durable
        /\ \A u \in Threads \ {t} : err'[u] = err[u]
        /\ UNCHANGED <<cursor, interrupted, closed>>
    BY <2>1, ThrowsKeep DEF Begin
  <2>3. BlocksOK'
    BY <1>0, <1>3, <2>2, NotRolledBack
    DEF Inductive, TypeOK, BlocksOK, Begin, BeginThrows, Calling, connVars, reportVars
  <2>4. ReportsOK'
    BY <1>3, <2>2
    DEF Inductive, ReportsOK, RefusedGone, PromisedDurable, BeginThrows, connVars,
        reportVars
  <2> QED
    BY <1>1, <2>2, <2>3, <2>4
<1> QED
  BY <1>2, <1>3 DEF Begin

LEMMA WriteKeeps ==
    ASSUME Conditions, Inductive, NEW t \in Threads, NEW w \in Writes, Write(t, w)
    PROVE  ConnectionOK' /\ (FullMutex => MutexExcludes)' /\ BlocksOK' /\ ReportsOK'
<1>0. \A u \in Threads : depth[u] > 0 => u = t
  BY Alone DEF Write, Conditions
<1>1. (FullMutex => MutexExcludes)'
  BY DEF Inductive, Write, WriteOk, WriteThrows, threadVars, MutexExcludes
<1>2. /\ w \notin durable \cup pending \cup refused
      /\ \A u \in Threads : w \notin wrote[u][1]
  BY DEF Inductive, ReportsOK, Write
<1>3. CASE WriteOk(t, w)
  <2>1. ~closed /\ ConnectionOK'
    BY <1>3, Refused DEF Inductive, ConnectionOK, WriteOk, flagVars
  <2>2. CASE depth[t] = 0
    <3>1. autoCommit
      <4>1. \A u \in Threads : opener # u
        BY <1>0, <2>2 DEF Inductive, BlocksOK
      <4> QED
        BY <4>1 DEF Inductive, TypeOK, ConnectionOK
    <3>2. \A u \in Threads : depth[u] = 0
      BY <1>0, <2>2, DepthIsPositive DEF Inductive, TypeOK
    <3>3. BlocksOK'
      BY <1>3, <2>2, <3>1, <3>2
      DEF Inductive, TypeOK, ConnectionOK, BlocksOK, WriteOk, flagVars, threadVars
    <3>4. ReportsOK'
      BY <1>2, <1>3, <2>2, <3>1, <3>2
      DEF Inductive, ReportsOK, RefusedGone, PromisedDurable, Write, WriteOk,
          flagVars, threadVars
    <3> QED
      BY <1>1, <2>1, <3>3, <3>4
  <2>3. CASE depth[t] = 1
    <3>1. opener = t /\ ~autoCommit
      BY <2>1, <2>3, NotRolledBack
      DEF Inductive, TypeOK, ConnectionOK, BlocksOK, Write, Calling
    <3>2. \A u \in Threads \ {t} : depth[u] = 0
      BY <1>0, DepthIsPositive DEF Inductive, TypeOK
    <3>3. /\ wrote'[t][1] = wrote[t][1] \cup {w}
          /\ \A u \in Threads \ {t} : wrote'[u] = wrote[u]
      BY <1>3, <2>3, DepthIsPositive DEF Inductive, TypeOK, WriteOk, Depths
    <3>4. BlocksOK'
      BY <1>3, <2>3, <3>1, <3>2, <3>3
      DEF Inductive, BlocksOK, WriteOk, flagVars, threadVars
    <3>5. /\ pending' = pending \cup {w}
          /\ UNCHANGED <<durable, promised, refused, depth>>
          /\ tried' = tried \cup {w}
      BY <1>3, <2>3, <3>1 DEF Write, WriteOk, threadVars
    <3>6. ReportsOK'
      BY <1>2, <3>3, <3>5 DEF Inductive, ReportsOK, RefusedGone, PromisedDurable
    <3> QED
      BY <1>1, <2>1, <3>4, <3>6
  <2>4. depth[t] = 0 \/ depth[t] = 1
    <3>1. depth[t] \in Nat /\ depth[t] <= 1
      BY DepthIsPositive DEF Inductive, TypeOK, BlocksOK
    <3> QED
      BY <3>1
  <2> QED
    BY <2>2, <2>3, <2>4
<1>4. CASE WriteThrows(t)
  <2>1. PICK c \in Errors : c # "interrupt" /\ ExecThrows(t, c, FALSE)
    BY <1>4, CausesAreErrors
    DEF WriteThrows, Causes, Refusals, Conditions, NoInterrupts, Inductive,
        ConnectionOK, Errors
  <2>2. /\ ConnectionOK'
        /\ \/ UNCHANGED connVars
           \/ /\ autoCommit' /\ opener' = None /\ pending' = {}
              /\ err'[t] = "rolledBack"
              /\ UNCHANGED durable
        /\ \A u \in Threads \ {t} : err'[u] = err[u]
        /\ UNCHANGED <<cursor, interrupted, closed>>
    BY <2>1, ThrowsKeep DEF Write
  <2>3. BlocksOK'
    BY <1>0, <1>4, <2>2, NotRolledBack
    DEF Inductive, TypeOK, BlocksOK, Write, WriteThrows, Calling, connVars
  <2>4. ReportsOK'
    BY <1>4, <2>2
    DEF Inductive, ReportsOK, RefusedGone, PromisedDurable, Write, WriteThrows,
        connVars
  <2> QED
    BY <1>1, <2>2, <2>3, <2>4
<1> QED
  BY <1>3, <1>4 DEF Write

LEMMA CommitKeeps ==
    ASSUME Conditions, Inductive, NEW t \in Threads, Commit(t)
    PROVE  ConnectionOK' /\ (FullMutex => MutexExcludes)' /\ BlocksOK' /\ ReportsOK'
<1>0. \A u \in Threads : depth[u] > 0 => u = t
  BY Alone DEF Commit, Conditions
<1>1. (FullMutex => MutexExcludes)'
  BY DEF Inductive, Commit, CommitOk, CommitThrows, MutexExcludes
<1>2. depth[t] = 1 /\ \A u \in Threads \ {t} : depth[u] = 0
  BY <1>0, DepthIsPositive DEF Inductive, TypeOK, BlocksOK, Commit
<1>3. CASE CommitOk(t)
  <2>1. ~closed /\ opener = t /\ pending = wrote[t][1]
    BY <1>2, <1>3, Refused, NotRolledBack
    DEF Inductive, BlocksOK, Commit, CommitOk, Calling
  <2>2. ConnectionOK'
    BY <1>3, <2>1, NotRolledBack DEF Inductive, ConnectionOK, CommitOk, flagVars
  <2>3. \A u \in Threads : depth'[u] = 0
    BY <1>2, <1>3 DEF Inductive, TypeOK, CommitOk
  <2>4. BlocksOK'
    BY <1>2, <1>3, <2>3, NotRolledBack
    DEF Inductive, BlocksOK, Commit, CommitOk, Calling
  <2>5. /\ durable' = durable \cup pending /\ pending' = {}
        /\ promised' = promised \cup wrote[t][1]
        /\ UNCHANGED <<wrote, refused, tried>>
    BY <1>2, <1>3 DEF CommitOk
  <2>6. ReportsOK'
    BY <2>1, <2>3, <2>5
    DEF Inductive, ReportsOK, RefusedGone, PromisedDurable
  <2> QED
    BY <1>1, <2>2, <2>4, <2>6
<1>4. CASE CommitThrows(t)
  <2>1. PICK c \in Errors : c # "interrupt" /\ ExecThrows(t, c, TRUE)
    BY <1>4, CausesAreErrors
    DEF CommitThrows, Causes, Refusals, Conditions, NoInterrupts, Inductive,
        ConnectionOK, Errors
  <2>2. /\ ConnectionOK'
        /\ \/ UNCHANGED connVars
           \/ /\ autoCommit' /\ opener' = None /\ pending' = {}
              /\ err'[t] = "rolledBack"
              /\ UNCHANGED durable
        /\ \A u \in Threads \ {t} : err'[u] = err[u]
        /\ UNCHANGED <<cursor, interrupted, closed>>
    BY <2>1, ThrowsKeep DEF Commit
  <2>3. BlocksOK'
    BY <1>2, <1>4, <2>2, NotRolledBack
    DEF Inductive, TypeOK, BlocksOK, Commit, CommitThrows, Calling, connVars,
        reportVars
  <2>4. ReportsOK'
    BY <1>4, <2>2
    DEF Inductive, ReportsOK, RefusedGone, PromisedDurable, CommitThrows, connVars,
        reportVars
  <2> QED
    BY <1>1, <2>2, <2>3, <2>4
<1> QED
  BY <1>3, <1>4 DEF Commit

LEMMA UnwindingKeeps ==
    ASSUME Conditions, Inductive, NEW t \in Threads,
           Throw(t) \/ Handle(t) \/ Rollback(t)
    PROVE  ConnectionOK' /\ (FullMutex => MutexExcludes)' /\ BlocksOK' /\ ReportsOK'
<1>1. (FullMutex => MutexExcludes)'
  BY DEF Inductive, Throw, Handle, Rollback, MutexExcludes
<1>2. CASE Throw(t)
  <2>1. depth[t] = 1
    BY <1>2, DepthIsPositive DEF Inductive, TypeOK, BlocksOK, Throw
  <2>2. ConnectionOK' /\ ReportsOK'
    BY <1>2 DEF Inductive, ConnectionOK, ReportsOK, RefusedGone, PromisedDurable,
                Throw, connVars, flagVars, reportVars
  <2>3. BlocksOK'
    BY <1>2, <2>1, NotRolledBack
    DEF Inductive, TypeOK, BlocksOK, Throw, connVars, flagVars, reportVars
  <2> QED
    BY <1>1, <2>2, <2>3
<1>3. CASE Handle(t)
  <2>1. depth[t] = 1 => err[t] # "rolledBack"
    BY <1>3, DepthIsPositive DEF Conditions, NoBlindCatch, Handle
  <2>2. ConnectionOK' /\ ReportsOK'
    BY <1>3 DEF Inductive, ConnectionOK, ReportsOK, RefusedGone, PromisedDurable,
                Handle, connVars, flagVars, reportVars
  <2>3. BlocksOK'
    BY <1>3, <2>1
    DEF Inductive, TypeOK, BlocksOK, Handle, connVars, flagVars, reportVars
  <2> QED
    BY <1>1, <2>2, <2>3
<1>4. CASE Rollback(t)
  <2>1. depth[t] = 1 /\ \A u \in Threads \ {t} : depth[u] = 0
    BY <1>4, Alone, DepthIsPositive
    DEF Inductive, TypeOK, BlocksOK, Rollback, Conditions
  <2>2. /\ autoCommit' /\ opener' = None /\ pending' = {}
        /\ UNCHANGED <<durable, cursor, interrupted, closed>>
        /\ \A u \in Threads \ {t} : err'[u] = err[u]
    <3>1. CASE RollbackOk(t)
      BY <3>1 DEF RollbackOk, DropTransaction, flagVars
    <3>2. CASE RollbackThrows(t)
      <4>1. autoCommit
        BY <3>2, KnownErrors
        DEF RollbackThrows, Refusals, Inductive, TypeOK, ConnectionOK, Conditions,
            NoInterrupts
      <4>2. PICK c \in {"closed", "inactive"} : ExecThrows(t, c, TRUE)
        BY <3>2, <4>1
        DEF RollbackThrows, Refusals, Inductive, ConnectionOK, Conditions,
            NoInterrupts
      <4> QED
        BY <4>1, <4>2
        DEF ExecThrows, connVars, Inductive, TypeOK, ConnectionOK
    <3> QED
      BY <1>4, <3>1, <3>2 DEF Rollback
  <2>3. /\ \A u \in Threads : depth'[u] = 0
        /\ ~unwinding'[t]
        /\ refused' = refused \cup wrote[t][1]
        /\ UNCHANGED <<inMutex, tried, wrote, promised>>
    BY <1>4, <2>1 DEF Inductive, TypeOK, Rollback
  <2>4. ConnectionOK'
    BY <2>2 DEF Inductive, ConnectionOK
  <2>5. BlocksOK'
    BY <1>4, <2>1, <2>2, <2>3, NotRolledBack
    DEF Inductive, TypeOK, BlocksOK, Rollback
  <2>6. ReportsOK'
    BY <2>1, <2>2, <2>3 DEF Inductive, ReportsOK, RefusedGone, PromisedDurable
  <2> QED
    BY <1>1, <2>4, <2>5, <2>6
<1> QED
  BY <1>2, <1>3, <1>4

LEMMA ContextKeeps ==
    ASSUME Conditions, Inductive, NEW t \in Threads,
           OpenCursor(t) \/ CloseCursor(t) \/ Close(t)
    PROVE  ConnectionOK' /\ (FullMutex => MutexExcludes)' /\ BlocksOK' /\ ReportsOK'
<1>1. (FullMutex => MutexExcludes)'
  BY DEF Inductive, OpenCursor, CloseCursor, Close, threadVars, MutexExcludes
<1>2. CASE OpenCursor(t) \/ CloseCursor(t)
  BY <1>1, <1>2
  DEF Inductive, OpenCursor, CloseCursor, ConnectionOK, BlocksOK, ReportsOK,
      RefusedGone, PromisedDurable, connVars, threadVars, reportVars
<1>3. CASE Close(t)
  <2>1. ConnectionOK'
    BY <1>3 DEF Inductive, ConnectionOK, Close, DropTransaction, connVars
  <2>2. ReportsOK'
    BY <1>3 DEF Inductive, ReportsOK, RefusedGone, PromisedDurable, Close,
                DropTransaction, connVars, reportVars
  <2>3. CASE cursor
    <3>1. err' = [err EXCEPT ![t] = "statement"] /\ err[t] # "rolledBack"
      BY <1>3, <2>3, NotRolledBack DEF Close, Calling
    <3> QED
      BY <1>1, <1>3, <2>1, <2>2, <2>3, <3>1
      DEF Inductive, TypeOK, BlocksOK, Close, connVars, reportVars
  <2>4. CASE ~cursor
    BY <1>1, <1>3, <2>1, <2>2, <2>4, NotRolledBack
    DEF Inductive, BlocksOK, Close, DropTransaction, reportVars
  <2> QED
    BY <2>3, <2>4
<1> QED
  BY <1>2, <1>3

LEMMA InductiveStep ==
    ASSUME Conditions, Inductive, [Next]_vars
    PROVE  Inductive'
<1>1. TypeOK'
  <2>1. Typed
    BY DEF Typed, Inductive, BlocksOK, TypeOK
  <2> QED
    BY <2>1, TypedStep DEF Typed
<1>2. ConnectionOK' /\ (FullMutex => MutexExcludes)' /\ BlocksOK' /\ ReportsOK'
  <2>1. CASE Interrupt
    BY <2>1 DEF Interrupt, Conditions, NoInterrupts
  <2>2. ASSUME NEW t \in Threads, Step(t)
        PROVE  ConnectionOK' /\ (FullMutex => MutexExcludes)' /\ BlocksOK' /\ ReportsOK'
    BY <2>2, MutexKeeps, BeginKeeps, WriteKeeps, CommitKeeps, UnwindingKeeps,
       ContextKeeps DEF Step
  <2>3. CASE UNCHANGED vars
    BY <2>3
    DEF Inductive, ConnectionOK, MutexExcludes, BlocksOK, ReportsOK, RefusedGone,
        PromisedDurable, vars, connVars, flagVars, threadVars, reportVars
  <2> QED
    BY <2>1, <2>2, <2>3 DEF Next
<1> QED
  BY <1>1, <1>2 DEF Inductive

(* The inductive invariant holds of every behaviour.                          *)
THEOREM InductiveCorrect == ASSUME Conditions PROVE Spec => []Inductive
<1>1. Inductive /\ [Next]_vars => Inductive'
  BY InductiveStep
<1> QED
  BY <1>1, InductiveInit, PTL DEF Spec

(* What a block that threw has written is gone, whatever the other threads    *)
(* wrote and committed meanwhile.                                             *)
THEOREM RefusalsComplete == ASSUME Conditions PROVE Spec => []RefusedGone
<1>1. Inductive => RefusedGone
  BY DEF Inductive, ReportsOK
<1> QED
  BY <1>1, InductiveCorrect, PTL

(* Leaving the catch with another error than the one it entered with happens  *)
(* only to a block whose transaction SQLite had already ended.                *)
THEOREM ErrorSurvives == ASSUME Conditions PROVE Spec => OriginalErrorSurvives
<1> DEFINE Survives == \A t \in Threads :
                          unwinding[t] /\ ~unwinding'[t] /\ err'[t] # err[t]
                             => closed \/ err[t] = "rolledBack"
<1>1. Inductive /\ [Next]_vars => [Survives]_vars
  <2> SUFFICES ASSUME Inductive, Next, NEW t \in Threads,
                      unwinding[t], ~unwinding'[t], err'[t] # err[t],
                      ~closed, err[t] # "rolledBack"
               PROVE  FALSE
    OBVIOUS
  <2>1. opener = t /\ ~autoCommit
    BY NotRolledBack DEF Inductive, BlocksOK, ConnectionOK
  <2>2. CASE Interrupt
    BY <2>2 DEF Interrupt, threadVars
  <2>3. ASSUME NEW u \in Threads, Step(u) PROVE FALSE
    <3>1. CASE Rollback(u)
      <4>1. u = t
        BY <3>1 DEF Rollback, Inductive, TypeOK
      <4>2. ~RollbackThrows(t)
        BY <2>1 DEF RollbackThrows, Refusals, Conditions, NoInterrupts,
                    Inductive, ConnectionOK
      <4> QED
        BY <3>1, <4>1, <4>2 DEF Rollback, RollbackOk
    <3>2. CASE ~Rollback(u)
      <4>1. unwinding' # unwinding
        OBVIOUS
      <4>2. Commit(u) \/ Throw(u)
        BY <2>3, <3>2, <4>1
        DEF Step, MutexEnter, MutexLeave, Begin, BeginOk, BeginThrows, Handle,
            Write, WriteOk, WriteThrows, OpenCursor, CloseCursor, Close, threadVars
      <4>3. unwinding'[t]
        BY <4>2 DEF Commit, CommitOk, CommitThrows, Throw, Inductive, TypeOK
      <4> QED
        BY <4>3
    <3> QED
      BY <3>1, <3>2
  <2> QED
    BY <2>2, <2>3 DEF Next
<1> QED
  BY <1>1, InductiveCorrect, PTL DEF Spec, OriginalErrorSurvives

-----------------------------------------------------------------------------
(* Blocks that catch any error and go on: what holds whatever they catch.     *)
Quiet == Exclusive /\ NoInterrupts

QuietParts == ConnectionOK /\ (FullMutex => MutexExcludes) /\ StandingOK /\ AccountsOK

LEMMA QuietAlone ==
    ASSUME SwallowInductive, Exclusive, NEW t \in Threads, NEW u \in Threads,
           MayUse(t), depth[u] > 0
    PROVE  u = t
  BY DEF SwallowInductive, TypeOK, StandingOK, Exclusive, MayUse

(* Who may use the connection has opened the transaction, if one is open.     *)
LEMMA QuietOpener ==
    ASSUME Quiet, SwallowInductive, NEW t \in Threads, MayUse(t)
    PROVE  \/ /\ opener = t /\ ~autoCommit /\ ~closed
              /\ depth[t] > 0 /\ pending = wrote[t][depth[t]]
           \/ opener = None /\ autoCommit /\ pending = {}
<1>1. opener \in Threads => opener = t
  BY QuietAlone DEF Quiet, SwallowInductive, StandingOK
<1> QED
  BY <1>1, NotRolledBack DEF SwallowInductive, TypeOK, ConnectionOK, StandingOK

LEMMA QuietErrors ==
    ASSUME Quiet, SwallowInductive
    PROVE  /\ Refusals \subseteq Errors \ {"interrupt"}
           /\ Causes \subseteq Errors \ {"interrupt"}
           /\ \A mode \in Modes : BeginCauses(mode) \subseteq Errors \ {"interrupt"}
  BY CausesAreErrors
  DEF Quiet, NoInterrupts, SwallowInductive, ConnectionOK, Refusals, Causes, BeginCauses, Errors

(* An exec that throws leaves the transaction, or takes all of it.            *)
LEMMA QuietThrows ==
    ASSUME SwallowInductive, NEW t \in Threads, NEW c \in Errors \ {"interrupt"},
           NEW ro \in BOOLEAN, ExecThrows(t, c, ro)
    PROVE  /\ ConnectionOK'
           /\ durable' = durable
           /\ \/ opener' = opener /\ pending' = pending
              \/ opener' = None /\ pending' = {}
  BY DEF ExecThrows, DropTransaction, connVars, ConnectionOK, SwallowInductive

(* A step that leaves the blocks where they are, and what they were told.     *)
LEMMA QuietKept ==
    ASSUME SwallowInductive, durable' = durable,
           \/ opener' = opener /\ pending' = pending
           \/ opener' = None /\ pending' = {},
           tried \subseteq tried',
           \A u \in Threads : unwinding'[u] => depth[u] > 0,
           UNCHANGED <<inMutex, depth, wrote, promised, refused>>
    PROVE  (FullMutex => MutexExcludes)' /\ StandingOK' /\ AccountsOK'
<1>1. StandingOK'
  BY NotRolledBack DEF SwallowInductive, StandingOK
<1>2. (FullMutex => MutexExcludes)' /\ AccountsOK'
  BY DEF SwallowInductive, MutexExcludes, AccountsOK, PromisedDurable
<1> QED
  BY <1>1, <1>2

LEMMA QuietBegin ==
    ASSUME Quiet, SwallowInductive, NEW t \in Threads, NEW mode \in Modes, Begin(t, mode)
    PROVE  QuietParts'
<1>1. MayUse(t) /\ ~unwinding[t] /\ (RequireMutex => inMutex[t])
  BY DEF Begin, Calling
<1>2. CASE BeginOk(t)
  <2>1. depth[t] \in Nat /\ depth[t] + 1 \in Depths
    BY DepthIsPositive DEF Begin, SwallowInductive, TypeOK, Depths
  <2>2. /\ depth'[t] = depth[t] + 1 /\ wrote'[t][depth'[t]] = {}
        /\ \A d \in Depths : wrote'[t][d] \subseteq wrote[t][d]
        /\ \A u \in Threads \ {t} : depth'[u] = depth[u] /\ wrote'[u] = wrote[u]
    BY <1>2, <2>1 DEF BeginOk, SwallowInductive, TypeOK
  <2>3. /\ pending = {} /\ ~closed /\ ~autoCommit' /\ opener' = t
        /\ UNCHANGED <<pending, durable, flagVars, inMutex, unwinding, tried, promised, refused>>
    BY <1>2, Refused DEF BeginOk, SwallowInductive, ConnectionOK
  <2>4. ConnectionOK' /\ (FullMutex => MutexExcludes)'
    BY <2>3, NotRolledBack
    DEF SwallowInductive, ConnectionOK, MutexExcludes, flagVars
  <2>5. StandingOK'
    BY <1>1, <2>1, <2>2, <2>3 DEF SwallowInductive, StandingOK
  <2>6. AccountsOK'
    BY <2>2, <2>3 DEF SwallowInductive, AccountsOK, PromisedDurable
  <2> QED
    BY <2>4, <2>5, <2>6 DEF QuietParts
<1>3. CASE BeginThrows(t, mode)
  <2>1. PICK c \in Errors \ {"interrupt"} : ExecThrows(t, c, mode = "deferred")
    BY <1>3, QuietErrors DEF BeginThrows
  <2>2. /\ UNCHANGED <<inMutex, depth, unwinding, tried, wrote, promised, refused>>
        /\ \A u \in Threads : unwinding[u] => depth[u] > 0
    BY <1>3 DEF BeginThrows, reportVars, SwallowInductive, StandingOK
  <2> QED
    BY <2>1, <2>2, QuietThrows, QuietKept DEF QuietParts
<1> QED
  BY <1>2, <1>3 DEF Begin

LEMMA QuietWrite ==
    ASSUME Quiet, SwallowInductive, NEW t \in Threads, NEW w \in Writes, Write(t, w)
    PROVE  QuietParts'
<1>1. MayUse(t) /\ w \notin tried /\ tried' = tried \cup {w}
  BY DEF Write
<1>2. CASE WriteOk(t, w)
  <2>1. /\ ConnectionOK' /\ (FullMutex => MutexExcludes)'
        /\ UNCHANGED <<opener, inMutex, depth, unwinding, refused>>
    BY <1>2 DEF WriteOk, flagVars, threadVars, SwallowInductive, ConnectionOK, MutexExcludes
  <2>2. CASE depth[t] = 0
    <3>1. opener = None /\ autoCommit /\ pending = {}
      BY <1>1, <2>2, QuietOpener
    <3>2. /\ durable' = durable \cup {w} /\ promised' = promised \cup {w}
          /\ UNCHANGED <<pending, wrote>>
      BY <1>2, <2>2, <3>1 DEF WriteOk
    <3>3. StandingOK'
      BY <2>1, <3>2 DEF SwallowInductive, StandingOK
    <3>4. AccountsOK'
      BY <1>1, <2>1, <3>2 DEF SwallowInductive, AccountsOK, PromisedDurable
    <3> QED
      BY <2>1, <3>3, <3>4 DEF QuietParts
  <2>3. CASE depth[t] # 0
    <3>1. depth[t] \in Depths /\ promised' = promised
      BY <1>2, <2>3, DepthIsPositive DEF WriteOk, SwallowInductive, TypeOK, Depths
    <3>2. /\ wrote'[t][depth[t]] = wrote[t][depth[t]] \cup {w}
          /\ \A d \in Depths : wrote'[t][d] \subseteq wrote[t][d] \cup {w}
          /\ \A u \in Threads \ {t} : wrote'[u] = wrote[u]
      BY <1>2, <2>3, <3>1 DEF WriteOk, SwallowInductive, TypeOK
    <3>3. \/ opener = t /\ pending' = pending \cup {w} /\ durable' = durable
          \/ opener = None /\ pending' = pending /\ durable' = durable \cup {w}
      BY <1>1, <1>2, QuietOpener DEF WriteOk
    <3>4. StandingOK'
      <4>1. opener = t => pending' = wrote'[t][depth[t]]
        BY <3>2, <3>3, NotRolledBack DEF SwallowInductive, StandingOK
      <4>2. \A u \in Threads : opener = u => u = t
        BY <3>3, NotRolledBack
      <4> QED
        BY <2>1, <2>3, <4>1, <4>2 DEF SwallowInductive, StandingOK
    <3>5. AccountsOK'
      BY <1>1, <2>1, <3>1, <3>2, <3>3 DEF SwallowInductive, AccountsOK, PromisedDurable
    <3> QED
      BY <2>1, <3>4, <3>5 DEF QuietParts
  <2> QED
    BY <2>2, <2>3
<1>3. CASE WriteThrows(t)
  <2>1. PICK c \in Errors \ {"interrupt"} : ExecThrows(t, c, FALSE)
    BY <1>3, QuietErrors DEF WriteThrows
  <2>2. /\ UNCHANGED <<inMutex, depth, unwinding, wrote, promised, refused>>
        /\ \A u \in Threads : unwinding[u] => depth[u] > 0
    BY <1>3 DEF WriteThrows, SwallowInductive, StandingOK
  <2> QED
    BY <1>1, <2>1, <2>2, QuietThrows, QuietKept DEF QuietParts
<1> QED
  BY <1>2, <1>3 DEF Write

(* An inner block that commits hands its writes to the one around it, which   *)
(* has no transaction any more; the outermost reports the committed writes.   *)
LEMMA QuietCommit ==
    ASSUME Quiet, SwallowInductive, NEW t \in Threads, Commit(t)
    PROVE  QuietParts'
<1>1. MayUse(t) /\ ~unwinding[t] /\ depth[t] > 0 /\ depth[t] \in Depths
  BY DepthIsPositive DEF Commit, Calling, SwallowInductive, TypeOK, Depths
<1>2. CASE CommitOk(t)
  <2>1. pending = wrote[t][depth[t]]
    BY <1>1, <1>2, QuietOpener DEF CommitOk
  <2>2. /\ autoCommit' /\ opener' = None /\ pending' = {} /\ durable' = durable \cup pending
        /\ UNCHANGED <<flagVars, inMutex, unwinding, tried, refused>>
    BY <1>2 DEF CommitOk
  <2>3. \A u \in Threads : u # t => depth'[u] = depth[u] /\ depth[u] = 0 /\ ~unwinding[u]
    BY <1>1, <1>2, QuietAlone, DepthIsPositive
    DEF CommitOk, Quiet, SwallowInductive, TypeOK, StandingOK
  <2>4. StandingOK'
    BY <1>1, <1>2, <2>2, <2>3, NotRolledBack
    DEF CommitOk, SwallowInductive, TypeOK, StandingOK
  <2>5. ConnectionOK' /\ (FullMutex => MutexExcludes)'
    BY <2>2 DEF SwallowInductive, ConnectionOK, MutexExcludes, flagVars
  <2>6. CASE depth[t] = 1
    <3>1. promised' = promised \cup pending /\ wrote' = wrote
      BY <1>2, <2>1, <2>6 DEF CommitOk
    <3>2. AccountsOK'
      BY <2>2, <3>1 DEF SwallowInductive, AccountsOK, PromisedDurable
    <3> QED
      BY <2>4, <2>5, <3>2 DEF QuietParts
  <2>7. CASE depth[t] # 1
    <3>1. depth[t] - 1 \in Depths /\ promised' = promised
      BY <1>1, <1>2, <2>7, DepthIsPositive DEF CommitOk, Depths
    <3>2. wrote' = [wrote EXCEPT ![t][depth[t] - 1] =
                       wrote[t][depth[t] - 1] \cup wrote[t][depth[t]]]
      BY <1>2, <2>7 DEF CommitOk
    <3>3. \A u \in Threads : \A d \in Depths : wrote'[u][d] \subseteq tried
      BY <1>1, <3>1, <3>2 DEF SwallowInductive, TypeOK, AccountsOK
    <3>4. AccountsOK'
      BY <2>2, <3>1, <3>3 DEF SwallowInductive, AccountsOK, PromisedDurable
    <3> QED
      BY <2>4, <2>5, <3>4 DEF QuietParts
  <2> QED
    BY <2>6, <2>7
<1>3. CASE CommitThrows(t)
  <2>1. PICK c \in Errors \ {"interrupt"} : ExecThrows(t, c, TRUE)
    BY <1>3, QuietErrors DEF CommitThrows, Errors
  <2>2. /\ UNCHANGED <<inMutex, depth, tried, wrote, promised, refused>>
        /\ \A u \in Threads : unwinding'[u] => depth[u] > 0
    BY <1>1, <1>3 DEF CommitThrows, reportVars, SwallowInductive, TypeOK, StandingOK
  <2> QED
    BY <2>1, <2>2, QuietThrows, QuietKept DEF QuietParts
<1> QED
  BY <1>2, <1>3 DEF Commit

(* A ROLLBACK that no interrupt reaches leaves no transaction open.           *)
LEMMA QuietRollback ==
    ASSUME Quiet, SwallowInductive, NEW t \in Threads, Rollback(t)
    PROVE  QuietParts'
<1>1. MayUse(t) /\ depth[t] \in Depths /\ depth[t] > 0
  BY DepthIsPositive DEF Rollback, SwallowInductive, TypeOK, StandingOK, Depths
<1>2. /\ ConnectionOK' /\ opener' = None /\ pending' = {} /\ durable' = durable
  <2>1. CASE RollbackOk(t)
    BY <2>1 DEF RollbackOk, DropTransaction, flagVars, SwallowInductive, ConnectionOK
  <2>2. CASE RollbackThrows(t)
    <3>1. autoCommit /\ opener = None /\ pending = {}
      BY <2>2 DEF RollbackThrows, Refusals, Quiet, NoInterrupts, SwallowInductive, ConnectionOK
    <3>2. PICK c \in Errors \ {"interrupt"} : ExecThrows(t, c, TRUE)
      BY <2>2, <3>1, QuietErrors DEF RollbackThrows, Errors
    <3> QED
      BY <3>1, <3>2, QuietThrows
  <2> QED
    BY <2>1, <2>2 DEF Rollback
<1>3. /\ refused' = refused \cup wrote[t][depth[t]]
      /\ UNCHANGED <<inMutex, tried, wrote, promised>>
      /\ \A u \in Threads : u # t => depth'[u] = depth[u] /\ depth[u] = 0 /\ ~unwinding'[u]
      /\ ~unwinding'[t]
  BY <1>1, QuietAlone, DepthIsPositive
  DEF Rollback, Quiet, SwallowInductive, TypeOK, StandingOK
<1>4. StandingOK'
  BY <1>1, <1>2, <1>3, NotRolledBack DEF Rollback, SwallowInductive, TypeOK, StandingOK
<1>5. AccountsOK' /\ (FullMutex => MutexExcludes)'
  BY <1>1, <1>2, <1>3 DEF SwallowInductive, AccountsOK, PromisedDurable, MutexExcludes
<1> QED
  BY <1>2, <1>4, <1>5 DEF QuietParts

LEMMA QuietOthers ==
    ASSUME Quiet, SwallowInductive, NEW t \in Threads,
           \/ MutexEnter(t) \/ MutexLeave(t) \/ Throw(t) \/ Handle(t)
           \/ OpenCursor(t) \/ CloseCursor(t) \/ Close(t)
    PROVE  QuietParts'
<1> USE DEF connVars, flagVars, threadVars, reportVars
<1>1. CASE MutexEnter(t) \/ MutexLeave(t)
  <2>1. /\ UNCHANGED <<connVars, flagVars, depth, unwinding, err, reportVars>>
        /\ depth[t] = 0 /\ \A u \in Threads \ {t} : inMutex'[u] = inMutex[u]
    BY <1>1 DEF MutexEnter, MutexLeave, SwallowInductive, TypeOK
  <2>2. (FullMutex => MutexExcludes)'
    BY <1>1 DEF MutexEnter, MutexLeave, MayUse, MutexExcludes, SwallowInductive, TypeOK
  <2>3. ConnectionOK' /\ AccountsOK'
    BY <2>1 DEF SwallowInductive, ConnectionOK, AccountsOK, PromisedDurable
  <2>4. StandingOK'
    BY <2>1 DEF SwallowInductive, StandingOK
  <2> QED
    BY <2>2, <2>3, <2>4 DEF QuietParts
<1>2. CASE Throw(t) \/ Handle(t)
  <2>1. /\ UNCHANGED <<connVars, flagVars, inMutex, depth, reportVars>>
        /\ \A u \in Threads : unwinding'[u] => depth[u] > 0
    BY <1>2 DEF Throw, Handle, SwallowInductive, TypeOK, StandingOK
  <2>2. ConnectionOK'
    BY <2>1 DEF SwallowInductive, ConnectionOK
  <2> QED
    BY <2>1, <2>2, QuietKept DEF QuietParts
<1>3. CASE OpenCursor(t) \/ CloseCursor(t) \/ Close(t)
  <2>1. /\ UNCHANGED <<inMutex, depth, unwinding, reportVars, durable>>
        /\ \A u \in Threads : unwinding[u] => depth[u] > 0
        /\ \/ opener' = opener /\ pending' = pending
           \/ opener' = None /\ pending' = {}
    BY <1>3 DEF OpenCursor, CloseCursor, Close, DropTransaction, SwallowInductive, StandingOK
  <2>2. ConnectionOK'
    BY <1>3 DEF OpenCursor, CloseCursor, Close, DropTransaction, SwallowInductive, ConnectionOK
  <2> QED
    BY <2>1, <2>2, QuietKept DEF QuietParts
<1> QED
  BY <1>1, <1>2, <1>3

LEMMA QuietStep ==
    ASSUME Quiet, SwallowInductive, [Next]_vars
    PROVE  SwallowInductive'
<1>1. TypeOK'
  <2>1. Typed
    BY DEF Typed, SwallowInductive, StandingOK
  <2> QED
    BY <2>1, TypedStep DEF Typed
<1>2. CASE UNCHANGED vars
  BY <1>2
  DEF SwallowInductive, TypeOK, ConnectionOK, MutexExcludes, StandingOK, AccountsOK, PromisedDurable,
      vars, connVars, flagVars, threadVars, reportVars
<1>3. ASSUME NEW t \in Threads, Step(t) PROVE QuietParts'
  BY <1>3, QuietBegin, QuietWrite, QuietCommit, QuietRollback, QuietOthers DEF Step
<1>4. ~Interrupt
  BY DEF Interrupt, Quiet, NoInterrupts
<1> QED
  BY <1>1, <1>2, <1>3, <1>4 DEF Next, SwallowInductive, QuietParts

LEMMA QuietInit == Init => SwallowInductive
<1> SUFFICES ASSUME Init PROVE SwallowInductive
  OBVIOUS
<1>1. TypeOK
  BY TypedInit DEF Typed
<1>2. ConnectionOK /\ MutexExcludes /\ StandingOK /\ AccountsOK
  BY NoneIsNew
  DEF Init, ConnectionOK, MutexExcludes, StandingOK, AccountsOK, PromisedDurable
<1> QED
  BY <1>1, <1>2 DEF SwallowInductive

(* The inductive invariant of blocks that catch any error and go on.          *)
THEOREM SwallowInductiveHolds == ASSUME Quiet PROVE Spec => []SwallowInductive
<1>1. SwallowInductive /\ [Next]_vars => SwallowInductive'
  BY QuietStep
<1> QED
  BY <1>1, QuietInit, PTL DEF Spec

(* What a caller was told is committed is durable, whatever its blocks, or    *)
(* the blocks of other threads, catch.                                        *)
THEOREM PromisesKept == ASSUME Quiet PROVE Spec => []PromisedDurable
<1>1. SwallowInductive => PromisedDurable
  BY DEF SwallowInductive, AccountsOK
<1> QED
  BY <1>1, SwallowInductiveHolds, PTL

(* An open transaction has a perform() that will end it, also when blocks     *)
(* catch the error that says that SQLite has ended theirs.                    *)
THEOREM NoOrphans == ASSUME Quiet PROVE Spec => []NoOrphanTransaction
<1>1. SwallowInductive => NoOrphanTransaction
  BY DEF SwallowInductive, TypeOK, ConnectionOK, StandingOK, NoOrphanTransaction
<1> QED
  BY <1>1, SwallowInductiveHolds, PTL

-----------------------------------------------------------------------------
(* Refinement: what happens to the transaction is a step of AtomicBlocks.     *)

(* Only the thread that opened the transaction is in a position to end it.    *)
LEMMA OnlyOpener ==
    ASSUME Conditions, Inductive, NEW t \in Threads, MayUse(t)
    PROVE  opener = t \/ (opener = None /\ autoCommit /\ pending = {})
<1>1. opener \in Threads => opener = t
  BY Alone DEF Conditions, Inductive, TypeOK, BlocksOK
<1> QED
  BY <1>1 DEF Inductive, TypeOK, ConnectionOK

LEMMA DropRefines ==
    ASSUME Conditions, Inductive, NEW t \in Threads, MayUse(t),
           DropTransaction \/ UNCHANGED connVars, UNCHANGED <<promised, refused>>
    PROVE  [Blocks!Next]_(Blocks!vars)
<1> USE DEF Blocks!vars, Blocks!reports
<1>1. CASE UNCHANGED connVars
  BY <1>1 DEF connVars
<1>2. CASE DropTransaction /\ opener = t
  BY <1>2 DEF DropTransaction, Blocks!Next, Blocks!Abandon
<1>3. CASE DropTransaction /\ opener = None /\ pending = {}
  BY <1>3 DEF DropTransaction
<1> QED
  BY <1>1, <1>2, <1>3, OnlyOpener

(* The block that throws has been abandoned before, or is now.                *)
LEMMA RollbackRefines ==
    ASSUME Conditions, Inductive, NEW t \in Threads, Rollback(t)
    PROVE  [Blocks!Next]_(Blocks!vars)
<1>1. depth[t] = 1 /\ MayUse(t)
  BY DEF Rollback, Inductive, BlocksOK
<1>2. /\ refused' = refused \cup wrote[t][1] /\ UNCHANGED promised
      /\ wrote[t][1] \subseteq Writes /\ wrote[t][1] \cap durable = {}
  BY <1>1, DepthIsPositive DEF Rollback, Inductive, TypeOK, ReportsOK, Depths
<1>3. CASE RollbackOk(t)
  <2>1. opener = t /\ pending = wrote[t][1]
    BY <1>1, <1>3, OnlyOpener DEF RollbackOk, Inductive, BlocksOK
  <2> QED
    BY <1>2, <1>3, <2>1 DEF RollbackOk, DropTransaction, Blocks!Next, Blocks!Abandon
<1>4. CASE RollbackThrows(t)
  <2>1. autoCommit /\ opener = None /\ pending = {}
    BY <1>4 DEF RollbackThrows, Refusals, Conditions, NoInterrupts, Inductive, ConnectionOK
  <2>2. UNCHANGED <<durable, pending, opener>>
    BY <1>4, <2>1 DEF RollbackThrows, ExecThrows, DropTransaction, connVars
  <2>3. Blocks!Refuse(wrote[t][1])
    BY <1>2, <2>1, <2>2 DEF Blocks!Refuse
  <2> QED
    BY <1>2, <2>3 DEF Blocks!Next
<1> QED
  BY <1>3, <1>4 DEF Rollback

LEMMA StepRefines ==
    ASSUME Conditions, Inductive, [Next]_vars
    PROVE  [Blocks!Next]_(Blocks!vars)
<1>1. CASE Interrupt \/ UNCHANGED vars
  BY <1>1 DEF Interrupt, vars, connVars, reportVars, Blocks!vars, Blocks!reports
<1>2. ASSUME NEW t \in Threads, Step(t) PROVE [Blocks!Next]_(Blocks!vars)
  <2>1. CASE \/ MutexEnter(t) \/ MutexLeave(t) \/ Throw(t) \/ Handle(t)
             \/ OpenCursor(t) \/ CloseCursor(t)
    BY <2>1 DEF MutexEnter, MutexLeave, Throw, Handle, OpenCursor, CloseCursor,
                connVars, reportVars, Blocks!vars, Blocks!reports
  <2>2. ASSUME NEW mode \in Modes, Begin(t, mode)
        PROVE  [Blocks!Next]_(Blocks!vars)
    <3>1. CASE BeginOk(t)
      BY <3>1 DEF BeginOk, Inductive, ConnectionOK, Blocks!Next, Blocks!Start,
                  Blocks!reports
    <3>2. CASE BeginThrows(t, mode)
      BY <2>2, <3>2, DropRefines DEF Begin, BeginThrows, ExecThrows, reportVars
    <3> QED
      BY <2>2, <3>1, <3>2 DEF Begin
  <2>3. ASSUME NEW w \in Writes, Write(t, w)
        PROVE  [Blocks!Next]_(Blocks!vars)
    <3>1. CASE WriteOk(t, w) /\ autoCommit
      <4>1. depth[t] = 0
        <5>1. err[t] = None /\ ~closed /\ opener = None
          BY <2>3, <3>1, Refused DEF Write, Calling, WriteOk, Inductive, ConnectionOK
        <5>2. depth[t] # 1
          BY <5>1, NotRolledBack DEF Inductive, BlocksOK
        <5>3. depth[t] \in 0 .. MaxDepth /\ MaxDepth \in Nat /\ depth[t] <= 1
          BY DepthIsPositive DEF Inductive, TypeOK, BlocksOK
        <5> QED
          BY <5>2, <5>3
      <4>2. opener = None /\ w \notin refused
        BY <2>3, <3>1 DEF Write, Inductive, ConnectionOK, ReportsOK
      <4> QED
        BY <3>1, <4>1, <4>2 DEF WriteOk, Blocks!Next, Blocks!Single
    <3>2. CASE WriteOk(t, w) /\ ~autoCommit
      <4>1. opener = t /\ w \notin durable \cup refused
        BY <2>3, <3>2, OnlyOpener DEF Write, Inductive, ReportsOK
      <4>2. depth[t] = 1
        BY <4>1 DEF Inductive, BlocksOK
      <4> QED
        BY <3>2, <4>1, <4>2 DEF WriteOk, Blocks!Next, Blocks!Put, Blocks!reports
    <3>3. CASE WriteThrows(t)
      BY <2>3, <3>3, DropRefines DEF Write, WriteThrows, ExecThrows
    <3> QED
      BY <2>3, <3>1, <3>2, <3>3 DEF Write
  <2>4. CASE Commit(t)
    <3>1. CASE CommitOk(t)
      <4>1. opener = t
        BY <2>4, <3>1, OnlyOpener DEF Commit, CommitOk
      <4>2. depth[t] = 1 /\ pending = wrote[t][1]
        BY <4>1 DEF Inductive, BlocksOK
      <4> QED
        BY <3>1, <4>1, <4>2 DEF CommitOk, Blocks!Next, Blocks!Finish
    <3>2. CASE CommitThrows(t)
      BY <2>4, <3>2, DropRefines DEF Commit, CommitThrows, ExecThrows, reportVars
    <3> QED
      BY <2>4, <3>1, <3>2 DEF Commit
  <2>5. CASE Rollback(t)
    BY <2>5, RollbackRefines
  <2>6. CASE Close(t)
    BY <2>6, DropRefines DEF Close, reportVars
  <2> QED
    BY <1>2, <2>1, <2>2, <2>3, <2>4, <2>5, <2>6 DEF Step
<1> QED
  BY <1>1, <1>2 DEF Next

(* Transaction implements AtomicBlocks under the three conditions.            *)
THEOREM ImplementsAtomicBlocks == ASSUME Conditions PROVE Spec => AtomicBlocksSpec
<1>1. Init => Blocks!Init
  BY DEF Init, Blocks!Init
<1>2. Inductive /\ [Next]_vars => [Blocks!Next]_(Blocks!vars)
  BY StepRefines
<1> QED
  BY <1>1, <1>2, InductiveCorrect, PTL DEF Spec, AtomicBlocksSpec, Blocks!Spec

(* What AtomicBlocks says is what a caller may rely on: in every behaviour of *)
(* it what was reported as committed is kept and what was refused is nowhere. *)
THEOREM BlocksReportTruly == Blocks!Spec => []Blocks!TrueReports
<1> DEFINE Settled == /\ Blocks!TrueReports
                      /\ pending \cap durable = {}
                      /\ opener = None => pending = {}
<1>1. Blocks!Init => Settled
  BY DEF Blocks!Init, Blocks!TrueReports
<1>2. ASSUME Settled, [Blocks!Next]_(Blocks!vars) PROVE Settled'
  <2> USE NoneIsNew DEF Blocks!TrueReports, Blocks!reports
  <2>1. ASSUME NEW t \in Threads, Blocks!Start(t) \/ Blocks!Finish(t) \/ Blocks!Abandon(t)
        PROVE  Settled'
    BY <1>2, <2>1 DEF Blocks!Start, Blocks!Finish, Blocks!Abandon
  <2>2. ASSUME NEW t \in Threads, NEW w \in Writes, Blocks!Put(t, w) PROVE Settled'
    BY <1>2, <2>2 DEF Blocks!Put
  <2>3. ASSUME NEW w \in Writes, Blocks!Single(w) PROVE Settled'
    BY <1>2, <2>3 DEF Blocks!Single
  <2>4. ASSUME NEW S \in SUBSET Writes, Blocks!Refuse(S) PROVE Settled'
    BY <1>2, <2>4 DEF Blocks!Refuse
  <2>5. CASE UNCHANGED Blocks!vars
    BY <1>2, <2>5 DEF Blocks!vars
  <2> QED
    BY <1>2, <2>1, <2>2, <2>3, <2>4, <2>5 DEF Blocks!Next
<1>3. Settled /\ [Blocks!Next]_(Blocks!vars) => Settled'
  BY <1>2
<1> QED
  BY <1>1, <1>3, PTL DEF Blocks!Spec

-----------------------------------------------------------------------------
(* Under interrupts: what holds when a ROLLBACK may be interrupted.           *)
Enclosed == Exclusive /\ NoBlindCatch

OrphanParts == OpenerOK /\ (FullMutex => MutexExcludes) /\ EnclosedOK /\ HistoryOK

LEMMA AloneInterrupted ==
    ASSUME OrphanInductive, Exclusive, NEW t \in Threads, NEW u \in Threads,
           MayUse(t), depth[u] > 0
    PROVE  u = t
  BY DEF OrphanInductive, TypeOK, EnclosedOK, Exclusive, MayUse

LEMMA DepthInterrupted ==
    ASSUME OrphanInductive, NEW t \in Threads
    PROVE  /\ depth[t] \in {0, 1} /\ (depth[t] > 0 => depth[t] = 1)
           /\ unwinding[t] => depth[t] = 1
<1>1. depth[t] \in Nat /\ depth[t] <= 1
  BY DepthIsPositive DEF OrphanInductive, TypeOK, EnclosedOK
<1> QED
  BY <1>1 DEF OrphanInductive, EnclosedOK

(* An exec that throws leaves the transaction, or takes it and says so.       *)
LEMMA ThrowsInterrupted ==
    ASSUME OrphanInductive, NEW t \in Threads, NEW c \in Errors, NEW ro \in BOOLEAN,
           ExecThrows(t, c, ro)
    PROVE  /\ OpenerOK' /\ durable' = durable /\ closed' = closed
           /\ \A u \in Threads \ {t} : err'[u] = err[u]
           /\ \/ opener' = opener /\ pending' = pending
              \/ opener' = None /\ pending' = {} /\ err'[t] = "rolledBack"
  BY DEF ExecThrows, DropTransaction, connVars, OpenerOK, OrphanInductive, TypeOK

(* A step of t that leaves the blocks where they are, and the writes.         *)
LEMMA BlocksKept ==
    ASSUME Enclosed, OrphanInductive, NEW t \in Threads, MayUse(t),
           \A u \in Threads \ {t} : err'[u] = err[u],
           err[t] # "rolledBack" \/ err'[t] = err[t] \/ depth[t] # 1,
           \/ opener' = opener /\ pending' = pending /\ closed' = closed
           \/ opener' = None /\ (err'[t] = "rolledBack" \/ closed'),
           \A u \in Threads : unwinding'[u] => depth[u] = 1,
           UNCHANGED <<inMutex, depth, wrote>>
    PROVE  EnclosedOK'
<1>1. \A u \in Threads : depth[u] = 1 => u = t
  BY AloneInterrupted DEF Enclosed
<1>2. ASSUME NEW u \in Threads
      PROVE  /\ depth[u] <= 1
             /\ RequireMutex /\ depth[u] = 1 => inMutex[u]
             /\ depth[u] = 1 => opener = u \/ closed \/ err[u] = "rolledBack"
             /\ opener = u /\ depth[u] = 1 => pending = wrote[u][1]
  BY DEF OrphanInductive, EnclosedOK
<1>3. ASSUME NEW u \in Threads
      PROVE  depth[u] = 1 => opener' = u \/ closed' \/ err'[u] = "rolledBack"
  BY <1>1, <1>2, <1>3
<1>4. ASSUME NEW u \in Threads, opener' = u, depth[u] = 1
      PROVE  pending' = wrote[u][1]
  BY <1>2, <1>4, NotRolledBack
<1> QED
  BY <1>2, <1>3, <1>4 DEF EnclosedOK

LEMMA HistoryKept ==
    ASSUME OrphanInductive, durable' = durable, pending' \subseteq pending,
           tried \subseteq tried', UNCHANGED <<depth, wrote, refused>>
    PROVE  HistoryOK'
  BY DEF OrphanInductive, HistoryOK, RefusedNeverDurable

(* Preserving it, one action at a time.                                       *)
LEMMA BeginInterrupted ==
    ASSUME Enclosed, OrphanInductive, NEW t \in Threads, NEW mode \in Modes, Begin(t, mode)
    PROVE  OrphanParts'
<1>0. MayUse(t) /\ ~unwinding[t] /\ err[t] = None /\ (RequireMutex => inMutex[t])
  BY DEF Begin, Calling
<1>1. (FullMutex => MutexExcludes)'
  BY DEF OrphanInductive, Begin, BeginOk, BeginThrows, MutexExcludes
<1>2. \A u \in Threads : depth[u] \in {0, 1} /\ (depth[u] = 1 => u = t)
                         /\ (unwinding[u] => depth[u] = 1)
  BY <1>0, AloneInterrupted, DepthInterrupted DEF Enclosed
<1>3. CASE BeginOk(t)
  <2>1. autoCommit /\ ~closed /\ opener = None /\ pending = {}
    BY <1>3, Refused DEF BeginOk, OrphanInductive, OpenerOK
  <2>2. depth[t] = 0
    BY <1>0, <1>2, <2>1, NotRolledBack DEF OrphanInductive, EnclosedOK
  <2>3. /\ depth'[t] = 1 /\ \A u \in Threads \ {t} : depth'[u] = 0
        /\ opener' = t /\ ~autoCommit' /\ pending' = {} /\ ~closed'
        /\ UNCHANGED <<durable, inMutex, unwinding, err, tried, refused>>
    BY <1>2, <1>3, <2>1, <2>2 DEF BeginOk, OrphanInductive, TypeOK, flagVars
  <2>4. wrote'[t][1] = {} /\ \A u \in Threads \ {t} : wrote'[u] = wrote[u]
    BY <1>3, <2>2, DepthIsPositive DEF BeginOk, OrphanInductive, TypeOK, Depths
  <2>5. OpenerOK'
    BY <2>3, NotRolledBack DEF OpenerOK
  <2>6. EnclosedOK'
    BY <1>0, <1>2, <2>2, <2>3, <2>4 DEF EnclosedOK
  <2>7. HistoryOK'
    BY <2>1, <2>3, <2>4 DEF OrphanInductive, HistoryOK, RefusedNeverDurable
  <2> QED
    BY <1>1, <2>5, <2>6, <2>7 DEF OrphanParts
<1>4. CASE BeginThrows(t, mode)
  <2>1. PICK c \in Errors : ExecThrows(t, c, mode = "deferred")
    BY <1>4, CausesAreErrors DEF BeginThrows
  <2>2. /\ OpenerOK' /\ durable' = durable /\ closed' = closed
        /\ \A u \in Threads \ {t} : err'[u] = err[u]
        /\ \/ opener' = opener /\ pending' = pending
           \/ opener' = None /\ pending' = {} /\ err'[t] = "rolledBack"
    BY <2>1, ThrowsInterrupted
  <2>3. UNCHANGED <<inMutex, depth, unwinding, tried, wrote, promised, refused>>
    BY <1>4 DEF BeginThrows, reportVars
  <2>4. EnclosedOK'
    BY <1>0, <1>2, <2>2, <2>3, BlocksKept, NotRolledBack
  <2>5. HistoryOK'
    BY <2>2, <2>3, HistoryKept
  <2> QED
    BY <1>1, <2>2, <2>4, <2>5 DEF OrphanParts
<1> QED
  BY <1>3, <1>4 DEF Begin

LEMMA WriteInterrupted ==
    ASSUME Enclosed, OrphanInductive, NEW t \in Threads, NEW w \in Writes, Write(t, w)
    PROVE  OrphanParts'
<1>0. MayUse(t) /\ ~unwinding[t] /\ err[t] = None /\ w \notin tried /\ tried' = tried \cup {w}
  BY DEF Write, Calling
<1>1. (FullMutex => MutexExcludes)'
  BY DEF OrphanInductive, Write, WriteOk, WriteThrows, threadVars, MutexExcludes
<1>2. \A u \in Threads : depth[u] \in {0, 1} /\ (depth[u] = 1 => u = t)
                         /\ (unwinding[u] => depth[u] = 1)
  BY <1>0, AloneInterrupted, DepthInterrupted DEF Enclosed
<1>3. /\ w \notin durable \cup pending \cup refused
      /\ \A u \in Threads : w \notin wrote[u][1]
  BY <1>0 DEF OrphanInductive, HistoryOK
<1>4. CASE WriteOk(t, w)
  <2>1. /\ ~closed /\ OpenerOK'
        /\ UNCHANGED <<opener, refused, inMutex, depth, unwinding, err>>
        /\ IF autoCommit THEN durable' = durable \cup {w} /\ pending' = pending
                         ELSE durable' = durable /\ pending' = pending \cup {w}
    BY <1>4, Refused DEF OrphanInductive, OpenerOK, WriteOk, flagVars, threadVars
  <2>2. CASE depth[t] = 0
    <3>1. wrote' = wrote /\ \A u \in Threads : depth[u] = 0
      BY <1>2, <1>4, <2>2 DEF WriteOk
    <3>2. EnclosedOK'
      BY <2>1, <3>1 DEF OrphanInductive, EnclosedOK
    <3>3. HistoryOK'
      BY <1>0, <1>3, <2>1, <3>1 DEF OrphanInductive, HistoryOK, RefusedNeverDurable
    <3> QED
      BY <1>1, <2>1, <3>2, <3>3 DEF OrphanParts
  <2>3. CASE depth[t] = 1
    <3>1. opener = t /\ ~autoCommit /\ pending = wrote[t][1]
      BY <1>0, <2>1, <2>3, NotRolledBack DEF OrphanInductive, OpenerOK, EnclosedOK
    <3>2. /\ wrote'[t][1] = wrote[t][1] \cup {w}
          /\ \A u \in Threads \ {t} : wrote'[u] = wrote[u]
      BY <1>4, <2>3, DepthIsPositive DEF OrphanInductive, TypeOK, WriteOk, Depths
    <3>3. EnclosedOK'
      BY <1>2, <2>1, <3>1, <3>2 DEF OrphanInductive, EnclosedOK
    <3>4. HistoryOK'
      BY <1>0, <1>2, <1>3, <2>1, <3>1, <3>2 DEF OrphanInductive, HistoryOK, RefusedNeverDurable
    <3> QED
      BY <1>1, <2>1, <3>3, <3>4 DEF OrphanParts
  <2> QED
    BY <1>2, <2>2, <2>3
<1>5. CASE WriteThrows(t)
  <2>1. PICK c \in Errors : ExecThrows(t, c, FALSE)
    BY <1>5, CausesAreErrors DEF WriteThrows
  <2>2. /\ OpenerOK' /\ durable' = durable /\ closed' = closed
        /\ \A u \in Threads \ {t} : err'[u] = err[u]
        /\ \/ opener' = opener /\ pending' = pending
           \/ opener' = None /\ pending' = {} /\ err'[t] = "rolledBack"
    BY <2>1, ThrowsInterrupted
  <2>3. UNCHANGED <<inMutex, depth, unwinding, wrote, promised, refused>>
    BY <1>5 DEF WriteThrows
  <2>4. EnclosedOK'
    BY <1>0, <1>2, <2>2, <2>3, BlocksKept, NotRolledBack
  <2>5. HistoryOK'
    BY <1>0, <2>2, <2>3, HistoryKept
  <2> QED
    BY <1>1, <2>2, <2>4, <2>5 DEF OrphanParts
<1> QED
  BY <1>4, <1>5 DEF Write

(* Who commits has the transaction, and its writes are all that is pending.   *)
LEMMA Committer ==
    ASSUME OrphanInductive, NEW t \in Threads, Commit(t), CommitOk(t)
    PROVE  /\ depth[t] = 1 /\ opener = t /\ pending = wrote[t][1]
           /\ pending \cap refused = {}
<1>1. ~closed /\ ~autoCommit /\ err[t] = None /\ depth[t] = 1
  BY Refused, DepthInterrupted DEF Commit, CommitOk, Calling
<1>2. opener = t
  BY <1>1, NotRolledBack DEF OrphanInductive, EnclosedOK
<1> QED
  BY <1>1, <1>2 DEF OrphanInductive, EnclosedOK, HistoryOK

LEMMA CommitInterrupted ==
    ASSUME Enclosed, OrphanInductive, NEW t \in Threads, Commit(t)
    PROVE  OrphanParts'
<1>0. MayUse(t) /\ ~unwinding[t] /\ err[t] = None /\ depth[t] = 1
  BY DepthInterrupted DEF Commit, Calling
<1>1. (FullMutex => MutexExcludes)'
  BY DEF OrphanInductive, Commit, CommitOk, CommitThrows, MutexExcludes
<1>2. \A u \in Threads : depth[u] \in {0, 1} /\ (depth[u] = 1 => u = t)
                         /\ (unwinding[u] => depth[u] = 1)
  BY <1>0, AloneInterrupted, DepthInterrupted DEF Enclosed
<1>3. CASE CommitOk(t)
  <2>1. /\ opener = t /\ pending = wrote[t][1] /\ pending \cap refused = {} /\ ~closed
    BY <1>3, Committer, Refused DEF CommitOk
  <2>2. /\ \A u \in Threads : depth'[u] = 0
        /\ opener' = None /\ autoCommit' /\ pending' = {} /\ ~closed'
        /\ durable' = durable \cup pending
        /\ UNCHANGED <<inMutex, unwinding, err, tried, refused, wrote>>
    BY <1>0, <1>2, <1>3, <2>1 DEF CommitOk, OrphanInductive, TypeOK, flagVars
  <2>3. OpenerOK'
    BY <2>2 DEF OpenerOK
  <2>4. EnclosedOK'
    BY <1>0, <1>2, <2>2 DEF EnclosedOK
  <2>5. HistoryOK'
    BY <2>1, <2>2 DEF OrphanInductive, HistoryOK, RefusedNeverDurable
  <2> QED
    BY <1>1, <2>3, <2>4, <2>5 DEF OrphanParts
<1>4. CASE CommitThrows(t)
  <2>1. PICK c \in Errors : ExecThrows(t, c, TRUE)
    BY <1>4, CausesAreErrors DEF CommitThrows, Errors
  <2>2. /\ OpenerOK' /\ durable' = durable /\ closed' = closed
        /\ \A u \in Threads \ {t} : err'[u] = err[u]
        /\ \/ opener' = opener /\ pending' = pending
           \/ opener' = None /\ pending' = {} /\ err'[t] = "rolledBack"
    BY <2>1, ThrowsInterrupted
  <2>3. /\ UNCHANGED <<inMutex, depth, tried, wrote, promised, refused>>
        /\ \A u \in Threads : unwinding'[u] => unwinding[u] \/ u = t
    BY <1>4 DEF CommitThrows, reportVars, OrphanInductive, TypeOK
  <2>4. EnclosedOK'
    BY <1>0, <1>2, <2>2, <2>3, BlocksKept, NotRolledBack
  <2>5. HistoryOK'
    BY <2>2, <2>3, HistoryKept
  <2> QED
    BY <1>1, <2>2, <2>4, <2>5 DEF OrphanParts
<1> QED
  BY <1>3, <1>4 DEF Commit

LEMMA RollbackInterrupted ==
    ASSUME Enclosed, OrphanInductive, NEW t \in Threads, Rollback(t)
    PROVE  OrphanParts'
<1>0. MayUse(t) /\ depth[t] = 1
  BY DepthInterrupted DEF Rollback
<1>1. (FullMutex => MutexExcludes)'
  BY DEF OrphanInductive, Rollback, MutexExcludes
<1>2. \A u \in Threads : depth[u] \in {0, 1} /\ (depth[u] = 1 => u = t)
                         /\ (unwinding[u] => depth[u] = 1)
  BY <1>0, AloneInterrupted, DepthInterrupted DEF Enclosed
<1>3. OpenerOK' /\ durable' = durable /\ pending' \subseteq pending
  <2>1. CASE RollbackOk(t)
    BY <2>1 DEF RollbackOk, DropTransaction, flagVars, OpenerOK
  <2>2. CASE RollbackThrows(t)
    <3>1. PICK c \in Errors : ExecThrows(t, c, TRUE)
      BY <2>2, CausesAreErrors, KnownErrors DEF RollbackThrows, Errors, SQLiteFaults
    <3> QED
      BY <3>1, ThrowsInterrupted
  <2> QED
    BY <2>1, <2>2 DEF Rollback
<1>4. /\ \A u \in Threads : depth'[u] = 0 /\ ~unwinding'[u]
      /\ refused' = refused \cup wrote[t][1]
      /\ UNCHANGED <<inMutex, tried, wrote, promised>>
  BY <1>0, <1>2 DEF Rollback, OrphanInductive, TypeOK
<1>5. EnclosedOK'
  BY <1>4 DEF EnclosedOK
<1>6. HistoryOK'
  BY <1>0, <1>3, <1>4 DEF OrphanInductive, HistoryOK, RefusedNeverDurable
<1> QED
  BY <1>1, <1>3, <1>5, <1>6 DEF OrphanParts

LEMMA OthersInterrupted ==
    ASSUME Enclosed, OrphanInductive, NEW t \in Threads,
           \/ MutexEnter(t) \/ MutexLeave(t) \/ Throw(t) \/ Handle(t)
           \/ OpenCursor(t) \/ CloseCursor(t) \/ Close(t)
    PROVE  OrphanParts'
<1> USE DEF connVars, flagVars, threadVars, reportVars
<1>1. CASE MutexEnter(t) \/ MutexLeave(t)
  <2>1. /\ UNCHANGED <<connVars, flagVars, depth, unwinding, err, reportVars>>
        /\ depth[t] = 0 /\ \A u \in Threads \ {t} : inMutex'[u] = inMutex[u]
    BY <1>1 DEF MutexEnter, MutexLeave, OrphanInductive, TypeOK
  <2>2. (FullMutex => MutexExcludes)'
    BY <1>1 DEF MutexEnter, MutexLeave, MayUse, MutexExcludes, OrphanInductive, TypeOK
  <2>3. OpenerOK' /\ HistoryOK'
    BY <2>1 DEF OrphanInductive, OpenerOK, HistoryOK, RefusedNeverDurable
  <2>4. EnclosedOK'
    BY <2>1 DEF OrphanInductive, EnclosedOK
  <2> QED
    BY <2>2, <2>3, <2>4 DEF OrphanParts
<1>2. CASE Throw(t) \/ Handle(t)
  <2>1. UNCHANGED <<connVars, flagVars, inMutex, depth, reportVars>>
    BY <1>2 DEF Throw, Handle
  <2>2. /\ \A u \in Threads \ {t} : err'[u] = err[u] /\ unwinding'[u] = unwinding[u]
        /\ depth[t] = 1 /\ err[t] = "rolledBack" => err'[t] = err[t]
        /\ unwinding'[t] => depth[t] = 1
    BY <1>2, NotRolledBack, DepthInterrupted
    DEF Throw, Handle, Enclosed, NoBlindCatch, OrphanInductive, TypeOK
  <2> QED
    BY <2>1, <2>2 DEF OrphanInductive, OrphanParts, OpenerOK,
       MutexExcludes, EnclosedOK, HistoryOK, RefusedNeverDurable
<1>3. CASE OpenCursor(t) \/ CloseCursor(t)
  BY <1>3 DEF OpenCursor, CloseCursor, OrphanInductive, OrphanParts, OpenerOK,
     MutexExcludes, EnclosedOK, HistoryOK, RefusedNeverDurable
<1>4. CASE Close(t)
  <2>1. MayUse(t) /\ err[t] = None /\ UNCHANGED <<inMutex, depth, unwinding, reportVars>>
    BY <1>4 DEF Close, Calling
  <2>2. /\ OpenerOK' /\ durable' = durable /\ pending' \subseteq pending
        /\ \A u \in Threads \ {t} : err'[u] = err[u]
        /\ \/ opener' = opener /\ pending' = pending /\ closed' = closed
           \/ opener' = None /\ closed'
    BY <1>4 DEF Close, DropTransaction, OrphanInductive, OpenerOK, TypeOK
  <2>3. EnclosedOK'
    BY <2>1, <2>2, BlocksKept, DepthInterrupted, NotRolledBack
  <2>4. HistoryOK'
    BY <2>1, <2>2, HistoryKept
  <2>5. (FullMutex => MutexExcludes)'
    BY <2>1 DEF OrphanInductive, MutexExcludes
  <2> QED
    BY <2>2, <2>3, <2>4, <2>5 DEF OrphanParts
<1> QED
  BY <1>1, <1>2, <1>3, <1>4

LEMMA OrphanStep ==
    ASSUME Enclosed, OrphanInductive, [Next]_vars
    PROVE  OrphanInductive'
<1>1. TypeOK'
  <2>1. \A t \in Threads : unwinding[t] => depth[t] > 0
    BY DepthInterrupted
  <2>2. Typed
    BY <2>1 DEF Typed, OrphanInductive
  <2> QED
    BY <2>2, TypedStep DEF Typed
<1>2. OrphanParts'
  <2>1. CASE Interrupt \/ UNCHANGED vars
    BY <2>1
    DEF Interrupt, OrphanInductive, OrphanParts, OpenerOK, MutexExcludes, EnclosedOK, HistoryOK,
        RefusedNeverDurable, vars, connVars, flagVars, threadVars, reportVars
  <2>2. ASSUME NEW t \in Threads, Step(t) PROVE OrphanParts'
    BY <2>2, BeginInterrupted, WriteInterrupted, CommitInterrupted, RollbackInterrupted,
       OthersInterrupted DEF Step
  <2> QED
    BY <2>1, <2>2 DEF Next
<1> QED
  BY <1>1, <1>2 DEF OrphanInductive, OrphanParts

LEMMA OrphanInit == Init => OrphanInductive
<1> SUFFICES ASSUME Init PROVE OrphanInductive
  OBVIOUS
<1>1. TypeOK
  BY TypedInit DEF Typed
<1>2. 1 \in Depths
  BY DepthIsPositive DEF Depths
<1> QED
  BY <1>1, <1>2, NoneIsNew
  DEF Init, OrphanInductive, OpenerOK, MutexExcludes, EnclosedOK, HistoryOK, RefusedNeverDurable

(* The inductive invariant of a connection that interrupt() and interrupted   *)
(* ROLLBACKs may leave with a transaction that no perform() is in.            *)
THEOREM OrphanInductiveHolds == ASSUME Enclosed PROVE Spec => []OrphanInductive
<1>1. OrphanInductive /\ [Next]_vars => OrphanInductive'
  BY OrphanStep
<1> QED
  BY <1>1, OrphanInit, PTL DEF Spec

(* Whatever is interrupted, the ROLLBACK in the catch of perform included, no *)
(* write of a block that threw is ever committed, by this block or by another.*)
THEOREM RefusedStaysOut == ASSUME Enclosed PROVE Spec => []RefusedNeverDurable
<1>1. OrphanInductive => RefusedNeverDurable
  BY DEF OrphanInductive, HistoryOK
<1> QED
  BY <1>1, OrphanInductiveHolds, PTL

(* A perform() in its catch never waits for db->mutex: no other thread can    *)
(* keep its ROLLBACK from being tried.  (That it is tried is UnwindingEnds.)  *)
THEOREM CatchNeverWaits ==
    ASSUME Enclosed
    PROVE  Spec => [](\A t \in Threads : unwinding[t] => MayUse(t))
<1>1. ASSUME OrphanInductive, NEW t \in Threads, unwinding[t] PROVE MayUse(t)
  <2>1. CASE \A u, v \in Threads : u = v
    BY <2>1 DEF MayUse
  <2>2. CASE FullMutex /\ RequireMutex
    BY <1>1, <2>2 DEF OrphanInductive, EnclosedOK, MutexExcludes, MayUse
  <2> QED
    BY <2>1, <2>2 DEF Enclosed, Exclusive
<1>2. OrphanInductive => \A t \in Threads : unwinding[t] => MayUse(t)
  BY <1>1
<1> QED
  BY <1>2, OrphanInductiveHolds, PTL

(* While such a transaction is left open nothing at all is committed: every   *)
(* BEGIN fails in it and every exec() joins it.                               *)
THEOREM OrphansStopCommits == ASSUME Enclosed PROVE Spec => NothingDurableWhileOrphaned
<1> DEFINE Stopped == refused \cap pending # {} => UNCHANGED durable
<1>1. ASSUME OrphanInductive, [Next]_vars PROVE [Stopped]_vars
  <2> SUFFICES ASSUME refused \cap pending # {}, Next PROVE durable' = durable
    BY <1>1
  <2>1. CASE Interrupt
    BY <2>1 DEF Interrupt, connVars
  <2>2. ASSUME NEW t \in Threads, NEW w \in Writes, Write(t, w) PROVE durable' = durable
    <3>1. ~autoCommit
      BY <1>1 DEF OrphanInductive, OpenerOK
    <3> QED
      BY <2>2, <3>1 DEF Write, WriteOk, WriteThrows, ExecThrows, DropTransaction, connVars
  <2>3. ASSUME NEW t \in Threads, Commit(t) PROVE durable' = durable
    <3>1. ~CommitOk(t)
      BY <1>1, <2>3, Committer
    <3> QED
      BY <2>3, <3>1 DEF Commit, CommitThrows, ExecThrows, DropTransaction, connVars
  <2>4. ASSUME NEW t \in Threads,
               \/ MutexEnter(t) \/ MutexLeave(t) \/ Throw(t) \/ Handle(t) \/ Rollback(t)
               \/ OpenCursor(t) \/ CloseCursor(t) \/ Close(t)
               \/ \E mode \in Modes : Begin(t, mode)
        PROVE  durable' = durable
    BY <2>4 DEF MutexEnter, MutexLeave, Throw, Handle, Rollback, RollbackOk, RollbackThrows,
       OpenCursor, CloseCursor, Close, Begin, BeginOk, BeginThrows, ExecThrows,
       DropTransaction, connVars
  <2> QED
    BY <2>1, <2>2, <2>3, <2>4 DEF Next, Step
<1>2. OrphanInductive /\ [Next]_vars => [Stopped]_vars
  BY <1>1
<1> QED
  BY <1>2, OrphanInductiveHolds, PTL DEF Spec, NothingDurableWhileOrphaned

-----------------------------------------------------------------------------
(* Across the conditions.                                                     *)

(* No write that a caller was told is refused is committed after it was: not  *)
(* by a block that goes on without its transaction, not by another block, and *)
(* not by one that finds the transaction of an interrupted ROLLBACK.          *)
THEOREM RefusedNotCommittedLater ==
    ASSUME Exclusive, NoInterrupts \/ NoBlindCatch
    PROVE  Spec => RefusedNeverCommitted
<1> DEFINE Kept == refused \cap durable' \subseteq durable
<1>1. ASSUME pending \cap refused = {}, refused \subseteq tried, Next PROVE Kept
  <2>1. CASE Interrupt
    BY <2>1 DEF Interrupt, connVars
  <2>2. ASSUME NEW t \in Threads, NEW w \in Writes, Write(t, w) PROVE Kept
    BY <1>1, <2>2
    DEF Write, WriteOk, WriteThrows, ExecThrows, DropTransaction, connVars
  <2>3. ASSUME NEW t \in Threads, Commit(t) PROVE Kept
    BY <1>1, <2>3
    DEF Commit, CommitOk, CommitThrows, ExecThrows, DropTransaction, connVars
  <2>4. ASSUME NEW t \in Threads,
               \/ MutexEnter(t) \/ MutexLeave(t) \/ Throw(t) \/ Handle(t) \/ Rollback(t)
               \/ OpenCursor(t) \/ CloseCursor(t) \/ Close(t)
               \/ \E mode \in Modes : Begin(t, mode)
        PROVE  Kept
    BY <2>4 DEF MutexEnter, MutexLeave, Throw, Handle, Rollback, RollbackOk, RollbackThrows,
       OpenCursor, CloseCursor, Close, Begin, BeginOk, BeginThrows, ExecThrows,
       DropTransaction, connVars
  <2> QED
    BY <1>1, <2>1, <2>2, <2>3, <2>4 DEF Next, Step
<1>2. CASE NoInterrupts
  <2>1. SwallowInductive /\ [Next]_vars => [Kept]_vars
    BY <1>1 DEF SwallowInductive, AccountsOK
  <2> QED
    BY <1>2, <2>1, SwallowInductiveHolds, PTL DEF Quiet, Spec, RefusedNeverCommitted
<1>3. CASE NoBlindCatch
  <2>1. OrphanInductive /\ OrphanInductive' /\ [Next]_vars => [Kept]_vars
    <3> SUFFICES ASSUME OrphanInductive, OrphanInductive', Next PROVE Kept
      OBVIOUS
    <3>1. refused' \cap durable' = {}
      BY DEF OrphanInductive, HistoryOK, RefusedNeverDurable
    <3>2. refused \subseteq refused'
      BY DEF Next, Step, Interrupt, MutexEnter, MutexLeave, Throw, Handle, Rollback, OpenCursor,
         CloseCursor, Close, Begin, BeginOk, BeginThrows, Write, WriteOk, WriteThrows, Commit,
         CommitOk, CommitThrows, reportVars
    <3> QED
      BY <3>1, <3>2
  <2> QED
    BY <1>3, <2>1, OrphanInductiveHolds, PTL DEF Enclosed, Spec, RefusedNeverCommitted
<1> QED
  BY <1>2, <1>3

(* The connection knows whether a transaction is open, under no condition.    *)
LEMMA OpenerStep ==
    ASSUME Typed, OpenerOK, [Next]_vars
    PROVE  OpenerOK'
<1> USE DEF OpenerOK, DropTransaction, connVars
<1>1. CASE Interrupt \/ UNCHANGED vars
  BY <1>1 DEF Interrupt, vars, flagVars
<1>2. ASSUME NEW t \in Threads, Step(t) PROVE OpenerOK'
  <2>1. CASE \/ MutexEnter(t) \/ MutexLeave(t) \/ Throw(t) \/ Handle(t)
             \/ OpenCursor(t) \/ CloseCursor(t) \/ Close(t)
    BY <2>1 DEF MutexEnter, MutexLeave, Throw, Handle, OpenCursor, CloseCursor, Close, flagVars
  <2>2. ASSUME NEW mode \in Modes, Begin(t, mode) PROVE OpenerOK'
    BY <2>2, NotRolledBack, Refused DEF Begin, BeginOk, BeginThrows, ExecThrows, flagVars
  <2>3. ASSUME NEW w \in Writes, Write(t, w) PROVE OpenerOK'
    BY <2>3 DEF Write, WriteOk, WriteThrows, ExecThrows, flagVars
  <2>4. CASE Commit(t) \/ Rollback(t)
    BY <2>4 DEF Commit, CommitOk, CommitThrows, Rollback, RollbackOk, RollbackThrows,
       ExecThrows, flagVars
  <2> QED
    BY <1>2, <2>1, <2>2, <2>3, <2>4 DEF Step
<1> QED
  BY <1>1, <1>2 DEF Next

(* The thread whose transaction is open can leave its block and not end it    *)
(* only through the catch of perform.                                         *)
LEMMA LeavesOpen ==
    ASSUME Typed, NEW o \in Threads, opener = o, opener' = opener, ~autoCommit,
           depth[o] > 0, ~(depth'[o] > 0), NEW t \in Threads, Step(t)
    PROVE  t = o /\ Rollback(o) /\ RollbackThrows(o)
<1> USE NotRolledBack DEF Typed, TypeOK
<1>1. ~\/ MutexEnter(t) \/ MutexLeave(t) \/ Throw(t) \/ Handle(t)
       \/ OpenCursor(t) \/ CloseCursor(t) \/ Close(t)
  BY DEF MutexEnter, MutexLeave, Throw, Handle, OpenCursor, CloseCursor, Close, threadVars
<1>2. \A mode \in Modes : ~Begin(t, mode)
  BY DEF Begin, BeginOk, BeginThrows
<1>3. \A w \in Writes : ~Write(t, w)
  BY DEF Write, WriteOk, WriteThrows, threadVars
<1>4. ~Commit(t)
  BY DEF Commit, CommitOk, CommitThrows
<1>5. Rollback(t)
  BY <1>1, <1>2, <1>3, <1>4 DEF Step
<1>6. t = o
  BY <1>5 DEF Rollback
<1> QED
  BY <1>5, <1>6 DEF Rollback, RollbackOk, DropTransaction

(* Only an interrupted ROLLBACK, reported to its caller, ever leaves an open  *)
(* transaction without a perform() that will end it: no lack of a mutex, no   *)
(* failed BEGIN or COMMIT and no block that catches any error does it.        *)
THEOREM OrphansOnlyByInterrupt == Spec => OrphanedOnlyByInterrupt
<1> DEFINE OnlyInterrupted ==
             NoOrphanTransaction /\ ~NoOrphanTransaction' =>
                \E t \in Threads :
                    opener = t /\ unwinding[t] /\ ~unwinding'[t] /\ err'[t] = "interrupt"
<1>1. ASSUME Typed, Typed', OpenerOK, OpenerOK', Next,
             NoOrphanTransaction, ~NoOrphanTransaction'
      PROVE  \E t \in Threads :
                 opener = t /\ unwinding[t] /\ ~unwinding'[t] /\ err'[t] = "interrupt"
  <2>1. PICK o \in Threads : opener' = o /\ ~(depth'[o] > 0)
    BY <1>1 DEF NoOrphanTransaction, OpenerOK, Typed, TypeOK
  <2>2. ~Interrupt
    BY <1>1 DEF Interrupt, connVars, threadVars, NoOrphanTransaction
  <2>3. PICK t \in Threads : Step(t)
    BY <1>1, <2>2 DEF Next
  <2>4. opener' = opener
    <3>1. ASSUME BeginOk(t) PROVE FALSE
      BY <1>1, <2>1, <3>1 DEF BeginOk, Typed, TypeOK
    <3> QED
      BY <2>1, <2>3, <3>1, NotRolledBack
      DEF Step, MutexEnter, MutexLeave, Throw, Handle, OpenCursor, CloseCursor, Close, Begin,
          BeginThrows, Write, WriteOk, WriteThrows, Commit, CommitOk, CommitThrows, Rollback,
          RollbackOk, RollbackThrows, ExecThrows, DropTransaction, connVars
  <2>5. ~autoCommit /\ depth[o] > 0
    BY <1>1, <2>1, <2>4, NotRolledBack DEF OpenerOK, NoOrphanTransaction
  <2>6. Rollback(o) /\ RollbackThrows(o)
    BY <1>1, <2>1, <2>3, <2>4, <2>5, LeavesOpen
  <2>7. ExecThrows(o, "interrupt", TRUE)
    BY <1>1, <2>5, <2>6 DEF RollbackThrows, Refusals, OpenerOK
  <2>8. err'[o] = "interrupt"
    BY <1>1, <2>7 DEF ExecThrows, Typed, TypeOK
  <2>9. unwinding[o] /\ ~unwinding'[o]
    BY <1>1, <2>6 DEF Rollback, Typed, TypeOK
  <2> QED
    BY <2>1, <2>4, <2>8, <2>9
<1>2. Typed /\ Typed' /\ OpenerOK /\ OpenerOK' /\ [Next]_vars => [OnlyInterrupted]_vars
  BY <1>1
<1>3. Init => OpenerOK
  BY NoneIsNew DEF Init, OpenerOK
<1>4. Typed /\ OpenerOK /\ [Next]_vars => OpenerOK'
  BY OpenerStep
<1> QED
  BY <1>2, <1>3, <1>4, TypedInit, TypedStep, PTL DEF Spec, OrphanedOnlyByInterrupt

(* With interrupts perform() still rethrows the error it met: its ROLLBACK    *)
(* replaces it by nothing but an interrupt, the closed context, or an error   *)
(* that came when SQLite had rolled back already.                             *)
THEOREM ErrorOrInterrupt == ASSUME Enclosed PROVE Spec => OriginalOrInterrupt
<1> DEFINE Survives == \A t \in Threads :
                          unwinding[t] /\ ~unwinding'[t] /\ err'[t] # err[t]
                             => closed \/ err[t] = "rolledBack" \/ err'[t] = "interrupt"
<1>1. ASSUME OrphanInductive, Next, NEW t \in Threads,
             unwinding[t], ~unwinding'[t], err'[t] # err[t], ~closed, err[t] # "rolledBack"
      PROVE  err'[t] = "interrupt"
  <2>1. ~autoCommit
    BY <1>1, NotRolledBack DEF OrphanInductive, EnclosedOK, OpenerOK
  <2>2. ~Interrupt
    BY <1>1 DEF Interrupt, threadVars
  <2>3. PICK u \in Threads : Step(u)
    BY <1>1, <2>2 DEF Next
  <2>4. Rollback(u)
    <3>1. ASSUME Commit(u) \/ Throw(u) PROVE unwinding'[t]
      BY <1>1, <3>1 DEF Commit, CommitOk, CommitThrows, Throw, OrphanInductive, TypeOK
    <3> QED
      BY <1>1, <2>3, <3>1
      DEF Step, MutexEnter, MutexLeave, Begin, BeginOk, BeginThrows, Handle,
          Write, WriteOk, WriteThrows, OpenCursor, CloseCursor, Close, threadVars
  <2>5. u = t
    BY <1>1, <2>4 DEF Rollback, OrphanInductive, TypeOK
  <2>6. RollbackThrows(t)
    BY <1>1, <2>4, <2>5 DEF Rollback, RollbackOk
  <2>7. ExecThrows(t, "interrupt", TRUE)
    BY <1>1, <2>1, <2>6 DEF RollbackThrows, Refusals
  <2> QED
    BY <1>1, <2>7 DEF ExecThrows, OrphanInductive, TypeOK
<1>2. OrphanInductive /\ [Next]_vars => [Survives]_vars
  BY <1>1
<1> QED
  BY <1>2, OrphanInductiveHolds, PTL DEF Spec, OriginalOrInterrupt

=============================================================================
