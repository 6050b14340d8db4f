---------------------------- MODULE MigrateProofs ----------------------------
(* Theorems about Migrate, for any processes, arrays and bound.               *)
EXTENDS Migrate, SequenceTheorems, TLAPS

-----------------------------------------------------------------------------
(* What a call of migrate knows of the log, whatever fails: the migrations    *)
(* before its loop variable have been applied, and when it has returned these *)
(* are all of its array.                                                      *)
Progress ==
    /\ NoneSkipped
    /\ \A m \in Migrators :
          /\ \A k \in 0 .. next[m] - 1 : Applied(k)
          /\ Returned(m) => next[m] >= size[m]

Counters ==
    /\ version \in Nat
    /\ log \in Seq(Int)
    /\ next \in [Migrators -> Nat]
    /\ size \in [Migrators -> Nat]

LEMMA AppliedStays ==
    ASSUME log \in Seq(Int), NEW k, Applied(k), NEW j \in Int, log' = Append(log, j)
    PROVE  Applied(k)'
<1>1. PICK i \in DOMAIN log : log[i] = k
  BY DEF Applied
<1>2. i \in DOMAIN log' /\ log'[i] = k
  BY <1>1
<1> QED
  BY <1>2 DEF Applied

LEMMA AppliedNow ==
    ASSUME log \in Seq(Int), NEW j \in Int, log' = Append(log, j)
    PROVE  Applied(j)'
<1>1. Len(log) + 1 \in DOMAIN log' /\ log'[Len(log) + 1] = j
  OBVIOUS
<1> QED
  BY <1>1 DEF Applied

LEMMA CountersStep == Counters /\ [Next]_vars => Counters'
<1> SUFFICES ASSUME Counters, [Next]_vars PROVE Counters'
  OBVIOUS
<1> USE DEF Counters
<1>1. ASSUME NEW m \in Migrators, Commit(m) PROVE Counters'
  BY <1>1 DEF Commit
<1>2. ASSUME NEW m \in Migrators, NEW n \in Sizes, Start(m, n) PROVE Counters'
  BY <1>2, SizesOK DEF Start
<1>3. ASSUME NEW m \in Migrators, Advance(m) \/ Crash(m), ~Commit(m)
      PROVE Counters'
  BY <1>3 DEF Advance, Finish, Begin, RunMigration, MigrationThrows, SetVersion,
              SetVersionFails, SetVersionRollsBack, CommitThrows, Rollback, Crash
<1>4. CASE UNCHANGED vars
  BY <1>4 DEF vars
<1> QED
  BY <1>1, <1>2, <1>3, <1>4 DEF Next, Advance

Shape ==
    /\ Counters
    /\ pc \in [Migrators -> Labels]
    /\ bumped \in [Migrators -> BOOLEAN]

LEMMA ShapeStep == Shape /\ [Next]_vars => Shape'
<1> SUFFICES ASSUME Shape, [Next]_vars PROVE Shape'
  OBVIOUS
<1>1. Counters'
  BY CountersStep DEF Shape
<1>2. pc' \in [Migrators -> Labels] /\ bumped' \in [Migrators -> BOOLEAN]
  <2> USE DEF Shape, Goto, Labels
  <2> DEFINE Goal == pc \in [Migrators -> Labels] /\ bumped \in [Migrators -> BOOLEAN]
  <2>1. ASSUME NEW m \in Migrators, NEW n \in Sizes, Start(m, n)
        PROVE  Goal'
    BY <2>1 DEF Start
  <2>2. ASSUME NEW m \in Migrators, Advance(m) \/ Crash(m) PROVE Goal'
    BY <2>2 DEF Advance, Finish, Begin, RunMigration, MigrationThrows, SetVersion,
                SetVersionFails, SetVersionRollsBack, Commit, CommitThrows,
                Rollback, Crash
  <2>3. CASE UNCHANGED vars
    BY <2>3 DEF vars
  <2> QED
    BY <2>1, <2>2, <2>3 DEF Next
<1> QED
  BY <1>1, <1>2 DEF Shape

(* The log grows at its end by migrations whose predecessors are in it.       *)
LEMMA OrderStays ==
    ASSUME log \in Seq(Int), InOrder, NEW j \in Int, log' = Append(log, j),
           \A k \in 0 .. j - 1 : Applied(k)
    PROVE  InOrder'
<1> SUFFICES ASSUME NEW i \in DOMAIN log', NEW k \in 0 .. log'[i] - 1
             PROVE  \E l \in 1 .. i - 1 : log'[l] = k
  BY DEF InOrder
<1>1. /\ Len(log) \in Nat /\ DOMAIN log = 1 .. Len(log)
      /\ DOMAIN log' = 1 .. Len(log) + 1 /\ log'[Len(log) + 1] = j
      /\ \A l \in 1 .. Len(log) : log'[l] = log[l]
  OBVIOUS
<1>2. CASE i \in 1 .. Len(log)
  <2>1. PICK l \in 1 .. i - 1 : log[l] = k
    BY <1>1, <1>2 DEF InOrder
  <2>2. l \in 1 .. Len(log)
    BY <1>1, <1>2
  <2> QED
    BY <1>1, <2>1, <2>2
<1>3. CASE i = Len(log) + 1
  <2>1. PICK l \in DOMAIN log : log[l] = k
    BY <1>1, <1>3 DEF Applied
  <2> QED
    BY <1>1, <1>3, <2>1
<1> QED
  BY <1>1, <1>2, <1>3

LEMMA ProgressStep == Shape /\ Progress /\ [Next]_vars => Progress'
<1> SUFFICES ASSUME Shape, Progress, [Next]_vars PROVE Progress'
  OBVIOUS
<1> USE DEF Shape, Returned
<1>1. ASSUME NEW m \in Migrators, Commit(m) PROVE Progress'
  <2> PICK j \in Nat : j = next[m]
    BY DEF Counters
  <2>1. \A k : Applied(k) => Applied(k)'
    BY <1>1, AppliedStays DEF Commit, Counters
  <2>2. Applied(j)'
    BY <1>1, AppliedNow DEF Commit, Counters
  <2>3. \A k \in 0 .. j : Applied(k)'
    BY <2>1, <2>2 DEF Progress
  <2>4. \A p \in Migrators : \A k \in 0 .. next'[p] - 1 : Applied(k)'
    BY <1>1, <2>1, <2>3 DEF Commit, Progress, Counters
  <2>5. Counted'
    BY <1>1, <2>1, <2>3 DEF Commit, Progress, NoneSkipped, Counted, Counters
  <2>6. InOrder'
    <3>1. log' = Append(log, j) /\ \A k \in 0 .. j - 1 : Applied(k)
      BY <1>1 DEF Commit, Progress
    <3> QED
      BY <3>1, OrderStays DEF Progress, NoneSkipped, Counters
  <2>7. \A p \in Migrators : pc'[p] = "returned" => next'[p] >= size'[p]
    BY <1>1 DEF Commit, Goto, Progress, Counters
  <2> QED
    BY <2>4, <2>5, <2>6, <2>7 DEF Progress, NoneSkipped
<1>2. ASSUME NEW m \in Migrators, NEW n \in Sizes, Start(m, n) PROVE Progress'
  <2>1. UNCHANGED <<version, log>> /\ \A k : Applied(k)' <=> Applied(k)
    BY <1>2 DEF Start, Applied
  <2>2. PICK v \in {version, 0} :
            /\ next' = [next EXCEPT ![m] = v]
            /\ pc' \in {[pc EXCEPT ![m] = "trapped"], [pc EXCEPT ![m] = "loop"]}
    BY <1>2 DEF Start, Goto
  <2>3. size' = [size EXCEPT ![m] = n]
    BY <1>2 DEF Start
  <2>4. NoneSkipped'
    BY <2>1 DEF Progress, NoneSkipped, Counted, InOrder
  <2> QED
    BY <2>1, <2>2, <2>3, <2>4 DEF Progress, NoneSkipped, Counted, Counters
<1>3. ASSUME NEW m \in Migrators, Finish(m) PROVE Progress'
  BY <1>3 DEF Finish, Goto, Progress, NoneSkipped, Counted, InOrder, Applied, Counters
<1>4. ASSUME NEW m \in Migrators, Advance(m) \/ Crash(m), ~Commit(m), ~Finish(m)
      PROVE Progress'
  <2>1. /\ UNCHANGED <<version, log, next, size>>
        /\ pc' = [pc EXCEPT ![m] = pc'[m]] /\ pc'[m] # "returned"
    BY <1>4 DEF Advance, Begin, RunMigration, MigrationThrows, SetVersion,
                SetVersionFails, SetVersionRollsBack, CommitThrows, Rollback, Crash, Goto
  <2> QED
    BY <2>1 DEF Progress, NoneSkipped, Counted, InOrder, Applied
<1>5. CASE UNCHANGED vars
  BY <1>5 DEF vars, Progress, NoneSkipped, Counted, InOrder, Applied
<1> QED
  BY <1>1, <1>2, <1>3, <1>4, <1>5 DEF Next, Advance

LEMMA ProgressAlways == Spec => [](Shape /\ Progress)
<1>1. Init => Shape /\ Progress
  BY DEF Init, Shape, Labels, Counters, Progress, NoneSkipped, Counted, InOrder, Returned
<1> QED
  BY <1>1, ShapeStep, ProgressStep, PTL DEF Spec

(* No failure, race or repetition makes the version count a migration that    *)
(* was not applied, or applies one before those it builds on.                 *)
THEOREM NoMigrationSkipped == Spec => []NoneSkipped
<1>1. Progress => NoneSkipped
  BY DEF Progress
<1> QED
  BY <1>1, ProgressAlways, PTL

(* A migrate that returns has nothing left to apply in its array, setters     *)
(* that failed in silence, migrations that can be repeated and all.           *)
THEOREM ReturnMeansApplied == Spec => []ReturnedApplied
<1>1. Shape /\ Progress => ReturnedApplied
  BY DEF Progress, ReturnedApplied, Shape, Counters
<1> QED
  BY <1>1, ProgressAlways, PTL

-----------------------------------------------------------------------------
(* The migrations that write and cannot be repeated, and a transaction that   *)
(* has run one of them: it holds the write lock, and the log has it not yet.  *)
Single(k) == k \notin Repeatable
Fresh ==
    \A m \in Migrators :
        pc[m] \in {"ran", "versioned"} /\ Single(next[m])
            => writer = m /\ ~Applied(next[m])

LEMMA AppliedBefore ==
    ASSUME log \in Seq(Int), NEW j \in Int, log' = Append(log, j),
           NEW k, Applied(k)', k # j
    PROVE  Applied(k)
<1>1. PICK i \in DOMAIN log' : log'[i] = k
  BY DEF Applied
<1>2. i # Len(log) + 1
  BY <1>1
<1>3. i \in DOMAIN log /\ log[i] = k
  BY <1>1, <1>2
<1> QED
  BY <1>3 DEF Applied

LEMMA OnceStays ==
    ASSUME log \in Seq(Int), AppliedOnce, NEW n \in Int, log' = Append(log, n),
           Single(n) => ~Applied(n)
    PROVE  AppliedOnce'
<1>1. /\ Len(log) \in Nat /\ DOMAIN log = 1 .. Len(log)
      /\ DOMAIN log' = 1 .. Len(log) + 1 /\ log'[Len(log) + 1] = n
      /\ \A l \in 1 .. Len(log) : log'[l] = log[l]
  OBVIOUS
<1>2. ASSUME NEW i \in 1 .. Len(log), log'[i] = n, Single(n) PROVE FALSE
  BY <1>1, <1>2 DEF Applied
<1>3. ASSUME NEW i \in 1 .. Len(log), NEW j \in 1 .. Len(log),
             log'[i] = log'[j], Single(log'[i])
      PROVE  i = j
  BY <1>1, <1>3 DEF AppliedOnce, Single
<1> QED
  BY <1>1, <1>2, <1>3 DEF AppliedOnce, Single

LEMMA FreshStep ==
    ASSUME Shape, Fresh, AppliedOnce, [Next]_vars
    PROVE  Fresh' /\ AppliedOnce'
<1> USE DEF Shape, Counters
<1>1. ASSUME NEW m \in Migrators, Commit(m) PROVE Fresh' /\ AppliedOnce'
  <2>1. /\ log' = Append(log, next[m]) /\ next[m] \in Int
        /\ next' = [next EXCEPT ![m] = @ + 1] /\ pc' = [pc EXCEPT ![m] = "loop"]
        /\ writer' = IF writer = m THEN None ELSE writer
        /\ pc[m] = "versioned"
    BY <1>1 DEF Commit, Goto, Unlock
  <2>2. AppliedOnce'
    BY <2>1, OnceStays DEF Fresh
  <2>3. ASSUME NEW p \in Migrators, pc'[p] \in {"ran", "versioned"}, Single(next'[p])
        PROVE  writer' = p /\ ~Applied(next[p])'
    <3>1. p # m /\ next'[p] = next[p] /\ pc'[p] = pc[p]
      BY <2>1, <2>3
    <3>2. writer = p /\ ~Applied(next[p])
      BY <2>3, <3>1 DEF Fresh
    <3>3. next[p] # next[m]
      BY <2>1, <2>3, <3>1, <3>2 DEF Fresh
    <3>4. PICK k \in Nat : k = next[p] /\ next'[p] = k
      BY <3>1
    <3>5. ~Applied(k)'
      BY <2>1, <3>2, <3>3, <3>4, AppliedBefore
    <3> QED
      BY <2>1, <3>1, <3>2, <3>4, <3>5 DEF Applied
  <2> QED
    BY <2>2, <2>3 DEF Fresh
<1>2. ASSUME NEW m \in Migrators, RunMigration(m) PROVE Fresh' /\ AppliedOnce'
  <2>1. /\ pc' = [pc EXCEPT ![m] = "ran"] /\ UNCHANGED <<log, next>>
        /\ \/ next[m] \in Repeatable /\ writer' = writer
           \/ /\ MayWrite(m) /\ writer' = m
              /\ Applied(next[m]) => next[m] \in Rerunnable
    BY <1>2 DEF RunMigration, Goto, Repeatable
  <2>2. \A p \in Migrators \ {m} :
            pc[p] \in {"ran", "versioned"} /\ Single(next[p]) => writer' = p
    BY <2>1, NoProcess DEF Fresh, MayWrite
  <2> QED
    BY <2>1, <2>2 DEF Fresh, AppliedOnce, Applied, Single, Repeatable
<1>3. ASSUME NEW m \in Migrators, SetVersion(m) PROVE Fresh' /\ AppliedOnce'
  <2>1. /\ pc' = [pc EXCEPT ![m] = "versioned"] /\ UNCHANGED <<log, next>>
        /\ MayWrite(m) /\ writer' = m /\ pc[m] = "ran"
    BY <1>3 DEF SetVersion, Goto
  <2> QED
    BY <2>1, NoProcess DEF Fresh, AppliedOnce, Applied, MayWrite
<1>4. ASSUME NEW m \in Migrators, SetVersionFails(m) PROVE Fresh' /\ AppliedOnce'
  BY <1>4 DEF SetVersionFails, Goto, Fresh, AppliedOnce, Applied
<1>5. ASSUME NEW m \in Migrators,
             \/ Finish(m) \/ Begin(m) \/ MigrationThrows(m) \/ SetVersionRollsBack(m)
             \/ CommitThrows(m) \/ Rollback(m) \/ Crash(m)
             \/ \E n \in Sizes : Start(m, n)
      PROVE  Fresh' /\ AppliedOnce'
  <2>1. /\ pc' = [pc EXCEPT ![m] = pc'[m]] /\ pc'[m] \notin {"ran", "versioned"}
        /\ writer' = writer \/ (writer = m /\ writer' = None)
        /\ \A p \in Migrators \ {m} : next'[p] = next[p]
        /\ UNCHANGED log
    BY <1>5 DEF Finish, Begin, MigrationThrows, SetVersionRollsBack, CommitThrows,
                Rollback, Crash, Start, Goto, Unlock
  <2> QED
    BY <2>1 DEF Fresh, AppliedOnce, Applied
<1>6. CASE UNCHANGED vars
  BY <1>6 DEF vars, Fresh, AppliedOnce, Applied
<1> QED
  BY <1>1, <1>2, <1>3, <1>4, <1>5, <1>6 DEF Next, Advance

LEMMA FreshAlways == Spec => [](Fresh /\ AppliedOnce)
<1>1. Init => Fresh /\ AppliedOnce
  BY DEF Init, Fresh, AppliedOnce
<1>2. Shape /\ (Fresh /\ AppliedOnce) /\ [Next]_vars => (Fresh /\ AppliedOnce)'
  BY FreshStep
<1> QED
  BY <1>1, <1>2, ProgressAlways, PTL DEF Spec

(* However many processes race through SQLContext.migrate, fail, crash, read  *)
(* a stale version or lose a new one, a migration that writes and cannot be   *)
(* repeated is committed once at most, whatever the others are like.          *)
THEOREM NothingAppliedTwice == Spec => []AppliedOnce
  BY FreshAlways, PTL

-----------------------------------------------------------------------------
(* What is true as long as no migration was applied again: the log is the     *)
(* beginning of the array.                                                    *)
History == log = [i \in 1 .. Len(log) |-> i - 1]
OnceHistory == ~Repeated => History

(* Until a setter drops its error a transaction that is about to commit has   *)
(* counted its migration, and the version is that of the one committed last.  *)
Last == IF log = <<>> THEN 0 ELSE log[Len(log)] + 1
Counting ==
    ~dropped => /\ version = Last
                /\ \A m \in Migrators : pc[m] = "versioned" => bumped[m]

(* Appending what is in the log already is a repetition, and what has been    *)
(* repeated stays so.                                                         *)
LEMMA RepeatedGrows ==
    ASSUME log \in Seq(Int), NEW j \in Int, log' = Append(log, j),
           Repeated \/ Applied(j)
    PROVE  Repeated'
<1>1. /\ Len(log) \in Nat /\ DOMAIN log = 1 .. Len(log)
      /\ DOMAIN log' = 1 .. Len(log) + 1 /\ log'[Len(log) + 1] = j
      /\ \A l \in 1 .. Len(log) : log'[l] = log[l]
  OBVIOUS
<1>2. CASE Repeated
  <2>1. PICK i \in DOMAIN log, l \in DOMAIN log : i # l /\ log[i] = log[l]
    BY <1>2 DEF Repeated
  <2> QED
    BY <1>1, <2>1 DEF Repeated
<1>3. CASE Applied(j)
  <2>1. PICK i \in DOMAIN log : log[i] = j
    BY <1>3 DEF Applied
  <2> QED
    BY <1>1, <2>1 DEF Repeated
<1> QED
  BY <1>2, <1>3

LEMMA AppliedIsLogged ==
    ASSUME Shape, History, NEW k \in Nat
    PROVE  Applied(k) <=> k < Len(log)
<1>1. /\ DOMAIN log = 1 .. Len(log) /\ Len(log) \in Nat
      /\ \A i \in 1 .. Len(log) : log[i] = i - 1
  BY DEF History, Shape, Counters
<1>2. ASSUME k < Len(log) PROVE Applied(k)
  <2>1. k + 1 \in DOMAIN log /\ log[k + 1] = k
    BY <1>1, <1>2
  <2> QED
    BY <2>1 DEF Applied
<1>3. ASSUME Applied(k) PROVE k < Len(log)
  BY <1>1, <1>3 DEF Applied
<1> QED
  BY <1>2, <1>3

LEMMA HistoryGrows ==
    ASSUME Shape, History, log' = Append(log, Len(log))
    PROVE  History' /\ Len(log') = Len(log) + 1
<1>1. log \in Seq(Int) /\ Len(log) \in Nat /\ \A i \in 1 .. Len(log) : log[i] = i - 1
  BY DEF History, Shape, Counters
<1>2. log' \in Seq(Int) /\ Len(log') = Len(log) + 1
  BY <1>1
<1>3. \A i \in 1 .. Len(log) + 1 : log'[i] = i - 1
  BY <1>1
<1>4. log' = [i \in 1 .. Len(log') |-> log'[i]]
  <2>1. log' \in [1 .. Len(log') -> Int]
    BY <1>2, LenProperties
  <2> QED
    BY <2>1
<1> QED
  BY <1>2, <1>3, <1>4 DEF History

LEMMA DroppedStays == [Next]_vars /\ ~dropped' => ~dropped
  BY DEF Next, Advance, Start, Finish, Begin, RunMigration, MigrationThrows,
         SetVersion, SetVersionFails, SetVersionRollsBack, Commit, CommitThrows,
         Rollback, Crash, vars

(* With an exact log the version and the loop variables are behind its end,   *)
(* and a COMMIT appends the migration that comes next.                        *)
LEMMA NothingBeyond ==
    ASSUME Shape, Progress, History
    PROVE  /\ version <= Len(log)
           /\ \A m \in Migrators : next[m] <= Len(log)
<1>1. ASSUME NEW n \in Nat, \A k \in 0 .. n - 1 : Applied(k) PROVE n <= Len(log)
  <2>1. CASE n = 0
    BY <2>1 DEF Shape, Counters
  <2>2. CASE n > 0
    <3>1. n - 1 \in Nat /\ Applied(n - 1)
      BY <1>1, <2>2
    <3> QED
      BY <3>1, AppliedIsLogged DEF Shape, Counters
  <2> QED
    BY <2>1, <2>2
<1> QED
  BY <1>1 DEF Progress, NoneSkipped, Counted, Shape, Counters

LEMMA CommitsNext ==
    ASSUME Shape, Progress, History, NEW m \in Migrators, ~Applied(next[m])
    PROVE  next[m] = Len(log)
<1>1. next[m] \in Nat /\ Len(log) \in Nat
  BY DEF Shape, Counters
<1> QED
  BY <1>1, AppliedIsLogged, NothingBeyond

LEMMA HistoryStep ==
    ASSUME Shape, Progress, OnceHistory, [Next]_vars
    PROVE  OnceHistory'
<1>1. ASSUME NEW m \in Migrators, Commit(m), ~Repeated' PROVE History'
  <2>1. log \in Seq(Int) /\ next[m] \in Int /\ log' = Append(log, next[m])
    BY <1>1 DEF Commit, Shape, Counters
  <2>2. ~Repeated /\ ~Applied(next[m])
    BY <1>1, <2>1, RepeatedGrows
  <2>3. next[m] = Len(log)
    BY <2>2, CommitsNext DEF OnceHistory
  <2> QED
    BY <2>1, <2>2, <2>3, HistoryGrows DEF OnceHistory
<1>2. CASE \A m \in Migrators : ~Commit(m)
  <2>1. UNCHANGED log
    BY <1>2 DEF Next, Advance, Start, Finish, Begin, RunMigration, MigrationThrows,
                SetVersion, SetVersionFails, SetVersionRollsBack, CommitThrows,
                Rollback, Crash, vars
  <2> QED
    BY <2>1 DEF OnceHistory, History, Repeated
<1> QED
  BY <1>1, <1>2 DEF OnceHistory

LEMMA CountingStep ==
    ASSUME Shape, Counting, [Next]_vars
    PROVE  Counting'
<1> SUFFICES ASSUME ~dropped' PROVE Counting'
  BY DEF Counting
<1>a. version = Last /\ \A m \in Migrators : pc[m] = "versioned" => bumped[m]
  BY DroppedStays DEF Counting
<1> USE DEF Shape, Counters, Goto
<1>1. ASSUME NEW m \in Migrators, Commit(m) PROVE Counting'
  <2>1. bumped[m] /\ log' = Append(log, next[m]) /\ version' = next[m] + 1
    BY <1>a, <1>1 DEF Commit
  <2>2. log' # <<>> /\ Len(log') = Len(log) + 1 /\ log'[Len(log) + 1] = next[m]
    <3>1. Len(log') = Len(log) + 1 /\ log'[Len(log) + 1] = next[m] /\ Len(log) \in Nat
      BY <2>1
    <3> QED
      BY <3>1
  <2>3. version' = Last'
    BY <2>1, <2>2 DEF Last
  <2> QED
    BY <1>a, <1>1, <2>3 DEF Commit, Counting
<1>2. ASSUME NEW m \in Migrators, NEW n \in Sizes, Start(m, n) PROVE Counting'
  BY <1>a, <1>2 DEF Start, Counting, Last
<1>3. ASSUME NEW m \in Migrators, Advance(m) \/ Crash(m), ~Commit(m) PROVE Counting'
  BY <1>a, <1>3 DEF Advance, Finish, Begin, RunMigration, MigrationThrows, SetVersion,
                    SetVersionFails, SetVersionRollsBack, CommitThrows, Rollback,
                    Crash, Counting, Last
<1>4. CASE UNCHANGED vars
  BY <1>a, <1>4 DEF vars, Counting, Last
<1> QED
  BY <1>1, <1>2, <1>3, <1>4 DEF Next, Advance

LEMMA HistoryAlways == Spec => [](OnceHistory /\ Counting)
<1>1. Init => OnceHistory /\ Counting
  <2> DEFINE none == <<>>
  <2>1. none = [i \in 1 .. Len(none) |-> i - 1]
    OBVIOUS
  <2>2. Init => log = none /\ version = 0 /\ \A m \in Migrators : pc[m] = "idle"
    BY DEF Init
  <2>3. log = none => History
    BY <2>1 DEF History
  <2>4. log = none /\ version = 0 => version = Last
    BY DEF Last
  <2> HIDE DEF none
  <2> QED
    BY <2>2, <2>3, <2>4 DEF OnceHistory, Counting
<1>2. Shape /\ Progress /\ (OnceHistory /\ Counting) /\ [Next]_vars
        => (OnceHistory /\ Counting)'
  BY HistoryStep, CountingStep
<1> QED
  BY <1>1, <1>2, ProgressAlways, PTL DEF Spec

(* However many processes race through SQLContext.migrate, fail, crash and    *)
(* read stale versions: the version is that of the migration committed last,  *)
(* until a setter drops its error; only what can be repeated is applied again, *)
(* and as long as nothing is, each migration is applied once and in order.    *)
THEOREM HistoryIsExact == Spec => []VersionIsHistory
<1>1. AppliedOnce /\ OnceHistory /\ Counting => VersionIsHistory
  BY DEF OnceHistory, History, Counting, Last, VersionIsHistory
<1> QED
  BY <1>1, FreshAlways, HistoryAlways, PTL

(* When migrate returns its array is applied.  The version has reached the    *)
(* end of it unless some setter has dropped its error, or some process has    *)
(* applied a migration again that can be repeated.                            *)
THEOREM ReturnMeansCurrent == Spec => []ReturnedIsCurrent
<1>1. ASSUME Shape, Progress, OnceHistory, Counting PROVE ReturnedIsCurrent
  <2>1. ReturnedApplied
    BY <1>1 DEF Progress, ReturnedApplied, Shape, Counters
  <2>2. ASSUME ~dropped, ~Repeated, NEW m \in Migrators, Returned(m)
        PROVE  version >= size[m]
    <3>1. History /\ Len(log) \in Nat /\ log \in Seq(Int)
      BY <1>1, <2>2 DEF OnceHistory, Shape, Counters
    <3>2. version = Len(log)
      <4>1. log # <<>> => Len(log) \in 1 .. Len(log) /\ log[Len(log)] = Len(log) - 1
        BY <3>1, EmptySeq DEF History
      <4> QED
        BY <1>1, <2>2, <3>1, <4>1 DEF Counting, Last
    <3>3. next[m] <= Len(log) /\ next[m] >= size[m]
      BY <1>1, <2>2, <3>1, NothingBeyond DEF Progress
    <3> QED
      BY <1>1, <3>1, <3>2, <3>3 DEF Shape, Counters
  <2> QED
    BY <2>1, <2>2 DEF ReturnedIsCurrent
<1>2. Shape /\ Progress /\ OnceHistory /\ Counting => ReturnedIsCurrent
  BY <1>1
<1> QED
  BY <1>2, ProgressAlways, HistoryAlways, PTL

(* Whatever fails or is read too early, the version goes back only in the     *)
(* COMMIT of a migration that was applied before and can be repeated.         *)
THEOREM RegressesInRepeats == Spec => RegressesOnlyByRepeating
<1> DEFINE Repeats ==
        \E m \in Migrators :
            /\ next[m] \in Repeatable /\ Applied(next[m])
            /\ log' = Append(log, next[m])
<1>1. ASSUME Shape, Progress, Fresh, [Next]_vars, version' < version PROVE Repeats
  <2>1. PICK m \in Migrators : Commit(m)
    BY <1>1 DEF Next, Advance, Start, Finish, Begin, RunMigration, MigrationThrows,
                SetVersion, SetVersionFails, SetVersionRollsBack, CommitThrows,
                Rollback, Crash, vars, Shape, Counters
  <2>2. next[m] \in Nat /\ version \in Nat /\ next[m] + 1 < version
    BY <1>1, <2>1 DEF Commit, Shape, Counters
  <2>3. Applied(next[m])
    BY <1>1, <2>2 DEF Progress, NoneSkipped, Counted
  <2>4. next[m] \in Repeatable
    BY <1>1, <2>1, <2>3 DEF Commit, Fresh, Single
  <2> QED
    BY <2>1, <2>3, <2>4 DEF Commit
<1>2. Shape /\ Progress /\ Fresh /\ [Next]_vars => [version' < version => Repeats]_vars
  BY <1>1
<1> QED
  BY <1>2, ProgressAlways, FreshAlways, PTL DEF Spec, RegressesOnlyByRepeating

-----------------------------------------------------------------------------
(* A migration that is begun is one of the array.                             *)
InArray ==
    \A m \in Migrators :
        pc[m] \in {"begun", "ran", "versioned"} => next[m] < size[m]

LEMMA TypeStep ==
    ASSUME TypeOK, InArray, [Next]_vars PROVE (TypeOK /\ InArray)'
<1> USE SizesOK DEF TypeOK, InArray, Goto, Unlock, Labels
<1>1. ASSUME NEW m \in Migrators, NEW n \in Sizes, Start(m, n)
      PROVE  (TypeOK /\ InArray)'
  BY <1>1 DEF Start
<1>2. ASSUME NEW m \in Migrators, Commit(m) PROVE (TypeOK /\ InArray)'
  <2>1. next[m] \in 0 .. N - 1 /\ size[m] \in 0 .. N
    BY <1>2 DEF Commit
  <2>2. log' \in Seq(0 .. N - 1)
    BY <1>2, <2>1 DEF Commit
  <2>3. version' \in 0 .. N /\ next' \in [Migrators -> 0 .. N]
    BY <1>2, <2>1 DEF Commit
  <2> QED
    BY <1>2, <2>2, <2>3 DEF Commit
<1>3. ASSUME NEW m \in Migrators, RunMigration(m) \/ SetVersion(m)
      PROVE  (TypeOK /\ InArray)'
  BY <1>3 DEF RunMigration, SetVersion
<1>4. ASSUME NEW m \in Migrators, Finish(m) \/ Begin(m) \/ MigrationThrows(m)
                                 \/ SetVersionFails(m) \/ CommitThrows(m)
      PROVE  (TypeOK /\ InArray)'
  BY <1>4 DEF Finish, Begin, MigrationThrows, SetVersionFails, CommitThrows
<1>5. ASSUME NEW m \in Migrators, SetVersionRollsBack(m) \/ Rollback(m) \/ Crash(m)
      PROVE  (TypeOK /\ InArray)'
  BY <1>5 DEF SetVersionRollsBack, Rollback, Crash
<1>6. CASE UNCHANGED vars
  BY <1>6 DEF vars
<1> QED
  BY <1>1, <1>2, <1>3, <1>4, <1>5, <1>6 DEF Next, Advance

LEMMA TypesInit == Init => TypeOK /\ InArray
<1> SUFFICES ASSUME Init PROVE TypeOK /\ InArray
  OBVIOUS
<1>1. log \in Seq(0 .. N - 1) /\ 0 \in 0 .. N
  BY SizesOK, EmptySeq DEF Init
<1> QED
  BY <1>1 DEF Init, TypeOK, InArray, Labels

(* The version, the loop variables and the array lengths stay within the      *)
(* longest array, whatever is read, dropped or repeated.                      *)
THEOREM MigrateTypes == Spec => []TypeOK
  BY TypesInit, TypeStep, PTL DEF Spec

-----------------------------------------------------------------------------
(* The steps that are left to a call are no more than its array gives it.     *)
LEMMA StepsAreFew ==
    ASSUME TypeOK, InArray, NEW m \in Migrators
    PROVE  StepsLeft(m) \in 0 .. 4 * N + 2
<1>1. /\ N \in Nat /\ next[m] \in 0 .. N /\ size[m] \in 0 .. N
      /\ pc[m] \in {"begun", "ran", "versioned"} => next[m] < size[m]
  BY SizesOK DEF TypeOK, InArray
<1> QED
  BY <1>1 DEF StepsLeft

LEMMA CallShortens ==
    ASSUME TypeOK, InArray, NEW m \in Migrators, Advance(m)
    PROVE  StepsLeft(m)' < StepsLeft(m)
<1>1. /\ next[m] \in Nat /\ size[m] \in Nat
      /\ pc[m] \in {"begun", "ran", "versioned"} => next[m] < size[m]
  BY SizesOK DEF TypeOK, InArray
<1> USE <1>1 DEF TypeOK, Goto, StepsLeft
<1>2. CASE Commit(m)
  BY <1>2 DEF Commit
<1>3. CASE Finish(m) \/ Begin(m)
  BY <1>3 DEF Finish, Begin
<1>4. CASE RunMigration(m) \/ MigrationThrows(m)
  BY <1>4 DEF RunMigration, MigrationThrows
<1>5. CASE SetVersion(m) \/ SetVersionFails(m) \/ SetVersionRollsBack(m)
  BY <1>5 DEF SetVersion, SetVersionFails, SetVersionRollsBack
<1>6. CASE CommitThrows(m) \/ Rollback(m)
  BY <1>6 DEF CommitThrows, Rollback
<1> QED
  BY <1>2, <1>3, <1>4, <1>5, <1>6 DEF Advance

(* A call of SQLContext.migrate never goes back and is never held up by       *)
(* another process: it is over after four steps for each migration and two.   *)
THEOREM CallsOnlyGoForward == Spec => CallsAreShort
<1> DEFINE Short ==
        \A m \in Migrators :
            /\ StepsLeft(m) \in 0 .. 4 * N + 2
            /\ pc[m] \in Running =>
                  \/ StepsLeft(m)' < StepsLeft(m)
                  \/ UNCHANGED <<pc[m], next[m], size[m]>>
<1>1. ASSUME TypeOK, InArray, Next PROVE Short
  <2> SUFFICES ASSUME NEW m \in Migrators, pc[m] \in Running,
                      ~UNCHANGED <<pc[m], next[m], size[m]>>
               PROVE  StepsLeft(m)' < StepsLeft(m)
    BY <1>1, StepsAreFew
  <2>1. PICK p \in Migrators : Advance(p) \/ Crash(p) \/ \E n \in Sizes : Start(p, n)
    BY <1>1 DEF Next
  <2>2. p = m
    BY <1>1, <2>1 DEF Advance, Finish, Begin, RunMigration, MigrationThrows, SetVersion,
        SetVersionFails, SetVersionRollsBack, Commit, CommitThrows, Rollback, Crash,
        Start, Goto, TypeOK
  <2>3. CASE Advance(m)
    BY <1>1, <2>3, CallShortens
  <2>4. CASE Crash(m)
    <3>1. StepsLeft(m) > 0
      <4> DEFINE left == IF next[m] < size[m] THEN 4 * (size[m] - next[m]) ELSE 0
      <4>1. /\ next[m] \in Nat /\ size[m] \in Nat
            /\ pc[m] \in {"begun", "ran", "versioned"} => next[m] < size[m]
        BY <1>1, SizesOK DEF TypeOK, InArray
      <4>2. left \in Nat /\ (pc[m] \in {"begun", "ran", "versioned"} => left >= 4)
        BY <4>1
      <4> HIDE DEF left
      <4>3. StepsLeft(m) =
                CASE pc[m] = "loop"      -> left + 2
                  [] pc[m] = "begun"     -> left + 1
                  [] pc[m] = "ran"       -> left
                  [] pc[m] = "versioned" -> left - 1
                  [] pc[m] = "unwinding" -> 1
                  [] OTHER               -> 0
        BY DEF StepsLeft, left
      <4> QED
        BY <4>2, <4>3 DEF Running
    <3>2. pc'[m] = "idle"
      BY <1>1, <2>4 DEF Crash, Goto, TypeOK
    <3> QED
      BY <3>1, <3>2 DEF StepsLeft
  <2>5. CASE \E n \in Sizes : Start(m, n)
    BY <2>5 DEF Start, Running
  <2> QED
    BY <2>1, <2>2, <2>3, <2>4, <2>5
<1>2. TypeOK /\ InArray /\ [Next]_vars => [Short]_vars
  BY <1>1
<1>3. Init => TypeOK /\ InArray
  BY TypesInit, SizesOK DEF Init
<1> QED
  BY <1>2, <1>3, TypeStep, PTL DEF Spec, CallsAreShort
=============================================================================
