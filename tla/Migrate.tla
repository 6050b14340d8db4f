------------------------------- MODULE Migrate -------------------------------
(***************************************************************************)
(* SQLContext.migrate: schema migrations counted by PRAGMA user_version.     *)
(*                                                                           *)
(* Several processes open the same database file and call migrate, with      *)
(* shorter or longer arrays of migrations (different releases of the app),   *)
(* and may crash at any point.  Each transaction() is atomic, as Transaction *)
(* and its proofs establish; what is modelled here is what happens between   *)
(* them and who holds the file's write lock.  No busy timeout is ever set,   *)
(* so a lock that is taken is an error at once.                              *)
(***************************************************************************)
EXTENDS Integers, Sequences

CONSTANTS
    Migrators,      \* the processes, each with a connection of its own
    None,           \* no process
    N,              \* bound: the length of the longest array
    Sizes,          \* the lengths of the arrays the releases pass
    Rerunnable,     \* migrations that succeed when they are applied again
                    \* (createTableIfNotExists, an INSERT)
    Passive,        \* migrations that write nothing
    Platforms,      \* the platforms of the callers: "swift", "kotlin" or both
    MaxLog,         \* bound: nothing is repeated once so many have been committed
    Faults          \* the failures that may happen: a subset of AllFaults

(* read:       the version cannot be read (the file is locked by a commit)    *)
(* migration:  a migration closure throws                                     *)
(* setter:     PRAGMA user_version = fails and has no effect                  *)
(* rolledBack: it fails and SQLite rolls the transaction back                 *)
(* commit:     COMMIT is refused                                              *)
AllFaults == {"read", "migration", "setter", "rolledBack", "commit"}

ASSUME NoProcess == None \notin Migrators
ASSUME SizesOK == N \in Nat /\ Sizes \subseteq 0 .. N
ASSUME LogBound == MaxLog \in Nat
ASSUME KnownPlatforms == Platforms \subseteq {"swift", "kotlin"}
ASSUME KnownFaults == Faults \subseteq AllFaults

VARIABLES
    version,        \* PRAGMA user_version, committed
    log,            \* the migrations committed, in order
    writer,         \* the process that holds the write lock, or None
    readers,        \* the processes whose open transaction has read the file
    pc,             \* where each process is in migrate
    size,           \* migrations.count
    next,           \* the loop variable: version
    bumped,         \* the open transaction has set user_version
    dropped         \* history: some setter of userVersion has dropped its error

vars == <<version, log, writer, readers, pc, size, next, bumped, dropped>>

Init ==
    /\ version = 0
    /\ log = <<>>
    /\ writer = None /\ readers = {}
    /\ pc = [m \in Migrators |-> "idle"]
    /\ size = [m \in Migrators |-> 0]
    /\ next = [m \in Migrators |-> 0]
    /\ bumped = [m \in Migrators |-> FALSE]
    /\ dropped = FALSE

Goto(m, label) == pc' = [pc EXCEPT ![m] = label]

(* The locks are given up with the transaction that holds them.               *)
Unlock(m) ==
    /\ writer' = IF writer = m THEN None ELSE writer
    /\ readers' = readers \ {m}

(* Nobody else holds the write lock.                                          *)
MayWrite(m) == writer \in {None, m}

(* What was written gets into the file only when nobody else reads it.        *)
MayCommit(m) == writer = m => readers \subseteq {m}

Applied(k) == \E i \in DOMAIN log : log[i] = k

-----------------------------------------------------------------------------
(* migrate() is called; userVersion is read outside any transaction, and a    *)
(* read that fails counts as 0.  A range whose lower bound is beyond its      *)
(* upper bound is a precondition failure in Swift: the process dies.  In      *)
(* Kotlin it is an empty range.                                               *)
Start(m, n) ==
    /\ pc[m] \in {"idle", "returned", "threw"}
    /\ \E currentVersion \in {version} \cup (IF "read" \in Faults THEN {0} ELSE {}),
          platform \in Platforms :
         /\ next' = [next EXCEPT ![m] = currentVersion]
         /\ Goto(m, IF platform = "swift" /\ currentVersion > n THEN "trapped" ELSE "loop")
    /\ size' = [size EXCEPT ![m] = n]
    /\ UNCHANGED <<version, log, writer, readers, bumped, dropped>>

(* The loop is over and migrate returns.                                      *)
Finish(m) ==
    /\ pc[m] = "loop" /\ next[m] >= size[m]
    /\ Goto(m, "returned")
    /\ UNCHANGED <<version, log, writer, readers, size, next, bumped, dropped>>

(* Mutant: the loop takes in its upper bound.                                 *)
BeginInclusive(m) ==
    /\ pc[m] = "loop"
    /\ Goto(m, "begun")
    /\ bumped' = [bumped EXCEPT ![m] = FALSE]
    /\ UNCHANGED <<version, log, writer, readers, size, next, dropped>>

(* transaction { : BEGIN DEFERRED takes no lock.                              *)
Begin(m) ==
    /\ pc[m] = "loop" /\ next[m] < size[m]
    /\ Goto(m, "begun")
    /\ bumped' = [bumped EXCEPT ![m] = FALSE]
    /\ UNCHANGED <<version, log, writer, readers, size, next, dropped>>

(* Mutant: a migration that does not wait for the write lock.                 *)
RunUnlocked(m) ==
    /\ pc[m] = "begun"
    /\ Goto(m, "ran")
    /\ UNCHANGED <<version, log, writer, readers, size, next, bumped, dropped>>

(* migrations[version](self): its statements run against the committed        *)
(* schema, which may have this migration already: nothing looks at the version *)
(* again.  One that cannot be repeated then fails; one that can may find       *)
(* nothing to write (IF NOT EXISTS) or write again.  A write takes the write   *)
(* lock; what has only been read keeps the others from committing.             *)
RunMigration(m) ==
    /\ pc[m] = "begun"
    /\ Applied(next[m]) => Len(log) < MaxLog
    /\ \/ /\ next[m] \in Passive
          /\ readers' \in {readers, readers \cup {m}}
          /\ UNCHANGED writer
       \/ /\ Applied(next[m]) /\ next[m] \in Rerunnable
          /\ readers' = readers \cup {m}
          /\ UNCHANGED writer
       \/ /\ next[m] \notin Passive
          /\ Applied(next[m]) => next[m] \in Rerunnable
          /\ MayWrite(m)
          /\ writer' = m
          /\ UNCHANGED readers
    /\ Goto(m, "ran")
    /\ UNCHANGED <<version, log, size, next, bumped, dropped>>

(* It throws: the lock is taken, it has been applied before, or a statement   *)
(* of it fails.                                                               *)
MigrationThrows(m) ==
    /\ pc[m] = "begun"
    /\ \/ next[m] \notin Passive /\ ~MayWrite(m)
       \/ next[m] \notin Passive /\ Applied(next[m]) /\ next[m] \notin Rerunnable
       \/ "migration" \in Faults
    /\ Goto(m, "unwinding")
    /\ UNCHANGED <<version, log, writer, readers, size, next, bumped, dropped>>

(* Mutant: the version is written outside the transaction.                    *)
SetVersionAtOnce(m) ==
    /\ pc[m] = "ran"
    /\ MayWrite(m)
    /\ writer' = m
    /\ version' = next[m] + 1
    /\ bumped' = [bumped EXCEPT ![m] = TRUE]
    /\ Goto(m, "versioned")
    /\ UNCHANGED <<log, readers, size, next, dropped>>

(* self.userVersion = version + 1, in the transaction.                        *)
SetVersion(m) ==
    /\ pc[m] = "ran"
    /\ MayWrite(m)
    /\ writer' = m
    /\ bumped' = [bumped EXCEPT ![m] = TRUE]
    /\ Goto(m, "versioned")
    /\ UNCHANGED <<version, log, readers, size, next, dropped>>

(* The setter is "_ = try?": it fails and the block goes on.                  *)
SetVersionFails(m) ==
    /\ pc[m] = "ran"
    /\ ~MayWrite(m) \/ "setter" \in Faults
    /\ Goto(m, "versioned")
    /\ dropped' = TRUE
    /\ UNCHANGED <<version, log, writer, readers, size, next, bumped>>

(* The setter fails and takes the transaction with it: the COMMIT that        *)
(* follows finds none and throws.                                             *)
SetVersionRollsBack(m) ==
    /\ pc[m] = "ran"
    /\ "rolledBack" \in Faults
    /\ Goto(m, "unwinding")
    /\ Unlock(m)
    /\ UNCHANGED <<version, log, size, next, bumped, dropped>>

(* } : COMMIT, and on to the next migration.                                  *)
Commit(m) ==
    /\ pc[m] = "versioned"
    /\ MayCommit(m)
    /\ log' = Append(log, next[m])
    /\ version' = IF bumped[m] THEN next[m] + 1 ELSE version
    /\ Unlock(m)
    /\ next' = [next EXCEPT ![m] = @ + 1]
    /\ Goto(m, "loop")
    /\ UNCHANGED <<size, bumped, dropped>>

(* COMMIT is refused, because somebody reads the file or otherwise: perform   *)
(* rolls back.                                                                *)
CommitThrows(m) ==
    /\ pc[m] = "versioned"
    /\ ~MayCommit(m) \/ "commit" \in Faults
    /\ Goto(m, "unwinding")
    /\ UNCHANGED <<version, log, writer, readers, size, next, bumped, dropped>>

(* Mutant: a migrate that goes on with the next migration after an error.     *)
RollbackContinues(m) ==
    /\ pc[m] = "unwinding"
    /\ Unlock(m)
    /\ next' = [next EXCEPT ![m] = @ + 1]
    /\ Goto(m, "loop")
    /\ UNCHANGED <<version, log, size, bumped, dropped>>

(* Mutant: a migrate that tries the failed migration again.                   *)
RollbackRetries(m) ==
    /\ pc[m] = "unwinding"
    /\ Unlock(m)
    /\ Goto(m, "loop")
    /\ UNCHANGED <<version, log, size, next, bumped, dropped>>

(* ROLLBACK, and migrate throws.                                              *)
Rollback(m) ==
    /\ pc[m] = "unwinding"
    /\ Unlock(m)
    /\ Goto(m, "threw")
    /\ UNCHANGED <<version, log, size, next, bumped, dropped>>

(* The process dies and is launched again; the open transaction is undone.    *)
Crash(m) ==
    /\ pc[m] # "idle"
    /\ Unlock(m)
    /\ Goto(m, "idle")
    /\ UNCHANGED <<version, log, size, next, bumped, dropped>>

Advance(m) ==
    \/ Finish(m) \/ Begin(m)
    \/ RunMigration(m) \/ MigrationThrows(m)
    \/ SetVersion(m) \/ SetVersionFails(m) \/ SetVersionRollsBack(m)
    \/ Commit(m) \/ CommitThrows(m) \/ Rollback(m)

Next == \E m \in Migrators : Advance(m) \/ Crash(m) \/ \E n \in Sizes : Start(m, n)

Spec == Init /\ [][Next]_vars

(* A call of migrate that has begun runs on: it waits for nobody, because a   *)
(* lock that is taken is an error and not a wait.                             *)
FairSpec == Spec /\ \A m \in Migrators : WF_vars(Advance(m))

-----------------------------------------------------------------------------
Labels == {"idle", "loop", "begun", "ran", "versioned", "unwinding",
           "returned", "threw", "trapped"}

(* The types of the database and of the calls of migrate.                     *)
TypeOK ==
    /\ version \in 0 .. N
    /\ log \in Seq(0 .. N - 1)
    /\ writer \in Migrators \cup {None}
    /\ readers \subseteq Migrators
    /\ pc \in [Migrators -> Labels]
    /\ size \in [Migrators -> 0 .. N]
    /\ next \in [Migrators -> 0 .. N]
    /\ bumped \in [Migrators -> BOOLEAN]
    /\ dropped \in BOOLEAN

(* No migration is skipped: each one the version counts has been applied, and *)
(* each one was applied after all those before it, whatever failed, was       *)
(* repeated or raced with another process.                                    *)
Counted == \A k \in 0 .. version - 1 : Applied(k)
InOrder ==
    \A i \in DOMAIN log : \A k \in 0 .. log[i] - 1 : \E j \in 1 .. i - 1 : log[j] = k
NoneSkipped == Counted /\ InOrder

(* A migration that writes and cannot be repeated is applied once at most.    *)
Repeatable == Passive \cup Rerunnable
AppliedOnce ==
    \A i, j \in DOMAIN log :
        log[i] = log[j] /\ log[i] \notin Repeatable => i = j

(* Some migration has been applied again, by a process that had read the      *)
(* version before it was applied first or after a setter had failed in silence.*)
Repeated == \E i, j \in DOMAIN log : i # j /\ log[i] = log[j]

(* The version is the one of the migration committed last, until some setter  *)
(* fails in silence; only a migration that can be repeated is ever applied    *)
(* again, and as long as none is, each has been applied once and in its place. *)
VersionIsHistory ==
    /\ ~dropped => version = IF log = <<>> THEN 0 ELSE log[Len(log)] + 1
    /\ AppliedOnce
    /\ ~Repeated => log = [i \in 1 .. Len(log) |-> i - 1]

(* When migrate returns, its array has been applied.  The version has come to *)
(* the end of it if no setter failed in silence and no migration was applied  *)
(* again.                                                                     *)
Returned(m) == pc[m] = "returned"
ReturnedApplied ==
    \A m \in Migrators : Returned(m) => \A k \in 0 .. size[m] - 1 : Applied(k)
ReturnedIsCurrent ==
    /\ ReturnedApplied
    /\ ~dropped /\ ~Repeated =>
          \A m \in Migrators : Returned(m) => version >= size[m]

(* The version goes back only when a process applies again a migration that   *)
(* can be repeated, which it does when another has got further meanwhile: not *)
(* by a failure, a crash, a stale read or a setter's silent failure.          *)
RegressesOnlyByRepeating ==
    [][version' < version =>
          \E m \in Migrators :
              /\ next[m] \in Repeatable /\ Applied(next[m])
              /\ log' = Append(log, next[m])]_vars

(* A call of migrate comes to an end.                                         *)
CallEnds ==
    \A m \in Migrators :
        pc[m] = "loop" ~> pc[m] \in {"returned", "threw", "idle"}

(* How many steps a call can still take: four for each migration that is left,*)
(* and two to return or to roll back and throw.                               *)
Running == {"loop", "begun", "ran", "versioned", "unwinding"}
StepsLeft(m) ==
    LET left == IF next[m] < size[m] THEN 4 * (size[m] - next[m]) ELSE 0
    IN  CASE pc[m] = "loop"      -> left + 2
          [] pc[m] = "begun"     -> left + 1
          [] pc[m] = "ran"       -> left
          [] pc[m] = "versioned" -> left - 1
          [] pc[m] = "unwinding" -> 1
          [] OTHER               -> 0

(* A call only goes forward: no step of it, and none of another process, makes*)
(* it longer.                                                                 *)
CallsAreShort ==
    [][\A m \in Migrators :
          /\ StepsLeft(m) \in 0 .. 4 * N + 2
          /\ pc[m] \in Running =>
                \/ StepsLeft(m)' < StepsLeft(m)
                \/ UNCHANGED <<pc[m], next[m], size[m]>>]_vars
=============================================================================
