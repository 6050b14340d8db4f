# SkipSQL: TLA+ models, model checking and proofs

SkipSQL is a Swift library over SQLite, transpiled to Kotlin for Android. What
SkipSQL adds to SQLite is *protocol*: when to BEGIN and what to do when a
statement of a transaction fails, how a schema is migrated, who closes a prepared
statement, what a loop over rows hands out, which row an instance of a Swift type
stands for, and how conditions become text with parameters. All of it rests on
the transactions of the SQLite and SQLCipher that the repository bundles, whose
pager is modelled too: locks, cache, rollback journal, recovery, and the change of
an encrypted file's key. TLC checks the models on small instances and TLAPS
proves the most important part of them for every instance.

Paths are relative to the repository; `Core` stands for
`src/Sources/SkipSQLCore`.

- [1 Inventory](#1-inventory)
- [2 Modules and how they correspond to the code](#2-modules-and-how-they-correspond-to-the-code)
- [3 What each run checks](#3-what-each-run-checks)
- [4 What is proved](#4-what-is-proved)
- [5 Disagreements between code and documentation](#5-disagreements-between-code-and-documentation)
- [6 What is not modelled](#6-what-is-not-modelled)
- [7 Plan](#7-plan)
- [8 Running it](#8-running-it)

## 1 Inventory

| Component | State | Operations | What makes it hard | What makes it correct |
|---|---|---|---|---|
| `SQLContext` (Core/SQLContext.swift): transactions | the connection (SQLite: autocommit flag, journal, interrupt flag), `closed` | `transaction`, `perform`, `exec`, `mutex`, `interrupt`, `close` | threads interleave between the statements of a block; any statement may fail, some failures roll everything back; an interrupt arrives at any time; the ROLLBACK can fail | a block that returned is durable, one that threw has left nothing, no transaction outlives its block |
| `SQLContext.migrate`, `userVersion` (Core/SQLSchema.swift, SQLContext.swift) | `PRAGMA user_version` and the schema, in the file | `migrate(migrations:)`, the getter and setter of `userVersion` | several processes on one file, crashes, a getter and a setter that drop their errors, releases with arrays of different length, migrations that succeed a second time | none skipped, each after those before it; one that cannot be repeated is applied once; a return means applied |
| `SQLStatement` (Core/SQLStatement.swift) | the `sqlite3_stmt`, `closed`, bindings | `bind`, `update`, `next`, `nextValues`, `reset`, `close`; `prepare`, `exec`, `cursor`, `close` of the context | no finalizer: whoever loses a statement keeps its connection open for ever; several owners call `close` | every live statement is reachable; never used after finalize; bindings do not leak into the next execution |
| `RowCursor`, `RowIterator` (Core/SQLContext.swift) | one statement, and of each iterator `errorOccurred`, `nextElement` | `makeIterator`, `next`, `hasNext`, `close`, deinit | several iterators share one statement; two implementations, Swift's and the Kotlin one, where deinit is a finalizer; a statement that is stepped after its end starts again | the rows in order, completely, or one failure and then nothing; the read lock is released when the last loop is over, on Android at its end |
| `SQLCodable` instances (Core/SQLCodable.swift) | the rows, `sqlite_sequence`, the connection's last row id, the instances an application holds | `insert` (with `upsert`), `insertAll`, `update`, `delete`, `deleteAll`, `refresh`, `fetch` | the key is read back after the INSERT; stale instances of deleted rows; a refused batch has already handed out keys | an instance never reaches a row of someone else; no instance without a row |
| `SQLPredicate`, `SQLRepresentable`, `SQLExpression` (Core/SQLCodable.swift) | none | the predicates, `apply(to:)` | precedence, parentheses, NULL, order of bindings | the text means what the predicate says |
| `SQLTableQuery` and the join queries, `primaryKeyQuery` (Core/SQLCodable.swift) | tables, joins, where clauses | `query`, `join`, `where`, `orderBy`, `limit`, `eval` | rows are cut at column counts; outer joins make instances optional; a foreign key may point either way | the instances returned are those asked for |
| Schema DDL (Core/SQLSchema.swift) | the catalog | `createTableIfNotExists`, `addColumnIfNotExists`, `columns`, ... | several statements outside a transaction | a table that exists is complete |
| Hooks (Core/SQLContext.swift) | the update and trace callbacks | `onUpdate`, `trace` | callbacks on the calling thread; unregistering | a removed hook is never called |
| SQLPlus (src/Sources/SkipSQLPlus) | attached databases, cipher key | `key`, `rekey`, `export`, `attach`, `detach` | a rekey rewrites every page in one transaction, which may be refused or fail; `export` is three statements | one key opens the whole file; nothing stays attached after a failure |
| The bundled SQLite's pager with the SQLCipher codec (src/Sources/SQLExt/sqlite/sqlite3.c) | of each connection: lock, page cache, read and write key; of the file: pages, rollback journal | `sqlite3PagerSharedLock`, `Begin`, `Write`, `CommitPhaseOne`, `CommitPhaseTwo`, `Rollback`, `pagerStress`, `pager_playback`, `sqlite3_rekey_v2` | connections race for locks and for a hot journal; caches outlive the locks; I/O fails, processes die, the power is lost in the middle of anything; pages of two keys are on the disk during a rekey | what `AtomicFile` says: a commit is one step, readers see one committed version, only a loss of power takes a commit back |
| Conversions (Core/SQLite.swift) | none | `SQLValue`, `SQLType`, `check` | sequential | covered by the repository's tests |
| C and JNA bindings; the rest of SQLite and SQLCipher; libtomcrypt | external | - | third-party | assumed, see each module's definitions that cite sqlite3.c or are marked external |

**Interactions.** `SQLCodable` operations make an `SQLExpression`, `prepare` or
`cursor` makes an `SQLStatement` from it, and a `RowCursor` steps the statement.
`insertAll` and `migrate` call `transaction`; both depend only on what
`AtomicBlocks` promises. Everything on one context shares one SQLite connection
(its transaction, last row id and interrupt flag); contexts of other processes
share only the file, through the locks and the journal of `Pager`: `Transaction`,
`Migrate` and `Rows` take its atomic transactions for granted. `src/README.md` (Concurrency) says that SkipSQL performs no
locking and that the application serialises the use of a context; where a module
depends on that it says so.

The list of hazards, each at its line and with the properties that would catch
it, is in `PROJECT.json`.

## 2 Modules and how they correspond to the code

| Module | Models | Kind |
|---|---|---|
| `AtomicBlocks` | what `transaction` promises | abstract specification |
| `Transaction` | one connection shared by threads | detailed, implements `AtomicBlocks` |
| `TransactionProofs` | | proofs |
| `Migrate` | `migrate` by several processes on a file | built on atomic transactions |
| `MigrateProofs` | | proofs |
| `Statements` | the life of prepared statements | |
| `Reading` | a cursor's statement among the others of its connection | composes `Statements` and `Cursors` |
| `CursorsProofs`, `ReadingProofs` | | proofs |
| `RowStream` | what a loop over rows promises | abstract specification |
| `Cursors` | `RowCursor`/`RowIterator` on both platforms | detailed, implements `RowStream` |
| `Rows` | instances and the rows they stand for | |
| `RowsProofs` | | proofs |
| `Predicates` | predicates to SQL, and the reading of that SQL | operators |
| `Queries` | queries and joins | uses `Predicates` |
| `AtomicFile` | what a transaction promises about the file | abstract specification |
| `Pager` | the pagers of several connections on one encrypted file | detailed, implements `AtomicFile` |
| `PagerTypes`, `PagerProofs`, `PagerKeys` | | proofs |
| `MC*` | values of the constants for TLC | |

**Transaction.** The unit of interleaving is one `exec`, whose effect on the
connection is one `sqlite3_step`. `Begin`, `Commit`, `Throw`, `Handle` and
`Rollback` are the lines of `perform` (SQLContext.swift:192-202): BEGIN is
executed outside the `do`, so its failure (`BeginThrows`) is not followed by a
ROLLBACK; an error of the block or of COMMIT puts the thread in the catch
(`unwinding`), whose ROLLBACK may fail and then replaces the error. `depth`
counts nested `perform` calls; a nested `transaction()` fails at its BEGIN.
`Write` is an `exec` of one writing statement, which joins whatever transaction
is open. `OpenCursor`/`CloseCursor` stand for an active SELECT: while one is
active SQLite does not clear the flag set by `interrupt()`. How a failing
statement treats the transaction (nothing, or a rollback of everything for
SQLITE_FULL, IOERR, NOMEM and interrupted writes) is SQLite's, modelled as the
fault classes `statement`, `rolledBack` and `interrupt`. An interrupt that is
pending because a cursor is active refuses every `exec` in `sqlite3_prepare`, before
anything runs: nothing is rolled back, and an open transaction stays as it was. Only
one that arrives while a write is being stepped takes the transaction along
(`ExecThrows`). The variables `tried`,
`wrote`, `promised`, `refused` and `opener` are history: what the threads were
told, read by no guard.

**Migrate.** `pc` walks through `migrate` (SQLSchema.swift:364-372): read the
version (a failing read counts as 0), and for each migration a `transaction`
that runs it, sets `user_version` and commits. `SetVersionFails` is the setter's
`_ = try?`; `Start` traps when the range `currentVersion..<count` would be
invalid, on iOS: in Kotlin that range is empty and `migrate` returns. Nothing looks
at the version again under the lock, so a migration may run that another process
has applied meanwhile. If it cannot be repeated (CREATE TABLE, ADD COLUMN) it
fails; if it can (`Rerunnable`: `createTableIfNotExists`, an INSERT) it is committed
again, whether it finds something to write or not, and `user_version` is set to
its number. The write lock (`writer`) is never waited for, because no busy timeout
is set anywhere in the library; a transaction that has only read is in `readers`
and keeps the others from committing. `Crash` may happen at every point. The
atomicity of each transaction is what `Transaction` establishes and is not modelled
again.

**Statements.** One `Handles` element is one `sqlite3_stmt`. `held` is the set
of statements a client can still reach; the deinit of `SQLStatement` finalizes
nothing, so `native = "live"` outside `held` and outside an `exec` is a leak.
`bound` records which parameters are not NULL and who bound them (`"call"`: the
parameters of one `update`). An `update` is three steps, its binds, its step and the
deferred reset (`updating`), and the binds may be refused half way; `exec` puts a
prepare before and a close after them. Other threads run between the steps, on
other statements: a statement is used by one thread at a time.

**Cursors.** `NextRow`/`NextNil`/`NextFails` are the Swift iterator,
`HasNextTrue`/`HasNextFalse`/`HasNextFails`/`NextElement` the Kotlin one;
`Drop` is the last reference to an iterator. On iOS its deinit closes the statement
there and then; in Kotlin a deinit is a finalizer, so nothing happens until
`Collect`, which may come under a later loop of the same cursor or never, or until
the cursor is closed. `position` is where the shared statement is; 0 means that
the next step runs it from the start, as SQLite does after the end or an error. A
loop that is begun after one was left on Android goes on from there: `from`, a
history variable, says where. A client uses one iterator of a cursor at a time.
`RowStream` states this platform's promise for what it is: with `resumes` an iterator
may begin where one that was left had come to, or one row further, when that row
was fetched and not handed out.

**Reading.** `Statements` lets any client do anything with a statement it holds,
and `Cursors` takes its statement for granted; `Reading` puts them together, with
the statement's `closed` shared. A call of an iterator is a step of both: it steps
the statement when `WillStep` (not closed, no error yet, no fetched row waiting),
and closes it where the iterator does. `Release` lets go of an iterator, `Collect` is
its finalizer. Meanwhile the other clients prepare, bind,
step and close theirs, `exec` calls are between their steps, and
`CloseConnection` may come at any moment, to be refused with SQLITE_BUSY while a
statement is open. `ForgetCursor` is the last reference to a cursor that nobody
closed.

**Pager.** One action is one stretch of code between two system calls that other
processes can see. `state` is `Pager.eState` with the places in between:
`open` (PAGER_OPEN), `sharing` and `hot` (inside `sqlite3PagerSharedLock`: a SHARED
lock is held and a journal was seen; `hasHotJournal` has said yes), `playback` (of a
hot journal), `reader`, `locked`, `cachemod`, `dbmod`, `writing` (inside
`CommitPhaseOne`: the journal is synced and pages go to the file one by one),
`finished`, `undo` (inside the playback of the connection's own journal) and
`error`. `lock` is `unixFile.eFileLock`; `MayShare`, `MayReserve` and `MayExclude` are
what `unixLock` grants beside the locks of the others, and a refused EXCLUSIVE
lock leaves PENDING behind, as the code does. `journal.record` has the original
of a page under the read key (CODEC_JOURNAL_OP), `journal.counted` the pages that
the headers' `nRec` covers, which is all that a later playback reads.
`durable` and `kept` say what a loss of power may leave: a write adds the new
content to the possible ones and a sync leaves the last. `Enter` is the end of
`sqlite3PagerSharedLock` and `lockBtree`: the cache stays when the bytes of the file
at the change counter, encrypted as they are, are still those the pager noted
(`Counter` is a number that names the commit which wrote them, and only its being
the same or another matters); page one is read;
a page that the read key cannot decrypt puts the codec into its error state, in
which it reads nothing any more (`readKey = NoKey`). `Rekey` sets the write key,
takes the lock and joins the write actions, with pages that keep their content;
`RekeyDone` is `sqlcipher_codec_key_copy`, called whatever the commit said. A page is
named by the transaction that wrote it.

**Rows.** Each client has its own connection to one file (the case in which the
library itself must be right; two threads on one connection are the
application's to serialise). An INSERT and the reading of the last row id are
two steps. A row is *born* with a number, which the instance that stands for it
remembers: `IdentityKept` compares them. `Key`, `OrDefault`, `MergedRow` and
`HasColumns` are the filtering of columns in `insertUpdateSQL`.

**Predicates, Queries.** A statement is a sequence of tokens and a sequence of
bindings. `Apply` translates `SQLPredicate.apply`, `Select` translates
`assembleQuery`, `Instances` the cutting of rows in `eval`. The other half is
external: `Holds` and `JoinedRows` read the tokens the way SQLite does, with its
precedence, three-valued logic, numbering of `?` and outer joins. The reference
(`Meaning`, `Asked`) never looks at text: it says what a predicate means of a row
and a join of instances.

## 3 What each run checks

| Run | Shows | States |
|---|---|---|
| `transaction_shared` | two threads under a real mutex, nested calls, failing statements and commits, automatic rollbacks: promises kept, refused writes gone, no orphaned transaction, errors survive, catches end; `AtomicBlocks` implemented | 62 072 |
| `transaction_interrupts` | with interrupts, pending or arriving under a write, the weaker promises remain: a block that threw never becomes durable, and nothing does while its transaction is orphaned | 33 240 |
| `transaction_orphaned` | **violation**: `interrupt()` makes ROLLBACK fail and the transaction stays open | |
| `transaction_swallowed` | **violation**: a block that catches SQLITE_FULL goes on in autocommit mode | |
| `migrate_shared` | two processes on iOS or Android with arrays of 1 to 3 migrations, the second of which can be repeated, every fault, crashes: none skipped, each after those before it, the others once; returned is applied; until one is repeated or a setter drops its error the version is their number; it goes back only by a repetition; calls end | 145 996 |
| `reading_shared` | a cursor with two iterators, made one after the other, beside another statement, of a client or of `exec`, and a closing connection, both platforms, loops left early and finalizers that run late or never, failing steps, rows and binds, early close: nothing leaks or is used after finalize, what an `update` binds does not outlast it, the cursor is a `RowStream`, locks are released, no row after `close`, loops end and the connection closes | 50 194 |
| `statements_leak` | **violation**: a refused bind in `prepare(expr:)` or `cursor` loses the statement | |
| `cursors_truncated` | **violation**: on Android a failing step ends the loop like the end of the rows | |
| `pager_shared` | two connections, two pages, two keys, two write transactions, one rekey, and two calamities among I/O errors, deaths of processes, losses of power and the rekey: locks exclude, reads are of one committed version, whatever survives is recovered, one key opens the file, `AtomicFile` is implemented | 896 143 |
| `rows_shared` | two connections, two keys, three births: identity kept, no phantom instances, what `insert` and `insertAll` return is what is stored, up to the columns an upsert leaves alone | 943 996 |
| `queries_built` | predicates of up to three parts, joins of up to three tables of every kind, up to three keys: the text returns what was asked | 80 485 |
| `queries_ranges` | **violation**: `between` and `notBetween` write the lower bound twice | |

**Bounds and why they are enough.**
*Transaction*: two threads are the smallest interference; three writes give one
in a block, one of the other thread and one after an error was caught; depth 2
reaches every nested call, because a second BEGIN always fails, and a thread
therefore never has two open blocks (proved, for blocks that do not catch every
error: `BlocksOK`). The theorems lift these bounds.
*Migrate*: two processes race for one lock; a third adds no other order at the
lock. Three migrations give a first, a middle and a last. The middle one can be
repeated (`Rerunnable = {1}`), so that one which can stands before and after ones
that cannot, and the version may be taken back below one that was applied.
`MaxLog = 4` leaves room for all three and one repetition; a second one changes the
version as the first did. `Passive` migrations, which write nothing, are left to
the proofs, which hold without all these bounds.
*Reading*: two parameters and arrays of up to three values give too few, exactly
enough, too many, and a bind that is refused when others have been accepted; two
statements are the cursor's and one that is an `exec`'s or a client's, since
statements share nothing but the connection (the proofs are for any number); the
second iterator meets a statement that is fresh, in the middle, at its end, or
closed by the first, on Android also one that the first one's finalizer may close
under it; `MaxResults = 4` exceeds the two rows and an end, so a statement that
starts again would be seen. `CursorsInductive` and `CursorsImplementRowStream`
hold for any number of rows and iterators.
*Pager*: two connections are one who writes, dies or recovers and one who reads
beside it; the proofs lift that bound. Page one, which has the counter, is written
last by a spill and always by a commit, so one other page suffices to see a file
half written. Two write transactions make a cache old by one commit or two, and
two calamities let the recovery from the first be hit by the second. Connections
are interchangeable (symmetry); pages and keys are not.
*Rows*: two keys and three births let a key be given, deleted and given again,
the only way identity could be lost; batches of two can be refused at the second
instance.
*Queries*: the three tables form a chain with rows without parent and without
child, NULLs in every column that may have one; three parts nest AND, OR and NOT
in both orders. A third key in `primaryKeyQuery` distinguishes OR from AND.

**Fairness.** `Transaction`: only `Rollback`, weakly fair: a thread in the catch
executes ROLLBACK at once, nothing waits there but the connection's mutex, which
it holds. `Migrate`: a call that has begun runs on, since a taken lock is an
error and not a wait; a call that only `Crash` ends still ends. `Reading`: a
loop goes on asking until told to stop and then lets go of its iterator, a thread
in an `update` or `exec` runs on, the client closes the cursor and what else it
holds (the comment of `SQLStatement.close` asks for it; strongly fair, because it may
begin another `update` in between), and somebody keeps trying to close the
connection. An iterator is never forced to go before its loop has ended, and no
finalizer is ever assumed to run. `Pager` has no liveness, because the code promises none: with no busy
handler two connections that find a journal hot may both be refused its lock, any
number of times. Fairness is never assumed of faults, interrupts or
other threads' progress.

**Deadlock** is checked for `Transaction`, `Migrate` and `Rows`. It is not for
`Reading` (the connection is closed), `Statements` and `Cursors` (likewise),
`Pager` (every connection is closed, or the bounds are used up while one in its
error state has gone) and `Queries` (the query has reached its size): these
programs do stop.

Every property of every passing run is accompanied in `PROJECT.json` by a mutant,
a plausible bug in one definition, under which TLC finds the property violated.
Mutated definitions carry the comment *Mutant* and are used by nothing else.

## 4 What is proved

The theorems hold for any number of threads, processes, writes, migrations,
statements, parameters, iterators, rows, connections, pages and keys.

| Theorem | Says | Assumes |
|---|---|---|
| `TypeCorrect` | `Spec => []TypeOK` | nothing |
| `InductiveCorrect` | the inductive invariant holds | Exclusive, NoInterrupts, NoBlindCatch |
| `RefusalsComplete` | what a block that threw has written is gone | the same |
| `ErrorSurvives` | `perform` rethrows the error it met, unless SQLite had rolled back or the context was closed | the same |
| `ImplementsAtomicBlocks` | `Transaction` implements `AtomicBlocks`: what is stored and what callers are told | the same |
| `BlocksReportTruly` | in `AtomicBlocks` what was reported as committed is kept and what was refused is nowhere | nothing |
| `SwallowInductiveHolds` | the inductive invariant of blocks that catch any error | Exclusive, NoInterrupts |
| `PromisesKept` | what a caller was told is committed is durable | the same |
| `NoOrphans` | an open transaction has a `perform` that will end it | the same |
| `OrphanInductiveHolds` | the inductive invariant under interrupts | Exclusive, NoBlindCatch |
| `RefusedStaysOut` | no write of a block that threw is ever committed, by whomever | the same |
| `OrphansStopCommits` | nothing is committed while the transaction of such a block is open | the same |
| `CatchNeverWaits` | a thread in the catch of `perform` does not wait for the mutex | the same |
| `ErrorOrInterrupt` | `perform` rethrows the error it met, unless its ROLLBACK was interrupted, or SQLite had rolled back or the context was closed | the same |
| `RefusedNotCommittedLater` | a write that a caller was told is refused is not committed after that | Exclusive, and one of the other two |
| `OrphansOnlyByInterrupt` | only an interrupted ROLLBACK leaves a transaction open that no `perform` will end | nothing |
| `NoMigrationSkipped` | the version never counts a migration that was not applied, and none is applied before those it builds on | nothing |
| `ReturnMeansApplied` | a `migrate` that returned has applied its array | nothing |
| `NothingAppliedTwice` | a migration that writes and cannot be repeated is committed once at most, whatever the others are | nothing |
| `CallsOnlyGoForward` | a call of `migrate` is over after four steps for each migration and two | nothing |
| `HistoryIsExact` | the version is the one of the last commit until a setter drops its error; only a migration that can be repeated is applied again, and until one is, each has been applied once and in its place | nothing |
| `ReturnMeansCurrent` | a `migrate` that returned has applied its array; the version is at its end unless a setter has dropped its error or a migration was repeated | nothing |
| `RegressesInRepeats` | the version goes back only when a process applies a migration that can be repeated again | nothing |
| `MigrateTypes` | versions, loop variables and arrays stay within the longest array | nothing |
| `StatementsInductive`, `StatementsSafe` | nothing is used after its finalize, what an `update` has bound does not outlast it, the connection outlives its statements | nothing |
| `NothingLeaks` | every native statement is in somebody's hands | HelpersBind |
| `LeakedByABindOnly`, `LeakKeepsConnectionOpen`, `LeaksTogether` | only a refused bind of `prepare(expr:)` or `cursor` loses a statement, the one it has just made; a lost statement and its connection stay open for ever; the same with cursors and iterators | nothing |
| `ReadingImplementsStatements` | a cursor uses its statement as any client may | nothing |
| `NothingUsedAfterFinalize`, `BindingsAreFresh`, `ConnectionIsLast` | the same promises, with cursors and iterators | nothing |
| `CursorsInductive`, `CursorsImplementRowStream` | a cursor implements `RowStream` | ConstantsOK |
| `LoopsComplete` | a loop that ended without a failure had every row, unless a Kotlin `hasNext()` has caught an error, or the loop went on where another was left and had the rest | ConstantsOK |
| `LoopsOnlyGoForward` | a loop calls `next` and `hasNext` at most two times for each row and two times more | ConstantsOK |
| `ReadingImplementsRowStream`, `LoopsCompleteTogether`, `LoopsGoForwardTogether`, `RowsEndWithConnection` | so it does whatever else is done on its connection, and its loops are as complete and as short; no row after `close` | nothing |
| `ReadingTypes`, `ReadersReleased`, `EndsRelease` | types; the statement is in the middle of its rows only while a loop goes on, or on Android after one that was left early; there a loop that has ended leaves it closed | nothing |
| `RowsInductive`, `RowsTypes` | the inductive invariant and the types of instances and rows | nothing |
| `InstancesKeepTheirRows`, `NoPhantoms` | an instance has its own row or a deleted one | nothing |
| `ReturnsWhatItStores` | `insert` and `insertAll` return what they stored; after an upsert that updated a row, in the columns the instance had values for | nothing |
| `PagerTypesHold`, `LockTableHolds` | types, and the lock table above `unixLock` | nothing |
| `PagerInductive`, `ReadsCommittedHolds`, `RecoverableHolds` | the inductive invariant; reads are of the committed version; whatever survives can be recovered | nothing |
| `PagerImplementsAtomicFile` | `Pager` implements `AtomicFile` | nothing |
| `KeysInductiveHolds`, `OneKeyHolds` | the inductive invariant of the keys; one key opens whatever a recovery finds, unless a rekey that failed has answered SQLITE_OK | nothing |
| `KeyChangesOnlyByRekey` | the key of what is committed changes only when a rekey commits, to its key, or with a loss of power, with the same exception | nothing |

**Assumptions.** `Exclusive`: one thread, or `fullMutex` with every
`transaction()` inside `mutex { }`: the serialisation the library's README asks
the application for. `NoInterrupts` and `NoBlindCatch` (no block catches an error
that rolled back) are exactly what the runs `transaction_orphaned` and
`transaction_swallowed` show to be necessary, `NoBlindCatch` for the promise that what
a block wrote is gone when it throws: what a caller was told is committed is durable
whatever anyone catches. The theorems about what remains under
interrupts do without `NoInterrupts`, and where transactions may be left open is
said of any use at all, without a mutex too. The theorems about `Migrate` assume
nothing of the migrations. What fails when one is repeated, or when a setter of
`user_version` has dropped its error, is a condition in the statement itself
(`Repeated`, `dropped`): that the log is an exact count, and that the version has
reached the end of an array that was applied. `HelpersBind` says that the
binds of `prepare(expr:)` and `cursor` succeed; the run `statements_leak` shows it to be
necessary, and the theorems on leaks, which do without it, that there is no other
way. `ConstantsOK` says what the constants of `Cursors` may be, and is an
assumption of `Reading`. The theorems about `Pager` need only the assumptions on its
constants, which are that page one is a page and that keys and "no page" are
distinct; they hold for any interleaving, failure and loss of power.

**Arguments.** `PromisedDurable`, `RefusedGone` and `NoOrphanTransaction` are not
inductive: they do not say who may end the open transaction. `Inductive` adds
that the connection knows whose transaction is open (`ConnectionOK`), that a
thread in a block holds the mutex and either owns the transaction, has lost it to
an error it cannot catch, or works on a closed context (`BlocksOK`), and that
`pending` is what the owner was told it wrote (`ReportsOK`). From the mutex it
follows that a thread in a block is alone (`Alone`); the proof then has one lemma
per group of actions. The refinement maps `durable`, `pending` and `opener` to
`store`, `buffer` and `holder`; `OnlyOpener` shows that only the opener ends or
extends a block. `AtomicBlocks` carries the callers' reports too (`kept`, `gone`): the
refinement says that what `perform` returns and throws is true of the abstract store,
and `BlocksReportTruly` what that is worth.

A block that catches an error with which SQLite has rolled back goes on without its
transaction, and its thread may even open another one in it. `SwallowInductive`
keeps that under the mutex an open transaction still belongs to the innermost block
of the thread that opened it, and that `pending` is exactly what that block wrote
(`AccountsOK`): a COMMIT that succeeds is of the block that reports it, so
`PromisedDurable` and `NoOrphanTransaction` survive; `RefusedGone` does not, as
`transaction_swallowed` shows. `RefusedNotCommittedLater` is what remains of it: what
such a block has in the file was there before its caller was told it is refused.
`OrphansOnlyByInterrupt` needs no invariant of the mutex: each action that ends a
`perform` ends the transaction it had opened (`LeavesOpen`), but for the ROLLBACK that is
interrupted.

With interrupts a ROLLBACK may fail, and much of `Inductive` with it: a transaction
may be open that no `perform` is in, and what a block was told it wrote may have
gone into it. `OrphanInductive` keeps what does not depend on that. The connection
has an opener exactly while a transaction is open (`OpenerOK`). A thread in a block
has the mutex and only one block, and owns the transaction unless it has lost it to
an error or a `close`; then `pending` is exactly what its block wrote (`EnclosedOK`):
a BEGIN cannot succeed in somebody's orphaned transaction, so no block ever
has an orphan's writes under its own COMMIT. And what a block that is still going on has
written was neither committed nor refused yet (`HistoryOK`). A COMMIT that
succeeds is therefore one of writes that nobody was told are refused
(`RefusedStaysOut`), and there is none while refused writes are pending
(`Committer`, `OrphansStopCommits`). TLC checked `OrphanInductive` on the instance
of `transaction_interrupts` and on one of two threads under a mutex before the proof.

For `Migrate`, `NoMigrationSkipped` needs `Progress`: every migration before a
process's loop variable is in the log; a process can only count as far as that.
The order in which they are applied (`InOrder`) follows from it: whoever runs a migration
has been past all before it. `HistoryIsExact` and `RegressesInRepeats` need that a
transaction that has run a migration which cannot be repeated holds the write lock,
and that this migration is not in the log (`Fresh`), as it would have failed had it
been applied already. So a version that a dropped error has left too low repeats only
what can be repeated. In a log without repetitions a commit is, with `Progress`, one of
the next migration, whatever the version says (`CommitsNext`), and until a setter
drops its error the version is that of the last one (`Counting`). The version counts
only what is in the log, so a commit that takes it back is one of a migration that is
there already.
`CallsOnlyGoForward` counts the steps that are left to a call (`StepsLeft`); a taken
lock ends it.

For `Reading` the argument is compositional. Every step of it is a step of
`Statements` or a stutter (`ReadingImplementsStatements`), and, as far as the
cursor's own statement goes, a step of `Cursors` or a stutter; what is proved of the
two carries over. `Statements` needs to know what the places of a statement imply
(`HandlesOK`); `Cursors` needs to know that only one iterator is open, who has moved
the statement (`OneReader`: that one, or on Android one that was left before its end),
and how what an iterator was handed and has fetched relates to the statement's
position (`At`, `InStep`, `Fetched`). `ReaderReleased` connects the two: SQLite has the
statement in the middle of its rows only when its position is not 0 (`InMiddle`), and
`OneReader` then names the iterator. An iterator without
an error has handed out no more than the rows there are, so that the calls left to its
loop can be counted (`CallsLeft`). For leaks it is enough to look at each action: a
statement leaves `held` only when it is finalized, and only the action of a refused bind
makes one that is in nobody's hands; nothing can then finalize it.

`CompleteOrFailed` is what one expects of both iterators, and `cursors_truncated`
shows that the Kotlin one violates it. `LoopsComplete` says that there is no other
such case but one, the loop that Android lets go on where another was left:
`HandedOut` keeps that an iterator hands out the rows from where it began (`from`) and
ends without an error only after the last, from `InStep`, and that the Swift one
begins with the first and never drops its error.

For `Rows`, `IdentityKept` alone is not inductive: two clients may hold instances of
one deleted key, and one of them insert it again. `Agreement` says that all who
have, or are about to be given, an instance with some key (`Claims`) agree on the
row it was born as, that the row is that one or was deleted, and that no such key
lies after the sequence. `DraftOK` says that an open transaction only adds rows
after the sequence and that its results are these rows; so what a rollback takes
back was claimed by nobody, and what a commit adds was not claimed before.
`ReturnedAsStored` compares the instance with the row that was written: for an upsert
that updated a row, the two agree in the columns the statement wrote (`WrittenValues`);
the others keep the row's values while the instance has nil or the default. The
assumptions on the constants are that batches consist of new instances and that
"none" is no row and no instance.

For `Pager`, none of `LockTable`, `ReadsCommitted` and `Recoverable` is inductive.
`Inductive` adds: which lock each place has (`StateLocks`); that what is dirty is
cached and a codec in its error state has an empty cache or is on its way out
(`CacheShape`); that a connection with a RESERVED lock, or a reader, sees no counted
journal, and that what is dirty is recorded (`JournalShape`); that pages no header
counts are synced, that all journals that may survive have the same effect as the
one in memory while it counts something, and otherwise one of two known effects
(`DiskShape`); that what a transaction has on the disk and in its cache is its
change or the original (`TransactionShape`); and that a cache left over has the
number of the commit its pages are of, or of an earlier one than the file's, so that
it is kept only when they are the same (`CounterShape`). That the numbers grow is the
model's naming of commits; the code, which sees ciphertext, relies on no order. `PagerTypes` proves the first three and the
types, `PagerProofs` the others, with one lemma per action. The refinement maps
the pages of the file with the journal played back (`CommittedBy`) to the abstract
`file` and the connections that have a read transaction to `reading`: the commit
point is the deletion of the journal in `CommitPhaseTwo`, and a connection that
holds EXCLUSIVE is then the only one that reads.

`OneKeyUnlessMisled` says that whatever a recovery finds has one key. `KeyShape`
is what makes that inductive: all that is committed, and each version that a loss
of power may bring back, has one key (`CommittedOfOneKey`, `KeptOfOneKey`);
whoever reads has that key, as long as its codec works at all; outside of a rekey a
connection writes with the key it reads with; the records of a journal have the
read key of the one who writes, and what it has written over them has its write
key; and at the commit of a rekey every page is recorded, so that the two keys never
meet in what is committed (`KeyShapeOf`). The proof in `PagerKeys` has a lemma for what
a step of one connection leaves to the others (`KeysOfOthers`, `OneConnectionStep`) and
one for each phase: reading, writing, the commit, its end and undo, and a loss of power;
it uses the invariant of `PagerProofs` for what journal and disk are to each other. All
of it ends with `misled`: a rekey that failed leaves a write key that differs from the
read key, and every promise about keys with it. TLC checked `KeysInductive` on the
instance of `pager_shared` and on one with two rekeys and three calamities (5 351 890
states) before the proof.

**Only model-checked**: all liveness (`UnwindingEnds`, `CallEnds`, `LoopEnds`,
`ContextCloses`), since fairness and ENABLED are out of the prover's reach
(`CatchNeverWaits`, `CallsOnlyGoForward` and `LoopsOnlyGoForward` are the safety parts of
the first three); and the three invariants of
`Queries` (`TypeOK`, `ReturnsWhatIsAsked`, `KeysReachTheirRows`), whose operators
recurse over the structure of a predicate and over the tokens of its text, on which
the prover cannot do induction. Every other property of a passing run is the
statement of a theorem. Some of what is proved is in no configuration; TLC checked it on
the instances of these runs and larger ones before the proof: `OrphanInductive` and
`KeysInductive`; `SwallowInductive` and `RefusedNeverCommitted` on two threads with a mutex
whose blocks catch everything (854 762 states), `OrphanedOnlyByInterrupt` also without
the mutex and with interrupts (8 510 284 states); the invariants of `migrate_shared` with
migrations that write nothing as well; `CallsAreShort`, `LoopsAreShort`,
`LeaksWhenMade` and `LeaksForGood`.

## 5 Disagreements between code and documentation

1. *Orphaned transaction* (SQLContext.swift:199): with a cursor active and an
   interrupt pending, COMMIT and ROLLBACK both fail; `transaction()` has thrown
   and its transaction is still open. `src/README.md:49` promises one or the
   other. The run `transaction_interrupts` shows what remains true.
2. *Swallowed rollback* (SQLContext.swift:196): `perform` never looks at the
   autocommit flag. After SQLITE_FULL and the like, a block that catches the
   error goes on outside any transaction; its later writes stay.
3. *Leaked statement* (SQLCodable.swift:74, SQLContext.swift:219): a refused bind
   loses the statement just prepared, and the connection can never be closed.
4. *Truncated result on Android* (SQLContext.swift:577): `hasNext()` stores the
   failure and returns false, so nobody calls the `next()` that would deliver it.
5. *Ranges* (SQLCodable.swift:920 and 930): `between` and `notBetween` append
   `min` twice; `max` is never read.

Four remarks that no run states.

*Repeated migrations* (SQLSchema.swift:365-369): the version is read once, outside any
transaction, and nobody looks at it again under the write lock.
`src/README.md:89` says "Only migrations that haven't been applied yet will run" and
line 106 "previously applied migrations are skipped"; the third migration of its
example is a `createTableIfNotExists` (line 101), which succeeds a second time. Of two
processes that have both read an old version the slower one applies such a migration
again and sets `user_version` to its number, below what the other has reached. With
`~Repeated` as an invariant of `MigrateShared.cfg` TLC finds a repetition, and with
the version growing as a property the log 0, 1, 2, 1: the version goes from 3 back to
2, when `migrate` of the first process may have returned already. The next
launch then runs the last migration again; if that one cannot be repeated it fails,
and so does every `migrate` after it, although the schema is complete. What the run
and the theorems show is that there is no other way: only such a migration is applied
again, the version goes back in no other step, and none is ever skipped.

*Loops left early on Android* (SQLContext.swift:529): the deinit of an iterator closes
the statement, and on Android it is a finalizer. A loop that was left by `break`, or a
`load` that has its count, keeps the statement in the middle of its rows, its read lock
with it, until the collector runs or the cursor is closed; a second loop over the same
cursor begins with the next row and not with the first, and is cut short with an error
if the finalizer runs under it. `RowStream` says so (`resumes`), and `ReaderReleased`
has the exception. Asked whether a loop that met no error has had every row, TLC
answers, with two iterators and no faults, with the second loop that ends without the
first rows.

*Rekey answers SQLITE_OK* (sqlite3.c:112992-113032, reached from SQLPlus.swift:22):
`sqlite3_rekey_v2` makes the new key the write key before it asks for a lock. When
the lock, or the commit, is refused because another connection uses the file, the
write key stays; the function returns SQLITE_OK all the same, and `rekey` does not
throw. The comment at line 112944 says "this will reencrypt the database using a
new key", the one at 112997 "If that goes ok then commit and put ctx->rekey into
ctx->key". The next ordinary commit of that connection then writes its pages with
the new key beside the others with the old one, and no key opens the file any
more: with `OneKey` in place of `OneKeyUnlessMisled` TLC finds this in a few steps
(one connection reserves, the other's rekey is refused, the first rolls back, the
other commits a page). The history variable `misled` marks the states after a
rekey that failed and answered SQLITE_OK; the run shows that nothing else, in
particular no rekey in the middle of which its process dies or the power is lost,
ends in two keys.

*The last commit and the power* (`Recoverable`, `AtomicFile!PowerLoss`): at
synchronous FULL the directory is not synced after the journal was deleted, so a
loss of power may bring the journal back and with it the version before the last
commit: the promise is atomicity, and durability up to that commit.

## 6 What is not modelled

- Schema DDL, hooks, the remaining PRAGMAs and `export`, `attach` and `detach` of
  SQLPlus: planned or shallow, see below; `Migrate` takes what one migration does as
  one step.
- In `Pager`: WAL, savepoints and the sub-journal, transactions over several files
  (super-journals), memory mapping, files that grow or shrink, and the other
  journal modes: none is reached with the settings of `src/Package.swift` and no
  PRAGMA of the library chooses them. Records of a journal that no header counts
  are not read at a recovery and have no effect (their checksums are random). A
  rekey inside an open transaction, and a page-size or cipher-setting change, are
  left out. A failed write, read or sync outside of a playback, a spill and the end
  of a commit is answered by a rollback, which is an action anyway. The counter
  does not wrap around.
- In `Rows`: composite and non-integer keys, key columns that are not first,
  `inserted(&ob)`, which changes an instance in place, `explicitNulls`, and two
  threads on one connection.
- In `Predicates` and `Queries`: LIKE, ordering, limits, schema names, quoting,
  `count`, `exists` and the aggregates; a second join on a foreign key to the
  *first* table, and tables in which a row may be all NULL, which `eval` takes
  for no row. The empty compound, which is no SQL, is never built.
- In `Statements`: two threads on one statement, which neither SQLite's mutex nor the
  library serialises between the steps of an `update`.
- In `Cursors`: two iterators of one cursor used alternately.
- Conversions of values and error messages: sequential and tested in the
  repository.
- The rest of SQLite and SQLCipher (parser, code generator, virtual machine,
  B-tree, extensions, page encryption itself), libtomcrypt, the C and JNA bindings.
  What SQLite does elsewhere is modelled where the library depends on it, with the
  lines of sqlite3.c it stands for in `PROJECT.json`. These vendored C files are
  nearly all of the repository's 300 000 lines; the project models the part of
  them that SkipSQL's own promises rest on.
- `interrupt` or `lastInsertRowID` racing with `close` on another thread: use of
  a freed handle, which the library leaves to the application.

## 7 Plan

Done, in this order: the core (`AtomicBlocks`, `Transaction` and its proofs),
`Migrate` with its proofs, `Statements`, `Cursors` over `RowStream`, `Rows`,
`Predicates` and `Queries`; then `Reading`, which composes `Statements` and `Cursors`,
with the proofs of all three, `Pager` over `AtomicFile` with its proofs, and
`RowsProofs`; then the proofs of what remains under interrupts, of the keys of a
file (`PagerKeys`) and of complete loops; then of blocks that catch any error, of
migrations after a dropped error, of leaks, upserts and the length of calls; then
pending interrupts, migrations that can be repeated, the steps of an `update` and the
finalizers of Android, in the models and in the proofs about them.

Next, modelling:

1. `Schema`: `createTableIfNotExists` and `addColumnIfNotExists`, several
   statements outside a transaction, with crashes and a second process (the index
   that is never created after a failure), composed with `Migrate`.
2. `Rows` with the position of the key column as a constant (the separators of
   `update`), composite keys and `inserted(&ob)` inside a transaction.
3. `Queries`: joins on a foreign key to the first table, ordering and limits.
4. `Hooks`, and `export` of SQLPlus.
5. `Pager` with savepoints, which `transaction()` never uses but an application may.

Next, proving:

1. `Migrate` on one file whose atomic transactions are those of `AtomicFile`: the
   composition that is now taken for granted.
2. `UnwindingEnds`, `CallEnds` and `LoopEnds` themselves, from their safety parts, with a
   prover that handles fairness.

Runs that would only repeat a proved theorem on a larger instance are not
planned.

## 8 Running it

In this directory, `tlc -workers 2 -config TransactionShared.cfg MCTransaction`
and likewise for the other configurations (the `runs` of `PROJECT.json` pair them
with their modules), and `tlapm M.tla` for `TransactionProofs`, `MigrateProofs`,
`CursorsProofs`, `ReadingProofs`, `RowsProofs`, `PagerTypes`, `PagerProofs` and `PagerKeys`. The longest runs take
about two minutes on two cores, the proofs of the pager some more.
