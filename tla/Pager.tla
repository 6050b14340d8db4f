------------------------------- MODULE Pager -------------------------------
(***************************************************************************)
(* The transaction machinery of the SQLite and SQLCipher that SkipSQLPlus    *)
(* bundles, as SkipSQL leaves it configured: rollback journal deleted at     *)
(* commit (journal_mode DELETE), synchronous FULL, locking_mode NORMAL, no    *)
(* busy handler, no WAL.                                                     *)
(*                                                                           *)
(* Several connections use one file.  A connection's pager keeps a cache of  *)
(* pages, copies the original of each page it changes to the journal, makes  *)
(* the journal durable before it changes the file, and commits by deleting   *)
(* the journal; a journal that nobody is responsible for is "hot" and is     *)
(* played back by the next connection that reads.  With a key each page is   *)
(* encrypted: pages are read with the read key and written with the write    *)
(* key, and PRAGMA rekey rewrites every page with a new write key.           *)
(*                                                                           *)
(* A page is named by the transaction that wrote it, with the key it is      *)
(* encrypted with; page one also has the change counter.                     *)
(***************************************************************************)
EXTENDS Naturals, FiniteSets

CONSTANTS
    Conns,          \* connections, each with a pager of its own
    Pages,          \* the pages of the file
    PageOne,        \* the one with the change counter
    Keys, FirstKey, \* SQLCipher keys, and the one the file has at first
    NoKey,          \* the key of a codec in its error state
    NoPage,         \* no content: not cached, not in the journal
    MaxTxns,        \* bound: write transactions that change pages
    MaxRekeys,      \* bound: calls of PRAGMA rekey
    MaxTroubles     \* bound: calls of PRAGMA rekey, I/O errors that put a pager into
                    \* its error state, processes that die, losses of power

ASSUME PageOneAssumption == PageOne \in Pages
ASSUME FirstKeyAssumption == FirstKey \in Keys /\ NoKey \notin Keys
ASSUME NoPageAssumption ==
    NoPage \notin Nat /\ NoPage \notin [by : Nat, counter : Nat, key : Keys]
ASSUME BoundsAssumption ==
    {MaxTxns, MaxRekeys, MaxTroubles} \subseteq Nat

VARIABLES
    disk,       \* the database file, as a read returns it
    durable,    \* of each page, the contents a loss of power may leave
    journal,    \* the rollback journal
    kept,       \* the journals a loss of power may leave
    lock,       \* unixFile.eFileLock of each connection
    state,      \* Pager.eState, with the places between two of its values
    cache,      \* the decrypted pages of the page cache
    dirty,      \* the cached pages that must be written back
    version,    \* Pager.dbFileVers
    readKey, writeKey,  \* codec_ctx.read_ctx and write_ctx
    txn,        \* the write transaction of the connection, 0 for none
    rekeying,   \* the connections inside sqlite3_rekey_v2's transaction
    todo,       \* the pages that a write-back or a playback has to do still
    begun, rekeys, troubles,    \* how much of each bound is used
    previous,   \* history: what was committed before the last commit
    misled      \* history: a rekey that failed has returned SQLITE_OK

fileVars == <<disk, durable>>
journalVars == <<journal, kept>>
cacheVars == <<cache, dirty, version>>
rekeyVars == <<writeKey, rekeying, rekeys, misled>>
keyVars == <<readKey, rekeyVars>>
boundVars == <<begun, troubles>>
vars == <<fileVars, journalVars, lock, state, cacheVars, keyVars, txn, todo,
          boundVars, previous>>

-----------------------------------------------------------------------------
NO_LOCK == 0
SHARED == 1
RESERVED == 2
PENDING == 3
EXCLUSIVE == 4

Txns == 0 .. MaxTxns
Content == [by : Txns, counter : Nat, key : Keys]
Versions == [counter : Nat, key : Keys \union {NoKey}]
Empty == [p \in Pages |-> NoPage]
NoVersion == [counter |-> 0, key |-> NoKey]

(* The change counter is in page one, and the pager compares its bytes as     *)
(* they are on the disk.  Without a codec they are one more with each commit; *)
(* with one the pager adds one to encrypted bytes, so that the values come in *)
(* no order, but each commit encrypts others than the last: the number stands *)
(* for which commit wrote the bytes.                                          *)
Counter(p, n) == IF p = PageOne THEN n ELSE 0
VersionOf(content) == [counter |-> content.counter, key |-> content.key]

(* "record" has the original of a page, "counted" the pages whose records     *)
(* the nRec fields of the headers cover: a playback of a hot journal reads    *)
(* no others.                                                                 *)
NoJournal == [exists |-> FALSE, record |-> Empty, counted |-> {}]
NewJournal == [exists |-> TRUE, record |-> Empty, counted |-> {}]
Recorded(j) == {p \in Pages : j.record[p] # NoPage}
Journals == {j \in [exists : BOOLEAN, record : [Pages -> Content \union {NoPage}],
                    counted : SUBSET Pages] : j.counted \subseteq Recorded(j)}
AllCounted(j) == [j EXCEPT !.counted = Recorded(j)]

(* What is left when journal j is played back over the contents d.            *)
PlayedBack(j, d) == [p \in Pages |-> IF p \in j.counted THEN j.record[p] ELSE d[p]]

(* What the next transaction reads, after the recovery if it takes one.       *)
Committed == PlayedBack(journal, disk)
CommittedBy == [p \in Pages |-> Committed[p].by]

(* What a loss of power may leave of the file.                                *)
Survivors == {d \in [Pages -> UNION {durable[p] : p \in Pages}] :
                 \A p \in Pages : d[p] \in durable[p]}

Init ==
    /\ disk = [p \in Pages |-> [by |-> 0, counter |-> 0, key |-> FirstKey]]
    /\ durable = [p \in Pages |-> {disk[p]}]
    /\ journal = NoJournal
    /\ kept = {NoJournal}
    /\ lock = [c \in Conns |-> NO_LOCK]
    /\ state = [c \in Conns |-> "open"]
    /\ cache = [c \in Conns |-> Empty]
    /\ dirty = [c \in Conns |-> {}]
    /\ version = [c \in Conns |-> VersionOf(disk[PageOne])]
    /\ readKey = [c \in Conns |-> FirstKey]
    /\ writeKey = [c \in Conns |-> FirstKey]
    /\ txn = [c \in Conns |-> 0]
    /\ rekeying = {}
    /\ todo = [c \in Conns |-> {}]
    /\ begun = 0 /\ rekeys = 0 /\ troubles = 0
    /\ previous = [p \in Pages |-> 0]
    /\ misled = FALSE

-----------------------------------------------------------------------------
(* unixLock: what the locks of the other connections allow.                   *)
Others(c) == Conns \ {c}

(* Mutant: an EXCLUSIVE lock that does not wait for the readers.              *)
MayExcludeOverReaders(c) == \A d \in Others(c) : lock[d] < RESERVED

MayShare(c) == \A d \in Others(c) : lock[d] < PENDING
MayReserve(c) == \A d \in Others(c) : lock[d] < RESERVED

MayExclude(c) == \A d \in Others(c) : lock[d] = NO_LOCK

Writing == {"locked", "cachemod", "dbmod", "writing", "finished", "undo"}
InTransaction == {"reader"} \union Writing

(* The file was written or the journal deleted; a sync makes it certain.      *)
WriteDisk(p, content) ==
    /\ disk' = [disk EXCEPT ![p] = content]
    /\ durable' = [durable EXCEPT ![p] = @ \union {content}]
SyncDisk == durable' = [p \in Pages |-> {disk[p]}]
DeleteJournal ==
    /\ journal' = NoJournal
    /\ kept' = kept \union {NoJournal}

(* Mutant: a SHARED lock that does not compare the change counter.            *)
AnyCache(c) == cache[c]

(* The cached pages that are still those of the file.                         *)
ValidCache(c) == IF version[c] = VersionOf(disk[PageOne]) THEN cache[c] ELSE Empty

(* The end of sqlite3PagerSharedLock, and lockBtree: with a SHARED lock on a  *)
(* file that is consistent, a cache of another version of it is dropped and   *)
(* page one is read.  A page that the read key does not decrypt puts the      *)
(* codec into an error state for good.                                        *)
Enter(c) ==
    LET current == VersionOf(disk[PageOne])
        valid == ValidCache(c)
        readable == valid[PageOne] # NoPage \/ current.key = readKey[c]
    IN  /\ version' = [version EXCEPT ![c] = current]
        /\ cache' = [cache EXCEPT ![c] =
               IF ~readable THEN Empty
               ELSE IF valid[PageOne] # NoPage THEN valid
               ELSE [valid EXCEPT ![PageOne] = disk[PageOne].by]]
        /\ readKey' = [readKey EXCEPT ![c] = IF readable THEN @ ELSE NoKey]
        /\ lock' = [lock EXCEPT ![c] = IF readable THEN SHARED ELSE NO_LOCK]
        /\ state' = [state EXCEPT ![c] = IF readable THEN "reader" ELSE "open"]
        /\ UNCHANGED dirty

(* sqlite3PagerSharedLock as far as the question whether there is a journal.  *)
SharedLock(c) ==
    /\ state[c] = "open"
    /\ MayShare(c)
    /\ IF journal.exists
       THEN /\ lock' = [lock EXCEPT ![c] = SHARED]
            /\ state' = [state EXCEPT ![c] = "sharing"]
            /\ UNCHANGED <<cacheVars, readKey>>
       ELSE Enter(c)
    /\ UNCHANGED <<fileVars, journalVars, rekeyVars, txn, todo, boundVars, previous>>

(* hasHotJournal: a journal is somebody's while a RESERVED lock is held, and  *)
(* one whose header was never counted begins with a zero and is left alone;   *)
(* one that is gone by now is taken for hot.                                  *)
MayBeHot(c) == MayReserve(c) /\ (journal.exists => journal.counted # {})

HasHotJournal(c) ==
    /\ state[c] = "sharing"
    /\ IF MayBeHot(c)
       THEN /\ state' = [state EXCEPT ![c] = "hot"]
            /\ UNCHANGED <<lock, cacheVars, readKey>>
       ELSE Enter(c)
    /\ UNCHANGED <<fileVars, journalVars, rekeyVars, txn, todo, boundVars, previous>>

(* An EXCLUSIVE lock straight from SHARED, so that no reader takes this one   *)
(* for a writer and ignores the journal.  The journal may be gone by now; one *)
(* that is there is made durable before it is played back.                    *)
LockHotJournal(c) ==
    /\ state[c] = "hot"
    /\ MayExclude(c)
    /\ IF journal.exists
       THEN /\ lock' = [lock EXCEPT ![c] = EXCLUSIVE]
            /\ state' = [state EXCEPT ![c] = "playback"]
            /\ kept' = {journal}
            /\ todo' = [todo EXCEPT ![c] = journal.counted]
            /\ cache' = [cache EXCEPT ![c] = IF journal.counted = {} THEN @ ELSE Empty]
            /\ UNCHANGED <<dirty, version, readKey>>
       ELSE /\ Enter(c)
            /\ UNCHANGED <<kept, todo>>
    /\ UNCHANGED <<fileVars, journal, rekeyVars, txn, boundVars, previous>>

HotJournalBusy(c) ==
    /\ state[c] = "hot"
    /\ ~MayExclude(c)
    /\ lock' = [lock EXCEPT ![c] = NO_LOCK]
    /\ state' = [state EXCEPT ![c] = "open"]
    /\ UNCHANGED <<fileVars, journalVars, cacheVars, keyVars, txn, todo, boundVars, previous>>

(* pager_playback_one_page of a hot journal: the record is copied as it is    *)
(* encrypted.                                                                 *)
PlaybackOnePage(c, p) ==
    /\ state[c] = "playback"
    /\ p \in todo[c]
    /\ WriteDisk(p, journal.record[p])
    /\ todo' = [todo EXCEPT ![c] = @ \ {p}]
    /\ UNCHANGED <<journalVars, lock, state, cacheVars, keyVars, txn, boundVars, previous>>

(* The end of pager_playback of a hot journal.                                *)
PlaybackEnd(c) ==
    /\ state[c] = "playback"
    /\ todo[c] = {}
    /\ SyncDisk
    /\ DeleteJournal
    /\ Enter(c)
    /\ UNCHANGED <<disk, rekeyVars, txn, todo, boundVars, previous>>

-----------------------------------------------------------------------------
(* Reading: a page that is not cached comes from the file.                    *)
ReadPage(c, p) ==
    /\ state[c] \in {"reader", "locked", "cachemod", "dbmod"}
    /\ cache[c][p] = NoPage
    /\ c \in rekeying => state[c] = "locked" \/ journal.record[p] = NoPage
    /\ IF disk[p].key = readKey[c]
       THEN /\ cache' = [cache EXCEPT ![c][p] = disk[p].by]
            /\ UNCHANGED <<state, readKey>>
       ELSE /\ state' = [state EXCEPT ![c] = "error"]
            /\ readKey' = [readKey EXCEPT ![c] = NoKey]
            /\ UNCHANGED cache
    /\ UNCHANGED <<fileVars, journalVars, lock, dirty, version, rekeyVars, txn, todo,
                   boundVars, previous>>

(* The read transaction ends; the cache is kept for the next one.             *)
EndRead(c) ==
    /\ state[c] = "reader"
    /\ lock' = [lock EXCEPT ![c] = NO_LOCK]
    /\ state' = [state EXCEPT ![c] = "open"]
    /\ UNCHANGED <<fileVars, journalVars, cacheVars, keyVars, txn, todo, boundVars, previous>>

-----------------------------------------------------------------------------
(* sqlite3PagerBegin; a connection that may not is told SQLITE_BUSY.          *)
Reserve(c) ==
    /\ MayReserve(c)
    /\ lock' = [lock EXCEPT ![c] = RESERVED]
    /\ state' = [state EXCEPT ![c] = "locked"]

(* A write that changes pages begins; it joins the transaction that a rekey   *)
(* whose commit failed has left open.                                         *)
BeginWrite(c) ==
    /\ begun < MaxTxns
    /\ \/ /\ state[c] = "reader"
          /\ Reserve(c)
       \/ /\ state[c] \in {"cachemod", "dbmod"}
          /\ txn[c] = 0 /\ c \notin rekeying
          /\ UNCHANGED <<lock, state>>
    /\ begun' = begun + 1
    /\ txn' = [txn EXCEPT ![c] = begun']
    /\ UNCHANGED <<fileVars, journalVars, cacheVars, keyVars, todo, troubles, previous>>

(* Mutant: a journal encrypted like the pages (CODEC_WRITE_OP).               *)
OriginalWithWriteKey(c, p) ==
    [by |-> cache[c][p], counter |-> Counter(p, version[c].counter), key |-> writeKey[c]]

(* pagerAddPageToRollbackJournal: the original, encrypted again with the read *)
(* key (CODEC_JOURNAL_OP).                                                    *)
Original(c, p) ==
    [by |-> cache[c][p], counter |-> Counter(p, version[c].counter), key |-> readKey[c]]

(* Mutant: a journal that takes every version of a page.                      *)
WithLatest(j, c, p) == [j EXCEPT !.record[p] = Original(c, p)]

WithOriginal(j, c, p) ==
    IF j.record[p] = NoPage THEN [j EXCEPT !.record[p] = Original(c, p)] ELSE j

(* What the page becomes: a rekey writes back what it read.                   *)
Modified(c, p) == IF txn[c] = 0 THEN cache[c][p] ELSE txn[c]

(* pager_write: the first page of a transaction opens the journal; records    *)
(* that no header counts yet change nothing in what a loss of power leaves.   *)
WritePage(c, p) ==
    /\ state[c] \in {"locked", "cachemod", "dbmod"}
    /\ cache[c][p] # NoPage
    /\ IF state[c] = "locked"
       THEN /\ journal' = WithOriginal(NewJournal, c, p)
            /\ kept' = kept \union {NewJournal}
            /\ state' = [state EXCEPT ![c] = "cachemod"]
       ELSE /\ journal.record[p] = NoPage \/ cache[c][p] # Modified(c, p)
            /\ journal' = WithOriginal(journal, c, p)
            /\ UNCHANGED <<kept, state>>
    /\ cache' = [cache EXCEPT ![c][p] = Modified(c, p)]
    /\ dirty' = [dirty EXCEPT ![c] = @ \union {p}]
    /\ UNCHANGED <<fileVars, lock, version, keyVars, txn, todo, boundVars, previous>>

(* Mutant: a journal that is not synced before the file is written.           *)
CountWithoutSync(j) ==
    /\ journal' = AllCounted(j)
    /\ kept' = kept \union {journal'}

(* syncJournal with the EXCLUSIVE lock: the records are synced, then counted  *)
(* in the header, then the header is synced.                                  *)
SyncJournal(j) ==
    /\ journal' = AllCounted(j)
    /\ kept' = {journal'}

(* What pager_write_pagelist writes (CODEC_WRITE_OP).                         *)
Encrypted(c, p) ==
    [by |-> cache[c][p], counter |-> Counter(p, version[c].counter + 1), key |-> writeKey[c]]

(* pagerStress: a page leaves the cache before the commit.  While others read *)
(* it cannot, and the connection keeps the PENDING lock.                      *)
Spill(c, p) ==
    /\ state[c] \in {"cachemod", "dbmod"}
    /\ p \in dirty[c] \ {PageOne}
    /\ IF MayExclude(c)
       THEN /\ lock' = [lock EXCEPT ![c] = EXCLUSIVE]
            /\ SyncJournal(journal)
            /\ WriteDisk(p, Encrypted(c, p))
            /\ state' = [state EXCEPT ![c] = "dbmod"]
            /\ cache' = [cache EXCEPT ![c][p] = NoPage]
            /\ dirty' = [dirty EXCEPT ![c] = @ \ {p}]
       ELSE /\ lock' = [lock EXCEPT ![c] = PENDING]
            /\ UNCHANGED <<journalVars, fileVars, state, cache, dirty>>
    /\ UNCHANGED <<version, keyVars, txn, todo, boundVars, previous>>

-----------------------------------------------------------------------------
(* sqlite3PagerCommitPhaseOne counts the change in page one, takes the        *)
(* EXCLUSIVE lock and syncs the journal.  While others read it answers        *)
(* SQLITE_BUSY: the transaction and the PENDING lock stay.  sqlite3_rekey_v2  *)
(* takes the new key for the current one even then, and returns SQLITE_OK.    *)
RekeyDone(c, ok) ==
    /\ rekeying' = rekeying \ {c}
    /\ readKey' = [readKey EXCEPT ![c] = IF c \in rekeying THEN writeKey[c] ELSE @]
    /\ misled' = (misled \/ (c \in rekeying /\ ~ok))
    /\ UNCHANGED <<writeKey, rekeys>>

(* Mutant: a commit that writes every page of the journal.                    *)
PagesInJournal(c) == Recorded(journal) \union {PageOne}

PagesToWrite(c) == dirty[c] \union {PageOne}

CommitPhaseOne(c) ==
    LET counted == WithOriginal(journal, c, PageOne)
        pages == PagesToWrite(c)
    IN  /\ state[c] \in {"cachemod", "dbmod"}
        /\ c \in rekeying => Recorded(journal) = Pages
        /\ cache' = [cache EXCEPT ![c][PageOne] = Modified(c, PageOne)]
        /\ dirty' = [dirty EXCEPT ![c] = pages]
        /\ IF MayExclude(c)
           THEN /\ lock' = [lock EXCEPT ![c] = EXCLUSIVE]
                /\ SyncJournal(counted)
                /\ state' = [state EXCEPT ![c] = "writing"]
                /\ todo' = [todo EXCEPT ![c] = pages]
                /\ UNCHANGED keyVars
           ELSE /\ lock' = [lock EXCEPT ![c] = PENDING]
                /\ journal' = counted
                /\ RekeyDone(c, FALSE)
                /\ UNCHANGED <<kept, state, todo>>
        /\ UNCHANGED <<fileVars, version, txn, boundVars, previous>>

(* pager_write_pagelist, one page.                                            *)
WriteBack(c, p) ==
    /\ state[c] = "writing"
    /\ p \in todo[c]
    /\ WriteDisk(p, Encrypted(c, p))
    /\ todo' = [todo EXCEPT ![c] = @ \ {p}]
    /\ UNCHANGED <<journalVars, lock, state, cacheVars, keyVars, txn, boundVars, previous>>

(* The end of phase one, with the version that the write of page one noted.   *)
SyncDatabase(c) ==
    /\ state[c] = "writing"
    /\ todo[c] = {}
    /\ SyncDisk
    /\ dirty' = [dirty EXCEPT ![c] = {}]
    /\ version' = [version EXCEPT ![c] = VersionOf(disk[PageOne])]
    /\ state' = [state EXCEPT ![c] = "finished"]
    /\ UNCHANGED <<disk, journalVars, lock, cache, keyVars, txn, todo, boundVars, previous>>

(* sqlite3PagerCommitPhaseTwo: the transaction is committed when the journal  *)
(* is deleted.  In mode FULL the directory is not synced.                     *)
CommitPhaseTwo(c) ==
    /\ state[c] = "finished"
    /\ DeleteJournal
    /\ lock' = [lock EXCEPT ![c] = SHARED]
    /\ state' = [state EXCEPT ![c] = "reader"]
    /\ txn' = [txn EXCEPT ![c] = 0]
    /\ RekeyDone(c, TRUE)
    /\ previous' = CommittedBy
    /\ UNCHANGED <<fileVars, cacheVars, todo, boundVars>>

-----------------------------------------------------------------------------
(* sqlite3PagerRollback: a transaction that has a journal plays it back.      *)
EndTransaction(c, decipherable) ==
    /\ lock' = [lock EXCEPT ![c] = SHARED]
    /\ state' = [state EXCEPT ![c] = IF decipherable THEN "reader" ELSE "error"]
    /\ dirty' = [dirty EXCEPT ![c] = {}]
    /\ txn' = [txn EXCEPT ![c] = 0]

PagerRollback(c) ==
    \/ /\ state[c] = "locked"
       /\ EndTransaction(c, TRUE)
       /\ UNCHANGED <<journalVars, cache, version, readKey, todo>>
    \/ /\ state[c] \in {"cachemod", "dbmod", "writing", "finished"}
       /\ state' = [state EXCEPT ![c] = "undo"]
       /\ todo' = [todo EXCEPT ![c] = Recorded(journal)]
       /\ UNCHANGED <<journalVars, lock, cacheVars, readKey, txn>>

(* The application rolls back, or the commit has failed on the way.           *)
Rollback(c) ==
    /\ c \notin rekeying
    /\ PagerRollback(c)
    /\ UNCHANGED <<fileVars, rekeyVars, boundVars, previous>>

(* pager_playback_one_page of this connection's journal.  A page that may     *)
(* have been written is restored in the file, and a cached one in the cache.  *)
(* A record that the read key does not decrypt is an error of the codec; the  *)
(* next record it is asked for ends the rollback, and leaves a hot journal.   *)
UndoCache(c, p) ==
    LET original == journal.record[p]
    IN  \/ /\ cache[c][p] # NoPage /\ readKey[c] = original.key
          /\ cache' = [cache EXCEPT ![c][p] = original.by]
          /\ version' = [version EXCEPT ![c] = IF p = PageOne THEN VersionOf(original) ELSE @]
          /\ UNCHANGED <<readKey, state>>
       \/ /\ cache[c][p] # NoPage /\ readKey[c] # original.key
          /\ readKey' = [readKey EXCEPT ![c] = NoKey]
          /\ state' = [state EXCEPT ![c] = IF readKey[c] = NoKey THEN "error" ELSE @]
          /\ UNCHANGED <<cache, version>>
       \/ /\ cache[c][p] = NoPage
          /\ UNCHANGED <<cache, version, readKey, state>>

UndoPage(c, p) ==
    /\ state[c] = "undo"
    /\ p \in todo[c]
    /\ IF p \in journal.counted
       THEN WriteDisk(p, journal.record[p])
       ELSE UNCHANGED fileVars
    /\ UndoCache(c, p)
    /\ todo' = [todo EXCEPT ![c] = @ \ {p}]
    /\ UNCHANGED <<journalVars, lock, dirty, rekeyVars, txn, boundVars, previous>>

UndoEnd(c) ==
    /\ state[c] = "undo"
    /\ todo[c] = {}
    /\ SyncDisk
    /\ DeleteJournal
    /\ EndTransaction(c, readKey[c] # NoKey)
    /\ UNCHANGED <<disk, cache, version, keyVars, todo, boundVars, previous>>

-----------------------------------------------------------------------------
Trouble ==
    /\ troubles < MaxTroubles
    /\ troubles' = troubles + 1
    /\ UNCHANGED begun

(* sqlite3_rekey_v2 with a new key, called outside of a transaction: the      *)
(* write key is the new one before a lock is asked for, and stays it when the *)
(* lock is refused.  The return value is SQLITE_OK either way.                *)
Rekey(c, k) ==
    /\ rekeys < MaxRekeys
    /\ Trouble
    /\ k # writeKey[c] /\ readKey[c] # NoKey
    /\ \/ /\ state[c] = "reader"
          /\ Reserve(c)
          /\ rekeying' = rekeying \union {c}
          /\ UNCHANGED misled
       \/ /\ \/ state[c] = "reader" /\ ~MayReserve(c)
             \/ state[c] = "open" /\ ~MayShare(c)
          /\ misled' = TRUE
          /\ UNCHANGED <<lock, state, rekeying>>
    /\ writeKey' = [writeKey EXCEPT ![c] = k]
    /\ rekeys' = rekeys + 1
    /\ UNCHANGED <<fileVars, journalVars, cacheVars, readKey, txn, todo, previous>>

RekeyEnds(c) ==
    /\ rekeying' = rekeying \ {c}
    /\ misled' = (misled \/ c \in rekeying)
    /\ UNCHANGED <<writeKey, rekeys>>

(* A page cannot be read or written: the rekey is rolled back.                *)
RekeyFails(c) ==
    /\ c \in rekeying
    /\ Trouble
    /\ state[c] \in {"locked", "cachemod", "dbmod"}
    /\ PagerRollback(c)
    /\ RekeyEnds(c)
    /\ UNCHANGED <<fileVars, previous>>

(* An I/O error in phase one of its commit: the transaction stays open, and   *)
(* the new key is the current one.                                            *)
RekeyCommitFails(c) ==
    /\ c \in rekeying
    /\ Trouble
    /\ state[c] = "writing"
    /\ state' = [state EXCEPT ![c] = "dbmod"]
    /\ todo' = [todo EXCEPT ![c] = {}]
    /\ RekeyDone(c, FALSE)
    /\ UNCHANGED <<fileVars, journalVars, lock, cacheVars, txn, previous>>

-----------------------------------------------------------------------------
(* pager_error: I/O errors in a playback, in a spill and in the deletion of   *)
(* the journal put the pager into its error state.  A commit that fails in    *)
(* phase two has released the EXCLUSIVE lock, and the journal is hot.         *)
PlaybackFails(c) ==
    /\ state[c] \in {"playback", "undo"}
    /\ Trouble
    /\ state' = [state EXCEPT ![c] = "error"]
    /\ UNCHANGED <<fileVars, journalVars, lock, cacheVars, keyVars, txn, todo, previous>>

SpillFails(c) ==
    /\ state[c] \in {"cachemod", "dbmod"}
    /\ dirty[c] \ {PageOne} # {}
    /\ MayExclude(c)
    /\ Trouble
    /\ lock' = [lock EXCEPT ![c] = EXCLUSIVE]
    /\ state' = [state EXCEPT ![c] = "error"]
    /\ UNCHANGED <<fileVars, journalVars, cacheVars, keyVars, txn, todo, previous>>

CommitPhaseTwoFails(c) ==
    /\ state[c] = "finished"
    /\ Trouble
    /\ lock' = [lock EXCEPT ![c] = SHARED]
    /\ state' = [state EXCEPT ![c] = "error"]
    /\ RekeyDone(c, FALSE)
    /\ UNCHANGED <<fileVars, journalVars, cacheVars, txn, todo, previous>>

(* What is in memory is given up, with the locks of the connections C.        *)
Drop(C) ==
    /\ lock' = [c \in Conns |-> IF c \in C THEN NO_LOCK ELSE lock[c]]
    /\ cache' = [c \in Conns |-> IF c \in C THEN Empty ELSE cache[c]]
    /\ dirty' = [c \in Conns |-> IF c \in C THEN {} ELSE dirty[c]]
    /\ txn' = [c \in Conns |-> IF c \in C THEN 0 ELSE txn[c]]
    /\ todo' = [c \in Conns |-> IF c \in C THEN {} ELSE todo[c]]

(* pager_unlock in the error state: no rollback, the cache is not trusted,    *)
(* and a journal that is left becomes hot.                                    *)
PagerUnlock(c) ==
    /\ state[c] = "error"
    /\ Drop({c})
    /\ state' = [state EXCEPT ![c] = "open"]
    /\ RekeyEnds(c)
    /\ UNCHANGED <<fileVars, journalVars, version, readKey, boundVars, previous>>

Forget(C) ==
    /\ Drop(C)
    /\ state' = [c \in Conns |-> IF c \in C THEN "closed" ELSE state[c]]
    /\ readKey' = [c \in Conns |-> IF c \in C THEN NoKey ELSE readKey[c]]
    /\ writeKey' = [c \in Conns |-> IF c \in C THEN NoKey ELSE writeKey[c]]
    /\ version' = [c \in Conns |-> IF c \in C THEN NoVersion ELSE version[c]]
    /\ rekeying' = rekeying \ C
    /\ UNCHANGED <<rekeys, misled>>

Close(c) ==
    /\ state[c] = "open"
    /\ Forget({c})
    /\ UNCHANGED <<fileVars, journalVars, boundVars, previous>>

(* sqlite3_open and sqlite3_key: nothing is read yet, so any key is accepted. *)
Open(c, k) ==
    /\ state[c] = "closed"
    /\ state' = [state EXCEPT ![c] = "open"]
    /\ readKey' = [readKey EXCEPT ![c] = k]
    /\ writeKey' = [writeKey EXCEPT ![c] = k]
    /\ UNCHANGED <<fileVars, journalVars, lock, cacheVars, rekeying, rekeys, misled,
                   txn, todo, boundVars, previous>>

(* A process dies: the system releases its locks, and keeps the files.  One   *)
(* that is idle might as well close its connection.                           *)
Crash(c) ==
    /\ Trouble
    /\ state[c] \notin {"closed", "open"}
    /\ Forget({c})
    /\ UNCHANGED <<fileVars, journalVars, previous>>

(* The power is lost: of what was not synced any part may be on the disk.     *)
PowerLoss ==
    /\ Trouble
    /\ \E d \in Survivors, j \in kept :
          /\ disk' = d
          /\ journal' = j
    /\ durable' = [p \in Pages |-> {disk'[p]}]
    /\ kept' = {journal'}
    /\ previous' = CommittedBy'
    /\ Forget(Conns)

Next ==
    \/ \E c \in Conns :
          \/ SharedLock(c) \/ HasHotJournal(c) \/ LockHotJournal(c) \/ HotJournalBusy(c)
          \/ PlaybackEnd(c) \/ EndRead(c) \/ BeginWrite(c)
          \/ CommitPhaseOne(c) \/ SyncDatabase(c) \/ CommitPhaseTwo(c)
          \/ Rollback(c) \/ UndoEnd(c)
          \/ RekeyFails(c) \/ RekeyCommitFails(c)
          \/ PlaybackFails(c) \/ SpillFails(c) \/ CommitPhaseTwoFails(c) \/ PagerUnlock(c)
          \/ Close(c) \/ Crash(c)
          \/ \E k \in Keys : Rekey(c, k) \/ Open(c, k)
          \/ \E p \in Pages :
                \/ PlaybackOnePage(c, p) \/ UndoPage(c, p) \/ ReadPage(c, p) \/ WritePage(c, p)
                \/ Spill(c, p) \/ WriteBack(c, p)
    \/ PowerLoss

Spec == Init /\ [][Next]_vars

-----------------------------------------------------------------------------
(* Every variable holds what the code can put into it: of the journal only    *)
(* recorded pages are counted, a page is written back from the cache, and the *)
(* keys of an open connection are ones it was given.                          *)
TypeOK ==
    /\ disk \in [Pages -> Content] /\ durable \in [Pages -> SUBSET Content]
    /\ \A p \in Pages : disk[p] \in durable[p]
    /\ journal \in Journals /\ kept \subseteq Journals
    /\ lock \in [Conns -> NO_LOCK .. EXCLUSIVE]
    /\ state \in [Conns -> {"closed", "open", "sharing", "hot", "playback", "reader", "error"}
                            \union Writing]
    /\ cache \in [Conns -> [Pages -> Txns \union {NoPage}]]
    /\ dirty \in [Conns -> SUBSET Pages] /\ todo \in [Conns -> SUBSET Pages]
    /\ version \in [Conns -> Versions]
    /\ readKey \in [Conns -> Keys \union {NoKey}] /\ writeKey \in [Conns -> Keys \union {NoKey}]
    /\ txn \in [Conns -> Txns] /\ rekeying \subseteq Conns
    /\ begun \in Txns /\ rekeys \in 0 .. MaxRekeys
    /\ troubles \in 0 .. MaxTroubles
    /\ previous \in [Pages -> Txns] /\ misled \in BOOLEAN

(* The locks exclude each other as the chart above unixLock says: nobody else *)
(* has a lock beside EXCLUSIVE, and one connection at most intends to write.  *)
LockTable ==
    \A c, d \in Conns : c # d =>
        /\ lock[c] = EXCLUSIVE => lock[d] = NO_LOCK
        /\ lock[c] >= RESERVED => lock[d] < RESERVED

(* A reader sees one version of the file, the committed one, however long it  *)
(* has kept its cache, and whoever writes, rolls back, dies or recovers; so   *)
(* does a writer of the pages it has not changed.                             *)
ReadsCommitted ==
    \A c \in Conns, p \in Pages :
        (/\ cache[c][p] # NoPage
         /\ \/ state[c] \in {"reader", "locked"}
            \/ state[c] \in Writing /\ journal.record[p] = NoPage)
        => cache[c][p] = CommittedBy[p]

(* Whatever part of the unsynced writes a loss of power leaves, the next      *)
(* reader finds, after the recovery if there is a journal, what is committed, *)
(* or all of it but the last commit: the directory is not synced when the     *)
(* journal is deleted.                                                        *)
Recoverable ==
    \A d \in Survivors, j \in kept :
        LET found == [p \in Pages |-> PlayedBack(j, d)[p].by]
        IN  found \in {CommittedBy, previous}

(* After a rekey that says it is done, and after one that was interrupted,    *)
(* every page can be decrypted with one and the same key, as "this will       *)
(* reencrypt the database using a new key" says.                              *)
OneKey ==
    \A d \in Survivors, j \in kept, p, q \in Pages :
        PlayedBack(j, d)[p].key = PlayedBack(j, d)[q].key

(* The same, as long as no rekey that failed has answered SQLITE_OK.          *)
OneKeyUnlessMisled == misled \/ OneKey

-----------------------------------------------------------------------------
(* What every state satisfies, and makes all of the above true.               *)

(* The lock each place of the pager has.                                      *)
StateLocks ==
    \A c \in Conns :
        /\ state[c] \in {"closed", "open"} => lock[c] = NO_LOCK
        /\ state[c] \in {"sharing", "hot", "reader"} => lock[c] = SHARED
        /\ state[c] = "locked" => lock[c] = RESERVED
        /\ state[c] = "cachemod" => lock[c] \in {RESERVED, PENDING}
        /\ state[c] = "undo" => lock[c] \in {RESERVED, PENDING, EXCLUSIVE}
        /\ state[c] \in {"playback", "dbmod", "writing", "finished"} => lock[c] = EXCLUSIVE

(* What a page of the transaction of c may hold: its original, or the change. *)
Versioned(c, p) == {journal.record[p].by} \union ({txn[c]} \ {0})

(* The pages of the cache that the file does not have yet.                    *)
Pending(c) == IF state[c] = "writing" THEN todo[c] ELSE dirty[c]

Changing == {"cachemod", "dbmod", "writing", "finished"}
Reading == {"reader", "locked"} \union Changing

CacheShapeOf(c) ==
    /\ dirty[c] # {} => state[c] \in {"cachemod", "dbmod", "writing", "undo", "error"}
    /\ \A p \in dirty[c] : cache[c][p] # NoPage
    /\ state[c] \in Reading \union {"undo"} => cache[c][PageOne] # NoPage
    /\ readKey[c] = NoKey =>
           state[c] \in {"undo", "error"} \/ (state[c] \notin Reading /\ cache[c] = Empty)
    /\ state[c] # "closed" => writeKey[c] # NoKey
    /\ state[c] = "closed" => cache[c] = Empty
CacheShape == \A c \in Conns : CacheShapeOf(c)

JournalShapeOf(c) ==
    /\ lock[c] \in {RESERVED, PENDING} \/ state[c] = "reader" => journal.counted = {}
    /\ state[c] \in Changing \union {"undo", "playback"} => journal.exists
    /\ state[c] \in Changing => dirty[c] \subseteq Recorded(journal)
    /\ state[c] \in {"writing", "finished"} =>
           PageOne \in journal.counted /\ Recorded(journal) = journal.counted
    /\ state[c] = "writing" => todo[c] \subseteq dirty[c]
    /\ state[c] = "playback" => todo[c] \subseteq journal.counted
    /\ state[c] = "undo" => todo[c] \subseteq Recorded(journal)
JournalShape ==
    /\ \A j \in kept \union {journal} : ~j.exists => j = NoJournal
    /\ \A c \in Conns : JournalShapeOf(c)

SameEffect(j) ==
    /\ j.counted = journal.counted
    /\ \A p \in journal.counted : j.record[p] = journal.record[p]

UncountedSynced == \A p \in Pages : p \notin journal.counted => durable[p] = {disk[p]}
KeptSameEffect == journal.counted # {} => \A j \in kept : SameEffect(j)
KeptCommitted ==
    journal.counted = {} =>
        \A j \in kept : [p \in Pages |-> PlayedBack(j, disk)[p].by] \in {CommittedBy, previous}
DiskShapeOf(c) ==
    /\ state[c] = "finished" => \A p \in Pages : durable[p] = {disk[p]}
    /\ state[c] \in {"playback", "undo"} =>
           \A p \in journal.counted \ todo[c] : disk[p] = journal.record[p]
DiskShape ==
    /\ UncountedSynced /\ KeptSameEffect /\ KeptCommitted
    /\ \A c \in Conns : DiskShapeOf(c)

(* Of a transaction: what is on the disk and in the cache is its change or    *)
(* the original, and the originals are those of the file.                     *)
TransactionShapeOf(c, p) ==
    /\ state[c] \in Changing /\ p \in journal.counted => disk[p].by \in Versioned(c, p)
    /\ state[c] \in Changing /\ p \in Recorded(journal) /\ cache[c][p] # NoPage
           => cache[c][p] \in Versioned(c, p)
    /\ state[c] \in Changing \union {"undo"} /\ p \in Recorded(journal) \ journal.counted
           => /\ journal.record[p].by = disk[p].by
              /\ p = PageOne => journal.record[p].counter = disk[p].counter
    /\ state[c] \in Reading /\ cache[c][p] # NoPage /\ p \notin Pending(c)
           => cache[c][p] = disk[p].by
    /\ state[c] = "undo" /\ cache[c][p] # NoPage =>
           /\ p \notin Recorded(journal) => cache[c][p] = disk[p].by
           /\ p \in Recorded(journal) \ todo[c] /\ readKey[c] # NoKey
                  => cache[c][p] = journal.record[p].by
TransactionShape == \A c \in Conns, p \in Pages : TransactionShapeOf(c, p)

(* The change counter: the one a writer counts from is the committed one, and *)
(* a cache that is left from an earlier transaction has the counter of its    *)
(* pages, or a smaller one than the file.                                     *)
CommittedCounter == Committed[PageOne].counter

CounterShapeOf(c) ==
    /\ state[c] \in Reading \ {"finished"} => version[c].counter = CommittedCounter
    /\ state[c] = "writing" /\ PageOne \notin todo[c]
           => disk[PageOne].counter = CommittedCounter + 1
    /\ state[c] = "finished"
           => /\ disk[PageOne].counter = CommittedCounter + 1
              /\ version[c].counter = disk[PageOne].counter
    /\ state[c] = "undo" /\ PageOne \notin todo[c] /\ readKey[c] # NoKey
           => version[c].counter = CommittedCounter
    /\ state[c] \in {"open", "sharing", "hot", "playback"} /\ cache[c] # Empty
           => /\ version[c].counter <= CommittedCounter
              /\ version[c].counter = CommittedCounter =>
                     \A p \in Pages : cache[c][p] \in {NoPage, CommittedBy[p]}
CounterShape == \A c \in Conns : CounterShapeOf(c)

Inductive ==
    /\ TypeOK
    /\ StateLocks /\ LockTable
    /\ CacheShape /\ JournalShape /\ DiskShape
    /\ TransactionShape /\ CounterShape

-----------------------------------------------------------------------------
(* What every state satisfies besides, as long as no rekey that failed has    *)
(* answered SQLITE_OK: the key of what is committed, and who has it.          *)
CommittedKey == Committed[PageOne].key

(* What is committed has one key, and so has each of the versions that a loss *)
(* of power may bring back when no record is counted.                         *)
CommittedOfOneKey == \A p \in Pages : Committed[p].key = CommittedKey
KeptOfOneKey ==
    journal.counted = {} =>
        \A j \in kept, p \in Pages :
            PlayedBack(j, disk)[p].key = PlayedBack(j, disk)[PageOne].key

(* A connection outside of a rekey writes with the key it reads with, and     *)
(* whoever reads has the key of what is committed.  The journal keeps that    *)
(* key; what its owner has written has the new one, and a rekey writes all.   *)
KeyShapeOf(c) ==
    /\ c \notin rekeying /\ readKey[c] # NoKey => writeKey[c] = readKey[c]
    /\ state[c] \in Reading \union {"undo"} /\ readKey[c] # NoKey
           => readKey[c] = CommittedKey
    /\ cache[c] # Empty /\ readKey[c] # NoKey /\ state[c] \notin {"finished", "error"}
           => version[c].key = readKey[c]
    /\ state[c] = "finished" => version[c].key = writeKey[c]
    /\ state[c] \in Changing =>
           \A p \in Recorded(journal) :
               /\ journal.record[p].key = readKey[c]
               /\ p \notin Pending(c) => disk[p].key = writeKey[c]
    /\ state[c] \in {"writing", "finished"} /\ c \in rekeying => Recorded(journal) = Pages
KeyShape ==
    /\ CommittedOfOneKey /\ KeptOfOneKey
    /\ \A c \in Conns : KeyShapeOf(c)

KeysInductive == misled \/ KeyShape

(* The pagers together are the atomic file that transactions rely on.         *)
Atomic == INSTANCE AtomicFile WITH
    file <- CommittedBy,
    reading <- {c \in Conns : state[c] \in InTransaction}
ImplementsAtomicFile == Atomic!Spec
=============================================================================
