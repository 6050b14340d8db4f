----------------------------- MODULE PagerTypes -----------------------------
(* Theorems about Pager, for any connections, pages, keys and bounds.          *)
EXTENDS Pager, TLAPS

Locks == StateLocks /\ LockTable
LockTypes ==
    /\ lock \in [Conns -> NO_LOCK .. EXCLUSIVE]
    /\ state \in [Conns -> {"closed", "open", "sharing", "hot", "playback", "reader", "error"}
                            \union Writing]

LEMMA LocksStep ==
    ASSUME LockTypes, Locks, [Next]_vars
    PROVE  Locks' /\ LockTypes'
<1> USE DEF Locks, LockTypes, StateLocks, LockTable, Writing,
            NO_LOCK, SHARED, RESERVED, PENDING, EXCLUSIVE,
            Others, MayShare, MayReserve, MayExclude
<1>1. ASSUME NEW c \in Conns, SharedLock(c) PROVE Locks' /\ LockTypes'
  BY <1>1 DEF SharedLock, Enter
<1>2. ASSUME NEW c \in Conns, HasHotJournal(c) PROVE Locks' /\ LockTypes'
  BY <1>2 DEF HasHotJournal, Enter
<1>3. ASSUME NEW c \in Conns, LockHotJournal(c) PROVE Locks' /\ LockTypes'
  BY <1>3 DEF LockHotJournal, Enter
<1>4. ASSUME NEW c \in Conns, HotJournalBusy(c) PROVE Locks' /\ LockTypes'
  BY <1>4 DEF HotJournalBusy
<1>5. ASSUME NEW c \in Conns, PlaybackEnd(c) PROVE Locks' /\ LockTypes'
  BY <1>5 DEF PlaybackEnd, Enter
<1>6. ASSUME NEW c \in Conns, EndRead(c) PROVE Locks' /\ LockTypes'
  BY <1>6 DEF EndRead
<1>7. ASSUME NEW c \in Conns, BeginWrite(c) PROVE Locks' /\ LockTypes'
  BY <1>7 DEF BeginWrite, Reserve
<1>8. ASSUME NEW c \in Conns, CommitPhaseOne(c) PROVE Locks' /\ LockTypes'
  BY <1>8 DEF CommitPhaseOne, RekeyDone
<1>9. ASSUME NEW c \in Conns, SyncDatabase(c) \/ CommitPhaseTwo(c) PROVE Locks' /\ LockTypes'
  BY <1>9 DEF SyncDatabase, CommitPhaseTwo, RekeyDone
<1>10. ASSUME NEW c \in Conns, PagerRollback(c) PROVE Locks' /\ LockTypes'
  BY <1>10 DEF PagerRollback, EndTransaction
<1>11. ASSUME NEW c \in Conns, UndoEnd(c) PROVE Locks' /\ LockTypes'
  BY <1>11 DEF UndoEnd, EndTransaction
<1>12. ASSUME NEW c \in Conns, NEW k \in Keys, Rekey(c, k) PROVE Locks' /\ LockTypes'
  BY <1>12 DEF Rekey, Reserve
<1>13. ASSUME NEW c \in Conns, RekeyCommitFails(c) \/ PlaybackFails(c) \/ SpillFails(c) \/ CommitPhaseTwoFails(c)
    PROVE Locks' /\ LockTypes'
  BY <1>13 DEF RekeyCommitFails, PlaybackFails, SpillFails, CommitPhaseTwoFails, RekeyDone
<1>14. ASSUME NEW c \in Conns, PagerUnlock(c) PROVE Locks' /\ LockTypes'
  BY <1>14 DEF PagerUnlock, Drop
<1>15. ASSUME NEW c \in Conns, Close(c) \/ Crash(c) PROVE Locks' /\ LockTypes'
  BY <1>15 DEF Close, Crash, Forget, Drop
<1>16. ASSUME NEW c \in Conns, NEW k \in Keys, Open(c, k) PROVE Locks' /\ LockTypes'
  BY <1>16 DEF Open
<1>17. ASSUME NEW c \in Conns, NEW p \in Pages,
              PlaybackOnePage(c, p) \/ ReadPage(c, p) \/ WritePage(c, p) \/ WriteBack(c, p)
       PROVE Locks' /\ LockTypes'
  BY <1>17 DEF PlaybackOnePage, ReadPage, WritePage, WriteBack
<1>18. ASSUME NEW c \in Conns, NEW p \in Pages, Spill(c, p) PROVE Locks' /\ LockTypes'
  BY <1>18 DEF Spill
<1>19. ASSUME NEW c \in Conns, NEW p \in Pages, UndoPage(c, p) PROVE Locks' /\ LockTypes'
  BY <1>19 DEF UndoPage, UndoCache
<1>20. CASE PowerLoss
  BY <1>20 DEF PowerLoss, Forget, Drop
<1>21. CASE UNCHANGED vars
  BY <1>21 DEF vars
<1> QED
  BY <1>1, <1>2, <1>3, <1>4, <1>5, <1>6, <1>7, <1>8, <1>9, <1>10, <1>11, <1>12, <1>13, <1>14,
     <1>15, <1>16, <1>17, <1>18, <1>19, <1>20, <1>21 DEF Next, Rollback, RekeyFails

-----------------------------------------------------------------------------
LEMMA ContentTypes ==
    ASSUME TypeOK, CacheShape, NEW c \in Conns, NEW p \in Pages, state[c] # "closed"
    PROVE  /\ cache[c][p] # NoPage /\ readKey[c] # NoKey => Original(c, p) \in Content
           /\ cache[c][p] # NoPage => Encrypted(c, p) \in Content
           /\ state[c] \in Reading \union {"undo"} => Modified(c, p) \in Txns \union {NoPage}
<1> USE DEF TypeOK, CacheShape, CacheShapeOf, Content, Versions
<1>1. cache[c][p] # NoPage => cache[c][p] \in Txns
  OBVIOUS
<1>2. version[c].counter \in Nat
  OBVIOUS
<1>3. Counter(p, version[c].counter) \in Nat /\ Counter(p, version[c].counter + 1) \in Nat
  BY <1>2 DEF Counter
<1>4. readKey[c] # NoKey => readKey[c] \in Keys
  OBVIOUS
<1>5. writeKey[c] \in Keys
  OBVIOUS
<1> QED
  BY <1>1, <1>3, <1>4, <1>5 DEF Original, Encrypted, Modified

LEMMA NewJournalTypes == NoJournal \in Journals /\ NewJournal \in Journals
  BY DEF NoJournal, NewJournal, Journals, Empty, Recorded

LEMMA JournalTypes ==
    ASSUME NEW j \in Journals, NEW c \in Conns, NEW p \in Pages,
           j.record[p] = NoPage => Original(c, p) \in Content
    PROVE  WithOriginal(j, c, p) \in Journals /\ AllCounted(j) \in Journals
<1>1. AllCounted(j) \in Journals
  BY DEF AllCounted, Recorded, Journals
<1>2. CASE j.record[p] = NoPage
  <2>1. NoPage \notin Content
    BY NoPageAssumption DEF Content, Txns
  <2> QED
    BY <1>1, <1>2, <2>1 DEF WithOriginal, Journals, Recorded
<1> QED
  BY <1>1, <1>2 DEF WithOriginal

(* TypeOK without the lock and the state, in parts.                             *)
FileTypes ==
    /\ disk \in [Pages -> Content] /\ durable \in [Pages -> SUBSET Content]
    /\ \A p \in Pages : disk[p] \in durable[p]
    /\ journal \in Journals /\ kept \subseteq Journals
CacheTypes ==
    /\ cache \in [Conns -> [Pages -> Txns \union {NoPage}]]
    /\ dirty \in [Conns -> SUBSET Pages] /\ todo \in [Conns -> SUBSET Pages]
    /\ version \in [Conns -> Versions]
    /\ readKey \in [Conns -> Keys \union {NoKey}] /\ writeKey \in [Conns -> Keys \union {NoKey}]
    /\ txn \in [Conns -> Txns]
CountTypes ==
    /\ rekeying \subseteq Conns
    /\ begun \in Txns /\ rekeys \in 0 .. MaxRekeys
    /\ troubles \in 0 .. MaxTroubles
    /\ previous \in [Pages -> Txns] /\ misled \in BOOLEAN

LEMMA TypeParts == TypeOK <=> LockTypes /\ FileTypes /\ CacheTypes /\ CountTypes
  BY DEF TypeOK, LockTypes, FileTypes, CacheTypes, CountTypes

LEMMA TypePartsNext == TypeOK' <=> LockTypes' /\ FileTypes' /\ CacheTypes' /\ CountTypes'
  BY DEF TypeOK, LockTypes, FileTypes, CacheTypes, CountTypes

LEMMA PlayedBackTypes ==
    ASSUME NEW j \in Journals, NEW d \in [Pages -> Content]
    PROVE  /\ PlayedBack(j, d) \in [Pages -> Content]
           /\ [p \in Pages |-> PlayedBack(j, d)[p].by] \in [Pages -> Txns]
<1>1. \A p \in Pages : p \in j.counted => j.record[p] \in Content
  BY DEF Journals, Recorded
<1>2. PlayedBack(j, d) \in [Pages -> Content]
  BY <1>1 DEF PlayedBack
<1> QED
  BY <1>2 DEF Content

LEMMA WriteTypes ==
    ASSUME FileTypes, NEW p \in Pages, NEW x \in Content, WriteDisk(p, x)
    PROVE  /\ disk' \in [Pages -> Content] /\ durable' \in [Pages -> SUBSET Content]
           /\ \A q \in Pages : disk'[q] \in durable'[q]
  BY DEF FileTypes, WriteDisk

LEMMA RekeyDoneTypes ==
    ASSUME CountTypes, CacheTypes, NEW c \in Conns, NEW ok \in BOOLEAN, RekeyDone(c, ok)
    PROVE  /\ rekeying' \subseteq Conns /\ misled' \in BOOLEAN /\ rekeys' = rekeys
           /\ writeKey' = writeKey
           /\ readKey' \in [Conns -> Keys \union {NoKey}]
<1>1. misled' \in BOOLEAN
  BY DEF RekeyDone
<1>2. readKey' \in [Conns -> Keys \union {NoKey}]
  BY DEF RekeyDone, CacheTypes
<1> QED
  BY <1>1, <1>2 DEF RekeyDone, CountTypes

LEMMA EnterTypes ==
    ASSUME TypeOK, NEW c \in Conns, Enter(c)
    PROVE  /\ version' \in [Conns -> Versions]
           /\ cache' \in [Conns -> [Pages -> Txns \union {NoPage}]]
           /\ readKey' \in [Conns -> Keys \union {NoKey}]
           /\ dirty' = dirty
<1> USE DEF TypeOK, Enter
<1>1. VersionOf(disk[PageOne]) \in Versions
  BY PageOneAssumption DEF VersionOf, Versions, Content
<1>2. Empty \in [Pages -> Txns \union {NoPage}]
  BY DEF Empty
<1>3. ValidCache(c) \in [Pages -> Txns \union {NoPage}]
  BY <1>2 DEF ValidCache
<1>4. disk[PageOne].by \in Txns
  BY PageOneAssumption DEF Content
<1>5. [ValidCache(c) EXCEPT ![PageOne] = disk[PageOne].by] \in [Pages -> Txns \union {NoPage}]
  BY <1>3, <1>4
<1>6. cache' \in [Conns -> [Pages -> Txns \union {NoPage}]]
  BY <1>2, <1>3, <1>5
<1>7. version' \in [Conns -> Versions]
  BY <1>1
<1> QED
  BY <1>6, <1>7

LEMMA DropTypes ==
    ASSUME TypeOK, NEW C \in SUBSET Conns, Drop(C)
    PROVE  /\ cache' \in [Conns -> [Pages -> Txns \union {NoPage}]]
           /\ dirty' \in [Conns -> SUBSET Pages] /\ todo' \in [Conns -> SUBSET Pages]
           /\ txn' \in [Conns -> Txns]
<1> USE DEF TypeOK, Drop
<1>1. Empty \in [Pages -> Txns \union {NoPage}] /\ 0 \in Txns
  BY BoundsAssumption DEF Empty, Txns
<1>3. cache' \in [Conns -> [Pages -> Txns \union {NoPage}]]
  BY <1>1
<1>4. dirty' \in [Conns -> SUBSET Pages] /\ todo' \in [Conns -> SUBSET Pages]
  OBVIOUS
<1>5. txn' \in [Conns -> Txns]
  BY <1>1
<1> QED
  BY <1>3, <1>4, <1>5

LEMMA TypeStep ==
    ASSUME TypeOK, CacheShape, JournalShape, LockTypes', [Next]_vars
    PROVE  TypeOK'
<1> USE DEF fileVars, journalVars, cacheVars, rekeyVars, keyVars, boundVars
<1>a. LockTypes /\ FileTypes /\ CacheTypes /\ CountTypes
  BY TypeParts
<1>1. ASSUME NEW c \in Conns, SharedLock(c)
       PROVE  FileTypes' /\ CacheTypes' /\ CountTypes'
  <2>1. FileTypes'
    BY <1>a, <1>1 DEF SharedLock, FileTypes
  <2>2. CacheTypes'
    BY <1>a, <1>1, EnterTypes DEF SharedLock, CacheTypes
  <2>3. CountTypes'
    BY <1>a, <1>1 DEF SharedLock, CountTypes
  <2> QED
    BY <2>1, <2>2, <2>3
<1>2. ASSUME NEW c \in Conns, HasHotJournal(c)
       PROVE  FileTypes' /\ CacheTypes' /\ CountTypes'
  <2>1. FileTypes'
    BY <1>a, <1>2 DEF HasHotJournal, FileTypes
  <2>2. CacheTypes'
    BY <1>a, <1>2, EnterTypes DEF HasHotJournal, CacheTypes
  <2>3. CountTypes'
    BY <1>a, <1>2 DEF HasHotJournal, CountTypes
  <2> QED
    BY <2>1, <2>2, <2>3
<1>3. ASSUME NEW c \in Conns, LockHotJournal(c)
       PROVE  FileTypes' /\ CacheTypes' /\ CountTypes'
  <2>1. FileTypes'
    BY <1>a, <1>3 DEF LockHotJournal, FileTypes
  <2>2. CacheTypes'
    <3>1. CASE journal.exists
      <4>1. Empty \in [Pages -> Txns \union {NoPage}] /\ journal.counted \in SUBSET Pages
        BY <1>a DEF Empty, FileTypes, Journals
      <4>2. cache' \in [Conns -> [Pages -> Txns \union {NoPage}]]
        BY <1>a, <1>3, <3>1, <4>1 DEF LockHotJournal, CacheTypes
      <4>3. todo' \in [Conns -> SUBSET Pages]
        BY <1>a, <1>3, <3>1, <4>1 DEF LockHotJournal, CacheTypes
      <4> QED
        BY <1>a, <1>3, <3>1, <4>2, <4>3 DEF LockHotJournal, CacheTypes
    <3>2. CASE ~journal.exists
      BY <1>a, <1>3, <3>2, EnterTypes DEF LockHotJournal, CacheTypes
    <3> QED
      BY <3>1, <3>2
  <2>3. CountTypes'
    BY <1>a, <1>3 DEF LockHotJournal, CountTypes
  <2> QED
    BY <2>1, <2>2, <2>3
<1>4. ASSUME NEW c \in Conns, HotJournalBusy(c) \/ EndRead(c)
       PROVE  FileTypes' /\ CacheTypes' /\ CountTypes'
  <2>1. FileTypes'
    BY <1>a, <1>4 DEF HotJournalBusy, EndRead, FileTypes
  <2>2. CacheTypes'
    BY <1>a, <1>4 DEF HotJournalBusy, EndRead, CacheTypes
  <2>3. CountTypes'
    BY <1>a, <1>4 DEF HotJournalBusy, EndRead, CountTypes
  <2> QED
    BY <2>1, <2>2, <2>3
<1>5. ASSUME NEW c \in Conns, PlaybackEnd(c)
       PROVE  FileTypes' /\ CacheTypes' /\ CountTypes'
  <2>1. FileTypes'
    BY <1>a, <1>5, NewJournalTypes DEF SyncDisk, DeleteJournal, PlaybackEnd, FileTypes
  <2>2. CacheTypes'
    BY <1>a, <1>5, EnterTypes DEF PlaybackEnd, CacheTypes
  <2>3. CountTypes'
    BY <1>a, <1>5 DEF PlaybackEnd, CountTypes
  <2> QED
    BY <2>1, <2>2, <2>3
<1>6. ASSUME NEW c \in Conns, BeginWrite(c)
       PROVE  FileTypes' /\ CacheTypes' /\ CountTypes'
  <2>1. FileTypes'
    BY <1>a, <1>6 DEF BeginWrite, FileTypes
  <2>2. CacheTypes'
    BY <1>a, <1>6, BoundsAssumption DEF CountTypes, Reserve, Txns, BeginWrite, CacheTypes
  <2>3. CountTypes'
    BY <1>a, <1>6, BoundsAssumption DEF Reserve, Txns, BeginWrite, CountTypes
  <2> QED
    BY <2>1, <2>2, <2>3
<1>7. ASSUME NEW c \in Conns, CommitPhaseOne(c)
       PROVE  FileTypes' /\ CacheTypes' /\ CountTypes'
  <2>1. FileTypes'
    <3>1. cache[c][PageOne] # NoPage /\ readKey[c] # NoKey /\ state[c] # "closed"
      BY <1>a, <1>7 DEF CommitPhaseOne, CacheShape, CacheShapeOf, Reading, Changing
    <3>2. Original(c, PageOne) \in Content
      BY <1>a, <3>1, PageOneAssumption, ContentTypes
    <3>3. WithOriginal(journal, c, PageOne) \in Journals
      BY <1>a, <3>2, PageOneAssumption, JournalTypes DEF FileTypes
    <3>4. AllCounted(WithOriginal(journal, c, PageOne)) \in Journals
      BY <1>a, <3>3 DEF AllCounted, Recorded, Journals
    <3> QED
      BY <1>a, <1>7, <3>3, <3>4 DEF CommitPhaseOne, SyncJournal, FileTypes
  <2>2. CacheTypes'
    <3>1. Modified(c, PageOne) \in Txns \union {NoPage}
      BY <1>a, <1>7, PageOneAssumption, ContentTypes DEF CommitPhaseOne, Reading, Changing
    <3>2. PagesToWrite(c) \in SUBSET Pages
      BY <1>a, PageOneAssumption DEF PagesToWrite, CacheTypes
    <3>3. cache' \in [Conns -> [Pages -> Txns \union {NoPage}]]
      BY <1>a, <1>7, <3>1 DEF CommitPhaseOne, CacheTypes
    <3>4. readKey' \in [Conns -> Keys \union {NoKey}] /\ writeKey' = writeKey
      BY <1>a, <1>7, RekeyDoneTypes DEF CommitPhaseOne, CacheTypes
    <3> QED
      BY <1>a, <1>7, <3>2, <3>3, <3>4 DEF CommitPhaseOne, CacheTypes
  <2>3. CountTypes'
    <3>1. CASE MayExclude(c)
      BY <1>a, <1>7, <3>1 DEF CommitPhaseOne, CountTypes
    <3>2. CASE ~MayExclude(c)
      BY <1>a, <1>7, <3>2, RekeyDoneTypes DEF CommitPhaseOne, CountTypes
    <3> QED
      BY <1>a, <3>1, <3>2
  <2> QED
    BY <2>1, <2>2, <2>3
<1>8. ASSUME NEW c \in Conns, SyncDatabase(c)
       PROVE  FileTypes' /\ CacheTypes' /\ CountTypes'
  <2>1. FileTypes'
    BY <1>a, <1>8 DEF SyncDisk, SyncDatabase, FileTypes
  <2>2. CacheTypes'
    BY <1>a, <1>8, PageOneAssumption DEF VersionOf, Versions, Content, FileTypes, SyncDatabase, CacheTypes
  <2>3. CountTypes'
    BY <1>a, <1>8 DEF SyncDatabase, CountTypes
  <2> QED
    BY <2>1, <2>2, <2>3
<1>9. ASSUME NEW c \in Conns, CommitPhaseTwo(c)
       PROVE  FileTypes' /\ CacheTypes' /\ CountTypes'
  <2>1. FileTypes'
    BY <1>a, <1>9, NewJournalTypes DEF DeleteJournal, CommitPhaseTwo, FileTypes
  <2>2. CacheTypes'
    <3>1. readKey' \in [Conns -> Keys \union {NoKey}] /\ writeKey' = writeKey
      BY <1>a, <1>9, RekeyDoneTypes DEF CommitPhaseTwo
    <3>2. txn' \in [Conns -> Txns]
      BY <1>a, <1>9, BoundsAssumption DEF CommitPhaseTwo, CacheTypes, Txns
    <3> QED
      BY <1>a, <1>9, <3>1, <3>2 DEF CommitPhaseTwo, CacheTypes
  <2>3. CountTypes'
    <3>1. CommittedBy \in [Pages -> Txns]
      BY <1>a, PlayedBackTypes DEF FileTypes, Committed, CommittedBy
    <3> QED
      BY <1>a, <1>9, <3>1, RekeyDoneTypes DEF CommitPhaseTwo, CountTypes
  <2> QED
    BY <2>1, <2>2, <2>3
<1>10. ASSUME NEW c \in Conns, PagerRollback(c), UNCHANGED <<fileVars, writeKey>>
       PROVE  FileTypes' /\ CacheTypes'
  <2>1. FileTypes'
    BY <1>a, <1>10, NewJournalTypes DEF PagerRollback, FileTypes
  <2>2. CacheTypes'
    <3>1. txn' \in [Conns -> Txns]
      BY <1>a, <1>10, BoundsAssumption DEF PagerRollback, EndTransaction, CacheTypes, Txns
    <3>2. dirty' \in [Conns -> SUBSET Pages] /\ todo' \in [Conns -> SUBSET Pages]
      BY <1>a, <1>10 DEF PagerRollback, EndTransaction, CacheTypes, Recorded
    <3>3. UNCHANGED <<cache, version, readKey>>
      BY <1>10 DEF PagerRollback
    <3> QED
      BY <1>a, <1>10, <3>1, <3>2, <3>3 DEF CacheTypes
  <2> QED
    BY <2>1, <2>2
<1>11. ASSUME NEW c \in Conns, UndoEnd(c)
       PROVE  FileTypes' /\ CacheTypes' /\ CountTypes'
  <2>1. FileTypes'
    BY <1>a, <1>11, NewJournalTypes DEF SyncDisk, DeleteJournal, UndoEnd, FileTypes
  <2>2. CacheTypes'
    BY <1>a, <1>11, BoundsAssumption DEF EndTransaction, Txns, UndoEnd, CacheTypes
  <2>3. CountTypes'
    BY <1>a, <1>11 DEF UndoEnd, CountTypes
  <2> QED
    BY <2>1, <2>2, <2>3
<1>12. ASSUME NEW c \in Conns, NEW k \in Keys, Rekey(c, k)
       PROVE  FileTypes' /\ CacheTypes' /\ CountTypes'
  <2>1. FileTypes'
    BY <1>a, <1>12 DEF Rekey, FileTypes
  <2>2. CacheTypes'
    BY <1>a, <1>12 DEF Rekey, CacheTypes
  <2>3. CountTypes'
    <3>1. misled' \in BOOLEAN
      BY <1>a, <1>12 DEF Rekey, CountTypes
    <3>2. rekeying' \subseteq Conns
      BY <1>a, <1>12 DEF Rekey, CountTypes
    <3> QED
      BY <1>a, <1>12, <3>1, <3>2, BoundsAssumption DEF Trouble, Rekey, CountTypes
  <2> QED
    BY <2>1, <2>2, <2>3
<1>13. ASSUME NEW c \in Conns, RekeyCommitFails(c)
       PROVE  FileTypes' /\ CacheTypes' /\ CountTypes'
  <2>1. FileTypes'
    BY <1>a, <1>13 DEF RekeyCommitFails, FileTypes
  <2>2. CacheTypes'
    BY <1>a, <1>13 DEF RekeyDone, RekeyCommitFails, CacheTypes
  <2>3. CountTypes'
    BY <1>a, <1>13, BoundsAssumption DEF RekeyDone, Trouble, RekeyCommitFails, CountTypes
  <2> QED
    BY <2>1, <2>2, <2>3
<1>14. ASSUME NEW c \in Conns, PlaybackFails(c) \/ SpillFails(c) \/ CommitPhaseTwoFails(c)
       PROVE  FileTypes' /\ CacheTypes' /\ CountTypes'
  <2>1. FileTypes'
    BY <1>a, <1>14 DEF PlaybackFails, SpillFails, CommitPhaseTwoFails, FileTypes
  <2>2. CacheTypes'
    BY <1>a, <1>14 DEF RekeyDone, PlaybackFails, SpillFails, CommitPhaseTwoFails, CacheTypes
  <2>3. CountTypes'
    <3>1. CASE PlaybackFails(c) \/ SpillFails(c)
      BY <1>a, <3>1, BoundsAssumption DEF Trouble, PlaybackFails, SpillFails, CountTypes
    <3>2. CASE CommitPhaseTwoFails(c)
      <4>1. rekeying' \subseteq Conns /\ misled' \in BOOLEAN /\ rekeys' = rekeys
        BY <1>a, <3>2, RekeyDoneTypes DEF CommitPhaseTwoFails
      <4> QED
        BY <1>a, <3>2, <4>1, BoundsAssumption DEF Trouble, CommitPhaseTwoFails, CountTypes
    <3> QED
      BY <1>14, <3>1, <3>2
  <2> QED
    BY <2>1, <2>2, <2>3
<1>15. ASSUME NEW c \in Conns, PagerUnlock(c)
       PROVE  FileTypes' /\ CacheTypes' /\ CountTypes'
  <2>1. FileTypes'
    BY <1>a, <1>15 DEF PagerUnlock, FileTypes
  <2>2. CacheTypes'
    BY <1>a, <1>15, DropTypes DEF RekeyEnds, PagerUnlock, CacheTypes
  <2>3. CountTypes'
    BY <1>a, <1>15 DEF RekeyEnds, PagerUnlock, CountTypes
  <2> QED
    BY <2>1, <2>2, <2>3
<1>16. ASSUME NEW c \in Conns, Close(c) \/ Crash(c)
       PROVE  FileTypes' /\ CacheTypes' /\ CountTypes'
  <2>1. FileTypes'
    BY <1>a, <1>16 DEF Close, Crash, FileTypes
  <2>2. CacheTypes'
    BY <1>a, <1>16, DropTypes DEF Forget, NoVersion, Versions, Close, Crash, CacheTypes
  <2>3. CountTypes'
    BY <1>a, <1>16, BoundsAssumption DEF Forget, Trouble, Close, Crash, CountTypes
  <2> QED
    BY <2>1, <2>2, <2>3
<1>17. ASSUME NEW c \in Conns, NEW k \in Keys, Open(c, k)
       PROVE  FileTypes' /\ CacheTypes' /\ CountTypes'
  <2>1. FileTypes'
    BY <1>a, <1>17 DEF Open, FileTypes
  <2>2. CacheTypes'
    BY <1>a, <1>17 DEF Open, CacheTypes
  <2>3. CountTypes'
    BY <1>a, <1>17 DEF Open, CountTypes
  <2> QED
    BY <2>1, <2>2, <2>3
<1>18. ASSUME NEW c \in Conns, NEW p \in Pages, PlaybackOnePage(c, p)
       PROVE  FileTypes' /\ CacheTypes' /\ CountTypes'
  <2>1. FileTypes'
    <3>1. journal.record[p] \in Content
      BY <1>a, <1>18 DEF PlaybackOnePage, JournalShape, JournalShapeOf, FileTypes, Journals, Recorded
    <3> QED
      BY <1>a, <1>18, <3>1, WriteTypes DEF PlaybackOnePage, FileTypes
  <2>2. CacheTypes'
    BY <1>a, <1>18 DEF PlaybackOnePage, CacheTypes
  <2>3. CountTypes'
    BY <1>a, <1>18 DEF PlaybackOnePage, CountTypes
  <2> QED
    BY <2>1, <2>2, <2>3
<1>19. ASSUME NEW c \in Conns, NEW p \in Pages, ReadPage(c, p)
       PROVE  FileTypes' /\ CacheTypes' /\ CountTypes'
  <2>1. FileTypes'
    BY <1>a, <1>19 DEF ReadPage, FileTypes
  <2>2. CacheTypes'
    <3>1. disk[p].by \in Txns
      BY <1>a DEF FileTypes, Content
    <3>2. [cache[c] EXCEPT ![p] = disk[p].by] \in [Pages -> Txns \union {NoPage}]
      BY <1>a, <3>1 DEF CacheTypes
    <3>3. cache' \in [Conns -> [Pages -> Txns \union {NoPage}]]
      BY <1>a, <1>19, <3>2 DEF ReadPage, CacheTypes
    <3>4. readKey' \in [Conns -> Keys \union {NoKey}]
      BY <1>a, <1>19 DEF ReadPage, CacheTypes
    <3> QED
      BY <1>a, <1>19, <3>3, <3>4 DEF ReadPage, CacheTypes
  <2>3. CountTypes'
    BY <1>a, <1>19 DEF ReadPage, CountTypes
  <2> QED
    BY <2>1, <2>2, <2>3
<1>20. ASSUME NEW c \in Conns, NEW p \in Pages, WritePage(c, p)
       PROVE  FileTypes' /\ CacheTypes' /\ CountTypes'
  <2>1. FileTypes'
    <3>1. readKey[c] # NoKey /\ state[c] # "closed" /\ cache[c][p] # NoPage
      BY <1>a, <1>20 DEF WritePage, CacheShape, CacheShapeOf, Reading, Changing
    <3>2. Original(c, p) \in Content
      BY <1>a, <3>1, ContentTypes
    <3>3. WithOriginal(journal, c, p) \in Journals /\ WithOriginal(NewJournal, c, p) \in Journals
      BY <1>a, <3>2, JournalTypes, NewJournalTypes DEF FileTypes
    <3> QED
      BY <1>a, <1>20, <3>3, NewJournalTypes DEF WritePage, FileTypes
  <2>2. CacheTypes'
    BY <1>a, <1>20, ContentTypes DEF Reading, Changing, WritePage, CacheTypes
  <2>3. CountTypes'
    BY <1>a, <1>20 DEF WritePage, CountTypes
  <2> QED
    BY <2>1, <2>2, <2>3
<1>21. ASSUME NEW c \in Conns, NEW p \in Pages, WriteBack(c, p)
       PROVE  FileTypes' /\ CacheTypes' /\ CountTypes'
  <2>1. FileTypes'
    <3>1. Encrypted(c, p) \in Content
      BY <1>a, <1>21, ContentTypes DEF WriteBack, CacheShape, CacheShapeOf, JournalShape, JournalShapeOf
    <3> QED
      BY <1>a, <1>21, <3>1, WriteTypes DEF WriteBack, FileTypes
  <2>2. CacheTypes'
    BY <1>a, <1>21 DEF WriteBack, CacheTypes
  <2>3. CountTypes'
    BY <1>a, <1>21 DEF WriteBack, CountTypes
  <2> QED
    BY <2>1, <2>2, <2>3
<1>22. ASSUME NEW c \in Conns, NEW p \in Pages, Spill(c, p)
       PROVE  FileTypes' /\ CacheTypes' /\ CountTypes'
  <2>1. FileTypes'
    <3>1. Encrypted(c, p) \in Content
      BY <1>a, <1>22, ContentTypes DEF Spill, CacheShape, CacheShapeOf, JournalShape, JournalShapeOf
    <3>2. AllCounted(journal) \in Journals
      BY <1>a DEF AllCounted, Recorded, Journals, FileTypes
    <3> QED
      BY <1>a, <1>22, <3>1, <3>2, WriteTypes DEF Spill, SyncJournal, FileTypes
  <2>2. CacheTypes'
    <3>1. cache' \in [Conns -> [Pages -> Txns \union {NoPage}]] /\ dirty' \in [Conns -> SUBSET Pages]
      <4>1. [cache[c] EXCEPT ![p] = NoPage] \in [Pages -> Txns \union {NoPage}]
        BY <1>a DEF CacheTypes
      <4>2. CASE MayExclude(c)
        <5>1. cache' = [cache EXCEPT ![c] = [cache[c] EXCEPT ![p] = NoPage]]
          BY <1>a, <1>22, <4>2 DEF Spill, CacheTypes
        <5>2. cache' \in [Conns -> [Pages -> Txns \union {NoPage}]]
          BY <1>a, <4>1, <5>1 DEF CacheTypes
        <5>3. dirty' \in [Conns -> SUBSET Pages]
          BY <1>a, <1>22, <4>2 DEF Spill, CacheTypes
        <5> QED
          BY <5>2, <5>3
      <4>3. CASE ~MayExclude(c)
        BY <1>a, <1>22, <4>3 DEF Spill, CacheTypes
      <4> QED
        BY <4>2, <4>3
    <3> QED
      BY <1>a, <1>22, <3>1 DEF Spill, CacheTypes
  <2>3. CountTypes'
    BY <1>a, <1>22 DEF Spill, CountTypes
  <2> QED
    BY <2>1, <2>2, <2>3
<1>23. ASSUME NEW c \in Conns, NEW p \in Pages, UndoPage(c, p)
       PROVE  FileTypes' /\ CacheTypes' /\ CountTypes'
  <2>1. FileTypes'
    <3>1. journal.record[p] \in Content
      BY <1>a, <1>23 DEF UndoPage, JournalShape, JournalShapeOf, FileTypes, Journals, Recorded
    <3> QED
      BY <1>a, <1>23, <3>1, WriteTypes DEF UndoPage, FileTypes
  <2>2. CacheTypes'
    <3>1. journal.record[p] \in Content
      BY <1>a, <1>23 DEF UndoPage, JournalShape, JournalShapeOf, FileTypes, Journals, Recorded
    <3>2. journal.record[p].by \in Txns /\ VersionOf(journal.record[p]) \in Versions
      BY <1>a, <3>1 DEF Content, VersionOf, Versions
    <3>3. cache' \in [Conns -> [Pages -> Txns \union {NoPage}]] /\ version' \in [Conns -> Versions]
      <4>1. [cache[c] EXCEPT ![p] = journal.record[p].by] \in [Pages -> Txns \union {NoPage}]
        BY <1>a, <3>2 DEF CacheTypes
      <4>2. cache' \in [Conns -> [Pages -> Txns \union {NoPage}]]
        BY <1>a, <1>23, <4>1 DEF UndoPage, UndoCache, CacheTypes
      <4>3. version' \in [Conns -> Versions]
        BY <1>a, <1>23, <3>2 DEF UndoPage, UndoCache, CacheTypes
      <4> QED
        BY <4>2, <4>3
    <3>4. readKey' \in [Conns -> Keys \union {NoKey}]
      BY <1>a, <1>23 DEF UndoPage, UndoCache, CacheTypes
    <3> QED
      BY <1>a, <1>23, <3>3, <3>4 DEF UndoPage, CacheTypes
  <2>3. CountTypes'
    BY <1>a, <1>23 DEF UndoPage, CountTypes
  <2> QED
    BY <2>1, <2>2, <2>3
<1>24. CASE PowerLoss
  <2>1. FileTypes'
    <3>1. PICK d \in Survivors, j \in kept : disk' = d /\ journal' = j
      BY <1>a, <1>24 DEF PowerLoss
    <3>2. d \in [Pages -> Content] /\ j \in Journals
      BY <1>a DEF Survivors, FileTypes
    <3> QED
      BY <1>a, <1>24, <3>1, <3>2 DEF PowerLoss, FileTypes
  <2>2. CacheTypes'
    BY <1>a, <1>24, DropTypes DEF Forget, NoVersion, Versions, PowerLoss, CacheTypes
  <2>3. CountTypes'
    <3>1. PICK d \in Survivors, j \in kept : disk' = d /\ journal' = j
      BY <1>a, <1>24 DEF PowerLoss
    <3>2. d \in [Pages -> Content] /\ j \in Journals
      BY <1>a DEF Survivors, FileTypes
    <3>3. CommittedBy' \in [Pages -> Txns]
      BY <1>a, <3>1, <3>2, PlayedBackTypes DEF Committed, CommittedBy
    <3> QED
      BY <1>a, <1>24, <3>3, BoundsAssumption DEF PowerLoss, Forget, Trouble, CountTypes
  <2> QED
    BY <2>1, <2>2, <2>3, TypePartsNext
<1>25. ASSUME NEW c \in Conns, Rollback(c) \/ RekeyFails(c)
       PROVE  FileTypes' /\ CacheTypes' /\ CountTypes'
  <2>1. FileTypes' /\ CacheTypes'
    BY <1>10, <1>25 DEF Rollback, RekeyFails, RekeyEnds
  <2>2. CountTypes'
    <3>1. CASE Rollback(c)
      BY <1>a, <3>1 DEF Rollback, CountTypes
    <3>2. CASE RekeyFails(c)
      <4>1. misled' \in BOOLEAN
        BY <3>2 DEF RekeyFails, RekeyEnds
      <4> QED
        BY <1>a, <3>2, <4>1, BoundsAssumption DEF RekeyFails, RekeyEnds, Trouble, CountTypes
    <3> QED
      BY <1>25, <3>1, <3>2
  <2> QED
    BY <2>1, <2>2
<1>26. CASE UNCHANGED vars
  BY <1>a, <1>26, TypePartsNext DEF LockTypes, vars, FileTypes, CacheTypes, CountTypes
<1> QED
  BY <1>1, <1>2, <1>3, <1>4, <1>5, <1>6, <1>7, <1>8, <1>9, <1>10, <1>11, <1>12, <1>13, <1>14, <1>15, <1>16, <1>17, <1>18, <1>19, <1>20, <1>21, <1>22, <1>23, <1>24, <1>25, <1>26, TypePartsNext DEF Next

-----------------------------------------------------------------------------
(* Who holds a lock to write or to recover is alone with it.                    *)
LEMMA OnlyWriter ==
    ASSUME LockTypes, Locks, NEW c \in Conns, NEW d \in Conns, c # d, lock[c] >= RESERVED
    PROVE  /\ state[d] \notin Writing \union {"playback"} /\ lock[d] < RESERVED
           /\ lock[c] = EXCLUSIVE => state[d] \in {"closed", "open", "error"}
  BY DEF LockTypes, Locks, StateLocks, LockTable, Writing,
         NO_LOCK, SHARED, RESERVED, PENDING, EXCLUSIVE

LEMMA EnterShape ==
    ASSUME TypeOK, CacheShape, NEW c \in Conns, Enter(c), UNCHANGED writeKey,
           state[c] \in {"open", "sharing", "hot", "playback"}
    PROVE  /\ CacheShape'
           /\ state'[c] \in {"open", "reader"}
           /\ state'[c] = "open" => cache'[c] = Empty
<1> DEFINE valid == ValidCache(c)
           readable == valid[PageOne] # NoPage \/ VersionOf(disk[PageOne]).key = readKey[c]
<1> USE DEF TypeOK
<1>1. CacheShapeOf(c) /\ dirty[c] = {} /\ dirty' = dirty
  BY DEF Enter, CacheShape, CacheShapeOf
<1>2. Empty \in [Pages -> Txns \union {NoPage}] /\ Empty[PageOne] = NoPage
  BY PageOneAssumption DEF Empty
<1>3. valid \in [Pages -> Txns \union {NoPage}]
  BY <1>2 DEF ValidCache
<1>4. disk[PageOne].by \in Txns /\ disk[PageOne].key \in Keys
  BY PageOneAssumption DEF Content
<1>5. disk[PageOne].by # NoPage /\ disk[PageOne].key # NoKey
  BY <1>4, NoPageAssumption, FirstKeyAssumption DEF Txns
<1>6. readable => readKey[c] # NoKey
  BY <1>1, <1>2, <1>5 DEF CacheShapeOf, ValidCache, VersionOf, Reading, Changing
<1>7. CacheShapeOf(c)' /\ state'[c] \in {"open", "reader"} /\ (state'[c] = "open" => cache'[c] = Empty)
  <2>1. CASE readable
    <3>1. state'[c] = "reader" /\ readKey'[c] = readKey[c]
      BY <2>1 DEF Enter
    <3>2. cache'[c] = IF valid[PageOne] # NoPage THEN valid ELSE [valid EXCEPT ![PageOne] = disk[PageOne].by]
      BY <2>1 DEF Enter
    <3>3. cache'[c][PageOne] # NoPage
      BY <1>3, <1>5, <3>2, PageOneAssumption
    <3> QED
      BY <1>1, <1>6, <2>1, <3>1, <3>3 DEF CacheShapeOf
  <2>2. CASE ~readable
    <3>1. state'[c] = "open" /\ readKey'[c] = NoKey /\ cache'[c] = Empty
      BY <2>2 DEF Enter
    <3> QED
      BY <1>1, <3>1 DEF CacheShapeOf, Reading, Changing
  <2> QED
    BY <2>1, <2>2
<1>8. ASSUME NEW d \in Conns, d # c PROVE CacheShapeOf(d)'
  BY <1>8 DEF Enter, CacheShape, CacheShapeOf
<1> QED
  BY <1>7, <1>8 DEF CacheShape

LEMMA ModifiedNotEmpty ==
    ASSUME TypeOK, NEW c \in Conns, NEW p \in Pages, cache[c][p] # NoPage
    PROVE  Modified(c, p) # NoPage
  BY NoPageAssumption DEF TypeOK, Modified, Txns

LEMMA CacheStep ==
    ASSUME TypeOK, CacheShape, JournalShape, [Next]_vars
    PROVE  CacheShape'
<1> USE DEF fileVars, journalVars, cacheVars, rekeyVars, keyVars, boundVars
<1>1. ASSUME NEW c \in Conns, SharedLock(c) PROVE CacheShape'
  <2>1. CASE Enter(c)
    BY <1>1, <2>1, EnterShape DEF SharedLock
  <2>2. CASE ~Enter(c)
    BY <1>1, <2>2 DEF SharedLock, CacheShape, CacheShapeOf, Reading, Changing, Writing, TypeOK
  <2> QED
    BY <2>1, <2>2
<1>2. ASSUME NEW c \in Conns, HasHotJournal(c) PROVE CacheShape'
  <2>1. CASE Enter(c)
    BY <1>2, <2>1, EnterShape DEF HasHotJournal
  <2>2. CASE ~Enter(c)
    BY <1>2, <2>2 DEF HasHotJournal, CacheShape, CacheShapeOf, Reading, Changing, Writing, TypeOK
  <2> QED
    BY <2>1, <2>2
<1>3. ASSUME NEW c \in Conns, LockHotJournal(c) PROVE CacheShape'
  <2>1. CASE ~journal.exists
    BY <1>3, <2>1, EnterShape DEF LockHotJournal
  <2>2. CASE journal.exists
    BY <1>3, <2>2 DEF LockHotJournal, CacheShape, CacheShapeOf, Reading, Changing, Writing, TypeOK
  <2> QED
    BY <2>1, <2>2
<1>4. ASSUME NEW c \in Conns, HotJournalBusy(c) \/ EndRead(c) PROVE CacheShape'
  <2> SUFFICES ASSUME NEW d \in Conns PROVE CacheShapeOf(d)'
    BY DEF CacheShape
  <2>1. CASE d = c
    BY <1>4, <2>1, FirstKeyAssumption, NoPageAssumption, PageOneAssumption DEF CacheShape, CacheShapeOf, Reading, Changing, Writing, TypeOK, HotJournalBusy, EndRead
  <2>2. CASE d # c
    BY <1>4, <2>2 DEF CacheShape, CacheShapeOf, Reading, Changing, Writing, TypeOK, HotJournalBusy, EndRead
  <2> QED
    BY <2>1, <2>2
<1>5. ASSUME NEW c \in Conns, PlaybackEnd(c) PROVE CacheShape'
  BY <1>5, EnterShape DEF PlaybackEnd
<1>6. ASSUME NEW c \in Conns, BeginWrite(c) PROVE CacheShape'
  <2> SUFFICES ASSUME NEW d \in Conns PROVE CacheShapeOf(d)'
    BY DEF CacheShape
  <2>1. CASE d = c
    BY <1>6, <2>1, FirstKeyAssumption, NoPageAssumption, PageOneAssumption DEF CacheShape, CacheShapeOf, Reading, Changing, Writing, TypeOK, BeginWrite, Reserve
  <2>2. CASE d # c
    BY <1>6, <2>2 DEF CacheShape, CacheShapeOf, Reading, Changing, Writing, TypeOK, BeginWrite, Reserve
  <2> QED
    BY <2>1, <2>2
<1>7. ASSUME NEW c \in Conns, CommitPhaseOne(c) PROVE CacheShape'
  <2> SUFFICES ASSUME NEW d \in Conns PROVE CacheShapeOf(d)'
    BY DEF CacheShape
  <2>1. CASE d = c
    <3>1. CacheShapeOf(c) /\ state[c] \in {"cachemod", "dbmod"} /\ cache[c][PageOne] # NoPage
      BY <1>7 DEF CommitPhaseOne, CacheShape, CacheShapeOf, Reading, Changing
    <3>2. cache'[c] = [cache[c] EXCEPT ![PageOne] = Modified(c, PageOne)]
      BY <1>7 DEF CommitPhaseOne, TypeOK
    <3>3. cache'[c][PageOne] # NoPage
      BY <3>1, <3>2, ModifiedNotEmpty, PageOneAssumption DEF TypeOK
    <3>4. dirty'[c] = dirty[c] \union {PageOne}
      BY <1>7 DEF CommitPhaseOne, TypeOK, PagesToWrite
    <3>5. \A p \in dirty'[c] : cache'[c][p] # NoPage
      BY <3>1, <3>2, <3>3, <3>4 DEF CacheShapeOf, TypeOK
    <3>6. readKey'[c] # NoKey /\ writeKey' = writeKey
      BY <1>7, <3>1 DEF CommitPhaseOne, TypeOK, RekeyDone, CacheShapeOf, Changing, Reading
    <3>7. state'[c] \in {"cachemod", "dbmod", "writing"}
      BY <1>7, <3>1 DEF CommitPhaseOne, TypeOK
    <3> QED
      BY <2>1, <3>1, <3>3, <3>5, <3>6, <3>7 DEF CacheShapeOf
  <2>2. CASE d # c
    BY <1>7, <2>2 DEF CacheShape, CacheShapeOf, Reading, Changing, Writing, TypeOK, CommitPhaseOne, PagesToWrite, RekeyDone
  <2> QED
    BY <2>1, <2>2
<1>8. ASSUME NEW c \in Conns, SyncDatabase(c) PROVE CacheShape'
  <2> SUFFICES ASSUME NEW d \in Conns PROVE CacheShapeOf(d)'
    BY DEF CacheShape
  <2>1. CASE d = c
    BY <1>8, <2>1, FirstKeyAssumption, NoPageAssumption, PageOneAssumption DEF CacheShape, CacheShapeOf, Reading, Changing, Writing, TypeOK, SyncDatabase
  <2>2. CASE d # c
    BY <1>8, <2>2 DEF CacheShape, CacheShapeOf, Reading, Changing, Writing, TypeOK, SyncDatabase
  <2> QED
    BY <2>1, <2>2
<1>9. ASSUME NEW c \in Conns, CommitPhaseTwo(c) PROVE CacheShape'
  <2> SUFFICES ASSUME NEW d \in Conns PROVE CacheShapeOf(d)'
    BY DEF CacheShape
  <2>1. CASE d = c
    BY <1>9, <2>1, FirstKeyAssumption, NoPageAssumption, PageOneAssumption DEF CacheShape, CacheShapeOf, Reading, Changing, Writing, TypeOK, CommitPhaseTwo, RekeyDone
  <2>2. CASE d # c
    BY <1>9, <2>2 DEF CacheShape, CacheShapeOf, Reading, Changing, Writing, TypeOK, CommitPhaseTwo, RekeyDone
  <2> QED
    BY <2>1, <2>2
<1>10. ASSUME NEW c \in Conns, PagerRollback(c), UNCHANGED <<fileVars, writeKey, previous>> PROVE CacheShape'
  <2> SUFFICES ASSUME NEW d \in Conns PROVE CacheShapeOf(d)'
    BY DEF CacheShape
  <2>1. CASE d = c
    BY <1>10, <2>1, FirstKeyAssumption, NoPageAssumption, PageOneAssumption DEF CacheShape, CacheShapeOf, Reading, Changing, Writing, TypeOK, PagerRollback, EndTransaction
  <2>2. CASE d # c
    BY <1>10, <2>2 DEF CacheShape, CacheShapeOf, Reading, Changing, Writing, TypeOK, PagerRollback, EndTransaction
  <2> QED
    BY <2>1, <2>2
<1>11. ASSUME NEW c \in Conns, UndoEnd(c) PROVE CacheShape'
  <2> SUFFICES ASSUME NEW d \in Conns PROVE CacheShapeOf(d)'
    BY DEF CacheShape
  <2>1. CASE d = c
    BY <1>11, <2>1, FirstKeyAssumption, NoPageAssumption, PageOneAssumption DEF CacheShape, CacheShapeOf, Reading, Changing, Writing, TypeOK, UndoEnd, EndTransaction
  <2>2. CASE d # c
    BY <1>11, <2>2 DEF CacheShape, CacheShapeOf, Reading, Changing, Writing, TypeOK, UndoEnd, EndTransaction
  <2> QED
    BY <2>1, <2>2
<1>12. ASSUME NEW c \in Conns, NEW k \in Keys, Rekey(c, k) PROVE CacheShape'
  <2> SUFFICES ASSUME NEW d \in Conns PROVE CacheShapeOf(d)'
    BY DEF CacheShape
  <2>1. CASE d = c
    BY <1>12, <2>1, FirstKeyAssumption, NoPageAssumption, PageOneAssumption DEF CacheShape, CacheShapeOf, Reading, Changing, Writing, TypeOK, Rekey, Reserve
  <2>2. CASE d # c
    BY <1>12, <2>2 DEF CacheShape, CacheShapeOf, Reading, Changing, Writing, TypeOK, Rekey, Reserve
  <2> QED
    BY <2>1, <2>2
<1>13. ASSUME NEW c \in Conns, RekeyCommitFails(c) PROVE CacheShape'
  <2> SUFFICES ASSUME NEW d \in Conns PROVE CacheShapeOf(d)'
    BY DEF CacheShape
  <2>1. CASE d = c
    BY <1>13, <2>1, FirstKeyAssumption, NoPageAssumption, PageOneAssumption DEF CacheShape, CacheShapeOf, Reading, Changing, Writing, TypeOK, RekeyCommitFails, RekeyDone
  <2>2. CASE d # c
    BY <1>13, <2>2 DEF CacheShape, CacheShapeOf, Reading, Changing, Writing, TypeOK, RekeyCommitFails, RekeyDone
  <2> QED
    BY <2>1, <2>2
<1>14. ASSUME NEW c \in Conns, PlaybackFails(c) \/ SpillFails(c) PROVE CacheShape'
  <2> SUFFICES ASSUME NEW d \in Conns PROVE CacheShapeOf(d)'
    BY DEF CacheShape
  <2>1. CASE d = c
    BY <1>14, <2>1, FirstKeyAssumption, NoPageAssumption, PageOneAssumption DEF CacheShape, CacheShapeOf, Reading, Changing, Writing, TypeOK, PlaybackFails, SpillFails
  <2>2. CASE d # c
    BY <1>14, <2>2 DEF CacheShape, CacheShapeOf, Reading, Changing, Writing, TypeOK, PlaybackFails, SpillFails
  <2> QED
    BY <2>1, <2>2
<1>15. ASSUME NEW c \in Conns, CommitPhaseTwoFails(c) PROVE CacheShape'
  <2> SUFFICES ASSUME NEW d \in Conns PROVE CacheShapeOf(d)'
    BY DEF CacheShape
  <2>1. CASE d = c
    BY <1>15, <2>1, FirstKeyAssumption, NoPageAssumption, PageOneAssumption DEF CacheShape, CacheShapeOf, Reading, Changing, Writing, TypeOK, CommitPhaseTwoFails, RekeyDone
  <2>2. CASE d # c
    BY <1>15, <2>2 DEF CacheShape, CacheShapeOf, Reading, Changing, Writing, TypeOK, CommitPhaseTwoFails, RekeyDone
  <2> QED
    BY <2>1, <2>2
<1>16. ASSUME NEW c \in Conns, PagerUnlock(c) PROVE CacheShape'
  <2> SUFFICES ASSUME NEW d \in Conns PROVE CacheShapeOf(d)'
    BY DEF CacheShape
  <2>1. CASE d = c
    BY <1>16, <2>1, FirstKeyAssumption, NoPageAssumption, PageOneAssumption DEF CacheShape, CacheShapeOf, Reading, Changing, Writing, TypeOK, PagerUnlock, Drop, RekeyEnds
  <2>2. CASE d # c
    BY <1>16, <2>2 DEF CacheShape, CacheShapeOf, Reading, Changing, Writing, TypeOK, PagerUnlock, Drop, RekeyEnds
  <2> QED
    BY <2>1, <2>2
<1>17. ASSUME NEW c \in Conns, Close(c) \/ Crash(c) PROVE CacheShape'
  <2> SUFFICES ASSUME NEW d \in Conns PROVE CacheShapeOf(d)'
    BY DEF CacheShape
  <2>1. CASE d = c
    BY <1>17, <2>1, FirstKeyAssumption, NoPageAssumption, PageOneAssumption DEF CacheShape, CacheShapeOf, Reading, Changing, Writing, TypeOK, Close, Crash, Forget, Drop
  <2>2. CASE d # c
    BY <1>17, <2>2 DEF CacheShape, CacheShapeOf, Reading, Changing, Writing, TypeOK, Close, Crash, Forget, Drop
  <2> QED
    BY <2>1, <2>2
<1>18. ASSUME NEW c \in Conns, NEW k \in Keys, Open(c, k) PROVE CacheShape'
  <2> SUFFICES ASSUME NEW d \in Conns PROVE CacheShapeOf(d)'
    BY DEF CacheShape
  <2>1. CASE d = c
    BY <1>18, <2>1, FirstKeyAssumption, NoPageAssumption, PageOneAssumption DEF CacheShape, CacheShapeOf, Reading, Changing, Writing, TypeOK, Open
  <2>2. CASE d # c
    BY <1>18, <2>2 DEF CacheShape, CacheShapeOf, Reading, Changing, Writing, TypeOK, Open
  <2> QED
    BY <2>1, <2>2
<1>19. ASSUME NEW c \in Conns, NEW p \in Pages, PlaybackOnePage(c, p) PROVE CacheShape'
  <2> SUFFICES ASSUME NEW d \in Conns PROVE CacheShapeOf(d)'
    BY DEF CacheShape
  <2>1. CASE d = c
    BY <1>19, <2>1, FirstKeyAssumption, NoPageAssumption, PageOneAssumption DEF CacheShape, CacheShapeOf, Reading, Changing, Writing, TypeOK, PlaybackOnePage
  <2>2. CASE d # c
    BY <1>19, <2>2 DEF CacheShape, CacheShapeOf, Reading, Changing, Writing, TypeOK, PlaybackOnePage
  <2> QED
    BY <2>1, <2>2
<1>20. ASSUME NEW c \in Conns, NEW p \in Pages, ReadPage(c, p) PROVE CacheShape'
  <2> SUFFICES ASSUME NEW d \in Conns PROVE CacheShapeOf(d)'
    BY DEF CacheShape
  <2>1. CASE d = c
    BY <1>20, <2>1, FirstKeyAssumption, NoPageAssumption, PageOneAssumption DEF CacheShape, CacheShapeOf, Reading, Changing, Writing, TypeOK, ReadPage
  <2>2. CASE d # c
    BY <1>20, <2>2 DEF CacheShape, CacheShapeOf, Reading, Changing, Writing, TypeOK, ReadPage
  <2> QED
    BY <2>1, <2>2
<1>21. ASSUME NEW c \in Conns, NEW p \in Pages, WritePage(c, p) PROVE CacheShape'
  <2> SUFFICES ASSUME NEW d \in Conns PROVE CacheShapeOf(d)'
    BY DEF CacheShape
  <2>1. CASE d = c
    <3>1. CacheShapeOf(c) /\ state[c] \in {"locked", "cachemod", "dbmod"} /\ cache[c][p] # NoPage
      BY <1>21 DEF WritePage, CacheShape
    <3>2. cache'[c] = [cache[c] EXCEPT ![p] = Modified(c, p)] /\ Modified(c, p) # NoPage
      BY <1>21, <3>1, ModifiedNotEmpty DEF WritePage, TypeOK
    <3>3. dirty'[c] = dirty[c] \union {p} /\ UNCHANGED <<readKey, writeKey>>
      BY <1>21 DEF WritePage, TypeOK
    <3>4. \A q \in Pages : cache[c][q] # NoPage => cache'[c][q] # NoPage
      BY <3>2 DEF TypeOK
    <3>5. \A q \in dirty'[c] : cache'[c][q] # NoPage
      BY <3>1, <3>3, <3>4 DEF CacheShapeOf, TypeOK
    <3>6. state'[c] \in {"cachemod", "dbmod"}
      BY <1>21, <3>1 DEF WritePage, TypeOK
    <3> QED
      BY <2>1, <3>1, <3>3, <3>4, <3>5, <3>6, PageOneAssumption DEF CacheShapeOf, Reading, Changing
  <2>2. CASE d # c
    BY <1>21, <2>2 DEF CacheShape, CacheShapeOf, Reading, Changing, Writing, TypeOK, WritePage
  <2> QED
    BY <2>1, <2>2
<1>22. ASSUME NEW c \in Conns, NEW p \in Pages, WriteBack(c, p) PROVE CacheShape'
  <2> SUFFICES ASSUME NEW d \in Conns PROVE CacheShapeOf(d)'
    BY DEF CacheShape
  <2>1. CASE d = c
    BY <1>22, <2>1, FirstKeyAssumption, NoPageAssumption, PageOneAssumption DEF CacheShape, CacheShapeOf, Reading, Changing, Writing, TypeOK, WriteBack
  <2>2. CASE d # c
    BY <1>22, <2>2 DEF CacheShape, CacheShapeOf, Reading, Changing, Writing, TypeOK, WriteBack
  <2> QED
    BY <2>1, <2>2
<1>23. ASSUME NEW c \in Conns, NEW p \in Pages, Spill(c, p) PROVE CacheShape'
  <2> SUFFICES ASSUME NEW d \in Conns PROVE CacheShapeOf(d)'
    BY DEF CacheShape
  <2>1. CASE d = c
    BY <1>23, <2>1, FirstKeyAssumption, NoPageAssumption, PageOneAssumption DEF CacheShape, CacheShapeOf, Reading, Changing, Writing, TypeOK, Spill
  <2>2. CASE d # c
    BY <1>23, <2>2 DEF CacheShape, CacheShapeOf, Reading, Changing, Writing, TypeOK, Spill
  <2> QED
    BY <2>1, <2>2
<1>24. ASSUME NEW c \in Conns, NEW p \in Pages, UndoPage(c, p) PROVE CacheShape'
  <2> SUFFICES ASSUME NEW d \in Conns PROVE CacheShapeOf(d)'
    BY DEF CacheShape
  <2>1. CASE d = c
    <3>1. CacheShapeOf(c) /\ state[c] = "undo" /\ UNCHANGED <<dirty, writeKey>>
      BY <1>24 DEF UndoPage, CacheShape
    <3>2. state'[c] \in {"undo", "error"}
      BY <1>24, <3>1 DEF UndoPage, UndoCache, TypeOK
    <3>3. journal.record[p].by # NoPage
      <4>1. journal.record[p] \in Content
        BY <1>24 DEF UndoPage, JournalShape, JournalShapeOf, TypeOK, Journals, Recorded
      <4> QED
        BY <4>1, NoPageAssumption DEF Content, Txns
    <3>4. \A q \in Pages : cache[c][q] # NoPage => cache'[c][q] # NoPage
      BY <1>24, <3>3 DEF UndoPage, UndoCache, TypeOK
    <3>5. dirty[c] \subseteq Pages
      BY DEF TypeOK
    <3> QED
      BY <2>1, <3>1, <3>2, <3>4, <3>5, PageOneAssumption DEF CacheShapeOf, Reading, Changing
  <2>2. CASE d # c
    BY <1>24, <2>2 DEF CacheShape, CacheShapeOf, Reading, Changing, Writing, TypeOK, UndoPage, UndoCache
  <2> QED
    BY <2>1, <2>2
<1>25. CASE PowerLoss
  BY <1>25 DEF CacheShape, CacheShapeOf, Reading, Changing, Writing, TypeOK, PowerLoss, Forget, Drop
<1>26. CASE UNCHANGED vars
  BY <1>26 DEF CacheShape, CacheShapeOf, Reading, Changing, Writing, TypeOK, vars
<1> QED
  BY <1>1, <1>2, <1>3, <1>4, <1>5, <1>6, <1>7, <1>8, <1>9, <1>10, <1>11, <1>12, <1>13, <1>14, <1>15, <1>16, <1>17, <1>18, <1>19, <1>20, <1>21, <1>22, <1>23, <1>24, <1>25, <1>26 DEF Next, Rollback, RekeyFails, RekeyEnds

-----------------------------------------------------------------------------
LEMMA RecordedTypes ==
    ASSUME NEW j \in Journals, NEW c \in Conns, NEW p \in Pages
    PROVE  /\ Recorded(AllCounted(j)) = Recorded(j) /\ AllCounted(j).counted = Recorded(j)
           /\ AllCounted(j).exists = j.exists
           /\ WithOriginal(j, c, p).exists = j.exists /\ WithOriginal(j, c, p).counted = j.counted
           /\ Recorded(j) \subseteq Recorded(WithOriginal(j, c, p))
           /\ Original(c, p) # NoPage => Recorded(WithOriginal(j, c, p)) = Recorded(j) \union {p}
  BY DEF AllCounted, WithOriginal, Recorded, Journals

(* What a step of c leaves of JournalShape for another connection.              *)
LEMMA Bystander ==
    ASSUME LockTypes, Locks, LockTypes', Locks', JournalShape,
           NEW c \in Conns, NEW d \in Conns, c # d,
           state'[d] = state[d], lock'[d] = lock[d], dirty'[d] = dirty[d], todo'[d] = todo[d],
           \/ journal' = journal
           \/ /\ lock[c] >= RESERVED
              /\ journal'.counted \in {{}, journal.counted} \/ lock'[c] = EXCLUSIVE
    PROVE  JournalShapeOf(d)'
<1>1. CASE journal' = journal
  BY <1>1 DEF JournalShape, JournalShapeOf, Recorded
<1>2. CASE /\ lock[c] >= RESERVED
           /\ journal'.counted \in {{}, journal.counted} \/ lock'[c] = EXCLUSIVE
  <2>1. state'[d] \notin Changing \union {"undo", "playback", "writing", "finished"}
    BY <1>2, OnlyWriter DEF Writing, Changing
  <2>2. lock'[d] \in {RESERVED, PENDING} \/ state'[d] = "reader" => journal'.counted = {}
    <3>1. CASE journal'.counted \in {{}, journal.counted}
      BY <3>1 DEF JournalShape, JournalShapeOf
    <3>2. CASE lock'[c] = EXCLUSIVE
      BY <3>2 DEF Locks, StateLocks, LockTable, LockTypes, NO_LOCK, SHARED, RESERVED, PENDING, EXCLUSIVE
    <3> QED
      BY <1>2, <3>1, <3>2
  <2> QED
    BY <2>1, <2>2 DEF JournalShapeOf, Changing
<1> QED
  BY <1>1, <1>2

(* A connection that is not in a transaction of its own.                        *)
LEMMA NoTransaction ==
    ASSUME NEW c \in Conns,
           state'[c] \notin Changing \union {"undo", "playback"},
           journal'.counted = {} \/ (lock'[c] \in {NO_LOCK, SHARED, EXCLUSIVE} /\ state'[c] # "reader")
    PROVE  JournalShapeOf(c)'
  BY DEF JournalShapeOf, Changing, NO_LOCK, SHARED, RESERVED, PENDING, EXCLUSIVE

LEMMA EnterJournal ==
    ASSUME TypeOK, NEW c \in Conns, Enter(c), journal'.counted = {}
    PROVE  JournalShapeOf(c)'
<1>1. state'[c] \in {"open", "reader"}
  BY DEF Enter, TypeOK
<1> QED
  BY <1>1, NoTransaction DEF Changing

LEMMA JournalStep ==
    ASSUME TypeOK, Locks, Locks', LockTypes', CacheShape, JournalShape, [Next]_vars
    PROVE  JournalShape'
<1> USE DEF fileVars, journalVars, cacheVars, rekeyVars, keyVars, boundVars
<1>a. LockTypes /\ journal \in Journals
  BY DEF TypeOK, LockTypes
<1>b. NoJournal.counted = {} /\ NewJournal.counted = {} /\ NewJournal.exists /\ Recorded(NewJournal) = {}
  BY DEF NoJournal, NewJournal, Recorded, Empty
<1>c. \A c \in Conns : JournalShapeOf(c)
  BY DEF JournalShape
<1>d. \A c \in Conns : state[c] \in {"locked", "cachemod", "dbmod", "writing", "finished", "playback"}
          => lock[c] \in {RESERVED, PENDING, EXCLUSIVE} /\ lock[c] >= RESERVED
  BY DEF Locks, StateLocks, RESERVED, PENDING, EXCLUSIVE
<1>e. \A c \in Conns : state[c] = "undo" => lock[c] \in {RESERVED, PENDING, EXCLUSIVE} /\ lock[c] >= RESERVED
  BY DEF Locks, StateLocks, RESERVED, PENDING, EXCLUSIVE
<1>1. ASSUME NEW c \in Conns, SharedLock(c) PROVE JournalShape'
  <2>1. JournalShapeOf(c)'
    <3>1. CASE journal.exists
      BY <1>a, <1>1, <3>1, NoTransaction DEF SharedLock, TypeOK, Changing
    <3>2. CASE ~journal.exists
      BY <1>b, <1>1, <3>2, EnterJournal DEF SharedLock, JournalShape
    <3> QED
      BY <3>1, <3>2
  <2>2. \A j \in kept' \union {journal'} : ~j.exists => j = NoJournal
    BY <1>a, <1>b, <1>c, <1>1, RecordedTypes, NewJournalTypes, PageOneAssumption DEF JournalShape, JournalShapeOf, Changing, SharedLock, Enter
  <2>3. ASSUME NEW d \in Conns, d # c PROVE JournalShapeOf(d)'
    <3>1. state'[d] = state[d] /\ lock'[d] = lock[d] /\ dirty'[d] = dirty[d] /\ todo'[d] = todo[d]
      BY <1>1, <2>3 DEF TypeOK, SharedLock, Enter
    <3>2. \/ journal' = journal
          \/ /\ lock[c] >= RESERVED
             /\ journal'.counted \in {{}, journal.counted} \/ lock'[c] = EXCLUSIVE
      BY <1>a, <1>b, <1>d, <1>e, <1>1, RecordedTypes, PageOneAssumption, NewJournalTypes DEF TypeOK, SharedLock, Enter
    <3> QED
      BY <1>a, <2>3, <3>1, <3>2, Bystander
  <2> QED
    BY <2>1, <2>2, <2>3 DEF JournalShape
<1>2. ASSUME NEW c \in Conns, HasHotJournal(c) PROVE JournalShape'
  <2>1. JournalShapeOf(c)'
    <3>1. CASE MayBeHot(c)
      <4>1. state'[c] = "hot" /\ lock'[c] = SHARED
        BY <1>2, <3>1 DEF HasHotJournal, TypeOK, Locks, StateLocks
      <4> QED
        BY <4>1, NoTransaction DEF Changing
    <3>2. CASE ~MayBeHot(c) /\ ~MayReserve(c)
      <4>1. PICK d \in Conns : d # c /\ lock[d] >= RESERVED
        BY <1>a, <3>2 DEF MayReserve, Others, LockTypes, NO_LOCK, RESERVED, EXCLUSIVE
      <4>2. lock[c] = SHARED
        BY <1>2 DEF HasHotJournal, Locks, StateLocks
      <4>3. lock[d] \in {RESERVED, PENDING}
        BY <1>a, <4>1, <4>2 DEF Locks, LockTable, LockTypes, NO_LOCK, SHARED, RESERVED, PENDING, EXCLUSIVE
      <4> QED
        BY <1>c, <1>2, <3>2, <4>3, EnterJournal DEF HasHotJournal, JournalShapeOf
    <3>3. CASE ~MayBeHot(c) /\ MayReserve(c)
      <4>1. journal.counted = {}
        BY <3>3 DEF MayBeHot
      <4> QED
        BY <1>c, <1>2, <3>3, <4>1, EnterJournal DEF HasHotJournal, JournalShapeOf
    <3> QED
      BY <3>1, <3>2, <3>3
  <2>2. \A j \in kept' \union {journal'} : ~j.exists => j = NoJournal
    BY <1>a, <1>b, <1>c, <1>2, RecordedTypes, NewJournalTypes, PageOneAssumption DEF JournalShape, JournalShapeOf, Changing, HasHotJournal, Enter
  <2>3. ASSUME NEW d \in Conns, d # c PROVE JournalShapeOf(d)'
    <3>1. state'[d] = state[d] /\ lock'[d] = lock[d] /\ dirty'[d] = dirty[d] /\ todo'[d] = todo[d]
      BY <1>2, <2>3 DEF TypeOK, HasHotJournal, Enter
    <3>2. \/ journal' = journal
          \/ /\ lock[c] >= RESERVED
             /\ journal'.counted \in {{}, journal.counted} \/ lock'[c] = EXCLUSIVE
      BY <1>a, <1>b, <1>d, <1>e, <1>2, RecordedTypes, PageOneAssumption, NewJournalTypes DEF TypeOK, HasHotJournal, Enter
    <3> QED
      BY <1>a, <2>3, <3>1, <3>2, Bystander
  <2> QED
    BY <2>1, <2>2, <2>3 DEF JournalShape
<1>3. ASSUME NEW c \in Conns, LockHotJournal(c) PROVE JournalShape'
  <2>1. JournalShapeOf(c)'
    <3>1. CASE journal.exists
      <4>1. state'[c] = "playback" /\ lock'[c] = EXCLUSIVE /\ todo'[c] = journal.counted
        BY <1>3, <3>1 DEF LockHotJournal, TypeOK
      <4> QED
        BY <1>3, <3>1, <4>1 DEF LockHotJournal, JournalShapeOf, Changing, RESERVED, PENDING, EXCLUSIVE
    <3>2. CASE ~journal.exists
      BY <1>b, <1>3, <3>2, EnterJournal DEF LockHotJournal, JournalShape
    <3> QED
      BY <3>1, <3>2
  <2>2. \A j \in kept' \union {journal'} : ~j.exists => j = NoJournal
    BY <1>a, <1>b, <1>c, <1>3, RecordedTypes, NewJournalTypes, PageOneAssumption DEF JournalShape, JournalShapeOf, Changing, LockHotJournal, Enter
  <2>3. ASSUME NEW d \in Conns, d # c PROVE JournalShapeOf(d)'
    <3>1. state'[d] = state[d] /\ lock'[d] = lock[d] /\ dirty'[d] = dirty[d] /\ todo'[d] = todo[d]
      BY <1>3, <2>3 DEF TypeOK, LockHotJournal, Enter
    <3>2. \/ journal' = journal
          \/ /\ lock[c] >= RESERVED
             /\ journal'.counted \in {{}, journal.counted} \/ lock'[c] = EXCLUSIVE
      BY <1>a, <1>b, <1>d, <1>e, <1>3, RecordedTypes, PageOneAssumption, NewJournalTypes DEF TypeOK, LockHotJournal, Enter
    <3> QED
      BY <1>a, <2>3, <3>1, <3>2, Bystander
  <2> QED
    BY <2>1, <2>2, <2>3 DEF JournalShape
<1>4. ASSUME NEW c \in Conns, HotJournalBusy(c) \/ EndRead(c) PROVE JournalShape'
  <2>1. JournalShapeOf(c)'
    <3>1. state'[c] = "open" /\ lock'[c] = NO_LOCK
      BY <1>4 DEF HotJournalBusy, EndRead, TypeOK
    <3> QED
      BY <3>1, NoTransaction DEF Changing
  <2>2. \A j \in kept' \union {journal'} : ~j.exists => j = NoJournal
    BY <1>a, <1>b, <1>c, <1>4, RecordedTypes, NewJournalTypes, PageOneAssumption DEF JournalShape, JournalShapeOf, Changing, HotJournalBusy, EndRead
  <2>3. ASSUME NEW d \in Conns, d # c PROVE JournalShapeOf(d)'
    <3>1. state'[d] = state[d] /\ lock'[d] = lock[d] /\ dirty'[d] = dirty[d] /\ todo'[d] = todo[d]
      BY <1>4, <2>3 DEF TypeOK, HotJournalBusy, EndRead
    <3>2. \/ journal' = journal
          \/ /\ lock[c] >= RESERVED
             /\ journal'.counted \in {{}, journal.counted} \/ lock'[c] = EXCLUSIVE
      BY <1>a, <1>b, <1>d, <1>e, <1>4, RecordedTypes, PageOneAssumption, NewJournalTypes DEF TypeOK, HotJournalBusy, EndRead
    <3> QED
      BY <1>a, <2>3, <3>1, <3>2, Bystander
  <2> QED
    BY <2>1, <2>2, <2>3 DEF JournalShape
<1>5. ASSUME NEW c \in Conns, PlaybackEnd(c) PROVE JournalShape'
  <2>1. JournalShapeOf(c)'
    BY <1>b, <1>5, EnterJournal DEF PlaybackEnd, DeleteJournal
  <2>2. \A j \in kept' \union {journal'} : ~j.exists => j = NoJournal
    BY <1>a, <1>b, <1>c, <1>5, RecordedTypes, NewJournalTypes, PageOneAssumption DEF JournalShape, JournalShapeOf, Changing, PlaybackEnd, DeleteJournal, Enter
  <2>3. ASSUME NEW d \in Conns, d # c PROVE JournalShapeOf(d)'
    <3>1. state'[d] = state[d] /\ lock'[d] = lock[d] /\ dirty'[d] = dirty[d] /\ todo'[d] = todo[d]
      BY <1>5, <2>3 DEF TypeOK, PlaybackEnd, DeleteJournal, Enter
    <3>2. \/ journal' = journal
          \/ /\ lock[c] >= RESERVED
             /\ journal'.counted \in {{}, journal.counted} \/ lock'[c] = EXCLUSIVE
      BY <1>a, <1>b, <1>d, <1>e, <1>5, RecordedTypes, PageOneAssumption, NewJournalTypes DEF TypeOK, PlaybackEnd, DeleteJournal, Enter
    <3> QED
      BY <1>a, <2>3, <3>1, <3>2, Bystander
  <2> QED
    BY <2>1, <2>2, <2>3 DEF JournalShape
<1>6. ASSUME NEW c \in Conns, BeginWrite(c) PROVE JournalShape'
  <2>1. JournalShapeOf(c)'
    <3>1. CASE state[c] = "reader"
      <4>1. state'[c] = "locked"
        BY <1>6, <3>1 DEF BeginWrite, Reserve, TypeOK
      <4> QED
        BY <1>c, <1>6, <3>1, <4>1, NoTransaction DEF BeginWrite, JournalShapeOf, Changing
    <3>2. CASE state[c] # "reader"
      BY <1>c, <1>6, <3>2 DEF BeginWrite, JournalShapeOf, Recorded
    <3> QED
      BY <3>1, <3>2
  <2>2. \A j \in kept' \union {journal'} : ~j.exists => j = NoJournal
    BY <1>a, <1>b, <1>c, <1>6, RecordedTypes, NewJournalTypes, PageOneAssumption DEF JournalShape, JournalShapeOf, Changing, BeginWrite, Reserve
  <2>3. ASSUME NEW d \in Conns, d # c PROVE JournalShapeOf(d)'
    <3>1. state'[d] = state[d] /\ lock'[d] = lock[d] /\ dirty'[d] = dirty[d] /\ todo'[d] = todo[d]
      BY <1>6, <2>3 DEF TypeOK, BeginWrite, Reserve
    <3>2. \/ journal' = journal
          \/ /\ lock[c] >= RESERVED
             /\ journal'.counted \in {{}, journal.counted} \/ lock'[c] = EXCLUSIVE
      BY <1>a, <1>b, <1>d, <1>e, <1>6, RecordedTypes, PageOneAssumption, NewJournalTypes DEF TypeOK, BeginWrite, Reserve
    <3> QED
      BY <1>a, <2>3, <3>1, <3>2, Bystander
  <2> QED
    BY <2>1, <2>2, <2>3 DEF JournalShape
<1>7. ASSUME NEW c \in Conns, CommitPhaseOne(c) PROVE JournalShape'
  <2>1. JournalShapeOf(c)'
    <3> DEFINE counted == WithOriginal(journal, c, PageOne)
    <3>1. state[c] \in {"cachemod", "dbmod"} /\ JournalShapeOf(c) /\ dirty[c] \subseteq Recorded(journal)
          /\ journal.exists
      BY <1>c, <1>7 DEF CommitPhaseOne, JournalShapeOf, Changing
    <3>2. Original(c, PageOne) # NoPage
      BY <3>1, ContentTypes, NoPageAssumption, PageOneAssumption
         DEF CacheShape, CacheShapeOf, Reading, Changing, Content, Txns
    <3>3. /\ counted \in Journals /\ counted.exists /\ counted.counted = journal.counted
          /\ Recorded(counted) = Recorded(journal) \union {PageOne}
      BY <1>a, <3>1, <3>2, RecordedTypes, JournalTypes, ContentTypes, PageOneAssumption
         DEF CacheShape, CacheShapeOf, Reading, Changing
    <3>4. dirty'[c] = dirty[c] \union {PageOne}
      BY <1>7 DEF CommitPhaseOne, TypeOK, PagesToWrite
    <3>5. CASE MayExclude(c)
      <4>1. journal' = AllCounted(counted) /\ state'[c] = "writing" /\ lock'[c] = EXCLUSIVE
            /\ todo'[c] = dirty'[c]
        BY <1>7, <3>4, <3>5 DEF CommitPhaseOne, SyncJournal, TypeOK, PagesToWrite
      <4>2. Recorded(journal') = Recorded(counted) /\ journal'.counted = Recorded(counted) /\ journal'.exists
        BY <3>3, <4>1, RecordedTypes, PageOneAssumption
      <4> QED
        BY <3>1, <3>3, <3>4, <4>1, <4>2 DEF JournalShapeOf, Changing, RESERVED, PENDING, EXCLUSIVE
    <3>6. CASE ~MayExclude(c)
      <4>1. lock[c] # EXCLUSIVE
        BY <1>a, <3>6 DEF MayExclude, Others, Locks, LockTable
      <4>2. state[c] = "cachemod" /\ journal.counted = {}
        BY <3>1, <4>1, <1>d DEF Locks, StateLocks, JournalShapeOf
      <4>3. journal' = counted /\ state'[c] = "cachemod"
        BY <1>7, <3>6, <4>2 DEF CommitPhaseOne, TypeOK
      <4> QED
        BY <3>1, <3>3, <3>4, <4>2, <4>3 DEF JournalShapeOf, Changing
    <3> QED
      BY <3>5, <3>6
  <2>2. \A j \in kept' \union {journal'} : ~j.exists => j = NoJournal
    <3>1. state'[c] \in Changing
      BY <1>7 DEF CommitPhaseOne, TypeOK, Changing
    <3>2. journal'.exists
      BY <2>1, <3>1 DEF JournalShapeOf
    <3>3. kept' \subseteq kept \union {journal', NewJournal}
      BY <1>7 DEF CommitPhaseOne, SyncJournal
    <3> QED
      BY <1>b, <3>2, <3>3 DEF JournalShape
  <2>3. ASSUME NEW d \in Conns, d # c PROVE JournalShapeOf(d)'
    <3>1. state'[d] = state[d] /\ lock'[d] = lock[d] /\ dirty'[d] = dirty[d] /\ todo'[d] = todo[d]
      BY <1>7, <2>3 DEF TypeOK, CommitPhaseOne, SyncJournal, RekeyDone
    <3>2. \/ journal' = journal
          \/ /\ lock[c] >= RESERVED
             /\ journal'.counted \in {{}, journal.counted} \/ lock'[c] = EXCLUSIVE
      BY <1>a, <1>b, <1>d, <1>e, <1>7, RecordedTypes, PageOneAssumption, NewJournalTypes DEF TypeOK, CommitPhaseOne, SyncJournal, RekeyDone
    <3> QED
      BY <1>a, <2>3, <3>1, <3>2, Bystander
  <2> QED
    BY <2>1, <2>2, <2>3 DEF JournalShape
<1>8. ASSUME NEW c \in Conns, SyncDatabase(c) PROVE JournalShape'
  <2>1. JournalShapeOf(c)'
    <3>1. state'[c] = "finished" /\ dirty'[c] = {}
      BY <1>8 DEF SyncDatabase, TypeOK
    <3> QED
      BY <1>c, <1>8, <3>1 DEF SyncDatabase, JournalShapeOf, Changing, Recorded
  <2>2. \A j \in kept' \union {journal'} : ~j.exists => j = NoJournal
    BY <1>a, <1>b, <1>c, <1>8, RecordedTypes, NewJournalTypes, PageOneAssumption DEF JournalShape, JournalShapeOf, Changing, SyncDatabase
  <2>3. ASSUME NEW d \in Conns, d # c PROVE JournalShapeOf(d)'
    <3>1. state'[d] = state[d] /\ lock'[d] = lock[d] /\ dirty'[d] = dirty[d] /\ todo'[d] = todo[d]
      BY <1>8, <2>3 DEF TypeOK, SyncDatabase
    <3>2. \/ journal' = journal
          \/ /\ lock[c] >= RESERVED
             /\ journal'.counted \in {{}, journal.counted} \/ lock'[c] = EXCLUSIVE
      BY <1>a, <1>b, <1>d, <1>e, <1>8, RecordedTypes, PageOneAssumption, NewJournalTypes DEF TypeOK, SyncDatabase
    <3> QED
      BY <1>a, <2>3, <3>1, <3>2, Bystander
  <2> QED
    BY <2>1, <2>2, <2>3 DEF JournalShape
<1>9. ASSUME NEW c \in Conns, CommitPhaseTwo(c) PROVE JournalShape'
  <2>1. JournalShapeOf(c)'
    <3>1. state'[c] = "reader"
      BY <1>9 DEF CommitPhaseTwo, TypeOK
    <3> QED
      BY <1>b, <1>9, <3>1, NoTransaction DEF CommitPhaseTwo, DeleteJournal, Changing
  <2>2. \A j \in kept' \union {journal'} : ~j.exists => j = NoJournal
    BY <1>a, <1>b, <1>c, <1>9, RecordedTypes, NewJournalTypes, PageOneAssumption DEF JournalShape, JournalShapeOf, Changing, CommitPhaseTwo, DeleteJournal, RekeyDone
  <2>3. ASSUME NEW d \in Conns, d # c PROVE JournalShapeOf(d)'
    <3>1. state'[d] = state[d] /\ lock'[d] = lock[d] /\ dirty'[d] = dirty[d] /\ todo'[d] = todo[d]
      BY <1>9, <2>3 DEF TypeOK, CommitPhaseTwo, DeleteJournal, RekeyDone
    <3>2. \/ journal' = journal
          \/ /\ lock[c] >= RESERVED
             /\ journal'.counted \in {{}, journal.counted} \/ lock'[c] = EXCLUSIVE
      BY <1>a, <1>b, <1>d, <1>e, <1>9, RecordedTypes, PageOneAssumption, NewJournalTypes DEF TypeOK, CommitPhaseTwo, DeleteJournal, RekeyDone
    <3> QED
      BY <1>a, <2>3, <3>1, <3>2, Bystander
  <2> QED
    BY <2>1, <2>2, <2>3 DEF JournalShape
<1>10. ASSUME NEW c \in Conns, PagerRollback(c), UNCHANGED <<fileVars, writeKey, previous>> PROVE JournalShape'
  <2>1. JournalShapeOf(c)'
    <3>1. CASE state[c] = "locked"
      <4>1. state'[c] = "reader" /\ journal' = journal
        BY <1>10, <3>1 DEF PagerRollback, EndTransaction, TypeOK
      <4>2. journal.counted = {}
        BY <1>c, <3>1 DEF Locks, StateLocks, JournalShapeOf
      <4> QED
        BY <4>1, <4>2, NoTransaction DEF Changing
    <3>2. CASE state[c] # "locked"
      <4>1. state[c] \in Changing /\ state'[c] = "undo" /\ todo'[c] = Recorded(journal)
            /\ UNCHANGED <<lock, dirty, journal>>
        BY <1>10, <3>2 DEF PagerRollback, TypeOK, Changing
      <4> QED
        BY <1>c, <4>1 DEF JournalShapeOf, Changing, Recorded
    <3> QED
      BY <3>1, <3>2
  <2>2. \A j \in kept' \union {journal'} : ~j.exists => j = NoJournal
    BY <1>a, <1>b, <1>c, <1>10, RecordedTypes, NewJournalTypes, PageOneAssumption DEF JournalShape, JournalShapeOf, Changing, PagerRollback, EndTransaction
  <2>3. ASSUME NEW d \in Conns, d # c PROVE JournalShapeOf(d)'
    <3>1. state'[d] = state[d] /\ lock'[d] = lock[d] /\ dirty'[d] = dirty[d] /\ todo'[d] = todo[d]
      BY <1>10, <2>3 DEF TypeOK, PagerRollback, EndTransaction
    <3>2. \/ journal' = journal
          \/ /\ lock[c] >= RESERVED
             /\ journal'.counted \in {{}, journal.counted} \/ lock'[c] = EXCLUSIVE
      BY <1>a, <1>b, <1>d, <1>e, <1>10, RecordedTypes, PageOneAssumption, NewJournalTypes DEF TypeOK, PagerRollback, EndTransaction
    <3> QED
      BY <1>a, <2>3, <3>1, <3>2, Bystander
  <2> QED
    BY <2>1, <2>2, <2>3 DEF JournalShape
<1>11. ASSUME NEW c \in Conns, UndoEnd(c) PROVE JournalShape'
  <2>1. JournalShapeOf(c)'
    <3>1. state'[c] \in {"reader", "error"}
      BY <1>11 DEF UndoEnd, EndTransaction, TypeOK
    <3> QED
      BY <1>b, <1>11, <3>1, NoTransaction DEF UndoEnd, DeleteJournal, Changing
  <2>2. \A j \in kept' \union {journal'} : ~j.exists => j = NoJournal
    BY <1>a, <1>b, <1>c, <1>11, RecordedTypes, NewJournalTypes, PageOneAssumption DEF JournalShape, JournalShapeOf, Changing, UndoEnd, DeleteJournal, EndTransaction
  <2>3. ASSUME NEW d \in Conns, d # c PROVE JournalShapeOf(d)'
    <3>1. state'[d] = state[d] /\ lock'[d] = lock[d] /\ dirty'[d] = dirty[d] /\ todo'[d] = todo[d]
      BY <1>11, <2>3 DEF TypeOK, UndoEnd, DeleteJournal, EndTransaction
    <3>2. \/ journal' = journal
          \/ /\ lock[c] >= RESERVED
             /\ journal'.counted \in {{}, journal.counted} \/ lock'[c] = EXCLUSIVE
      BY <1>a, <1>b, <1>d, <1>e, <1>11, RecordedTypes, PageOneAssumption, NewJournalTypes DEF TypeOK, UndoEnd, DeleteJournal, EndTransaction
    <3> QED
      BY <1>a, <2>3, <3>1, <3>2, Bystander
  <2> QED
    BY <2>1, <2>2, <2>3 DEF JournalShape
<1>12. ASSUME NEW c \in Conns, NEW k \in Keys, Rekey(c, k) PROVE JournalShape'
  <2>1. JournalShapeOf(c)'
    <3>1. CASE state'[c] = "locked" /\ state[c] = "reader"
      BY <1>c, <1>12, <3>1, NoTransaction DEF Rekey, JournalShapeOf, Changing
    <3>2. CASE UNCHANGED <<lock, state>>
      BY <1>c, <1>12, <3>2 DEF Rekey, JournalShapeOf, Recorded
    <3> QED
      BY <1>12, <3>1, <3>2 DEF Rekey, Reserve, TypeOK
  <2>2. \A j \in kept' \union {journal'} : ~j.exists => j = NoJournal
    BY <1>a, <1>b, <1>c, <1>12, RecordedTypes, NewJournalTypes, PageOneAssumption DEF JournalShape, JournalShapeOf, Changing, Rekey, Reserve
  <2>3. ASSUME NEW d \in Conns, d # c PROVE JournalShapeOf(d)'
    <3>1. state'[d] = state[d] /\ lock'[d] = lock[d] /\ dirty'[d] = dirty[d] /\ todo'[d] = todo[d]
      BY <1>12, <2>3 DEF TypeOK, Rekey, Reserve
    <3>2. \/ journal' = journal
          \/ /\ lock[c] >= RESERVED
             /\ journal'.counted \in {{}, journal.counted} \/ lock'[c] = EXCLUSIVE
      BY <1>a, <1>b, <1>d, <1>e, <1>12, RecordedTypes, PageOneAssumption, NewJournalTypes DEF TypeOK, Rekey, Reserve
    <3> QED
      BY <1>a, <2>3, <3>1, <3>2, Bystander
  <2> QED
    BY <2>1, <2>2, <2>3 DEF JournalShape
<1>13. ASSUME NEW c \in Conns, RekeyCommitFails(c) PROVE JournalShape'
  <2>1. JournalShapeOf(c)'
    <3>1. state'[c] = "dbmod" /\ todo'[c] = {} /\ UNCHANGED <<lock, dirty, journal>>
      BY <1>13 DEF RekeyCommitFails, TypeOK
    <3> QED
      BY <1>c, <1>13, <3>1 DEF RekeyCommitFails, JournalShapeOf, Changing, Recorded
  <2>2. \A j \in kept' \union {journal'} : ~j.exists => j = NoJournal
    BY <1>a, <1>b, <1>c, <1>13, RecordedTypes, NewJournalTypes, PageOneAssumption DEF JournalShape, JournalShapeOf, Changing, RekeyCommitFails, RekeyDone
  <2>3. ASSUME NEW d \in Conns, d # c PROVE JournalShapeOf(d)'
    <3>1. state'[d] = state[d] /\ lock'[d] = lock[d] /\ dirty'[d] = dirty[d] /\ todo'[d] = todo[d]
      BY <1>13, <2>3 DEF TypeOK, RekeyCommitFails, RekeyDone
    <3>2. \/ journal' = journal
          \/ /\ lock[c] >= RESERVED
             /\ journal'.counted \in {{}, journal.counted} \/ lock'[c] = EXCLUSIVE
      BY <1>a, <1>b, <1>d, <1>e, <1>13, RecordedTypes, PageOneAssumption, NewJournalTypes DEF TypeOK, RekeyCommitFails, RekeyDone
    <3> QED
      BY <1>a, <2>3, <3>1, <3>2, Bystander
  <2> QED
    BY <2>1, <2>2, <2>3 DEF JournalShape
<1>14. ASSUME NEW c \in Conns, PlaybackFails(c) \/ SpillFails(c) PROVE JournalShape'
  <2>1. JournalShapeOf(c)'
    <3>1. CASE PlaybackFails(c)
      <4>1. state'[c] = "error" /\ UNCHANGED <<lock, journal>>
        BY <3>1 DEF PlaybackFails, TypeOK
      <4> QED
        BY <1>c, <4>1 DEF JournalShapeOf, Changing
    <3>2. CASE SpillFails(c)
      <4>1. state'[c] = "error" /\ lock'[c] = EXCLUSIVE
        BY <3>2 DEF SpillFails, TypeOK
      <4> QED
        BY <4>1, NoTransaction DEF Changing
    <3> QED
      BY <1>14, <3>1, <3>2
  <2>2. \A j \in kept' \union {journal'} : ~j.exists => j = NoJournal
    BY <1>a, <1>b, <1>c, <1>14, RecordedTypes, NewJournalTypes, PageOneAssumption DEF JournalShape, JournalShapeOf, Changing, PlaybackFails, SpillFails
  <2>3. ASSUME NEW d \in Conns, d # c PROVE JournalShapeOf(d)'
    <3>1. state'[d] = state[d] /\ lock'[d] = lock[d] /\ dirty'[d] = dirty[d] /\ todo'[d] = todo[d]
      BY <1>14, <2>3 DEF TypeOK, PlaybackFails, SpillFails
    <3>2. \/ journal' = journal
          \/ /\ lock[c] >= RESERVED
             /\ journal'.counted \in {{}, journal.counted} \/ lock'[c] = EXCLUSIVE
      BY <1>a, <1>b, <1>d, <1>e, <1>14, RecordedTypes, PageOneAssumption, NewJournalTypes DEF TypeOK, PlaybackFails, SpillFails
    <3> QED
      BY <1>a, <2>3, <3>1, <3>2, Bystander
  <2> QED
    BY <2>1, <2>2, <2>3 DEF JournalShape
<1>15. ASSUME NEW c \in Conns, CommitPhaseTwoFails(c) PROVE JournalShape'
  <2>1. JournalShapeOf(c)'
    <3>1. state'[c] = "error" /\ lock'[c] = SHARED
      BY <1>15 DEF CommitPhaseTwoFails, TypeOK
    <3> QED
      BY <3>1, NoTransaction DEF Changing
  <2>2. \A j \in kept' \union {journal'} : ~j.exists => j = NoJournal
    BY <1>a, <1>b, <1>c, <1>15, RecordedTypes, NewJournalTypes, PageOneAssumption DEF JournalShape, JournalShapeOf, Changing, CommitPhaseTwoFails, RekeyDone
  <2>3. ASSUME NEW d \in Conns, d # c PROVE JournalShapeOf(d)'
    <3>1. state'[d] = state[d] /\ lock'[d] = lock[d] /\ dirty'[d] = dirty[d] /\ todo'[d] = todo[d]
      BY <1>15, <2>3 DEF TypeOK, CommitPhaseTwoFails, RekeyDone
    <3>2. \/ journal' = journal
          \/ /\ lock[c] >= RESERVED
             /\ journal'.counted \in {{}, journal.counted} \/ lock'[c] = EXCLUSIVE
      BY <1>a, <1>b, <1>d, <1>e, <1>15, RecordedTypes, PageOneAssumption, NewJournalTypes DEF TypeOK, CommitPhaseTwoFails, RekeyDone
    <3> QED
      BY <1>a, <2>3, <3>1, <3>2, Bystander
  <2> QED
    BY <2>1, <2>2, <2>3 DEF JournalShape
<1>16. ASSUME NEW c \in Conns, PagerUnlock(c) PROVE JournalShape'
  <2>1. JournalShapeOf(c)'
    <3>1. state'[c] = "open" /\ lock'[c] = NO_LOCK
      BY <1>16 DEF PagerUnlock, Drop, TypeOK
    <3> QED
      BY <3>1, NoTransaction DEF Changing
  <2>2. \A j \in kept' \union {journal'} : ~j.exists => j = NoJournal
    BY <1>a, <1>b, <1>c, <1>16, RecordedTypes, NewJournalTypes, PageOneAssumption DEF JournalShape, JournalShapeOf, Changing, PagerUnlock, Drop, RekeyEnds
  <2>3. ASSUME NEW d \in Conns, d # c PROVE JournalShapeOf(d)'
    <3>1. state'[d] = state[d] /\ lock'[d] = lock[d] /\ dirty'[d] = dirty[d] /\ todo'[d] = todo[d]
      BY <1>16, <2>3 DEF TypeOK, PagerUnlock, Drop, RekeyEnds
    <3>2. \/ journal' = journal
          \/ /\ lock[c] >= RESERVED
             /\ journal'.counted \in {{}, journal.counted} \/ lock'[c] = EXCLUSIVE
      BY <1>a, <1>b, <1>d, <1>e, <1>16, RecordedTypes, PageOneAssumption, NewJournalTypes DEF TypeOK, PagerUnlock, Drop, RekeyEnds
    <3> QED
      BY <1>a, <2>3, <3>1, <3>2, Bystander
  <2> QED
    BY <2>1, <2>2, <2>3 DEF JournalShape
<1>17. ASSUME NEW c \in Conns, Close(c) \/ Crash(c) PROVE JournalShape'
  <2>1. JournalShapeOf(c)'
    <3>1. state'[c] = "closed" /\ lock'[c] = NO_LOCK
      BY <1>17 DEF Close, Crash, Forget, Drop
    <3> QED
      BY <3>1, NoTransaction DEF Changing
  <2>2. \A j \in kept' \union {journal'} : ~j.exists => j = NoJournal
    BY <1>a, <1>b, <1>c, <1>17, RecordedTypes, NewJournalTypes, PageOneAssumption DEF JournalShape, JournalShapeOf, Changing, Close, Crash, Forget, Drop
  <2>3. ASSUME NEW d \in Conns, d # c PROVE JournalShapeOf(d)'
    <3>1. state'[d] = state[d] /\ lock'[d] = lock[d] /\ dirty'[d] = dirty[d] /\ todo'[d] = todo[d]
      BY <1>17, <2>3 DEF TypeOK, Close, Crash, Forget, Drop
    <3>2. \/ journal' = journal
          \/ /\ lock[c] >= RESERVED
             /\ journal'.counted \in {{}, journal.counted} \/ lock'[c] = EXCLUSIVE
      BY <1>a, <1>b, <1>d, <1>e, <1>17, RecordedTypes, PageOneAssumption, NewJournalTypes DEF TypeOK, Close, Crash, Forget, Drop
    <3> QED
      BY <1>a, <2>3, <3>1, <3>2, Bystander
  <2> QED
    BY <2>1, <2>2, <2>3 DEF JournalShape
<1>18. ASSUME NEW c \in Conns, NEW k \in Keys, Open(c, k) PROVE JournalShape'
  <2>1. JournalShapeOf(c)'
    <3>1. state'[c] = "open" /\ lock'[c] = NO_LOCK
      BY <1>18 DEF Open, TypeOK, Locks, StateLocks
    <3> QED
      BY <3>1, NoTransaction DEF Changing
  <2>2. \A j \in kept' \union {journal'} : ~j.exists => j = NoJournal
    BY <1>a, <1>b, <1>c, <1>18, RecordedTypes, NewJournalTypes, PageOneAssumption DEF JournalShape, JournalShapeOf, Changing, Open
  <2>3. ASSUME NEW d \in Conns, d # c PROVE JournalShapeOf(d)'
    <3>1. state'[d] = state[d] /\ lock'[d] = lock[d] /\ dirty'[d] = dirty[d] /\ todo'[d] = todo[d]
      BY <1>18, <2>3 DEF TypeOK, Open
    <3>2. \/ journal' = journal
          \/ /\ lock[c] >= RESERVED
             /\ journal'.counted \in {{}, journal.counted} \/ lock'[c] = EXCLUSIVE
      BY <1>a, <1>b, <1>d, <1>e, <1>18, RecordedTypes, PageOneAssumption, NewJournalTypes DEF TypeOK, Open
    <3> QED
      BY <1>a, <2>3, <3>1, <3>2, Bystander
  <2> QED
    BY <2>1, <2>2, <2>3 DEF JournalShape
<1>19. ASSUME NEW c \in Conns, NEW p \in Pages, PlaybackOnePage(c, p) PROVE JournalShape'
  <2>1. JournalShapeOf(c)'
    <3>1. todo'[c] \subseteq todo[c] /\ UNCHANGED <<state, lock, dirty, journal>>
      BY <1>19 DEF PlaybackOnePage, TypeOK
    <3> QED
      BY <1>c, <1>19, <3>1 DEF PlaybackOnePage, JournalShapeOf, Changing, Recorded
  <2>2. \A j \in kept' \union {journal'} : ~j.exists => j = NoJournal
    BY <1>a, <1>b, <1>c, <1>19, RecordedTypes, NewJournalTypes, PageOneAssumption DEF JournalShape, JournalShapeOf, Changing, PlaybackOnePage
  <2>3. ASSUME NEW d \in Conns, d # c PROVE JournalShapeOf(d)'
    <3>1. state'[d] = state[d] /\ lock'[d] = lock[d] /\ dirty'[d] = dirty[d] /\ todo'[d] = todo[d]
      BY <1>19, <2>3 DEF TypeOK, PlaybackOnePage
    <3>2. \/ journal' = journal
          \/ /\ lock[c] >= RESERVED
             /\ journal'.counted \in {{}, journal.counted} \/ lock'[c] = EXCLUSIVE
      BY <1>a, <1>b, <1>d, <1>e, <1>19, RecordedTypes, PageOneAssumption, NewJournalTypes DEF TypeOK, PlaybackOnePage
    <3> QED
      BY <1>a, <2>3, <3>1, <3>2, Bystander
  <2> QED
    BY <2>1, <2>2, <2>3 DEF JournalShape
<1>20. ASSUME NEW c \in Conns, NEW p \in Pages, ReadPage(c, p) PROVE JournalShape'
  <2>1. JournalShapeOf(c)'
    <3>1. state'[c] \in {state[c], "error"}
      BY <1>20 DEF ReadPage, TypeOK
    <3> QED
      BY <1>c, <1>20, <3>1 DEF ReadPage, JournalShapeOf, Changing, Recorded
  <2>2. \A j \in kept' \union {journal'} : ~j.exists => j = NoJournal
    BY <1>a, <1>b, <1>c, <1>20, RecordedTypes, NewJournalTypes, PageOneAssumption DEF JournalShape, JournalShapeOf, Changing, ReadPage
  <2>3. ASSUME NEW d \in Conns, d # c PROVE JournalShapeOf(d)'
    <3>1. state'[d] = state[d] /\ lock'[d] = lock[d] /\ dirty'[d] = dirty[d] /\ todo'[d] = todo[d]
      BY <1>20, <2>3 DEF TypeOK, ReadPage
    <3>2. \/ journal' = journal
          \/ /\ lock[c] >= RESERVED
             /\ journal'.counted \in {{}, journal.counted} \/ lock'[c] = EXCLUSIVE
      BY <1>a, <1>b, <1>d, <1>e, <1>20, RecordedTypes, PageOneAssumption, NewJournalTypes DEF TypeOK, ReadPage
    <3> QED
      BY <1>a, <2>3, <3>1, <3>2, Bystander
  <2> QED
    BY <2>1, <2>2, <2>3 DEF JournalShape
<1>21. ASSUME NEW c \in Conns, NEW p \in Pages, WritePage(c, p) PROVE JournalShape'
  <2>1. JournalShapeOf(c)'
    <3>1. state[c] \in {"locked", "cachemod", "dbmod"} /\ cache[c][p] # NoPage /\ UNCHANGED lock
          /\ dirty'[c] = dirty[c] \union {p}
      BY <1>21 DEF WritePage, TypeOK
    <3>2. Original(c, p) \in Content /\ Original(c, p) # NoPage
      BY <3>1, ContentTypes, NoPageAssumption
         DEF CacheShape, CacheShapeOf, Reading, Changing, Content, Txns
    <3>3. CASE state[c] = "locked"
      <4>1. journal' = WithOriginal(NewJournal, c, p) /\ state'[c] = "cachemod"
        BY <1>21, <3>3 DEF WritePage, TypeOK
      <4>2. journal'.exists /\ journal'.counted = {} /\ Recorded(journal') = {p}
        BY <1>b, <3>2, <4>1, RecordedTypes, NewJournalTypes
      <4>3. dirty[c] = {}
        BY <3>3 DEF CacheShape, CacheShapeOf
      <4> QED
        BY <3>1, <4>1, <4>2, <4>3 DEF JournalShapeOf, Changing
    <3>4. CASE state[c] # "locked"
      <4>1. journal' = WithOriginal(journal, c, p) /\ state'[c] \in {"cachemod", "dbmod"}
            /\ state'[c] = state[c]
        BY <1>21, <3>1, <3>4 DEF WritePage, TypeOK
      <4>2. journal'.exists = journal.exists /\ journal'.counted = journal.counted
            /\ Recorded(journal') = Recorded(journal) \union {p}
        BY <1>a, <3>2, <4>1, RecordedTypes
      <4> QED
        BY <1>c, <3>1, <4>1, <4>2 DEF JournalShapeOf, Changing
    <3> QED
      BY <3>3, <3>4
  <2>2. \A j \in kept' \union {journal'} : ~j.exists => j = NoJournal
    <3>1. state'[c] \in Changing
      BY <1>21 DEF WritePage, TypeOK, Changing
    <3>2. journal'.exists
      BY <2>1, <3>1 DEF JournalShapeOf
    <3>3. kept' \subseteq kept \union {journal', NewJournal}
      BY <1>21 DEF WritePage, SyncJournal
    <3> QED
      BY <1>b, <3>2, <3>3 DEF JournalShape
  <2>3. ASSUME NEW d \in Conns, d # c PROVE JournalShapeOf(d)'
    <3>1. state'[d] = state[d] /\ lock'[d] = lock[d] /\ dirty'[d] = dirty[d] /\ todo'[d] = todo[d]
      BY <1>21, <2>3 DEF TypeOK, WritePage
    <3>2. \/ journal' = journal
          \/ /\ lock[c] >= RESERVED
             /\ journal'.counted \in {{}, journal.counted} \/ lock'[c] = EXCLUSIVE
      <4>1. journal' \in {WithOriginal(NewJournal, c, p), WithOriginal(journal, c, p)}
        BY <1>21 DEF WritePage
      <4>2. journal'.counted \in {{}, journal.counted}
        BY <1>a, <1>b, <4>1, RecordedTypes, NewJournalTypes
      <4>3. lock[c] >= RESERVED
        BY <1>d, <1>21 DEF WritePage
      <4> QED
        BY <4>2, <4>3
    <3> QED
      BY <1>a, <2>3, <3>1, <3>2, Bystander
  <2> QED
    BY <2>1, <2>2, <2>3 DEF JournalShape
<1>22. ASSUME NEW c \in Conns, NEW p \in Pages, WriteBack(c, p) PROVE JournalShape'
  <2>1. JournalShapeOf(c)'
    <3>1. todo'[c] \subseteq todo[c] /\ UNCHANGED <<state, lock, dirty, journal>>
      BY <1>22 DEF WriteBack, TypeOK
    <3> QED
      BY <1>c, <1>22, <3>1 DEF WriteBack, JournalShapeOf, Changing, Recorded
  <2>2. \A j \in kept' \union {journal'} : ~j.exists => j = NoJournal
    BY <1>a, <1>b, <1>c, <1>22, RecordedTypes, NewJournalTypes, PageOneAssumption DEF JournalShape, JournalShapeOf, Changing, WriteBack
  <2>3. ASSUME NEW d \in Conns, d # c PROVE JournalShapeOf(d)'
    <3>1. state'[d] = state[d] /\ lock'[d] = lock[d] /\ dirty'[d] = dirty[d] /\ todo'[d] = todo[d]
      BY <1>22, <2>3 DEF TypeOK, WriteBack
    <3>2. \/ journal' = journal
          \/ /\ lock[c] >= RESERVED
             /\ journal'.counted \in {{}, journal.counted} \/ lock'[c] = EXCLUSIVE
      BY <1>a, <1>b, <1>d, <1>e, <1>22, RecordedTypes, PageOneAssumption, NewJournalTypes DEF TypeOK, WriteBack
    <3> QED
      BY <1>a, <2>3, <3>1, <3>2, Bystander
  <2> QED
    BY <2>1, <2>2, <2>3 DEF JournalShape
<1>23. ASSUME NEW c \in Conns, NEW p \in Pages, Spill(c, p) PROVE JournalShape'
  <2>1. JournalShapeOf(c)'
    <3>1. CASE MayExclude(c)
      <4>1. journal' = AllCounted(journal) /\ state'[c] = "dbmod" /\ lock'[c] = EXCLUSIVE
            /\ dirty'[c] \subseteq dirty[c]
        BY <1>23, <3>1 DEF Spill, SyncJournal, TypeOK
      <4>2. Recorded(journal') = Recorded(journal) /\ journal'.exists = journal.exists
        BY <1>a, <4>1, RecordedTypes
      <4> QED
        BY <1>c, <1>23, <4>1, <4>2 DEF Spill, JournalShapeOf, Changing, RESERVED, PENDING, EXCLUSIVE
    <3>2. CASE ~MayExclude(c)
      <4>1. lock[c] # EXCLUSIVE
        BY <1>a, <3>2 DEF MayExclude, Others, Locks, LockTable
      <4>2. UNCHANGED <<journal, state, dirty, todo>> /\ state[c] = "cachemod"
        BY <1>23, <3>2, <4>1 DEF Spill, Locks, StateLocks
      <4>3. journal.counted = {}
        BY <1>c, <1>d, <4>1, <4>2 DEF JournalShapeOf
      <4> QED
        BY <1>c, <4>2, <4>3 DEF JournalShapeOf, Changing, Recorded
    <3> QED
      BY <3>1, <3>2
  <2>2. \A j \in kept' \union {journal'} : ~j.exists => j = NoJournal
    BY <1>a, <1>b, <1>c, <1>23, RecordedTypes, NewJournalTypes, PageOneAssumption DEF JournalShape, JournalShapeOf, Changing, Spill, SyncJournal
  <2>3. ASSUME NEW d \in Conns, d # c PROVE JournalShapeOf(d)'
    <3>1. state'[d] = state[d] /\ lock'[d] = lock[d] /\ dirty'[d] = dirty[d] /\ todo'[d] = todo[d]
      BY <1>23, <2>3 DEF TypeOK, Spill, SyncJournal
    <3>2. \/ journal' = journal
          \/ /\ lock[c] >= RESERVED
             /\ journal'.counted \in {{}, journal.counted} \/ lock'[c] = EXCLUSIVE
      BY <1>a, <1>b, <1>d, <1>e, <1>23, RecordedTypes, PageOneAssumption, NewJournalTypes DEF TypeOK, Spill, SyncJournal
    <3> QED
      BY <1>a, <2>3, <3>1, <3>2, Bystander
  <2> QED
    BY <2>1, <2>2, <2>3 DEF JournalShape
<1>24. ASSUME NEW c \in Conns, NEW p \in Pages, UndoPage(c, p) PROVE JournalShape'
  <2>1. JournalShapeOf(c)'
    <3>1. todo'[c] \subseteq todo[c] /\ state'[c] \in {"undo", "error"}
          /\ state[c] = "undo" /\ UNCHANGED <<lock, dirty, journal>>
      BY <1>24 DEF UndoPage, UndoCache, TypeOK
    <3> QED
      BY <1>c, <3>1 DEF JournalShapeOf, Changing, Recorded
  <2>2. \A j \in kept' \union {journal'} : ~j.exists => j = NoJournal
    BY <1>a, <1>b, <1>c, <1>24, RecordedTypes, NewJournalTypes, PageOneAssumption DEF JournalShape, JournalShapeOf, Changing, UndoPage, UndoCache
  <2>3. ASSUME NEW d \in Conns, d # c PROVE JournalShapeOf(d)'
    <3>1. state'[d] = state[d] /\ lock'[d] = lock[d] /\ dirty'[d] = dirty[d] /\ todo'[d] = todo[d]
      BY <1>24, <2>3 DEF TypeOK, UndoPage, UndoCache
    <3>2. \/ journal' = journal
          \/ /\ lock[c] >= RESERVED
             /\ journal'.counted \in {{}, journal.counted} \/ lock'[c] = EXCLUSIVE
      BY <1>a, <1>b, <1>d, <1>e, <1>24, RecordedTypes, PageOneAssumption, NewJournalTypes DEF TypeOK, UndoPage, UndoCache
    <3> QED
      BY <1>a, <2>3, <3>1, <3>2, Bystander
  <2> QED
    BY <2>1, <2>2, <2>3 DEF JournalShape
<1>25. CASE PowerLoss
  <2>1. \A c \in Conns : JournalShapeOf(c)'
    BY <1>25, NoTransaction DEF PowerLoss, Forget, Drop, Changing
  <2>2. \A j \in kept' \union {journal'} : ~j.exists => j = NoJournal
    BY <1>25 DEF PowerLoss, JournalShape
  <2> QED
    BY <2>1, <2>2 DEF JournalShape
<1>26. CASE UNCHANGED vars
  BY <1>26 DEF JournalShape, JournalShapeOf, Changing, Recorded, vars
<1> QED
  BY <1>1, <1>2, <1>3, <1>4, <1>5, <1>6, <1>7, <1>8, <1>9, <1>10, <1>11, <1>12, <1>13, <1>14, <1>15, <1>16, <1>17, <1>18, <1>19, <1>20, <1>21, <1>22, <1>23, <1>24, <1>25, <1>26 DEF Next, Rollback, RekeyFails, RekeyEnds

-----------------------------------------------------------------------------
(* What is proved so far is inductive by itself.                                *)
Shapes == TypeOK /\ Locks /\ CacheShape /\ JournalShape

LEMMA InitShapes == Init => Shapes
<1> SUFFICES ASSUME Init PROVE Shapes
  OBVIOUS
<1> USE DEF Init
<1>1. 0 \in Txns /\ [by |-> 0, counter |-> 0, key |-> FirstKey] \in Content
  BY BoundsAssumption, FirstKeyAssumption DEF Txns, Content
<1>2. VersionOf([by |-> 0, counter |-> 0, key |-> FirstKey]) \in Versions
  BY FirstKeyAssumption DEF VersionOf, Versions
<1>3. disk \in [Pages -> Content] /\ disk[PageOne] = [by |-> 0, counter |-> 0, key |-> FirstKey]
  BY <1>1, PageOneAssumption
<1>4. FileTypes
  BY <1>1, <1>3, NewJournalTypes DEF FileTypes
<1>5. CacheTypes
  <2>1. Empty \in [Pages -> Txns \union {NoPage}]
    BY DEF Empty
  <2> QED
    BY <1>1, <1>2, <1>3, <2>1, FirstKeyAssumption DEF CacheTypes
<1>6. CountTypes
  <2>1. misled \in BOOLEAN
    OBVIOUS
  <2>2. rekeys \in 0 .. MaxRekeys /\ troubles \in 0 .. MaxTroubles /\ begun \in Txns
    BY <1>1, BoundsAssumption
  <2> QED
    BY <1>1, <2>1, <2>2 DEF CountTypes
<1>7. LockTypes /\ Locks
  BY DEF LockTypes, Locks, StateLocks, LockTable, NO_LOCK, EXCLUSIVE, RESERVED
<1>8. CacheShape
  BY FirstKeyAssumption DEF CacheShape, CacheShapeOf, Reading, Changing
<1>9. JournalShape
  <2>1. \A c \in Conns : JournalShapeOf(c)
    BY DEF JournalShapeOf, Changing, NO_LOCK, RESERVED, PENDING
  <2> QED
    BY <2>1 DEF JournalShape
<1> QED
  BY <1>4, <1>5, <1>6, <1>7, <1>8, <1>9, TypeParts DEF Shapes

LEMMA ShapesStep ==
    ASSUME Shapes, [Next]_vars
    PROVE  Shapes'
<1>1. TypeOK /\ Locks /\ CacheShape /\ JournalShape /\ LockTypes
  BY TypeParts DEF Shapes
<1>2. Locks' /\ LockTypes'
  BY <1>1, LocksStep
<1>3. TypeOK'
  BY <1>1, <1>2, TypeStep
<1>4. CacheShape'
  BY <1>1, CacheStep
<1>5. JournalShape'
  BY <1>1, <1>2, JournalStep
<1> QED
  BY <1>2, <1>3, <1>4, <1>5 DEF Shapes

LEMMA ShapesHold == Spec => []Shapes
<1>1. Shapes /\ [Next]_vars => Shapes'
  BY ShapesStep
<1> QED
  BY <1>1, InitShapes, PTL DEF Spec

(* Every variable of the pagers holds what the code can put into it, in         *)
(* particular no header counts a record that is not in the journal, and a page  *)
(* that is written back is in the cache.                                        *)
THEOREM PagerTypesHold == Spec => []TypeOK
<1>1. Shapes => TypeOK
  BY DEF Shapes
<1> QED
  BY <1>1, ShapesHold, PTL

(* Beside an EXCLUSIVE lock nobody has a lock, and one connection at most has   *)
(* more than SHARED, whoever recovers a hot journal, spills a page, dies or is  *)
(* in the error state: the table above unixLock.                                *)
THEOREM LockTableHolds == Spec => []LockTable
<1>1. Shapes => LockTable
  BY DEF Shapes, Locks
<1> QED
  BY <1>1, ShapesHold, PTL

=============================================================================
