----------------------------- MODULE PagerProofs -----------------------------
(* What a reader reads, what a loss of power leaves, and that the pagers        *)
(* implement an atomic file: theorems about Pager, for any connections, pages,  *)
(* keys and bounds.                                                             *)
EXTENDS PagerTypes

LEMMA ShapesParts ==
    ASSUME Shapes
    PROVE  /\ TypeOK /\ LockTypes /\ FileTypes /\ CacheTypes /\ CountTypes
           /\ Locks /\ CacheShape /\ JournalShape
  BY TypeParts DEF Shapes

(* What is recorded, and what that leaves of the other records.                 *)
LEMMA RecordFacts ==
    ASSUME NEW j \in Journals, NEW c \in Conns, NEW p \in Pages
    PROVE  /\ AllCounted(j).record = j.record /\ AllCounted(j).counted = Recorded(j)
           /\ WithOriginal(j, c, p).counted = j.counted
           /\ \A q \in Pages : q # p => WithOriginal(j, c, p).record[q] = j.record[q]
           /\ j.record[p] = NoPage => WithOriginal(j, c, p).record[p] = Original(c, p)
           /\ Recorded(WithOriginal(j, c, p)) \subseteq Recorded(j) \union {p}
           /\ Recorded(j) \subseteq Recorded(WithOriginal(j, c, p))
           /\ Recorded(j) \subseteq Pages
  BY DEF AllCounted, WithOriginal, Recorded, Journals

LEMMA RecordsKept ==
    ASSUME NEW j \in Journals, NEW c \in Conns, NEW p \in Pages
    PROVE  \A q \in Recorded(j) : WithOriginal(j, c, p).record[q] = j.record[q]
  BY DEF WithOriginal, Recorded, Journals

LEMMA CommittedAt ==
    /\ \A q \in Pages : Committed[q] = IF q \in journal.counted THEN journal.record[q] ELSE disk[q]
    /\ \A q \in Pages : CommittedBy[q] = Committed[q].by
  BY DEF Committed, CommittedBy, PlayedBack

LEMMA CommittedAtNext ==
    /\ \A q \in Pages : Committed'[q] = IF q \in journal'.counted THEN journal'.record[q] ELSE disk'[q]
    /\ \A q \in Pages : CommittedBy'[q] = Committed'[q].by
  BY DEF Committed, CommittedBy, PlayedBack

SameCommitted == CommittedBy' = CommittedBy /\ CommittedCounter' = CommittedCounter

LEMMA SamePages ==
    ASSUME \A q \in Pages : Committed'[q].by = Committed[q].by,
           Committed'[PageOne].counter = Committed[PageOne].counter
    PROVE  SameCommitted
  BY DEF SameCommitted, CommittedBy, CommittedCounter

(* Changes of the journal and of the file that change nothing that is committed. *)
LEMMA NothingCounted ==
    ASSUME journal'.counted = journal.counted,
           \A q \in journal.counted : journal'.record[q] = journal.record[q],
           \A q \in Pages : q \notin journal.counted => disk'[q] = disk[q]
    PROVE  SameCommitted
<1>1. \A q \in Pages : Committed'[q] = Committed[q]
  BY CommittedAt, CommittedAtNext
<1> QED
  BY <1>1, SamePages, PageOneAssumption

LEMMA PlayedBackAll ==
    ASSUME journal' = NoJournal, disk' = disk,
           \A q \in journal.counted : disk[q].by = journal.record[q].by,
           PageOne \in journal.counted => disk[PageOne].counter = journal.record[PageOne].counter
    PROVE  SameCommitted /\ CommittedBy = [q \in Pages |-> disk[q].by]
<1>1. \A q \in Pages : Committed'[q] = disk[q]
  BY CommittedAtNext DEF NoJournal
<1>2. \A q \in Pages : Committed[q].by = disk[q].by
  BY CommittedAt
<1>3. Committed[PageOne].counter = disk[PageOne].counter
  BY CommittedAt, PageOneAssumption
<1> QED
  BY <1>1, <1>2, <1>3, SamePages, PageOneAssumption DEF CommittedBy

(* The records that are counted now are the originals of the file.              *)
LEMMA CountedNow ==
    ASSUME journal.counted \subseteq journal'.counted, journal'.counted \subseteq Pages,
           \A q \in journal.counted : journal'.record[q] = journal.record[q],
           \A q \in journal'.counted \ journal.counted :
               /\ journal'.record[q].by = disk[q].by
               /\ q = PageOne => journal'.record[q].counter = disk[q].counter,
           \A q \in Pages : q \notin journal'.counted => disk'[q] = disk[q]
    PROVE  SameCommitted
<1>1. \A q \in Pages : Committed'[q].by = Committed[q].by
  BY CommittedAt, CommittedAtNext
<1>2. Committed'[PageOne].counter = Committed[PageOne].counter
  BY CommittedAt, CommittedAtNext, PageOneAssumption
<1> QED
  BY <1>1, <1>2, SamePages

(* A page is copied to the journal before it changes.                           *)
LEMMA OriginalOfFile ==
    ASSUME Shapes, TransactionShape, CounterShape, NEW c \in Conns, NEW p \in Pages,
           state[c] \in {"locked", "cachemod", "dbmod"}, cache[c][p] # NoPage,
           state[c] = "locked" \/ journal.record[p] = NoPage
    PROVE  /\ Original(c, p) \in Content /\ Original(c, p) # NoPage
           /\ Original(c, p).by = cache[c][p] /\ cache[c][p] = disk[p].by
           /\ p = PageOne => Original(c, p).counter = disk[p].counter
           /\ p \notin journal.counted
<1>1. /\ TypeOK /\ Locks /\ CacheShapeOf(c) /\ JournalShapeOf(c) /\ CacheShape
      /\ TransactionShapeOf(c, p) /\ CounterShapeOf(c) /\ FileTypes
  BY ShapesParts DEF CacheShape, JournalShape, TransactionShape, CounterShape
<1>2. journal.counted \subseteq Recorded(journal)
  BY <1>1 DEF FileTypes, Journals
<1>3. p \notin dirty[c] /\ p \notin journal.counted
  <2>1. CASE state[c] = "locked"
    BY <1>1, <2>1 DEF CacheShapeOf, JournalShapeOf, Locks, StateLocks
  <2>2. CASE state[c] # "locked"
    <3>1. dirty[c] \subseteq Recorded(journal) /\ p \notin Recorded(journal)
      BY <1>1, <2>2 DEF JournalShapeOf, Changing, Recorded
    <3> QED
      BY <1>2, <3>1
  <2> QED
    BY <2>1, <2>2
<1>4. cache[c][p] = disk[p].by
  BY <1>1, <1>3 DEF TransactionShapeOf, Reading, Changing, Pending
<1>5. Original(c, p) \in Content
  BY <1>1, ContentTypes DEF CacheShapeOf, Reading, Changing
<1>6. Original(c, p) # NoPage
  BY <1>5, NoPageAssumption DEF Content, Txns
<1>7. p = PageOne => Original(c, p).counter = disk[p].counter
  <2>1. version[c].counter = CommittedCounter
    BY <1>1 DEF CounterShapeOf, Reading, Changing
  <2>2. p = PageOne => CommittedCounter = disk[p].counter
    BY <1>3, CommittedAt DEF CommittedCounter
  <2> QED
    BY <2>1, <2>2 DEF Original, Counter
<1> QED
  BY <1>3, <1>4, <1>5, <1>6, <1>7 DEF Original

QuietStep ==
    \E c \in Conns :
        \/ SharedLock(c) \/ HasHotJournal(c) \/ LockHotJournal(c) \/ HotJournalBusy(c)
        \/ PlaybackEnd(c) \/ EndRead(c) \/ BeginWrite(c)
        \/ CommitPhaseOne(c) \/ SyncDatabase(c) \/ Rollback(c) \/ UndoEnd(c)
        \/ RekeyFails(c) \/ RekeyCommitFails(c)
        \/ PlaybackFails(c) \/ SpillFails(c) \/ CommitPhaseTwoFails(c) \/ PagerUnlock(c)
        \/ Close(c) \/ Crash(c)
        \/ \E k \in Keys : Rekey(c, k) \/ Open(c, k)
        \/ \E p \in Pages :
              \/ PlaybackOnePage(c, p) \/ UndoPage(c, p) \/ ReadPage(c, p) \/ WritePage(c, p)
              \/ Spill(c, p) \/ WriteBack(c, p)

LEMMA NextParts == Next <=> QuietStep \/ PowerLoss \/ \E c \in Conns : CommitPhaseTwo(c)
  BY DEF Next, QuietStep

(* Only the deletion of the journal at the end of a commit, and a loss of       *)
(* power, change what is committed.                                             *)
LEMMA CommittedStep ==
    ASSUME Shapes, DiskShape, TransactionShape, CounterShape, QuietStep \/ UNCHANGED vars
    PROVE  SameCommitted
<1> USE DEF fileVars, journalVars, cacheVars, rekeyVars, keyVars, boundVars
<1>a. TypeOK /\ LockTypes /\ FileTypes /\ Locks /\ CacheShape /\ JournalShape
  BY ShapesParts
<1>b. journal \in Journals /\ journal.counted \subseteq Recorded(journal) /\ Recorded(journal) \subseteq Pages
  BY <1>a DEF FileTypes, Journals, Recorded
<1>c. \A c \in Conns : JournalShapeOf(c)
  BY <1>a DEF JournalShape
<1>d. ASSUME NEW c \in Conns, state[c] \in Changing \union {"undo"},
             NEW q \in Recorded(journal) \ journal.counted
      PROVE  journal.record[q].by = disk[q].by
             /\ (q = PageOne => journal.record[q].counter = disk[q].counter)
  BY <1>d DEF TransactionShape, TransactionShapeOf, Recorded
<1>1. ASSUME NEW c \in Conns, SharedLock(c) PROVE SameCommitted
  BY <1>1, NothingCounted DEF SharedLock, Enter, ValidCache
<1>2. ASSUME NEW c \in Conns, HasHotJournal(c) PROVE SameCommitted
  BY <1>2, NothingCounted DEF HasHotJournal, Enter, ValidCache
<1>3. ASSUME NEW c \in Conns, LockHotJournal(c) PROVE SameCommitted
  BY <1>3, NothingCounted DEF LockHotJournal, Enter, ValidCache
<1>4. ASSUME NEW c \in Conns, HotJournalBusy(c) \/ EndRead(c) PROVE SameCommitted
  BY <1>4, NothingCounted DEF HotJournalBusy, EndRead
<1>5. ASSUME NEW c \in Conns, PlaybackEnd(c) PROVE SameCommitted
  <2>1. \A q \in journal.counted : disk[q] = journal.record[q]
    BY <1>5 DEF PlaybackEnd, DiskShape, DiskShapeOf
  <2> QED
    BY <1>5, <2>1, PlayedBackAll DEF PlaybackEnd, DeleteJournal
<1>6. ASSUME NEW c \in Conns, BeginWrite(c) PROVE SameCommitted
  BY <1>6, NothingCounted DEF BeginWrite, Reserve
<1>7. ASSUME NEW c \in Conns, CommitPhaseOne(c) PROVE SameCommitted
  <2> DEFINE counted == WithOriginal(journal, c, PageOne)
  <2>1. state[c] \in {"cachemod", "dbmod"} /\ cache[c][PageOne] # NoPage /\ disk' = disk
    BY <1>a, <1>7 DEF CommitPhaseOne, CacheShape, CacheShapeOf, Reading, Changing
  <2>3. counted.counted = journal.counted
        /\ \A q \in journal.counted : counted.record[q] = journal.record[q]
    <3>1. counted.counted = journal.counted
          /\ \A q \in Recorded(journal) : counted.record[q] = journal.record[q]
      BY <1>b, RecordFacts, RecordsKept, PageOneAssumption
    <3> QED
      BY <1>b, <3>1
  <2>4. CASE MayExclude(c)
    <3>1. journal' = AllCounted(counted)
      BY <1>7, <2>4 DEF CommitPhaseOne, SyncJournal
    <3>2. counted \in Journals
      BY <1>a, <1>b, <2>1, ContentTypes, JournalTypes, PageOneAssumption
         DEF CacheShape, CacheShapeOf, Reading, Changing
    <3>3. journal'.counted = Recorded(counted) /\ journal'.record = counted.record
      BY <3>1, <3>2, RecordFacts, PageOneAssumption
    <3>4. ASSUME NEW q \in journal'.counted \ journal.counted
          PROVE  /\ journal'.record[q].by = disk[q].by
                 /\ q = PageOne => journal'.record[q].counter = disk[q].counter
      <4>1. CASE journal.record[q] # NoPage
        <5>1. q \in Recorded(journal) \ journal.counted
          BY <3>3, <3>4, <4>1 DEF Recorded
        <5>2. journal'.record[q] = journal.record[q]
          <6>1. \A r \in Recorded(journal) : counted.record[r] = journal.record[r]
            BY <1>b, RecordsKept, PageOneAssumption
          <6> QED
            BY <3>3, <5>1, <6>1
        <5> QED
          BY <1>d, <2>1, <5>1, <5>2 DEF Changing
      <4>2. CASE journal.record[q] = NoPage
        <5>1. q = PageOne
          <6>1. q \in Recorded(counted) /\ q \notin Recorded(journal)
            BY <3>3, <3>4, <4>2 DEF Recorded
          <6>2. Recorded(counted) \subseteq Recorded(journal) \union {PageOne}
            BY <1>b, RecordFacts, PageOneAssumption
          <6> QED
            BY <6>1, <6>2
        <5>2. journal'.record[q] = Original(c, PageOne)
          <6>1. counted.record[PageOne] = Original(c, PageOne)
            BY <1>b, <4>2, <5>1, RecordFacts, PageOneAssumption
          <6> QED
            BY <3>3, <5>1, <6>1
        <5> QED
          BY <2>1, <4>2, <5>1, <5>2, OriginalOfFile, PageOneAssumption
      <4> QED
        BY <4>1, <4>2
    <3>5. journal.counted \subseteq journal'.counted /\ journal'.counted \subseteq Pages
      BY <1>b, <2>3, <3>3, RecordFacts, PageOneAssumption DEF Recorded
    <3> QED
      BY <2>1, <2>3, <3>3, <3>4, <3>5, CountedNow
  <2>5. CASE ~MayExclude(c)
    <3>1. journal' = counted
      BY <1>7, <2>5 DEF CommitPhaseOne
    <3> QED
      BY <2>1, <2>3, <3>1, NothingCounted
  <2> QED
    BY <2>4, <2>5
<1>8. ASSUME NEW c \in Conns, SyncDatabase(c) PROVE SameCommitted
  BY <1>8, NothingCounted DEF SyncDatabase, SyncDisk
<1>10. ASSUME NEW c \in Conns, PagerRollback(c), UNCHANGED <<fileVars, writeKey, previous>> PROVE SameCommitted
  BY <1>10, NothingCounted DEF PagerRollback, EndTransaction
<1>11. ASSUME NEW c \in Conns, UndoEnd(c) PROVE SameCommitted
  <2>1. \A q \in journal.counted : disk[q] = journal.record[q]
    BY <1>11 DEF UndoEnd, DiskShape, DiskShapeOf
  <2> QED
    BY <1>11, <2>1, PlayedBackAll DEF UndoEnd, DeleteJournal
<1>12. ASSUME NEW c \in Conns, NEW k \in Keys, Rekey(c, k) PROVE SameCommitted
  BY <1>12, NothingCounted DEF Rekey, Reserve
<1>13. ASSUME NEW c \in Conns, RekeyCommitFails(c) PROVE SameCommitted
  BY <1>13, NothingCounted DEF RekeyCommitFails, RekeyDone
<1>14. ASSUME NEW c \in Conns, PlaybackFails(c) \/ SpillFails(c) PROVE SameCommitted
  BY <1>14, NothingCounted DEF PlaybackFails, SpillFails
<1>15. ASSUME NEW c \in Conns, CommitPhaseTwoFails(c) PROVE SameCommitted
  BY <1>15, NothingCounted DEF CommitPhaseTwoFails, RekeyDone
<1>16. ASSUME NEW c \in Conns, PagerUnlock(c) PROVE SameCommitted
  BY <1>16, NothingCounted DEF PagerUnlock, Drop, RekeyEnds
<1>17. ASSUME NEW c \in Conns, Close(c) \/ Crash(c) PROVE SameCommitted
  BY <1>17, NothingCounted DEF Close, Crash, Forget, Drop
<1>18. ASSUME NEW c \in Conns, NEW k \in Keys, Open(c, k) PROVE SameCommitted
  BY <1>18, NothingCounted DEF Open
<1>19. ASSUME NEW c \in Conns, NEW p \in Pages, PlaybackOnePage(c, p) PROVE SameCommitted
  <2>1. p \in journal.counted /\ UNCHANGED journal /\ \A q \in Pages : q # p => disk'[q] = disk[q]
    BY <1>a, <1>c, <1>19 DEF PlaybackOnePage, WriteDisk, FileTypes, JournalShapeOf
  <2> QED
    BY <2>1, NothingCounted
<1>20. ASSUME NEW c \in Conns, NEW p \in Pages, ReadPage(c, p) PROVE SameCommitted
  BY <1>20, NothingCounted DEF ReadPage
<1>21. ASSUME NEW c \in Conns, NEW p \in Pages, WritePage(c, p) PROVE SameCommitted
  <2>1. state[c] \in {"locked", "cachemod", "dbmod"} /\ cache[c][p] # NoPage /\ disk' = disk
    BY <1>21 DEF WritePage
  <2>2. CASE state[c] = "locked"
    <3>1. journal' = WithOriginal(NewJournal, c, p)
      BY <1>21, <2>2 DEF WritePage
    <3>2. journal'.counted = {}
      BY <3>1, RecordFacts, NewJournalTypes DEF NewJournal
    <3>3. journal.counted = {}
      BY <1>a, <1>c, <2>2 DEF JournalShapeOf, Locks, StateLocks
    <3> QED
      BY <2>1, <3>2, <3>3, NothingCounted
  <2>3. CASE state[c] # "locked"
    <3>1. journal' = WithOriginal(journal, c, p)
      BY <1>21, <2>3 DEF WritePage
    <3>3. journal'.counted = journal.counted
          /\ \A q \in journal.counted : journal'.record[q] = journal.record[q]
      <4>1. journal'.counted = journal.counted
            /\ \A q \in Recorded(journal) : journal'.record[q] = journal.record[q]
        BY <1>b, <3>1, RecordFacts, RecordsKept
      <4> QED
        BY <1>b, <4>1
    <3> QED
      BY <2>1, <3>3, NothingCounted
  <2> QED
    BY <2>2, <2>3
<1>22. ASSUME NEW c \in Conns, NEW p \in Pages, WriteBack(c, p) PROVE SameCommitted
  <2>1. p \in journal.counted /\ UNCHANGED journal /\ \A q \in Pages : q # p => disk'[q] = disk[q]
    BY <1>a, <1>c, <1>22 DEF WriteBack, WriteDisk, FileTypes, JournalShapeOf, Changing
  <2> QED
    BY <2>1, NothingCounted
<1>23. ASSUME NEW c \in Conns, NEW p \in Pages, Spill(c, p) PROVE SameCommitted
  <2>1. CASE MayExclude(c)
    <3>1. journal' = AllCounted(journal) /\ state[c] \in {"cachemod", "dbmod"} /\ p \in dirty[c]
          /\ (\A q \in Pages : q # p => disk'[q] = disk[q])
      BY <1>a, <1>23, <2>1 DEF Spill, SyncJournal, WriteDisk, FileTypes
    <3>2. journal'.counted = Recorded(journal) /\ journal'.record = journal.record
      BY <1>b, <3>1, RecordFacts
    <3>3. p \in journal'.counted
      BY <1>c, <3>1, <3>2 DEF JournalShapeOf, Changing
    <3>4. \A q \in journal'.counted \ journal.counted :
              /\ journal'.record[q].by = disk[q].by
              /\ q = PageOne => journal'.record[q].counter = disk[q].counter
      BY <1>d, <3>1, <3>2 DEF Changing
    <3> QED
      <4>1. \A q \in Pages : q \notin journal'.counted => disk'[q] = disk[q]
        BY <3>1, <3>3
      <4> QED
        BY <1>b, <3>2, <3>4, <4>1, CountedNow
  <2>2. CASE ~MayExclude(c)
    BY <1>23, <2>2, NothingCounted DEF Spill
  <2> QED
    BY <2>1, <2>2
<1>24. ASSUME NEW c \in Conns, NEW p \in Pages, UndoPage(c, p) PROVE SameCommitted
  <2>1. CASE p \in journal.counted
    <3>1. UNCHANGED journal /\ \A q \in Pages : q # p => disk'[q] = disk[q]
      BY <1>a, <1>24, <2>1 DEF UndoPage, WriteDisk, FileTypes
    <3> QED
      BY <2>1, <3>1, NothingCounted
  <2>2. CASE p \notin journal.counted
    BY <1>24, <2>2, NothingCounted DEF UndoPage
  <2> QED
    BY <2>1, <2>2
<1>26. CASE UNCHANGED vars
  BY <1>26, NothingCounted DEF vars
<1> QED
  BY <1>1, <1>2, <1>3, <1>4, <1>5, <1>6, <1>7, <1>8, <1>10, <1>11, <1>12, <1>13, <1>14, <1>15, <1>16, <1>17, <1>18, <1>19, <1>20, <1>21, <1>22, <1>23, <1>24, <1>26 DEF QuietStep, Rollback, RekeyFails, RekeyEnds

-----------------------------------------------------------------------------
KeptShape == UncountedSynced /\ KeptSameEffect /\ KeptCommitted

LEMMA NothingWritten ==
    ASSUME KeptShape, UNCHANGED <<disk, durable, journal, kept, previous>>, SameCommitted
    PROVE  KeptShape'
  BY DEF KeptShape, UncountedSynced, KeptSameEffect, KeptCommitted, SameEffect, PlayedBack,
         SameCommitted

LEMMA RecordAdded ==
    ASSUME KeptShape, UNCHANGED <<disk, durable, previous>>, SameCommitted,
           journal'.counted = journal.counted,
           \A q \in journal.counted : journal'.record[q] = journal.record[q],
           kept' = kept \/ (journal.counted = {} /\ kept' = kept \union {NewJournal})
    PROVE  KeptShape'
<1>1. UncountedSynced'
  BY DEF KeptShape, UncountedSynced
<1>2. KeptSameEffect'
  BY DEF KeptShape, KeptSameEffect, SameEffect
<1>3. KeptCommitted'
  <2> SUFFICES ASSUME journal.counted = {}, NEW j \in kept'
               PROVE  [p \in Pages |-> PlayedBack(j, disk)[p].by] \in {CommittedBy, previous}
    BY DEF KeptCommitted, SameCommitted, PlayedBack
  <2>1. CASE j \in kept
    BY <2>1 DEF KeptShape, KeptCommitted
  <2>2. CASE j = NewJournal
    BY <2>2 DEF NewJournal, PlayedBack, CommittedBy, Committed
  <2> QED
    BY <2>1, <2>2
<1> QED
  BY <1>1, <1>2, <1>3 DEF KeptShape

LEMMA CountedPageWritten ==
    ASSUME KeptShape, UNCHANGED <<journal, kept, previous>>, NEW p \in journal.counted,
           \A q \in Pages : q # p => disk'[q] = disk[q] /\ durable'[q] = durable[q]
    PROVE  KeptShape'
  BY DEF KeptShape, UncountedSynced, KeptSameEffect, KeptCommitted, SameEffect

LEMMA OnlyThisJournal ==
    ASSUME KeptShape, kept' = {journal'},
           \A q \in Pages : q \notin journal'.counted =>
               q \notin journal.counted /\ disk'[q] = disk[q] /\ durable'[q] = durable[q]
    PROVE  KeptShape'
<1>1. UncountedSynced'
  BY DEF KeptShape, UncountedSynced
<1>2. KeptSameEffect'
  BY DEF KeptSameEffect, SameEffect
<1>3. KeptCommitted'
  BY DEF KeptCommitted, CommittedBy, Committed
<1> QED
  BY <1>1, <1>2, <1>3 DEF KeptShape

LEMMA SameEffectCommits ==
    ASSUME NEW j, SameEffect(j)
    PROVE  PlayedBack(j, disk) = Committed
  BY DEF SameEffect, PlayedBack, Committed

LEMMA JournalDeleted ==
    ASSUME KeptShape, disk' = disk, durable' = [q \in Pages |-> {disk[q]}], DeleteJournal,
           \/ previous' = CommittedBy /\ journal.counted # {}
           \/ previous' = previous /\ CommittedBy' = CommittedBy
    PROVE  KeptShape'
<1>1. UncountedSynced'
  BY DEF UncountedSynced
<1>2. KeptSameEffect'
  BY DEF KeptSameEffect, DeleteJournal, NoJournal
<1>3. KeptCommitted'
  <2> SUFFICES ASSUME NEW j \in kept'
               PROVE  [p \in Pages |-> PlayedBack(j, disk)[p].by] \in {CommittedBy', previous'}
    BY DEF KeptCommitted, PlayedBack
  <2>1. CASE j = NoJournal
    BY <2>1 DEF DeleteJournal, NoJournal, PlayedBack, CommittedBy, Committed
  <2>2. CASE j \in kept /\ journal.counted # {}
    <3>1. PlayedBack(j, disk) = Committed
      BY <2>2, SameEffectCommits DEF KeptShape, KeptSameEffect
    <3> QED
      BY <3>1 DEF CommittedBy
  <2>3. CASE j \in kept /\ journal.counted = {}
    <3>1. CommittedBy' = CommittedBy
      BY <2>3 DEF DeleteJournal, NoJournal, PlayedBack, CommittedBy, Committed
    <3> QED
      BY <2>3, <3>1 DEF KeptShape, KeptCommitted
  <2> QED
    BY <2>1, <2>2, <2>3 DEF DeleteJournal
<1> QED
  BY <1>1, <1>2, <1>3 DEF KeptShape

LEMMA DiskOfOthers ==
    ASSUME LockTypes, Locks, DiskShape, NEW c \in Conns, NEW d \in Conns, c # d,
           state'[d] = state[d], todo'[d] = todo[d],
           UNCHANGED <<disk, durable, journal>> \/ lock[c] >= RESERVED
    PROVE  DiskShapeOf(d)'
<1>1. CASE UNCHANGED <<disk, durable, journal>>
  BY <1>1 DEF DiskShape, DiskShapeOf
<1>2. CASE lock[c] >= RESERVED
  BY <1>2, OnlyWriter DEF DiskShapeOf, Writing
<1> QED
  BY <1>1, <1>2

LEMMA DiskOfIdle ==
    ASSUME NEW c \in Conns, state'[c] \notin {"finished", "playback", "undo"}
    PROVE  DiskShapeOf(c)'
  BY DEF DiskShapeOf

LEMMA DiskStep ==
    ASSUME Shapes, DiskShape, TransactionShape, CounterShape, [Next]_vars
    PROVE  DiskShape'
<1> USE DEF fileVars, journalVars, cacheVars, rekeyVars, keyVars, boundVars
<1>a. TypeOK /\ LockTypes /\ FileTypes /\ Locks /\ CacheShape /\ JournalShape /\ KeptShape
  BY ShapesParts DEF DiskShape, KeptShape
<1>b. journal \in Journals /\ journal.counted \subseteq Recorded(journal) /\ Recorded(journal) \subseteq Pages
  BY <1>a DEF FileTypes, Journals, Recorded
<1>c. \A c \in Conns : JournalShapeOf(c) /\ DiskShapeOf(c)
  BY <1>a DEF JournalShape, DiskShape
<1>d. \A c \in Conns : state[c] \in {"locked", "cachemod", "dbmod", "writing", "finished", "playback", "undo"}
          => lock[c] \in {RESERVED, PENDING, EXCLUSIVE} /\ lock[c] >= RESERVED
  BY <1>a DEF Locks, StateLocks, RESERVED, PENDING, EXCLUSIVE
<1>e. ASSUME NEW c \in Conns, KeptShape', DiskShapeOf(c)',
             \A d \in Conns \ {c} : state'[d] = state[d] /\ todo'[d] = todo[d],
             UNCHANGED <<disk, durable, journal>> \/ lock[c] >= RESERVED
      PROVE  DiskShape'
  <2>1. ASSUME NEW d \in Conns, d # c PROVE DiskShapeOf(d)'
    BY <1>a, <1>e, <2>1, DiskOfOthers
  <2> QED
    BY <1>e, <2>1 DEF DiskShape, KeptShape
<1>f. ASSUME UNCHANGED <<disk, durable, journal, kept, previous>>, NEW c \in Conns, DiskShapeOf(c)',
             \A d \in Conns \ {c} : state'[d] = state[d] /\ todo'[d] = todo[d]
      PROVE  DiskShape'
  <2>1. KeptShape'
    BY <1>a, <1>f, NothingWritten DEF SameCommitted, CommittedBy, CommittedCounter, Committed, PlayedBack
  <2> QED
    BY <1>e, <1>f, <2>1
<1>g. ASSUME NEW c \in Conns, UNCHANGED <<disk, durable, journal, kept, previous>>,
             state'[c] \notin {"finished", "playback", "undo"},
             \A d \in Conns \ {c} : state'[d] = state[d] /\ todo'[d] = todo[d]
      PROVE  DiskShape'
  BY <1>f, <1>g, DiskOfIdle
<1>k. ASSUME NEW c \in Conns, PlaybackEnd(c) \/ UndoEnd(c) \/ SyncDatabase(c) \/ CommitPhaseOne(c)
                               \/ \E p \in Pages : WritePage(c, p)
      PROVE  SameCommitted
  BY <1>k, CommittedStep DEF QuietStep
<1>1. ASSUME NEW c \in Conns, SharedLock(c) PROVE DiskShape'
  <2>1. state'[c] \notin {"finished", "playback", "undo"}
    BY <1>a, <1>1 DEF TypeOK, SharedLock, Enter, ValidCache
  <2>2. \A d \in Conns \ {c} : state'[d] = state[d] /\ todo'[d] = todo[d]
    BY <1>a, <1>1 DEF TypeOK, SharedLock, Enter, ValidCache
  <2> QED
    BY <1>g, <1>1, <2>1, <2>2 DEF SharedLock, Enter, ValidCache
<1>2. ASSUME NEW c \in Conns, HasHotJournal(c) PROVE DiskShape'
  <2>1. state'[c] \notin {"finished", "playback", "undo"}
    BY <1>a, <1>2 DEF TypeOK, HasHotJournal, Enter, ValidCache
  <2>2. \A d \in Conns \ {c} : state'[d] = state[d] /\ todo'[d] = todo[d]
    BY <1>a, <1>2 DEF TypeOK, HasHotJournal, Enter, ValidCache
  <2> QED
    BY <1>g, <1>2, <2>1, <2>2 DEF HasHotJournal, Enter, ValidCache
<1>3. ASSUME NEW c \in Conns, LockHotJournal(c) PROVE DiskShape'
  <2>0. \A d \in Conns \ {c} : state'[d] = state[d] /\ todo'[d] = todo[d]
    BY <1>a, <1>3 DEF TypeOK, LockHotJournal, Enter, ValidCache
  <2>1. CASE journal.exists
    <3>1. state'[c] = "playback" /\ todo'[c] = journal.counted /\ kept' = {journal'}
          /\ UNCHANGED <<disk, durable, journal, previous>>
      BY <1>a, <1>3, <2>1 DEF LockHotJournal, TypeOK
    <3>2. KeptShape'
      BY <1>a, <3>1, OnlyThisJournal
    <3>3. DiskShapeOf(c)'
      BY <3>1 DEF DiskShapeOf
    <3> QED
      BY <1>e, <2>0, <3>1, <3>2, <3>3
  <2>2. CASE ~journal.exists
    <3>1. state'[c] \in {"open", "reader"} /\ UNCHANGED <<disk, durable, journal, kept, previous>>
      BY <1>a, <1>3, <2>2 DEF LockHotJournal, Enter, TypeOK
    <3> QED
      BY <1>g, <2>0, <3>1
  <2> QED
    BY <2>1, <2>2
<1>4. ASSUME NEW c \in Conns, HotJournalBusy(c) \/ EndRead(c) PROVE DiskShape'
  <2>1. state'[c] \notin {"finished", "playback", "undo"}
    BY <1>a, <1>4 DEF TypeOK, HotJournalBusy, EndRead
  <2>2. \A d \in Conns \ {c} : state'[d] = state[d] /\ todo'[d] = todo[d]
    BY <1>a, <1>4 DEF TypeOK, HotJournalBusy, EndRead
  <2> QED
    BY <1>g, <1>4, <2>1, <2>2 DEF HotJournalBusy, EndRead
<1>5. ASSUME NEW c \in Conns, PlaybackEnd(c) PROVE DiskShape'
  <2>0. \A d \in Conns \ {c} : state'[d] = state[d] /\ todo'[d] = todo[d]
    BY <1>a, <1>5 DEF TypeOK, PlaybackEnd, SyncDisk, DeleteJournal, Enter, ValidCache
  <2>1. SameCommitted
    BY <1>k, <1>5
  <2>2. KeptShape'
    BY <1>a, <1>5, <2>1, JournalDeleted DEF SameCommitted, PlaybackEnd, SyncDisk
  <2>3. DiskShapeOf(c)'
    BY <1>a, <1>5, DiskOfIdle DEF TypeOK, PlaybackEnd, SyncDisk, DeleteJournal, Enter, ValidCache
  <2>4. lock[c] >= RESERVED
    BY <1>d, <1>5 DEF PlaybackEnd
  <2> QED
    BY <1>e, <2>2, <2>3, <2>4, <2>0
<1>6. ASSUME NEW c \in Conns, BeginWrite(c) PROVE DiskShape'
  <2>1. state'[c] \notin {"finished", "playback", "undo"}
    BY <1>a, <1>6 DEF TypeOK, BeginWrite, Reserve
  <2>2. \A d \in Conns \ {c} : state'[d] = state[d] /\ todo'[d] = todo[d]
    BY <1>a, <1>6 DEF TypeOK, BeginWrite, Reserve
  <2> QED
    BY <1>g, <1>6, <2>1, <2>2 DEF BeginWrite, Reserve
<1>7. ASSUME NEW c \in Conns, CommitPhaseOne(c) PROVE DiskShape'
  <2>0. \A d \in Conns \ {c} : state'[d] = state[d] /\ todo'[d] = todo[d]
    BY <1>a, <1>7 DEF TypeOK, CommitPhaseOne, SyncJournal, PagesToWrite, RekeyDone
  <2> DEFINE counted == WithOriginal(journal, c, PageOne)
  <2>1. state[c] \in {"cachemod", "dbmod"} /\ cache[c][PageOne] # NoPage
        /\ UNCHANGED <<disk, durable, previous>>
    BY <1>a, <1>7 DEF CommitPhaseOne, CacheShape, CacheShapeOf, Reading, Changing
  <2>2. counted.counted = journal.counted
        /\ \A q \in Recorded(journal) : counted.record[q] = journal.record[q]
    BY <1>b, RecordFacts, RecordsKept, PageOneAssumption
  <2>3. KeptShape'
    <3>1. CASE MayExclude(c)
      <4>1. journal' = AllCounted(counted) /\ kept' = {journal'}
        BY <1>7, <3>1 DEF CommitPhaseOne, SyncJournal
      <4>2. counted \in Journals
        BY <1>a, <1>b, <2>1, ContentTypes, JournalTypes, PageOneAssumption
           DEF CacheShape, CacheShapeOf, Reading, Changing
      <4>3. journal.counted \subseteq journal'.counted
        BY <1>b, <4>1, <4>2, RecordFacts, PageOneAssumption
      <4> QED
        BY <1>a, <2>1, <4>1, <4>3, OnlyThisJournal
    <3>2. CASE ~MayExclude(c)
      <4>1. journal' = counted /\ kept' = kept
        BY <1>7, <3>2 DEF CommitPhaseOne
      <4> QED
        BY <1>a, <1>b, <1>k, <1>7, <2>1, <2>2, <4>1, RecordAdded
    <3> QED
      BY <3>1, <3>2
  <2>4. state'[c] \in {"cachemod", "dbmod", "writing"}
    BY <1>a, <1>7, <2>1 DEF CommitPhaseOne, TypeOK
  <2>5. DiskShapeOf(c)'
    BY <2>4, DiskOfIdle
  <2> QED
    BY <1>d, <1>e, <2>1, <2>3, <2>5, <2>0
<1>8. ASSUME NEW c \in Conns, SyncDatabase(c) PROVE DiskShape'
  <2>0. \A d \in Conns \ {c} : state'[d] = state[d] /\ todo'[d] = todo[d]
    BY <1>a, <1>8 DEF TypeOK, SyncDatabase, SyncDisk
  <2>1. durable' = [q \in Pages |-> {disk[q]}] /\ UNCHANGED <<disk, journal, kept, previous>>
    BY <1>8 DEF SyncDatabase, SyncDisk
  <2>2. KeptShape'
    <3>1. UncountedSynced'
      BY <2>1 DEF UncountedSynced
    <3>2. CommittedBy' = CommittedBy
      BY <1>k, <1>8 DEF SameCommitted
    <3> QED
      BY <1>a, <2>1, <3>1, <3>2 DEF KeptShape, KeptSameEffect, KeptCommitted, SameEffect, PlayedBack
  <2>3. DiskShapeOf(c)'
    BY <1>a, <1>8, <2>1 DEF SyncDatabase, TypeOK, DiskShapeOf
  <2> QED
    BY <1>d, <1>e, <1>8, <2>2, <2>3, <2>0 DEF SyncDatabase
<1>9. ASSUME NEW c \in Conns, CommitPhaseTwo(c) PROVE DiskShape'
  <2>0. \A d \in Conns \ {c} : state'[d] = state[d] /\ todo'[d] = todo[d]
    BY <1>a, <1>9 DEF TypeOK, CommitPhaseTwo, DeleteJournal, RekeyDone
  <2>1. /\ DeleteJournal /\ UNCHANGED <<disk, durable>> /\ previous' = CommittedBy
        /\ state[c] = "finished" /\ state'[c] = "reader"
    BY <1>a, <1>9 DEF CommitPhaseTwo, TypeOK
  <2>2. durable' = [q \in Pages |-> {disk[q]}]
    <3>1. \A q \in Pages : durable[q] = {disk[q]}
      BY <1>c, <2>1 DEF DiskShapeOf
    <3> QED
      BY <1>a, <2>1, <3>1 DEF FileTypes
  <2>3. journal.counted # {}
    BY <1>c, <2>1 DEF JournalShapeOf
  <2>4. KeptShape'
    BY <1>a, <2>1, <2>2, <2>3, JournalDeleted
  <2>5. DiskShapeOf(c)'
    BY <2>1, DiskOfIdle
  <2> QED
    BY <1>d, <1>e, <2>1, <2>4, <2>5, <2>0
<1>10. ASSUME NEW c \in Conns, PagerRollback(c), UNCHANGED <<fileVars, writeKey, previous>> PROVE DiskShape'
  <2>0. \A d \in Conns \ {c} : state'[d] = state[d] /\ todo'[d] = todo[d]
    BY <1>a, <1>10 DEF TypeOK, PagerRollback, EndTransaction
  <2>1. UNCHANGED <<disk, durable, journal, kept, previous>>
    BY <1>10 DEF PagerRollback
  <2>2. DiskShapeOf(c)'
    <3>1. CASE state[c] = "locked"
      BY <1>a, <1>10, <3>1, DiskOfIdle DEF PagerRollback, EndTransaction, TypeOK
    <3>2. CASE state[c] # "locked"
      <4>1. state'[c] = "undo" /\ todo'[c] = Recorded(journal)
        BY <1>a, <1>10, <3>2 DEF PagerRollback, TypeOK
      <4> QED
        BY <1>b, <2>1, <4>1 DEF DiskShapeOf
    <3> QED
      BY <3>1, <3>2
  <2> QED
    BY <1>f, <2>1, <2>2, <2>0
<1>11. ASSUME NEW c \in Conns, UndoEnd(c) PROVE DiskShape'
  <2>0. \A d \in Conns \ {c} : state'[d] = state[d] /\ todo'[d] = todo[d]
    BY <1>a, <1>11 DEF TypeOK, UndoEnd, SyncDisk, DeleteJournal, EndTransaction
  <2>1. SameCommitted
    BY <1>k, <1>11
  <2>2. KeptShape'
    BY <1>a, <1>11, <2>1, JournalDeleted DEF SameCommitted, UndoEnd, SyncDisk
  <2>3. DiskShapeOf(c)'
    BY <1>a, <1>11, DiskOfIdle DEF TypeOK, UndoEnd, SyncDisk, DeleteJournal, EndTransaction
  <2>4. lock[c] >= RESERVED
    BY <1>d, <1>11 DEF UndoEnd
  <2> QED
    BY <1>e, <2>2, <2>3, <2>4, <2>0
<1>12. ASSUME NEW c \in Conns, NEW k \in Keys, Rekey(c, k) PROVE DiskShape'
  <2>1. state'[c] \in {"locked", "reader", "open"}
    BY <1>a, <1>12 DEF TypeOK, Rekey, Reserve
  <2>2. \A d \in Conns \ {c} : state'[d] = state[d] /\ todo'[d] = todo[d]
    BY <1>a, <1>12 DEF TypeOK, Rekey, Reserve
  <2> QED
    BY <1>g, <1>12, <2>1, <2>2 DEF Rekey, Reserve
<1>13. ASSUME NEW c \in Conns, RekeyCommitFails(c) PROVE DiskShape'
  <2>1. state'[c] \notin {"finished", "playback", "undo"}
    BY <1>a, <1>13 DEF TypeOK, RekeyCommitFails, RekeyDone
  <2>2. \A d \in Conns \ {c} : state'[d] = state[d] /\ todo'[d] = todo[d]
    BY <1>a, <1>13 DEF TypeOK, RekeyCommitFails, RekeyDone
  <2> QED
    BY <1>g, <1>13, <2>1, <2>2 DEF RekeyCommitFails, RekeyDone
<1>14. ASSUME NEW c \in Conns, PlaybackFails(c) \/ SpillFails(c) PROVE DiskShape'
  <2>1. state'[c] \notin {"finished", "playback", "undo"}
    BY <1>a, <1>14 DEF TypeOK, PlaybackFails, SpillFails
  <2>2. \A d \in Conns \ {c} : state'[d] = state[d] /\ todo'[d] = todo[d]
    BY <1>a, <1>14 DEF TypeOK, PlaybackFails, SpillFails
  <2> QED
    BY <1>g, <1>14, <2>1, <2>2 DEF PlaybackFails, SpillFails
<1>15. ASSUME NEW c \in Conns, CommitPhaseTwoFails(c) PROVE DiskShape'
  <2>1. state'[c] \notin {"finished", "playback", "undo"}
    BY <1>a, <1>15 DEF TypeOK, CommitPhaseTwoFails, RekeyDone
  <2>2. \A d \in Conns \ {c} : state'[d] = state[d] /\ todo'[d] = todo[d]
    BY <1>a, <1>15 DEF TypeOK, CommitPhaseTwoFails, RekeyDone
  <2> QED
    BY <1>g, <1>15, <2>1, <2>2 DEF CommitPhaseTwoFails, RekeyDone
<1>16. ASSUME NEW c \in Conns, PagerUnlock(c) PROVE DiskShape'
  <2>1. state'[c] \notin {"finished", "playback", "undo"}
    BY <1>a, <1>16 DEF TypeOK, PagerUnlock, Drop, RekeyEnds
  <2>2. \A d \in Conns \ {c} : state'[d] = state[d] /\ todo'[d] = todo[d]
    BY <1>a, <1>16 DEF TypeOK, PagerUnlock, Drop, RekeyEnds
  <2> QED
    BY <1>g, <1>16, <2>1, <2>2 DEF PagerUnlock, Drop, RekeyEnds
<1>17. ASSUME NEW c \in Conns, Close(c) \/ Crash(c) PROVE DiskShape'
  <2>1. state'[c] \notin {"finished", "playback", "undo"}
    BY <1>a, <1>17 DEF TypeOK, Close, Crash, Forget, Drop
  <2>2. \A d \in Conns \ {c} : state'[d] = state[d] /\ todo'[d] = todo[d]
    BY <1>a, <1>17 DEF TypeOK, Close, Crash, Forget, Drop
  <2> QED
    BY <1>g, <1>17, <2>1, <2>2 DEF Close, Crash, Forget, Drop
<1>18. ASSUME NEW c \in Conns, NEW k \in Keys, Open(c, k) PROVE DiskShape'
  <2>1. state'[c] \notin {"finished", "playback", "undo"}
    BY <1>a, <1>18 DEF TypeOK, Open
  <2>2. \A d \in Conns \ {c} : state'[d] = state[d] /\ todo'[d] = todo[d]
    BY <1>a, <1>18 DEF TypeOK, Open
  <2> QED
    BY <1>g, <1>18, <2>1, <2>2 DEF Open
<1>19. ASSUME NEW c \in Conns, NEW p \in Pages, PlaybackOnePage(c, p) PROVE DiskShape'
  <2>0. \A d \in Conns \ {c} : state'[d] = state[d] /\ todo'[d] = todo[d]
    BY <1>a, <1>19 DEF TypeOK, PlaybackOnePage, WriteDisk
  <2>1. /\ state[c] = "playback" /\ state' = state /\ p \in todo[c] /\ todo'[c] = todo[c] \ {p}
        /\ UNCHANGED <<journal, kept, previous>>
        /\ \A q \in Pages : q # p => disk'[q] = disk[q] /\ durable'[q] = durable[q]
    BY <1>a, <1>19 DEF PlaybackOnePage, WriteDisk, TypeOK
  <2>2. p \in journal.counted
    BY <1>c, <2>1 DEF JournalShapeOf, Changing
  <2>3. KeptShape'
    BY <1>a, <2>1, <2>2, CountedPageWritten
  <2>4. DiskShapeOf(c)'
    <3>1. disk'[p] = journal.record[p]
      BY <1>a, <1>19 DEF PlaybackOnePage, WriteDisk, TypeOK
    <3> QED
      BY <1>b, <1>c, <2>1, <3>1 DEF DiskShapeOf
  <2> QED
    BY <1>d, <1>e, <2>1, <2>3, <2>4, <2>0
<1>20. ASSUME NEW c \in Conns, NEW p \in Pages, ReadPage(c, p) PROVE DiskShape'
  <2>1. state'[c] \notin {"finished", "playback", "undo"}
    BY <1>a, <1>20 DEF TypeOK, ReadPage
  <2>2. \A d \in Conns \ {c} : state'[d] = state[d] /\ todo'[d] = todo[d]
    BY <1>a, <1>20 DEF TypeOK, ReadPage
  <2> QED
    BY <1>g, <1>20, <2>1, <2>2 DEF ReadPage
<1>21. ASSUME NEW c \in Conns, NEW p \in Pages, WritePage(c, p) PROVE DiskShape'
  <2>0. \A d \in Conns \ {c} : state'[d] = state[d] /\ todo'[d] = todo[d]
    BY <1>a, <1>21 DEF TypeOK, WritePage, WithOriginal
  <2>1. state[c] \in {"locked", "cachemod", "dbmod"} /\ UNCHANGED <<disk, durable, previous>>
    BY <1>21 DEF WritePage
  <2>2. KeptShape'
    <3>1. CASE state[c] = "locked"
      <4>1. journal' = WithOriginal(NewJournal, c, p) /\ kept' = kept \union {NewJournal}
        BY <1>21, <3>1 DEF WritePage
      <4>2. journal'.counted = {}
        BY <4>1, RecordFacts, NewJournalTypes DEF NewJournal
      <4>3. journal.counted = {}
        BY <1>a, <1>c, <3>1 DEF JournalShapeOf, Locks, StateLocks
      <4> QED
        BY <1>a, <1>k, <1>21, <2>1, <4>1, <4>2, <4>3, RecordAdded
    <3>2. CASE state[c] # "locked"
      <4>1. journal' = WithOriginal(journal, c, p) /\ kept' = kept
        BY <1>21, <3>2 DEF WritePage
      <4>2. journal'.counted = journal.counted
            /\ \A q \in Recorded(journal) : journal'.record[q] = journal.record[q]
        BY <1>b, <4>1, RecordFacts, RecordsKept
      <4> QED
        BY <1>a, <1>b, <1>k, <1>21, <2>1, <4>1, <4>2, RecordAdded
    <3> QED
      BY <3>1, <3>2
  <2>3. DiskShapeOf(c)'
    BY <1>a, <1>21, <2>1, DiskOfIdle DEF WritePage, TypeOK
  <2> QED
    BY <1>d, <1>e, <2>1, <2>2, <2>3, <2>0
<1>22. ASSUME NEW c \in Conns, NEW p \in Pages, WriteBack(c, p) PROVE DiskShape'
  <2>0. \A d \in Conns \ {c} : state'[d] = state[d] /\ todo'[d] = todo[d]
    BY <1>a, <1>22 DEF TypeOK, WriteBack, WriteDisk
  <2>1. /\ state[c] = "writing" /\ state' = state /\ p \in todo[c] /\ todo'[c] = todo[c] \ {p}
        /\ UNCHANGED <<journal, kept, previous>>
        /\ \A q \in Pages : q # p => disk'[q] = disk[q] /\ durable'[q] = durable[q]
    BY <1>a, <1>22 DEF WriteBack, WriteDisk, TypeOK
  <2>2. p \in journal.counted
    BY <1>c, <2>1 DEF JournalShapeOf, Changing
  <2>3. KeptShape'
    BY <1>a, <2>1, <2>2, CountedPageWritten
  <2>4. DiskShapeOf(c)'
    BY <2>1, DiskOfIdle
  <2> QED
    BY <1>d, <1>e, <2>1, <2>3, <2>4, <2>0
<1>23. ASSUME NEW c \in Conns, NEW p \in Pages, Spill(c, p) PROVE DiskShape'
  <2>0. \A d \in Conns \ {c} : state'[d] = state[d] /\ todo'[d] = todo[d]
    BY <1>a, <1>23 DEF TypeOK, Spill, SyncJournal, WriteDisk
  <2>1. state[c] \in {"cachemod", "dbmod"} /\ p \in dirty[c]
    BY <1>23 DEF Spill
  <2>2. CASE MayExclude(c)
    <3>1. journal' = AllCounted(journal) /\ kept' = {journal'} /\ state'[c] = "dbmod"
          /\ \A q \in Pages : q # p => disk'[q] = disk[q] /\ durable'[q] = durable[q]
      BY <1>a, <1>23, <2>2 DEF Spill, SyncJournal, WriteDisk, TypeOK
    <3>2. journal'.counted = Recorded(journal)
      BY <1>b, <3>1, RecordFacts
    <3>3. p \in journal'.counted
      BY <1>c, <2>1, <3>2 DEF JournalShapeOf, Changing
    <3>4. \A q \in Pages : q \notin journal'.counted =>
              q \notin journal.counted /\ disk'[q] = disk[q] /\ durable'[q] = durable[q]
      BY <1>b, <3>1, <3>2, <3>3
    <3>5. KeptShape'
      BY <1>a, <3>1, <3>4, OnlyThisJournal
    <3> QED
      BY <1>d, <1>e, <2>1, <2>0, <3>1, <3>5, DiskOfIdle
  <2>3. CASE ~MayExclude(c)
    <3>1. UNCHANGED <<disk, durable, journal, kept, previous, state>>
      BY <1>23, <2>3 DEF Spill
    <3> QED
      BY <1>g, <2>1, <2>0, <3>1
  <2> QED
    BY <2>2, <2>3
<1>24. ASSUME NEW c \in Conns, NEW p \in Pages, UndoPage(c, p) PROVE DiskShape'
  <2>0. \A d \in Conns \ {c} : state'[d] = state[d] /\ todo'[d] = todo[d]
    BY <1>a, <1>24 DEF TypeOK, UndoPage, UndoCache, WriteDisk
  <2>1. /\ state[c] = "undo" /\ state'[c] \in {"undo", "error"} /\ p \in todo[c]
        /\ todo'[c] = todo[c] \ {p} /\ UNCHANGED <<journal, kept, previous>>
        /\ \A q \in Pages : q # p => disk'[q] = disk[q] /\ durable'[q] = durable[q]
    BY <1>a, <1>24 DEF UndoPage, UndoCache, WriteDisk, TypeOK
  <2>2. CASE p \in journal.counted
    <3>1. KeptShape'
      BY <1>a, <2>1, <2>2, CountedPageWritten
    <3>2. disk'[p] = journal.record[p]
      BY <1>a, <1>24, <2>2 DEF UndoPage, WriteDisk, TypeOK
    <3>3. DiskShapeOf(c)'
      BY <1>b, <1>c, <2>1, <3>2 DEF DiskShapeOf
    <3> QED
      BY <1>d, <1>e, <2>1, <2>0, <3>1, <3>3
  <2>3. CASE p \notin journal.counted
    <3>1. UNCHANGED <<disk, durable>>
      BY <1>24, <2>3 DEF UndoPage
    <3>2. DiskShapeOf(c)'
      BY <1>c, <2>1, <2>3, <3>1 DEF DiskShapeOf
    <3> QED
      BY <1>f, <2>1, <2>0, <3>1, <3>2
  <2> QED
    BY <2>2, <2>3
<1>25. CASE PowerLoss
  <2>1. /\ durable' = [q \in Pages |-> {disk'[q]}] /\ kept' = {journal'}
        /\ \A c \in Conns : state'[c] = "closed"
    BY <1>25 DEF PowerLoss, Forget, Drop
  <2>2. KeptShape'
    BY <2>1 DEF KeptShape, UncountedSynced, KeptSameEffect, KeptCommitted, SameEffect, CommittedBy, Committed
  <2> QED
    BY <2>1, <2>2, DiskOfIdle DEF DiskShape, KeptShape
<1>26. CASE UNCHANGED vars
  <2>1. \A c \in Conns : DiskShapeOf(c)'
    BY <1>c, <1>26 DEF vars, DiskShapeOf
  <2>2. KeptShape'
    BY <1>a, <1>26, NothingWritten DEF vars, SameCommitted, CommittedBy, CommittedCounter, Committed, PlayedBack
  <2> QED
    BY <2>1, <2>2 DEF DiskShape, KeptShape
<1> QED
  BY <1>1, <1>2, <1>3, <1>4, <1>5, <1>6, <1>7, <1>8, <1>9, <1>10, <1>11, <1>12, <1>13, <1>14, <1>15, <1>16, <1>17, <1>18, <1>19, <1>20, <1>21, <1>22, <1>23, <1>24, <1>25, <1>26 DEF Next, Rollback, RekeyFails, RekeyEnds

-----------------------------------------------------------------------------
OthersKeep(c) ==
    \A d \in Conns \ {c} :
        /\ state'[d] = state[d] /\ cache'[d] = cache[d] /\ dirty'[d] = dirty[d]
        /\ todo'[d] = todo[d] /\ txn'[d] = txn[d] /\ readKey'[d] = readKey[d]
        /\ version'[d] = version[d]

LEMMA TransactionOfOthers ==
    ASSUME LockTypes, Locks, TransactionShape, NEW c \in Conns, OthersKeep(c),
           \/ UNCHANGED <<disk, journal>>
           \/ lock[c] >= RESERVED /\ disk' = disk
           \/ lock[c] = EXCLUSIVE
           \/ MayExclude(c),
           NEW d \in Conns, c # d, NEW q \in Pages
    PROVE  TransactionShapeOf(d, q)'
<1> USE DEF OthersKeep
<1>1. TransactionShapeOf(d, q)
  BY DEF TransactionShape
<1>2. CASE UNCHANGED <<disk, journal>>
  BY <1>1, <1>2 DEF TransactionShapeOf, Versioned, Pending, Recorded
<1>3. CASE lock[c] >= RESERVED /\ disk' = disk
  <2>1. state'[d] \notin Changing \union {"undo", "locked"}
    BY <1>3, OnlyWriter DEF Changing, Writing
  <2>2. state[d] = "reader" /\ q \notin dirty[d] /\ cache[d][q] # NoPage => cache[d][q] = disk[q].by
    BY <1>1 DEF TransactionShapeOf, Reading, Pending
  <2> QED
    BY <1>3, <2>1, <2>2 DEF TransactionShapeOf, Reading, Changing, Pending
<1>4. CASE lock[c] = EXCLUSIVE
  <2>1. state'[d] \notin Reading \union {"undo"}
    BY <1>4, OnlyWriter DEF Reading, Changing, RESERVED, EXCLUSIVE
  <2> QED
    BY <2>1 DEF TransactionShapeOf, Reading, Changing
<1>5. CASE MayExclude(c)
  <2>1. lock[d] = NO_LOCK
    BY <1>5 DEF MayExclude, Others
  <2>2. state'[d] \notin Reading \union {"undo"}
    BY <2>1 DEF Locks, StateLocks, Reading, Changing, NO_LOCK, SHARED, RESERVED, PENDING, EXCLUSIVE
  <2> QED
    BY <2>2 DEF TransactionShapeOf, Reading, Changing
<1> QED
  BY <1>2, <1>3, <1>4, <1>5

LEMMA TransactionOfIdle ==
    ASSUME NEW c \in Conns, state'[c] \notin Reading \union {"undo"}, NEW q \in Pages
    PROVE  TransactionShapeOf(c, q)'
  BY DEF TransactionShapeOf, Reading, Changing

(* While somebody else holds RESERVED no record of the journal is counted.      *)
LEMMA NobodysJournal ==
    ASSUME LockTypes, Locks, JournalShape, NEW c \in Conns, state[c] = "sharing", ~MayBeHot(c)
    PROVE  journal.counted = {}
<1> SUFFICES ASSUME ~MayReserve(c) PROVE journal.counted = {}
  BY DEF MayBeHot
<1>1. PICK d \in Conns : d # c /\ lock[d] >= RESERVED
  BY DEF MayReserve, Others, LockTypes, NO_LOCK, RESERVED, EXCLUSIVE
<1>2. lock[d] \in {RESERVED, PENDING}
  BY <1>1 DEF Locks, StateLocks, LockTable, LockTypes, NO_LOCK, SHARED, RESERVED, PENDING, EXCLUSIVE
<1> QED
  BY <1>2 DEF JournalShape, JournalShapeOf

LEMMA NothingCountedNow ==
    ASSUME journal.counted = {}
    PROVE  /\ \A q \in Pages : CommittedBy[q] = disk[q].by
           /\ CommittedCounter = disk[PageOne].counter
  BY CommittedAt, PageOneAssumption DEF CommittedCounter

(* A cache that is taken over has the pages of the file.                        *)
LEMMA EnterReads ==
    ASSUME Shapes, CounterShape, NEW c \in Conns, Enter(c),
           state[c] \in {"open", "sharing", "hot", "playback"},
           \A q \in Pages : CommittedBy[q] = disk[q].by,
           CommittedCounter = disk[PageOne].counter
    PROVE  /\ \A q \in Pages : cache'[c][q] # NoPage => cache'[c][q] = disk[q].by
           /\ state'[c] \in {"open", "reader"} /\ dirty' = dirty /\ dirty[c] = {}
           /\ version'[c].counter = disk[PageOne].counter
           /\ state'[c] = "open" => cache'[c] = Empty
<1> DEFINE valid == ValidCache(c)
           readable == valid[PageOne] # NoPage \/ VersionOf(disk[PageOne]).key = readKey[c]
<1>1. TypeOK /\ CacheShapeOf(c) /\ CounterShapeOf(c) /\ CacheTypes
  BY ShapesParts DEF CacheShape, CounterShape
<1>2. valid \in [Pages -> Txns \union {NoPage}]
  BY <1>1 DEF ValidCache, TypeOK, Empty
<1>3. \A q \in Pages : valid[q] # NoPage => valid[q] = disk[q].by
  <2>1. CASE version[c] = VersionOf(disk[PageOne]) /\ cache[c] # Empty
    <3>1. version[c].counter = CommittedCounter
      BY <2>1 DEF VersionOf
    <3>2. \A q \in Pages : cache[c][q] \in {NoPage, CommittedBy[q]}
      BY <1>1, <2>1, <3>1 DEF CounterShapeOf
    <3> QED
      BY <2>1, <3>2 DEF ValidCache
  <2>2. CASE version[c] # VersionOf(disk[PageOne]) \/ cache[c] = Empty
    BY <2>2 DEF ValidCache, Empty
  <2> QED
    BY <2>1, <2>2
<1>4. cache'[c] \in {Empty, valid, [valid EXCEPT ![PageOne] = disk[PageOne].by]}
  BY <1>1 DEF Enter, TypeOK
<1>5. \A q \in Pages : cache'[c][q] # NoPage => cache'[c][q] = disk[q].by
  BY <1>2, <1>3, <1>4, PageOneAssumption DEF Empty
<1>6. state'[c] \in {"open", "reader"} /\ dirty' = dirty /\ dirty[c] = {}
  BY <1>1 DEF Enter, TypeOK, CacheShapeOf
<1>7. version'[c].counter = disk[PageOne].counter
  BY <1>1 DEF Enter, TypeOK, VersionOf
<1>8. state'[c] = "open" => cache'[c] = Empty
  BY <1>1 DEF Enter, TypeOK
<1> QED
  BY <1>5, <1>6, <1>7, <1>8

LEMMA EnterTransaction ==
    ASSUME Shapes, CounterShape, NEW c \in Conns, Enter(c), disk' = disk,
           state[c] \in {"open", "sharing", "hot", "playback"},
           \A q \in Pages : CommittedBy[q] = disk[q].by,
           CommittedCounter = disk[PageOne].counter, NEW q \in Pages
    PROVE  TransactionShapeOf(c, q)'
<1>1. /\ cache'[c][q] # NoPage => cache'[c][q] = disk[q].by
      /\ state'[c] \in {"open", "reader"}
  BY EnterReads
<1> QED
  BY <1>1 DEF TransactionShapeOf, Reading, Changing

(* pager_write, as far as the journal and the cache of the page.                *)
LEMMA WriteTransaction ==
    ASSUME Shapes, TransactionShape, CounterShape, NEW c \in Conns, NEW p \in Pages,
           state[c] \in {"locked", "cachemod", "dbmod"}, cache[c][p] # NoPage,
           NEW j \in {NewJournal, journal},
           IF state[c] = "locked" THEN j = NewJournal ELSE j = journal,
           NEW q \in Pages
    PROVE  LET w == WithOriginal(j, c, p)
               x == IF q = p THEN Modified(c, p) ELSE cache[c][q]
           IN  /\ q \in w.counted => disk[q].by \in {w.record[q].by} \union ({txn[c]} \ {0})
               /\ q \in Recorded(w) /\ x # NoPage => x \in {w.record[q].by} \union ({txn[c]} \ {0})
               /\ q \in Recorded(w) \ w.counted =>
                      /\ w.record[q].by = disk[q].by
                      /\ q = PageOne => w.record[q].counter = disk[q].counter
               /\ q \notin dirty[c] \union {p} /\ x # NoPage => x = disk[q].by
               /\ p \in Recorded(w)
<1> DEFINE w == WithOriginal(j, c, p)
           x == IF q = p THEN Modified(c, p) ELSE cache[c][q]
<1>a. /\ TypeOK /\ FileTypes /\ Locks /\ CacheShapeOf(c) /\ JournalShapeOf(c)
      /\ TransactionShapeOf(c, p) /\ TransactionShapeOf(c, q) /\ j \in Journals
  BY ShapesParts, NewJournalTypes DEF CacheShape, JournalShape, TransactionShape, FileTypes
<1>b. /\ w.counted = j.counted /\ Recorded(j) \subseteq Recorded(w) /\ Recorded(w) \subseteq Recorded(j) \union {p}
      /\ (\A r \in Pages : r # p => w.record[r] = j.record[r])
      /\ (j.record[p] = NoPage => w.record[p] = Original(c, p))
  BY <1>a, RecordFacts
<1>c. j.record[p] # NoPage => w = j
  BY DEF WithOriginal
<1>d. state[c] = "locked" => /\ j.counted = {} /\ Recorded(j) = {} /\ dirty[c] = {}
                             /\ j.record[p] = NoPage
  BY <1>a DEF CacheShapeOf, NewJournal, Recorded, Empty
<1>e. state[c] # "locked" => /\ j = journal /\ state[c] \in Changing
                             /\ Recorded(j) = Recorded(journal)
  BY DEF Changing
<1>f. j.counted \subseteq Recorded(j)
  BY <1>a DEF Journals
<1>g. j.record[p] = NoPage =>
          /\ Original(c, p) # NoPage /\ Original(c, p).by = cache[c][p] /\ cache[c][p] = disk[p].by
          /\ p = PageOne => Original(c, p).counter = disk[p].counter
  BY <1>e, OriginalOfFile
<1>1. CASE q # p
  <2>1. CASE state[c] = "locked"
    <3>1. w.counted = {} /\ q \notin Recorded(w)
      BY <1>1, <1>b, <1>d, <2>1
    <3>2. cache[c][q] # NoPage => cache[c][q] = disk[q].by
      BY <1>a, <1>d, <2>1 DEF TransactionShapeOf, Reading, Pending
    <3> QED
      BY <1>1, <3>1, <3>2, <1>b, <1>g, <1>d, <2>1 DEF Recorded
  <2>2. CASE state[c] # "locked"
    <3>1. w.record[q] = journal.record[q] /\ w.counted = journal.counted
          /\ (q \in Recorded(w) <=> q \in Recorded(journal))
      BY <1>1, <1>b, <1>e, <2>2
    <3>2. p \in Recorded(w)
      BY <1>b, <1>c, <1>g DEF Recorded
    <3>3. cache[c][q] # NoPage /\ q \notin dirty[c] => cache[c][q] = disk[q].by
      BY <1>a, <2>2 DEF TransactionShapeOf, Reading, Changing, Pending
    <3> QED
      BY <1>1, <1>a, <1>e, <2>2, <3>1, <3>2, <3>3 DEF TransactionShapeOf, Versioned
  <2> QED
    BY <2>1, <2>2
<1>2. CASE q = p
  <2>1. p \in Recorded(w)
    BY <1>b, <1>c, <1>g DEF Recorded
  <2>2. CASE j.record[p] = NoPage
    <3>1. w.record[p] = Original(c, p) /\ p \notin w.counted
      BY <1>b, <1>f, <2>2 DEF Recorded
    <3> QED
      BY <1>2, <1>g, <2>1, <2>2, <3>1 DEF Modified
  <2>3. CASE j.record[p] # NoPage
    <3>1. w = journal /\ state[c] \in Changing /\ p \in Recorded(journal)
      BY <1>c, <1>d, <1>e, <2>1, <2>3
    <3> QED
      BY <1>2, <1>a, <2>1, <3>1 DEF TransactionShapeOf, Versioned, Modified
  <2> QED
    BY <2>2, <2>3
<1> QED
  BY <1>1, <1>2

LEMMA TransactionStep ==
    ASSUME Shapes, DiskShape, TransactionShape, CounterShape, [Next]_vars
    PROVE  TransactionShape'
<1> USE DEF fileVars, journalVars, cacheVars, rekeyVars, keyVars, boundVars
<1>a. TypeOK /\ LockTypes /\ FileTypes /\ CacheTypes /\ Locks /\ CacheShape /\ JournalShape
  BY ShapesParts
<1>b. journal \in Journals /\ journal.counted \subseteq Recorded(journal) /\ Recorded(journal) \subseteq Pages
  BY <1>a DEF FileTypes, Journals, Recorded
<1>c. \A c \in Conns : JournalShapeOf(c) /\ DiskShapeOf(c) /\ CacheShapeOf(c) /\ CounterShapeOf(c)
  BY <1>a DEF JournalShape, DiskShape, CacheShape, CounterShape
<1>d. \A c \in Conns : state[c] \in {"locked", "cachemod", "dbmod", "writing", "finished", "playback", "undo"}
          => lock[c] \in {RESERVED, PENDING, EXCLUSIVE} /\ lock[c] >= RESERVED
  BY <1>a DEF Locks, StateLocks, RESERVED, PENDING, EXCLUSIVE
<1>e. \A c \in Conns, q \in Pages : TransactionShapeOf(c, q)
  BY DEF TransactionShape
<1>f. ASSUME NEW c \in Conns, OthersKeep(c), \A q \in Pages : TransactionShapeOf(c, q)',
             \/ UNCHANGED <<disk, journal>>
             \/ lock[c] >= RESERVED /\ disk' = disk
             \/ lock[c] = EXCLUSIVE
             \/ MayExclude(c)
      PROVE  TransactionShape'
  <2>1. ASSUME NEW d \in Conns, d # c, NEW q \in Pages PROVE TransactionShapeOf(d, q)'
    BY <1>a, <1>f, <2>1, TransactionOfOthers
  <2> QED
    BY <1>f, <2>1 DEF TransactionShape
<1>g. ASSUME NEW c \in Conns, OthersKeep(c), state'[c] \notin Reading \union {"undo"},
             UNCHANGED <<disk, journal>>
      PROVE  TransactionShape'
  BY <1>f, <1>g, TransactionOfIdle
<1>1. ASSUME NEW c \in Conns, SharedLock(c) PROVE TransactionShape'
  <2>0. OthersKeep(c)
    BY <1>a, <1>1 DEF TypeOK, OthersKeep, SharedLock, Enter, ValidCache
  <2>1. UNCHANGED <<disk, journal>>
    BY <1>1 DEF SharedLock, Enter, ValidCache
  <2>2. CASE ~journal.exists
    <3>1. Enter(c) /\ journal.counted = {} /\ state[c] \in {"open", "sharing", "hot", "playback"}
      BY <1>a, <1>1, <2>2 DEF JournalShape, NoJournal, SharedLock, Enter, ValidCache
    <3> QED
      BY <1>f, <2>0, <2>1, <3>1, EnterTransaction, NothingCountedNow
  <2>3. CASE ~(~journal.exists)
    <3>1. state'[c] \notin Reading \union {"undo"}
      BY <1>a, <1>1, <2>3 DEF TypeOK, Reading, Changing, SharedLock, Enter, ValidCache
    <3> QED
      BY <1>g, <2>0, <2>1, <3>1
  <2> QED
    BY <2>2, <2>3
<1>2. ASSUME NEW c \in Conns, HasHotJournal(c) PROVE TransactionShape'
  <2>0. OthersKeep(c)
    BY <1>a, <1>2 DEF TypeOK, OthersKeep, HasHotJournal, Enter, ValidCache
  <2>1. UNCHANGED <<disk, journal>>
    BY <1>2 DEF HasHotJournal, Enter, ValidCache
  <2>2. CASE ~MayBeHot(c)
    <3>1. Enter(c) /\ journal.counted = {} /\ state[c] \in {"open", "sharing", "hot", "playback"}
      BY <1>a, <1>2, <2>2, NobodysJournal DEF JournalShape, NoJournal, HasHotJournal, Enter, ValidCache
    <3> QED
      BY <1>f, <2>0, <2>1, <3>1, EnterTransaction, NothingCountedNow
  <2>3. CASE ~(~MayBeHot(c))
    <3>1. state'[c] \notin Reading \union {"undo"}
      BY <1>a, <1>2, <2>3 DEF TypeOK, Reading, Changing, HasHotJournal, Enter, ValidCache
    <3> QED
      BY <1>g, <2>0, <2>1, <3>1
  <2> QED
    BY <2>2, <2>3
<1>3. ASSUME NEW c \in Conns, LockHotJournal(c) PROVE TransactionShape'
  <2>0. OthersKeep(c)
    BY <1>a, <1>3 DEF TypeOK, OthersKeep, LockHotJournal, Enter, ValidCache
  <2>1. UNCHANGED <<disk, journal>>
    BY <1>3 DEF LockHotJournal, Enter, ValidCache
  <2>2. CASE ~journal.exists
    <3>1. Enter(c) /\ journal.counted = {} /\ state[c] \in {"open", "sharing", "hot", "playback"}
      BY <1>a, <1>3, <2>2 DEF JournalShape, NoJournal, LockHotJournal, Enter, ValidCache
    <3> QED
      BY <1>f, <2>0, <2>1, <3>1, EnterTransaction, NothingCountedNow
  <2>3. CASE ~(~journal.exists)
    <3>1. state'[c] \notin Reading \union {"undo"}
      BY <1>a, <1>3, <2>3 DEF TypeOK, Reading, Changing, LockHotJournal, Enter, ValidCache
    <3> QED
      BY <1>g, <2>0, <2>1, <3>1
  <2> QED
    BY <2>2, <2>3
<1>4. ASSUME NEW c \in Conns, HotJournalBusy(c) \/ EndRead(c) PROVE TransactionShape'
  <2>0. OthersKeep(c)
    BY <1>a, <1>4 DEF TypeOK, OthersKeep, HotJournalBusy, EndRead
  <2>1. state'[c] \notin Reading \union {"undo"} /\ UNCHANGED <<disk, journal>>
    BY <1>a, <1>4 DEF TypeOK, Reading, Changing, HotJournalBusy, EndRead
  <2> QED
    BY <1>g, <2>0, <2>1
<1>5. ASSUME NEW c \in Conns, PlaybackEnd(c) PROVE TransactionShape'
  <2>0. OthersKeep(c)
    BY <1>a, <1>5 DEF TypeOK, OthersKeep, PlaybackEnd, SyncDisk, DeleteJournal, Enter, ValidCache
  <2>1. \A q \in journal.counted : disk[q] = journal.record[q]
    BY <1>c, <1>5 DEF PlaybackEnd, DiskShapeOf
  <2>2. (\A q \in Pages : CommittedBy[q] = disk[q].by) /\ CommittedCounter = disk[PageOne].counter
    BY <2>1, CommittedAt, PageOneAssumption DEF CommittedCounter
  <2>3. \A q \in Pages : TransactionShapeOf(c, q)'
    BY <1>5, <2>2, EnterTransaction DEF PlaybackEnd
  <2> QED
    BY <1>d, <1>f, <1>5, <2>0, <2>3 DEF PlaybackEnd
<1>6. ASSUME NEW c \in Conns, BeginWrite(c) PROVE TransactionShape'
  <2>0. OthersKeep(c)
    BY <1>a, <1>6 DEF TypeOK, OthersKeep, BeginWrite, Reserve
  <2> SUFFICES ASSUME NEW q \in Pages PROVE TransactionShapeOf(c, q)'
    BY <1>f, <1>6, <2>0 DEF BeginWrite
  <2>1. UNCHANGED <<disk, journal, cache, dirty, todo>>
    BY <1>6 DEF BeginWrite
  <2>2. CASE state[c] = "reader"
    <3>1. state'[c] = "locked"
      BY <1>a, <1>6, <2>2 DEF BeginWrite, Reserve, TypeOK
    <3> QED
      BY <1>e, <2>1, <2>2, <3>1 DEF TransactionShapeOf, Reading, Changing, Pending
  <2>3. CASE state[c] # "reader"
    <3>1. txn[c] = 0 /\ UNCHANGED state
      BY <1>6, <2>3 DEF BeginWrite
    <3>2. Versioned(c, q) \subseteq Versioned(c, q)'
      BY <2>1, <3>1 DEF Versioned
    <3>3. TransactionShapeOf(c, q) /\ state'[c] # "undo"
      BY <1>e, <1>6, <2>3 DEF BeginWrite
    <3> QED
      BY <2>1, <3>1, <3>2, <3>3 DEF TransactionShapeOf, Pending, Recorded
  <2> QED
    BY <2>2, <2>3
<1>7. ASSUME NEW c \in Conns, CommitPhaseOne(c) PROVE TransactionShape'
  <2>0. OthersKeep(c)
    BY <1>a, <1>7 DEF TypeOK, OthersKeep, CommitPhaseOne, SyncJournal, PagesToWrite, RekeyDone
  <2> DEFINE w == WithOriginal(journal, c, PageOne)
             x(q) == IF q = PageOne THEN Modified(c, PageOne) ELSE cache[c][q]
  <2>1. state[c] \in {"cachemod", "dbmod"} /\ cache[c][PageOne] # NoPage /\ disk' = disk
    BY <1>c, <1>7 DEF CommitPhaseOne, CacheShapeOf, Reading, Changing
  <2> SUFFICES ASSUME NEW q \in Pages PROVE TransactionShapeOf(c, q)'
    BY <1>d, <1>f, <2>0, <2>1
  <2>2. /\ q \in w.counted => disk[q].by \in {w.record[q].by} \union ({txn[c]} \ {0})
        /\ q \in Recorded(w) /\ x(q) # NoPage => x(q) \in {w.record[q].by} \union ({txn[c]} \ {0})
        /\ q \in Recorded(w) \ w.counted =>
               /\ w.record[q].by = disk[q].by
               /\ q = PageOne => w.record[q].counter = disk[q].counter
        /\ q \notin dirty[c] \union {PageOne} /\ x(q) # NoPage => x(q) = disk[q].by
    BY <2>1, WriteTransaction, PageOneAssumption
  <2>3. cache'[c][q] = x(q) /\ dirty'[c] = dirty[c] \union {PageOne} /\ txn' = txn
    BY <1>a, <1>7, PageOneAssumption DEF CommitPhaseOne, PagesToWrite, TypeOK
  <2>4. CASE MayExclude(c)
    <3>1. journal' = AllCounted(w) /\ state'[c] = "writing" /\ todo'[c] = dirty'[c]
      BY <1>a, <1>7, <2>3, <2>4 DEF CommitPhaseOne, SyncJournal, PagesToWrite, TypeOK
    <3>2. w \in Journals
      BY <1>a, <1>b, <1>c, <2>1, ContentTypes, JournalTypes, PageOneAssumption
         DEF CacheShapeOf, Reading, Changing
    <3>3. journal'.record = w.record /\ journal'.counted = Recorded(w) /\ Recorded(journal') = Recorded(w)
      BY <3>1, <3>2, RecordFacts, RecordedTypes, PageOneAssumption
    <3>4. q \in Recorded(w) => disk[q].by \in {w.record[q].by} \union ({txn[c]} \ {0})
      BY <2>2
    <3> QED
      BY <2>1, <2>2, <2>3, <3>1, <3>3, <3>4 DEF TransactionShapeOf, Versioned, Reading, Changing, Pending
  <2>5. CASE ~MayExclude(c)
    <3>1. journal' = w /\ state'[c] \in {"cachemod", "dbmod"}
      BY <1>a, <1>7, <2>1, <2>5 DEF CommitPhaseOne, TypeOK
    <3> QED
      BY <2>1, <2>2, <2>3, <3>1 DEF TransactionShapeOf, Versioned, Reading, Changing, Pending, Recorded
  <2> QED
    BY <2>4, <2>5
<1>8. ASSUME NEW c \in Conns, SyncDatabase(c) PROVE TransactionShape'
  <2>0. OthersKeep(c)
    BY <1>a, <1>8 DEF TypeOK, OthersKeep, SyncDatabase, SyncDisk
  <2>1. /\ state[c] = "writing" /\ todo[c] = {} /\ state'[c] = "finished" /\ dirty'[c] = {}
        /\ UNCHANGED <<disk, journal, cache, txn, todo>>
    BY <1>a, <1>8 DEF SyncDatabase, TypeOK
  <2>2. \A q \in Pages : TransactionShapeOf(c, q)'
    BY <1>e, <2>1 DEF TransactionShapeOf, Versioned, Reading, Changing, Pending, Recorded
  <2> QED
    BY <1>f, <2>0, <2>1, <2>2
<1>9. ASSUME NEW c \in Conns, CommitPhaseTwo(c) PROVE TransactionShape'
  <2>0. OthersKeep(c)
    BY <1>a, <1>9 DEF TypeOK, OthersKeep, CommitPhaseTwo, DeleteJournal, RekeyDone
  <2>1. /\ state[c] = "finished" /\ state'[c] = "reader" /\ UNCHANGED <<disk, cache, dirty>>
    BY <1>a, <1>9 DEF CommitPhaseTwo, TypeOK
  <2>2. \A q \in Pages : TransactionShapeOf(c, q)'
    BY <1>e, <2>1 DEF TransactionShapeOf, Reading, Changing, Pending
  <2> QED
    BY <1>d, <1>f, <2>0, <2>1, <2>2
<1>10. ASSUME NEW c \in Conns, PagerRollback(c), UNCHANGED <<fileVars, writeKey, previous>> PROVE TransactionShape'
  <2>0. OthersKeep(c)
    BY <1>a, <1>10 DEF TypeOK, OthersKeep, PagerRollback, EndTransaction, EndTransaction
  <2>1. UNCHANGED <<disk, journal, cache>>
    BY <1>10 DEF PagerRollback
  <2> SUFFICES ASSUME NEW q \in Pages PROVE TransactionShapeOf(c, q)'
    BY <1>f, <2>0, <2>1
  <2>2. CASE state[c] = "locked"
    <3>1. state'[c] = "reader" /\ dirty[c] = {}
      BY <1>a, <1>c, <1>10, <2>2 DEF PagerRollback, EndTransaction, TypeOK, CacheShapeOf
    <3> QED
      BY <1>e, <2>1, <2>2, <3>1 DEF TransactionShapeOf, Reading, Changing, Pending
  <2>3. CASE state[c] # "locked"
    <3>1. state[c] \in Changing /\ state'[c] = "undo" /\ todo'[c] = Recorded(journal)
      BY <1>a, <1>10, <2>3 DEF PagerRollback, TypeOK, Changing
    <3>2. Pending(c) \subseteq Recorded(journal)
      BY <1>c, <3>1 DEF JournalShapeOf, Pending
    <3>3. TransactionShapeOf(c, q) /\ (q \notin Recorded(journal) /\ cache[c][q] # NoPage => cache[c][q] = disk[q].by)
      BY <1>e, <3>1, <3>2 DEF TransactionShapeOf, Reading
    <3> QED
      BY <2>1, <3>1, <3>3 DEF TransactionShapeOf, Reading, Changing, Recorded
  <2> QED
    BY <2>2, <2>3
<1>11. ASSUME NEW c \in Conns, UndoEnd(c) PROVE TransactionShape'
  <2>0. OthersKeep(c)
    BY <1>a, <1>11 DEF TypeOK, OthersKeep, UndoEnd, SyncDisk, DeleteJournal, EndTransaction
  <2>1. /\ state[c] = "undo" /\ todo[c] = {} /\ UNCHANGED <<disk, cache>>
        /\ state'[c] \in {"reader", "error"} /\ (state'[c] = "reader" => readKey[c] # NoKey)
    BY <1>a, <1>11 DEF UndoEnd, EndTransaction, TypeOK
  <2>2. ASSUME NEW q \in Pages, readKey[c] # NoKey, cache[c][q] # NoPage
        PROVE  cache[c][q] = disk[q].by
    <3>1. CASE q \notin Recorded(journal)
      BY <1>e, <2>1, <2>2, <3>1 DEF TransactionShapeOf
    <3>2. CASE q \in journal.counted
      BY <1>b, <1>c, <1>e, <2>1, <2>2, <3>2 DEF TransactionShapeOf, DiskShapeOf
    <3>3. CASE q \in Recorded(journal) \ journal.counted
      BY <1>e, <2>1, <2>2, <3>3 DEF TransactionShapeOf
    <3> QED
      BY <3>1, <3>2, <3>3
  <2>3. \A q \in Pages : TransactionShapeOf(c, q)'
    BY <2>1, <2>2 DEF TransactionShapeOf, Reading, Changing
  <2> QED
    BY <1>d, <1>f, <2>0, <2>1, <2>3
<1>12. ASSUME NEW c \in Conns, NEW k \in Keys, Rekey(c, k) PROVE TransactionShape'
  <2>0. OthersKeep(c)
    BY <1>a, <1>12 DEF TypeOK, OthersKeep, Rekey, Reserve
  <2>1. UNCHANGED <<disk, journal, cache, dirty, todo, txn, readKey>>
    BY <1>12 DEF Rekey
  <2>2. (state[c] = "reader" /\ state'[c] = "locked") \/ state' = state
    BY <1>a, <1>12 DEF Rekey, Reserve, TypeOK
  <2>3. \A q \in Pages : TransactionShapeOf(c, q)'
    BY <1>e, <2>1, <2>2 DEF TransactionShapeOf, Versioned, Reading, Changing, Pending, Recorded
  <2> QED
    BY <1>f, <2>0, <2>1, <2>3
<1>13. ASSUME NEW c \in Conns, RekeyCommitFails(c) PROVE TransactionShape'
  <2>0. OthersKeep(c)
    BY <1>a, <1>13 DEF TypeOK, OthersKeep, RekeyCommitFails, RekeyDone
  <2>1. /\ state[c] = "writing" /\ state'[c] = "dbmod" /\ UNCHANGED <<disk, journal, cache, dirty, txn>>
    BY <1>a, <1>13 DEF RekeyCommitFails, TypeOK
  <2>2. todo[c] \subseteq dirty[c]
    BY <1>c, <2>1 DEF JournalShapeOf
  <2>3. \A q \in Pages : TransactionShapeOf(c, q)'
    BY <1>e, <2>1, <2>2 DEF TransactionShapeOf, Versioned, Reading, Changing, Pending, Recorded
  <2> QED
    BY <1>f, <2>0, <2>1, <2>3
<1>14. ASSUME NEW c \in Conns, PlaybackFails(c) \/ SpillFails(c) PROVE TransactionShape'
  <2>0. OthersKeep(c)
    BY <1>a, <1>14 DEF TypeOK, OthersKeep, PlaybackFails, SpillFails
  <2>1. state'[c] \notin Reading \union {"undo"} /\ UNCHANGED <<disk, journal>>
    BY <1>a, <1>14 DEF TypeOK, Reading, Changing, PlaybackFails, SpillFails
  <2> QED
    BY <1>g, <2>0, <2>1
<1>15. ASSUME NEW c \in Conns, CommitPhaseTwoFails(c) PROVE TransactionShape'
  <2>0. OthersKeep(c)
    BY <1>a, <1>15 DEF TypeOK, OthersKeep, CommitPhaseTwoFails, RekeyDone
  <2>1. state'[c] \notin Reading \union {"undo"} /\ UNCHANGED <<disk, journal>>
    BY <1>a, <1>15 DEF TypeOK, Reading, Changing, CommitPhaseTwoFails, RekeyDone
  <2> QED
    BY <1>g, <2>0, <2>1
<1>16. ASSUME NEW c \in Conns, PagerUnlock(c) PROVE TransactionShape'
  <2>0. OthersKeep(c)
    BY <1>a, <1>16 DEF TypeOK, OthersKeep, PagerUnlock, Drop, RekeyEnds
  <2>1. state'[c] \notin Reading \union {"undo"} /\ UNCHANGED <<disk, journal>>
    BY <1>a, <1>16 DEF TypeOK, Reading, Changing, PagerUnlock, Drop, RekeyEnds
  <2> QED
    BY <1>g, <2>0, <2>1
<1>17. ASSUME NEW c \in Conns, Close(c) \/ Crash(c) PROVE TransactionShape'
  <2>0. OthersKeep(c)
    BY <1>a, <1>17 DEF TypeOK, OthersKeep, Close, Crash, Forget, Drop
  <2>1. state'[c] \notin Reading \union {"undo"} /\ UNCHANGED <<disk, journal>>
    BY <1>a, <1>17 DEF TypeOK, Reading, Changing, Close, Crash, Forget, Drop
  <2> QED
    BY <1>g, <2>0, <2>1
<1>18. ASSUME NEW c \in Conns, NEW k \in Keys, Open(c, k) PROVE TransactionShape'
  <2>0. OthersKeep(c)
    BY <1>a, <1>18 DEF TypeOK, OthersKeep, Open
  <2>1. state'[c] \notin Reading \union {"undo"} /\ UNCHANGED <<disk, journal>>
    BY <1>a, <1>18 DEF TypeOK, Reading, Changing, Open
  <2> QED
    BY <1>g, <2>0, <2>1
<1>19. ASSUME NEW c \in Conns, NEW p \in Pages, PlaybackOnePage(c, p) PROVE TransactionShape'
  <2>0. OthersKeep(c)
    BY <1>a, <1>19 DEF TypeOK, OthersKeep, PlaybackOnePage, WriteDisk
  <2>1. state'[c] = "playback" /\ lock[c] = EXCLUSIVE
    BY <1>a, <1>19 DEF PlaybackOnePage, Locks, StateLocks
  <2>2. \A q \in Pages : TransactionShapeOf(c, q)'
    BY <2>1, TransactionOfIdle DEF Reading, Changing
  <2> QED
    BY <1>f, <2>0, <2>1, <2>2
<1>20. ASSUME NEW c \in Conns, NEW p \in Pages, ReadPage(c, p) PROVE TransactionShape'
  <2>0. OthersKeep(c)
    BY <1>a, <1>20 DEF TypeOK, OthersKeep, ReadPage
  <2>1. /\ state[c] \in {"reader", "locked", "cachemod", "dbmod"} /\ cache[c][p] = NoPage
        /\ UNCHANGED <<disk, journal, dirty, todo, txn>>
    BY <1>20 DEF ReadPage
  <2>2. CASE disk[p].key = readKey[c]
    <3>1. cache'[c] = [cache[c] EXCEPT ![p] = disk[p].by] /\ state' = state
      BY <1>a, <1>20, <2>2 DEF ReadPage, TypeOK
    <3>2. ASSUME NEW q \in Pages PROVE TransactionShapeOf(c, q)'
      <4>1. cache'[c][q] = IF q = p THEN disk[p].by ELSE cache[c][q]
        BY <1>a, <3>1 DEF TypeOK
      <4>2. TransactionShapeOf(c, q)
        BY <1>e
      <4> QED
        BY <1>b, <2>1, <3>1, <4>1, <4>2 DEF TransactionShapeOf, Versioned, Reading, Changing, Pending, Recorded
    <3> QED
      BY <1>f, <2>0, <2>1, <3>2
  <2>3. CASE disk[p].key # readKey[c]
    <3>1. state'[c] = "error"
      BY <1>a, <1>20, <2>3 DEF ReadPage, TypeOK
    <3> QED
      BY <1>g, <2>0, <2>1, <3>1 DEF Reading, Changing
  <2> QED
    BY <2>2, <2>3
<1>21. ASSUME NEW c \in Conns, NEW p \in Pages, WritePage(c, p) PROVE TransactionShape'
  <2>0. OthersKeep(c)
    BY <1>a, <1>21 DEF TypeOK, OthersKeep, WritePage, WithOriginal
  <2> DEFINE j == IF state[c] = "locked" THEN NewJournal ELSE journal
             w == WithOriginal(j, c, p)
             x(q) == IF q = p THEN Modified(c, p) ELSE cache[c][q]
  <2>1. /\ state[c] \in {"locked", "cachemod", "dbmod"} /\ cache[c][p] # NoPage
        /\ UNCHANGED <<disk, txn>> /\ journal' = w
    BY <1>21 DEF WritePage
  <2> SUFFICES ASSUME NEW q \in Pages PROVE TransactionShapeOf(c, q)'
    BY <1>d, <1>f, <2>0, <2>1
  <2>2. /\ q \in w.counted => disk[q].by \in {w.record[q].by} \union ({txn[c]} \ {0})
        /\ q \in Recorded(w) /\ x(q) # NoPage => x(q) \in {w.record[q].by} \union ({txn[c]} \ {0})
        /\ q \in Recorded(w) \ w.counted =>
               /\ w.record[q].by = disk[q].by
               /\ q = PageOne => w.record[q].counter = disk[q].counter
        /\ q \notin dirty[c] \union {p} /\ x(q) # NoPage => x(q) = disk[q].by
    BY <2>1, WriteTransaction
  <2>3. cache'[c][q] = x(q) /\ dirty'[c] = dirty[c] \union {p}
    BY <1>a, <1>21 DEF WritePage, TypeOK
  <2>4. state'[c] \in {"cachemod", "dbmod"}
    BY <1>a, <1>21, <2>1 DEF WritePage, TypeOK
  <2> QED
    BY <2>1, <2>2, <2>3, <2>4 DEF TransactionShapeOf, Versioned, Reading, Changing, Pending, Recorded
<1>22. ASSUME NEW c \in Conns, NEW p \in Pages, WriteBack(c, p) PROVE TransactionShape'
  <2>0. OthersKeep(c)
    BY <1>a, <1>22 DEF TypeOK, OthersKeep, WriteBack, WriteDisk
  <2>1. /\ state[c] = "writing" /\ p \in todo[c] /\ todo'[c] = todo[c] \ {p}
        /\ disk' = [disk EXCEPT ![p] = Encrypted(c, p)] /\ UNCHANGED <<journal, state, cache, dirty, txn>>
        /\ lock[c] = EXCLUSIVE
    BY <1>a, <1>22 DEF WriteBack, WriteDisk, TypeOK, Locks, StateLocks
  <2>2. p \in Recorded(journal) /\ cache[c][p] # NoPage /\ Recorded(journal) = journal.counted
    BY <1>c, <2>1 DEF JournalShapeOf, CacheShapeOf, Changing
  <2>3. ASSUME NEW q \in Pages PROVE TransactionShapeOf(c, q)'
    <3>1. disk'[q].by = IF q = p THEN cache[c][p] ELSE disk[q].by
      BY <1>a, <2>1 DEF Encrypted, TypeOK
    <3>2. TransactionShapeOf(c, q)
      BY <1>e
    <3> QED
      BY <2>1, <2>2, <3>1, <3>2 DEF TransactionShapeOf, Versioned, Reading, Changing, Pending, Recorded
  <2> QED
    BY <1>f, <2>0, <2>1, <2>3
<1>23. ASSUME NEW c \in Conns, NEW p \in Pages, Spill(c, p) PROVE TransactionShape'
  <2>0. OthersKeep(c)
    BY <1>a, <1>23 DEF TypeOK, OthersKeep, Spill, SyncJournal, WriteDisk
  <2>1. state[c] \in {"cachemod", "dbmod"} /\ p \in dirty[c]
    BY <1>23 DEF Spill
  <2>2. CASE MayExclude(c)
    <3>1. /\ journal' = AllCounted(journal) /\ state'[c] = "dbmod" /\ txn' = txn
          /\ disk' = [disk EXCEPT ![p] = Encrypted(c, p)] /\ dirty'[c] = dirty[c] \ {p}
          /\ cache'[c] = [cache[c] EXCEPT ![p] = NoPage]
      BY <1>a, <1>23, <2>2 DEF Spill, SyncJournal, WriteDisk, TypeOK
    <3>2. journal'.record = journal.record /\ journal'.counted = Recorded(journal)
          /\ Recorded(journal') = Recorded(journal)
      BY <1>b, <3>1, RecordFacts, RecordedTypes
    <3>3. p \in Recorded(journal) /\ cache[c][p] # NoPage
      BY <1>c, <2>1 DEF JournalShapeOf, CacheShapeOf, Changing
    <3>4. ASSUME NEW q \in Pages PROVE TransactionShapeOf(c, q)'
      <4>1. disk'[q].by = IF q = p THEN cache[c][p] ELSE disk[q].by
        BY <1>a, <3>1 DEF Encrypted, TypeOK
      <4>2. cache'[c][q] = IF q = p THEN NoPage ELSE cache[c][q]
        BY <1>a, <3>1 DEF TypeOK
      <4>3. TransactionShapeOf(c, q) /\ TransactionShapeOf(c, p)
        BY <1>e
      <4>4. q \in Recorded(journal) => disk'[q].by \in Versioned(c, q)
        BY <2>1, <3>3, <4>1, <4>3 DEF TransactionShapeOf, Versioned, Changing
      <4> QED
        BY <2>1, <3>1, <3>2, <3>3, <4>1, <4>2, <4>3, <4>4
           DEF TransactionShapeOf, Versioned, Reading, Changing, Pending
    <3> QED
      BY <1>f, <2>0, <2>2, <3>4
  <2>3. CASE ~MayExclude(c)
    <3>1. UNCHANGED <<disk, journal, state, cache, dirty, todo, txn, readKey>>
      BY <1>23, <2>3 DEF Spill
    <3>2. \A q \in Pages : TransactionShapeOf(c, q)'
      BY <1>e, <3>1 DEF TransactionShapeOf, Versioned, Pending, Recorded
    <3> QED
      BY <1>f, <2>0, <3>1, <3>2
  <2> QED
    BY <2>2, <2>3
<1>24. ASSUME NEW c \in Conns, NEW p \in Pages, UndoPage(c, p) PROVE TransactionShape'
  <2>0. OthersKeep(c)
    BY <1>a, <1>24 DEF TypeOK, OthersKeep, UndoPage, UndoCache, WriteDisk
  <2>1. /\ state[c] = "undo" /\ p \in todo[c] /\ todo'[c] = todo[c] \ {p} /\ journal' = journal
        /\ state'[c] \in {"undo", "error"} /\ p \in Recorded(journal)
    BY <1>a, <1>c, <1>24 DEF UndoPage, UndoCache, TypeOK, JournalShapeOf
  <2>2. \A q \in Pages : q \notin journal.counted => disk'[q] = disk[q]
    BY <1>a, <1>24 DEF UndoPage, WriteDisk, TypeOK
  <2>3. p \in journal.counted => lock[c] = EXCLUSIVE
    BY <1>a, <1>c, <1>d, <2>1 DEF JournalShapeOf
  <2>4. /\ \A q \in Pages : q # p => cache'[c][q] = cache[c][q]
        /\ cache'[c][p] # NoPage /\ readKey'[c] # NoKey => cache'[c][p] = journal.record[p].by
        /\ readKey'[c] # NoKey => readKey[c] # NoKey
    BY <1>a, <1>24 DEF UndoPage, UndoCache, TypeOK
  <2>5. ASSUME NEW q \in Pages PROVE TransactionShapeOf(c, q)'
    <3>1. TransactionShapeOf(c, q)
      BY <1>e
    <3> QED
      BY <1>b, <2>1, <2>2, <2>4, <3>1 DEF TransactionShapeOf, Reading, Changing, Recorded
  <2>6. CASE p \in journal.counted
    BY <1>f, <2>0, <2>3, <2>5, <2>6
  <2>7. CASE p \notin journal.counted
    <3>1. UNCHANGED disk
      BY <1>24, <2>7 DEF UndoPage
    <3> QED
      BY <1>f, <2>0, <2>1, <2>5, <3>1
  <2> QED
    BY <2>6, <2>7
<1>25. CASE PowerLoss
  <2>1. \A c \in Conns : state'[c] = "closed"
    BY <1>25 DEF PowerLoss, Forget, Drop
  <2> QED
    BY <2>1, TransactionOfIdle DEF TransactionShape, Reading, Changing
<1>26. CASE UNCHANGED vars
  BY <1>26 DEF vars, TransactionShape, TransactionShapeOf, Versioned, Pending, Recorded
<1> QED
  BY <1>1, <1>2, <1>3, <1>4, <1>5, <1>6, <1>7, <1>8, <1>9, <1>10, <1>11, <1>12, <1>13, <1>14, <1>15, <1>16, <1>17, <1>18, <1>19, <1>20, <1>21, <1>22, <1>23, <1>24, <1>25, <1>26 DEF Next, Rollback, RekeyFails, RekeyEnds

-----------------------------------------------------------------------------
LEMMA CounterOfOthers ==
    ASSUME LockTypes, Locks, CounterShape, NEW c \in Conns, OthersKeep(c), SameCommitted,
           \/ disk' = disk
           \/ lock[c] = EXCLUSIVE
           \/ MayExclude(c),
           NEW d \in Conns, c # d
    PROVE  CounterShapeOf(d)'
<1> USE DEF OthersKeep, SameCommitted
<1>1. CounterShapeOf(d)
  BY DEF CounterShape
<1>2. CASE disk' = disk
  BY <1>1, <1>2 DEF CounterShapeOf
<1>3. CASE disk' # disk
  <2>1. state'[d] \in {"closed", "open", "error"}
    <3>1. CASE lock[c] = EXCLUSIVE
      BY <3>1, OnlyWriter DEF RESERVED, EXCLUSIVE
    <3>2. CASE MayExclude(c)
      <4>1. lock[d] = NO_LOCK
        BY <3>2 DEF MayExclude, Others
      <4> QED
        BY <4>1 DEF Locks, StateLocks, LockTypes, Writing, NO_LOCK, SHARED, RESERVED, PENDING, EXCLUSIVE
    <3> QED
      BY <1>3, <3>1, <3>2
  <2> QED
    BY <1>1, <2>1 DEF CounterShapeOf, Reading, Changing
<1> QED
  BY <1>2, <1>3

(* A connection that has no cache and no transaction.                           *)
LEMMA CounterOfEmpty ==
    ASSUME NEW c \in Conns, state'[c] \in {"closed", "error"} \/
                            (state'[c] \in {"open", "sharing", "hot", "playback"} /\ cache'[c] = Empty)
    PROVE  CounterShapeOf(c)'
  BY DEF CounterShapeOf, Reading, Changing

LEMMA EnterCounter ==
    ASSUME Shapes, CounterShape, NEW c \in Conns, Enter(c), SameCommitted,
           state[c] \in {"open", "sharing", "hot", "playback"},
           \A q \in Pages : CommittedBy[q] = disk[q].by,
           CommittedCounter = disk[PageOne].counter
    PROVE  CounterShapeOf(c)'
<1>1. /\ state'[c] \in {"open", "reader"} /\ version'[c].counter = disk[PageOne].counter
      /\ state'[c] = "open" => cache'[c] = Empty
  BY EnterReads
<1> QED
  BY <1>1 DEF CounterShapeOf, SameCommitted, Reading, Changing

LEMMA CounterStep ==
    ASSUME Shapes, DiskShape, TransactionShape, CounterShape, [Next]_vars
    PROVE  CounterShape'
<1> USE DEF fileVars, journalVars, cacheVars, rekeyVars, keyVars, boundVars
<1>a. TypeOK /\ LockTypes /\ FileTypes /\ CacheTypes /\ Locks /\ CacheShape /\ JournalShape
  BY ShapesParts
<1>b. journal \in Journals /\ journal.counted \subseteq Recorded(journal) /\ Recorded(journal) \subseteq Pages
  BY <1>a DEF FileTypes, Journals, Recorded
<1>c. \A c \in Conns : JournalShapeOf(c) /\ DiskShapeOf(c) /\ CacheShapeOf(c) /\ CounterShapeOf(c)
  BY <1>a DEF JournalShape, DiskShape, CacheShape, CounterShape
<1>d. \A c \in Conns : state[c] \in {"dbmod", "writing", "finished", "playback"} => lock[c] = EXCLUSIVE
  BY <1>a DEF Locks, StateLocks
<1>e. \A c \in Conns, q \in Pages : TransactionShapeOf(c, q)
  BY DEF TransactionShape
<1>f. ASSUME NEW c \in Conns, OthersKeep(c), CounterShapeOf(c)', SameCommitted,
             \/ disk' = disk
             \/ lock[c] = EXCLUSIVE
             \/ MayExclude(c)
      PROVE  CounterShape'
  <2>1. ASSUME NEW d \in Conns, d # c PROVE CounterShapeOf(d)'
    BY <1>a, <1>f, <2>1, CounterOfOthers
  <2> QED
    BY <1>f, <2>1 DEF CounterShape
<1>1. ASSUME NEW c \in Conns, SharedLock(c) PROVE CounterShape'
  <2>0. OthersKeep(c)
    BY <1>a, <1>1 DEF TypeOK, OthersKeep, SharedLock, Enter, ValidCache
  <2>9. SameCommitted
    BY <1>1, CommittedStep DEF QuietStep
  <2>1. UNCHANGED disk
    BY <1>1 DEF SharedLock, Enter, ValidCache
  <2>2. CASE ~journal.exists
    <3>1. Enter(c) /\ journal.counted = {} /\ state[c] \in {"open", "sharing", "hot", "playback"}
      BY <1>a, <1>1, <2>2 DEF JournalShape, NoJournal, SharedLock, Enter, ValidCache
    <3> QED
      BY <1>f, <2>9, <2>0, <2>1, <3>1, EnterCounter, NothingCountedNow
  <2>3. CASE ~(~journal.exists)
    <3>1. /\ state[c] \in {"open", "sharing", "hot"} /\ state'[c] \in {"sharing", "hot", "playback"}
          /\ UNCHANGED version /\ cache'[c] \in {Empty, cache[c]}
      BY <1>a, <1>1, <2>3 DEF TypeOK, SharedLock, Enter, ValidCache
    <3>2. CounterShapeOf(c)'
      BY <1>c, <2>9, <3>1 DEF CounterShapeOf, SameCommitted, Reading, Changing
    <3> QED
      BY <1>f, <2>9, <2>0, <2>1, <3>2
  <2> QED
    BY <2>2, <2>3
<1>2. ASSUME NEW c \in Conns, HasHotJournal(c) PROVE CounterShape'
  <2>0. OthersKeep(c)
    BY <1>a, <1>2 DEF TypeOK, OthersKeep, HasHotJournal, Enter, ValidCache
  <2>9. SameCommitted
    BY <1>2, CommittedStep DEF QuietStep
  <2>1. UNCHANGED disk
    BY <1>2 DEF HasHotJournal, Enter, ValidCache
  <2>2. CASE ~MayBeHot(c)
    <3>1. Enter(c) /\ journal.counted = {} /\ state[c] \in {"open", "sharing", "hot", "playback"}
      BY <1>a, <1>2, <2>2, NobodysJournal DEF JournalShape, NoJournal, HasHotJournal, Enter, ValidCache
    <3> QED
      BY <1>f, <2>9, <2>0, <2>1, <3>1, EnterCounter, NothingCountedNow
  <2>3. CASE ~(~MayBeHot(c))
    <3>1. /\ state[c] \in {"open", "sharing", "hot"} /\ state'[c] \in {"sharing", "hot", "playback"}
          /\ UNCHANGED version /\ cache'[c] \in {Empty, cache[c]}
      BY <1>a, <1>2, <2>3 DEF TypeOK, HasHotJournal, Enter, ValidCache
    <3>2. CounterShapeOf(c)'
      BY <1>c, <2>9, <3>1 DEF CounterShapeOf, SameCommitted, Reading, Changing
    <3> QED
      BY <1>f, <2>9, <2>0, <2>1, <3>2
  <2> QED
    BY <2>2, <2>3
<1>3. ASSUME NEW c \in Conns, LockHotJournal(c) PROVE CounterShape'
  <2>0. OthersKeep(c)
    BY <1>a, <1>3 DEF TypeOK, OthersKeep, LockHotJournal, Enter, ValidCache
  <2>9. SameCommitted
    BY <1>3, CommittedStep DEF QuietStep
  <2>1. UNCHANGED disk
    BY <1>3 DEF LockHotJournal, Enter, ValidCache
  <2>2. CASE ~journal.exists
    <3>1. Enter(c) /\ journal.counted = {} /\ state[c] \in {"open", "sharing", "hot", "playback"}
      BY <1>a, <1>3, <2>2 DEF JournalShape, NoJournal, LockHotJournal, Enter, ValidCache
    <3> QED
      BY <1>f, <2>9, <2>0, <2>1, <3>1, EnterCounter, NothingCountedNow
  <2>3. CASE ~(~journal.exists)
    <3>1. /\ state[c] \in {"open", "sharing", "hot"} /\ state'[c] \in {"sharing", "hot", "playback"}
          /\ UNCHANGED version /\ cache'[c] \in {Empty, cache[c]}
      BY <1>a, <1>3, <2>3 DEF TypeOK, LockHotJournal, Enter, ValidCache
    <3>2. CounterShapeOf(c)'
      BY <1>c, <2>9, <3>1 DEF CounterShapeOf, SameCommitted, Reading, Changing
    <3> QED
      BY <1>f, <2>9, <2>0, <2>1, <3>2
  <2> QED
    BY <2>2, <2>3
<1>4. ASSUME NEW c \in Conns, HotJournalBusy(c) \/ EndRead(c) PROVE CounterShape'
  <2>0. OthersKeep(c)
    BY <1>a, <1>4 DEF TypeOK, OthersKeep, HotJournalBusy, EndRead
  <2>9. SameCommitted
    BY <1>4, CommittedStep DEF QuietStep
  <2>1. state'[c] = "open" /\ UNCHANGED <<disk, version, cache, journal>>
    BY <1>a, <1>4 DEF TypeOK, HotJournalBusy, EndRead
  <2>2. CASE state[c] = "hot"
    <3>1. CounterShapeOf(c)'
      BY <1>c, <2>9, <2>1, <2>2 DEF CounterShapeOf, SameCommitted, Reading, Changing
    <3> QED
      BY <1>f, <2>9, <2>0, <2>1, <3>1
  <2>3. CASE state[c] = "reader"
    <3>1. journal.counted = {} /\ dirty[c] = {} /\ version[c].counter = CommittedCounter
      BY <1>c, <2>3 DEF JournalShapeOf, CacheShapeOf, CounterShapeOf, Reading
    <3>2. \A q \in Pages : cache[c][q] \in {NoPage, CommittedBy[q]}
      BY <1>e, <2>3, <3>1, NothingCountedNow DEF TransactionShapeOf, Reading, Pending
    <3>3. CommittedCounter \in Nat
      BY <1>a, <3>1, NothingCountedNow, PageOneAssumption DEF FileTypes, Content
    <3>4. CounterShapeOf(c)'
      BY <2>9, <2>1, <3>1, <3>2, <3>3 DEF CounterShapeOf, SameCommitted, Reading, Changing
    <3> QED
      BY <1>f, <2>9, <2>0, <2>1, <3>4
  <2> QED
    BY <1>4, <2>2, <2>3 DEF HotJournalBusy, EndRead
<1>5. ASSUME NEW c \in Conns, PlaybackEnd(c) PROVE CounterShape'
  <2>0. OthersKeep(c)
    BY <1>a, <1>5 DEF TypeOK, OthersKeep, PlaybackEnd, SyncDisk, DeleteJournal, Enter, ValidCache
  <2>9. SameCommitted
    BY <1>5, CommittedStep DEF QuietStep
  <2>1. \A q \in journal.counted : disk[q] = journal.record[q]
    BY <1>c, <1>5 DEF PlaybackEnd, DiskShapeOf
  <2>2. (\A q \in Pages : CommittedBy[q] = disk[q].by) /\ CommittedCounter = disk[PageOne].counter
    BY <2>1, CommittedAt, PageOneAssumption DEF CommittedCounter
  <2>3. CounterShapeOf(c)'
    BY <2>9, <1>5, <2>2, EnterCounter DEF PlaybackEnd
  <2> QED
    BY <1>f, <1>5, <2>9, <2>0, <2>3 DEF PlaybackEnd
<1>6. ASSUME NEW c \in Conns, BeginWrite(c) PROVE CounterShape'
  <2>0. OthersKeep(c)
    BY <1>a, <1>6 DEF TypeOK, OthersKeep, BeginWrite, Reserve
  <2>9. SameCommitted
    BY <1>6, CommittedStep DEF QuietStep
  <2>1. UNCHANGED <<disk, version, cache, todo, readKey>>
    BY <1>6 DEF BeginWrite
  <2>2. (state[c] = "reader" /\ state'[c] = "locked") \/ (state' = state)
    BY <1>a, <1>6 DEF BeginWrite, Reserve, TypeOK
  <2>3. CounterShapeOf(c)'
    BY <1>c, <2>9, <2>1, <2>2 DEF CounterShapeOf, SameCommitted, Reading, Changing
  <2> QED
    BY <1>f, <2>9, <2>0, <2>1, <2>3
<1>7. ASSUME NEW c \in Conns, CommitPhaseOne(c) PROVE CounterShape'
  <2>0. OthersKeep(c)
    BY <1>a, <1>7 DEF TypeOK, OthersKeep, CommitPhaseOne, SyncJournal, PagesToWrite, RekeyDone
  <2>9. SameCommitted
    BY <1>7, CommittedStep DEF QuietStep
  <2>1. /\ state[c] \in {"cachemod", "dbmod"} /\ UNCHANGED <<disk, version>>
        /\ \/ state' = state
           \/ state'[c] = "writing" /\ PageOne \in todo'[c]
    <3>1. CASE MayExclude(c)
      <4>1. state'[c] = "writing" /\ todo'[c] = PagesToWrite(c)
        BY <1>a, <1>7, <3>1 DEF CommitPhaseOne, TypeOK
      <4> QED
        BY <1>7, <4>1 DEF CommitPhaseOne, PagesToWrite
    <3>2. CASE ~MayExclude(c)
      BY <1>7, <3>2 DEF CommitPhaseOne
    <3> QED
      BY <3>1, <3>2
  <2>2. CounterShapeOf(c)'
    BY <1>c, <2>9, <2>1 DEF CounterShapeOf, SameCommitted, Reading, Changing
  <2> QED
    BY <1>f, <2>9, <2>0, <2>1, <2>2
<1>8. ASSUME NEW c \in Conns, SyncDatabase(c) PROVE CounterShape'
  <2>0. OthersKeep(c)
    BY <1>a, <1>8 DEF TypeOK, OthersKeep, SyncDatabase, SyncDisk
  <2>9. SameCommitted
    BY <1>8, CommittedStep DEF QuietStep
  <2>1. /\ state[c] = "writing" /\ todo[c] = {} /\ state'[c] = "finished" /\ UNCHANGED disk
        /\ version'[c] = VersionOf(disk[PageOne])
    BY <1>a, <1>8 DEF SyncDatabase, TypeOK
  <2>2. CounterShapeOf(c)'
    BY <1>c, <2>9, <2>1 DEF CounterShapeOf, SameCommitted, VersionOf, Reading, Changing
  <2> QED
    BY <1>f, <2>9, <2>0, <2>1, <2>2
<1>9. ASSUME NEW c \in Conns, CommitPhaseTwo(c) PROVE CounterShape'
  <2>0. OthersKeep(c)
    BY <1>a, <1>9 DEF TypeOK, OthersKeep, CommitPhaseTwo, DeleteJournal, RekeyDone
  <2>1. /\ state[c] = "finished" /\ state'[c] = "reader" /\ lock[c] = EXCLUSIVE
        /\ UNCHANGED <<disk, version, cache>> /\ journal' = NoJournal
    BY <1>a, <1>9 DEF CommitPhaseTwo, DeleteJournal, TypeOK, Locks, StateLocks
  <2>2. CommittedCounter' = disk[PageOne].counter
    BY <2>1, CommittedAtNext, PageOneAssumption DEF CommittedCounter, NoJournal
  <2>3. CounterShapeOf(c)'
    BY <1>c, <2>1, <2>2 DEF CounterShapeOf, Reading, Changing
  <2>4. ASSUME NEW d \in Conns, d # c PROVE CounterShapeOf(d)'
    <3>1. state'[d] \in {"closed", "open", "error"} /\ state'[d] = state[d]
          /\ cache'[d] = cache[d] /\ version'[d] = version[d]
      BY <1>a, <2>0, <2>1, <2>4, OnlyWriter DEF OthersKeep, RESERVED, EXCLUSIVE
    <3>2. CommittedCounter' = CommittedCounter + 1
      BY <1>c, <2>1, <2>2 DEF CounterShapeOf
    <3>3. CommittedCounter \in Nat
      <4>1. PageOne \in journal.counted
        BY <1>c, <2>1 DEF JournalShapeOf
      <4>2. journal.record[PageOne] \in Content
        BY <1>b, <4>1, PageOneAssumption DEF Journals, Recorded
      <4> QED
        BY <4>1, <4>2, CommittedAt, PageOneAssumption DEF CommittedCounter, Content
    <3>4. version[d].counter \in Nat
      BY <1>a DEF CacheTypes, Versions
    <3> QED
      BY <1>c, <3>1, <3>2, <3>3, <3>4 DEF CounterShapeOf, Reading, Changing
  <2> QED
    BY <2>3, <2>4 DEF CounterShape
<1>10. ASSUME NEW c \in Conns, PagerRollback(c), UNCHANGED <<fileVars, writeKey, previous>> PROVE CounterShape'
  <2>0. OthersKeep(c)
    BY <1>a, <1>10 DEF TypeOK, OthersKeep, PagerRollback, EndTransaction, EndTransaction
  <2>9. SameCommitted
    BY <1>10, NothingCounted DEF PagerRollback
  <2>1. UNCHANGED <<disk, version, cache, readKey>>
    BY <1>10 DEF PagerRollback
  <2>2. CASE state[c] = "locked"
    <3>1. state'[c] = "reader"
      BY <1>a, <1>10, <2>2 DEF PagerRollback, EndTransaction, TypeOK
    <3>2. CounterShapeOf(c)'
      BY <1>c, <2>9, <2>1, <2>2, <3>1 DEF CounterShapeOf, SameCommitted, Reading, Changing
    <3> QED
      BY <1>f, <2>9, <2>0, <2>1, <3>2
  <2>3. CASE state[c] # "locked"
    <3>1. state[c] \in Changing /\ state'[c] = "undo" /\ todo'[c] = Recorded(journal)
      BY <1>a, <1>10, <2>3 DEF PagerRollback, TypeOK, Changing
    <3>2. state[c] = "finished" => PageOne \in Recorded(journal)
      BY <1>c, <3>1 DEF JournalShapeOf
    <3>3. CounterShapeOf(c)'
      BY <1>c, <2>9, <2>1, <3>1, <3>2 DEF CounterShapeOf, SameCommitted, Reading, Changing
    <3> QED
      BY <1>f, <2>9, <2>0, <2>1, <3>3
  <2> QED
    BY <2>2, <2>3
<1>11. ASSUME NEW c \in Conns, UndoEnd(c) PROVE CounterShape'
  <2>0. OthersKeep(c)
    BY <1>a, <1>11 DEF TypeOK, OthersKeep, UndoEnd, SyncDisk, DeleteJournal, EndTransaction
  <2>9. SameCommitted
    BY <1>11, CommittedStep DEF QuietStep
  <2>1. /\ state[c] = "undo" /\ todo[c] = {} /\ UNCHANGED <<disk, version>>
        /\ state'[c] \in {"reader", "error"} /\ (state'[c] = "reader" => readKey[c] # NoKey)
    BY <1>a, <1>11 DEF UndoEnd, EndTransaction, TypeOK
  <2>2. CounterShapeOf(c)'
    BY <1>c, <2>9, <2>1 DEF CounterShapeOf, SameCommitted, Reading, Changing
  <2> QED
    BY <1>f, <2>9, <2>0, <2>1, <2>2
<1>12. ASSUME NEW c \in Conns, NEW k \in Keys, Rekey(c, k) PROVE CounterShape'
  <2>0. OthersKeep(c)
    BY <1>a, <1>12 DEF TypeOK, OthersKeep, Rekey, Reserve
  <2>9. SameCommitted
    BY <1>12, CommittedStep DEF QuietStep
  <2>1. UNCHANGED <<disk, version, cache, todo, readKey>>
    BY <1>12 DEF Rekey
  <2>2. (state[c] = "reader" /\ state'[c] = "locked") \/ (state' = state)
    BY <1>a, <1>12 DEF Rekey, Reserve, TypeOK
  <2>3. CounterShapeOf(c)'
    BY <1>c, <2>9, <2>1, <2>2 DEF CounterShapeOf, SameCommitted, Reading, Changing
  <2> QED
    BY <1>f, <2>9, <2>0, <2>1, <2>3
<1>13. ASSUME NEW c \in Conns, RekeyCommitFails(c) PROVE CounterShape'
  <2>0. OthersKeep(c)
    BY <1>a, <1>13 DEF TypeOK, OthersKeep, RekeyCommitFails, RekeyDone
  <2>9. SameCommitted
    BY <1>13, CommittedStep DEF QuietStep
  <2>1. state[c] = "writing" /\ state'[c] = "dbmod" /\ UNCHANGED <<disk, version>>
    BY <1>a, <1>13 DEF RekeyCommitFails, TypeOK
  <2>2. CounterShapeOf(c)'
    BY <1>c, <2>9, <2>1 DEF CounterShapeOf, SameCommitted, Reading, Changing
  <2> QED
    BY <1>f, <2>9, <2>0, <2>1, <2>2
<1>14. ASSUME NEW c \in Conns, PlaybackFails(c) \/ SpillFails(c) PROVE CounterShape'
  <2>0. OthersKeep(c)
    BY <1>a, <1>14 DEF TypeOK, OthersKeep, PlaybackFails, SpillFails
  <2>9. SameCommitted
    BY <1>14, CommittedStep DEF QuietStep
  <2>1. state'[c] \in {"closed", "error"} \/ (state'[c] = "open" /\ cache'[c] = Empty)
    BY <1>a, <1>14 DEF TypeOK, PlaybackFails, SpillFails
  <2>2. CounterShapeOf(c)' /\ UNCHANGED disk
    BY <1>14, <2>1, CounterOfEmpty DEF PlaybackFails, SpillFails
  <2> QED
    BY <1>f, <2>9, <2>0, <2>2
<1>15. ASSUME NEW c \in Conns, CommitPhaseTwoFails(c) PROVE CounterShape'
  <2>0. OthersKeep(c)
    BY <1>a, <1>15 DEF TypeOK, OthersKeep, CommitPhaseTwoFails, RekeyDone
  <2>9. SameCommitted
    BY <1>15, CommittedStep DEF QuietStep
  <2>1. state'[c] \in {"closed", "error"} \/ (state'[c] = "open" /\ cache'[c] = Empty)
    BY <1>a, <1>15 DEF TypeOK, CommitPhaseTwoFails, RekeyDone
  <2>2. CounterShapeOf(c)' /\ UNCHANGED disk
    BY <1>15, <2>1, CounterOfEmpty DEF CommitPhaseTwoFails, RekeyDone
  <2> QED
    BY <1>f, <2>9, <2>0, <2>2
<1>16. ASSUME NEW c \in Conns, PagerUnlock(c) PROVE CounterShape'
  <2>0. OthersKeep(c)
    BY <1>a, <1>16 DEF TypeOK, OthersKeep, PagerUnlock, Drop, RekeyEnds
  <2>9. SameCommitted
    BY <1>16, CommittedStep DEF QuietStep
  <2>1. state'[c] \in {"closed", "error"} \/ (state'[c] = "open" /\ cache'[c] = Empty)
    BY <1>a, <1>16 DEF TypeOK, PagerUnlock, Drop, RekeyEnds
  <2>2. CounterShapeOf(c)' /\ UNCHANGED disk
    BY <1>16, <2>1, CounterOfEmpty DEF PagerUnlock, Drop, RekeyEnds
  <2> QED
    BY <1>f, <2>9, <2>0, <2>2
<1>17. ASSUME NEW c \in Conns, Close(c) \/ Crash(c) PROVE CounterShape'
  <2>0. OthersKeep(c)
    BY <1>a, <1>17 DEF TypeOK, OthersKeep, Close, Crash, Forget, Drop
  <2>9. SameCommitted
    BY <1>17, CommittedStep DEF QuietStep
  <2>1. state'[c] \in {"closed", "error"} \/ (state'[c] = "open" /\ cache'[c] = Empty)
    BY <1>a, <1>17 DEF TypeOK, Close, Crash, Forget, Drop
  <2>2. CounterShapeOf(c)' /\ UNCHANGED disk
    BY <1>17, <2>1, CounterOfEmpty DEF Close, Crash, Forget, Drop
  <2> QED
    BY <1>f, <2>9, <2>0, <2>2
<1>18. ASSUME NEW c \in Conns, NEW k \in Keys, Open(c, k) PROVE CounterShape'
  <2>0. OthersKeep(c)
    BY <1>a, <1>18 DEF TypeOK, OthersKeep, Open
  <2>9. SameCommitted
    BY <1>18, CommittedStep DEF QuietStep
  <2>1. state'[c] = "open" /\ cache'[c] = Empty /\ UNCHANGED disk
    BY <1>a, <1>c, <1>18 DEF Open, TypeOK, CacheShapeOf
  <2> QED
    BY <1>f, <2>9, <2>0, <2>1, CounterOfEmpty
<1>19. ASSUME NEW c \in Conns, NEW p \in Pages, PlaybackOnePage(c, p) PROVE CounterShape'
  <2>0. OthersKeep(c)
    BY <1>a, <1>19 DEF TypeOK, OthersKeep, PlaybackOnePage, WriteDisk
  <2>9. SameCommitted
    BY <1>19, CommittedStep DEF QuietStep
  <2>1. state'[c] = "playback" /\ state[c] = "playback" /\ UNCHANGED <<version, cache>>
    BY <1>19 DEF PlaybackOnePage
  <2>2. CounterShapeOf(c)'
    BY <1>c, <2>9, <2>1 DEF CounterShapeOf, SameCommitted, Reading, Changing
  <2> QED
    BY <1>d, <1>f, <2>9, <2>0, <2>1, <2>2
<1>20. ASSUME NEW c \in Conns, NEW p \in Pages, ReadPage(c, p) PROVE CounterShape'
  <2>0. OthersKeep(c)
    BY <1>a, <1>20 DEF TypeOK, OthersKeep, ReadPage
  <2>9. SameCommitted
    BY <1>20, CommittedStep DEF QuietStep
  <2>1. /\ state[c] \in {"reader", "locked", "cachemod", "dbmod"} /\ UNCHANGED <<disk, version>>
        /\ state'[c] \in {state[c], "error"}
    BY <1>a, <1>20 DEF ReadPage, TypeOK
  <2>2. CounterShapeOf(c)'
    BY <1>c, <2>9, <2>1 DEF CounterShapeOf, SameCommitted, Reading, Changing
  <2> QED
    BY <1>f, <2>9, <2>0, <2>1, <2>2
<1>21. ASSUME NEW c \in Conns, NEW p \in Pages, WritePage(c, p) PROVE CounterShape'
  <2>0. OthersKeep(c)
    BY <1>a, <1>21 DEF TypeOK, OthersKeep, WritePage, WithOriginal
  <2>9. SameCommitted
    BY <1>21, CommittedStep DEF QuietStep
  <2>1. /\ state[c] \in {"locked", "cachemod", "dbmod"} /\ UNCHANGED <<disk, version>>
        /\ state'[c] \in {"cachemod", "dbmod"}
    BY <1>a, <1>21 DEF WritePage, TypeOK
  <2>2. CounterShapeOf(c)'
    BY <1>c, <2>9, <2>1 DEF CounterShapeOf, SameCommitted, Reading, Changing
  <2> QED
    BY <1>f, <2>9, <2>0, <2>1, <2>2
<1>22. ASSUME NEW c \in Conns, NEW p \in Pages, WriteBack(c, p) PROVE CounterShape'
  <2>0. OthersKeep(c)
    BY <1>a, <1>22 DEF TypeOK, OthersKeep, WriteBack, WriteDisk
  <2>9. SameCommitted
    BY <1>22, CommittedStep DEF QuietStep
  <2>1. /\ state[c] = "writing" /\ p \in todo[c] /\ todo'[c] = todo[c] \ {p}
        /\ disk' = [disk EXCEPT ![p] = Encrypted(c, p)] /\ UNCHANGED <<state, version>>
    BY <1>a, <1>22 DEF WriteBack, WriteDisk, TypeOK
  <2>2. version[c].counter = CommittedCounter
    BY <1>c, <2>1 DEF CounterShapeOf, Reading, Changing
  <2>3. PageOne \notin todo'[c] => disk'[PageOne].counter = CommittedCounter + 1
    <3>1. CASE p = PageOne
      BY <1>a, <2>1, <2>2, <3>1, PageOneAssumption DEF Encrypted, Counter, TypeOK
    <3>2. CASE p # PageOne
      BY <1>a, <1>c, <2>1, <3>2, PageOneAssumption DEF CounterShapeOf, TypeOK
    <3> QED
      BY <3>1, <3>2
  <2>4. CounterShapeOf(c)'
    BY <2>9, <2>1, <2>2, <2>3 DEF CounterShapeOf, SameCommitted, Reading, Changing
  <2> QED
    BY <1>d, <1>f, <2>9, <2>0, <2>1, <2>4
<1>23. ASSUME NEW c \in Conns, NEW p \in Pages, Spill(c, p) PROVE CounterShape'
  <2>0. OthersKeep(c)
    BY <1>a, <1>23 DEF TypeOK, OthersKeep, Spill, SyncJournal, WriteDisk
  <2>9. SameCommitted
    BY <1>23, CommittedStep DEF QuietStep
  <2>1. /\ state[c] \in {"cachemod", "dbmod"} /\ state'[c] \in {"cachemod", "dbmod"} /\ UNCHANGED version
    BY <1>a, <1>23 DEF Spill, TypeOK
  <2>2. CounterShapeOf(c)'
    BY <1>c, <2>9, <2>1 DEF CounterShapeOf, SameCommitted, Reading, Changing
  <2>3. MayExclude(c) \/ disk' = disk
    BY <1>23 DEF Spill
  <2> QED
    BY <1>f, <2>9, <2>0, <2>2, <2>3
<1>24. ASSUME NEW c \in Conns, NEW p \in Pages, UndoPage(c, p) PROVE CounterShape'
  <2>0. OthersKeep(c)
    BY <1>a, <1>24 DEF TypeOK, OthersKeep, UndoPage, UndoCache, WriteDisk
  <2>9. SameCommitted
    BY <1>24, CommittedStep DEF QuietStep
  <2>1. /\ state[c] = "undo" /\ p \in todo[c] /\ todo'[c] = todo[c] \ {p}
        /\ state'[c] \in {"undo", "error"} /\ p \in Recorded(journal)
    BY <1>a, <1>c, <1>24 DEF UndoPage, UndoCache, TypeOK, JournalShapeOf
  <2>2. disk' = disk \/ lock[c] = EXCLUSIVE
    <3>1. p \in journal.counted => lock[c] = EXCLUSIVE
      BY <1>a, <1>c, <2>1 DEF JournalShapeOf, Locks, StateLocks
    <3> QED
      BY <1>24, <3>1 DEF UndoPage
  <2>3. PageOne \notin todo'[c] /\ readKey'[c] # NoKey => version'[c].counter = CommittedCounter
    <3>1. CASE p = PageOne
      <4>1. cache[c][p] # NoPage
        BY <1>c, <2>1, <3>1 DEF CacheShapeOf
      <4>2. readKey'[c] # NoKey => version'[c] = VersionOf(journal.record[p])
        BY <1>a, <1>24, <3>1, <4>1 DEF UndoPage, UndoCache, TypeOK
      <4>3. journal.record[p].counter = CommittedCounter
        BY <1>e, <2>1, <3>1, CommittedAt, PageOneAssumption DEF TransactionShapeOf, CommittedCounter
      <4> QED
        BY <4>2, <4>3 DEF VersionOf
    <3>2. CASE p # PageOne
      <4>1. version'[c] = version[c] /\ (readKey'[c] # NoKey => readKey[c] # NoKey)
        BY <1>a, <1>24, <3>2 DEF UndoPage, UndoCache, TypeOK
      <4> QED
        BY <1>c, <2>1, <3>2, <4>1 DEF CounterShapeOf
    <3> QED
      BY <3>1, <3>2
  <2>4. CounterShapeOf(c)'
    BY <2>9, <2>1, <2>3 DEF CounterShapeOf, SameCommitted, Reading, Changing
  <2> QED
    BY <1>f, <2>9, <2>0, <2>2, <2>4
<1>25. CASE PowerLoss
  <2>1. \A c \in Conns : state'[c] = "closed"
    BY <1>25 DEF PowerLoss, Forget, Drop
  <2> QED
    BY <2>1, CounterOfEmpty DEF CounterShape
<1>26. CASE UNCHANGED vars
  <2>1. SameCommitted
    BY <1>26, CommittedStep
  <2>2. \A c \in Conns : CounterShapeOf(c)'
    BY <1>c, <1>26, <2>1 DEF vars, CounterShapeOf, SameCommitted
  <2> QED
    BY <2>2 DEF CounterShape
<1> QED
  BY <1>1, <1>2, <1>3, <1>4, <1>5, <1>6, <1>7, <1>8, <1>9, <1>10, <1>11, <1>12, <1>13, <1>14, <1>15, <1>16, <1>17, <1>18, <1>19, <1>20, <1>21, <1>22, <1>23, <1>24, <1>25, <1>26 DEF Next, Rollback, RekeyFails, RekeyEnds

-----------------------------------------------------------------------------
LEMMA InductiveParts ==
    Inductive <=> Shapes /\ DiskShape /\ TransactionShape /\ CounterShape
  BY DEF Inductive, Shapes, Locks

LEMMA InitInductive == Init => Inductive
<1> SUFFICES ASSUME Init PROVE Inductive
  OBVIOUS
<1>1. Shapes
  BY InitShapes
<1>2. journal = NoJournal /\ kept = {NoJournal} /\ journal.counted = {} /\ Recorded(journal) = {}
  BY DEF Init, NoJournal, Recorded, Empty
<1>3. DiskShape
  <2>1. UncountedSynced
    BY DEF Init, UncountedSynced
  <2>2. KeptSameEffect
    BY <1>2 DEF KeptSameEffect
  <2>3. KeptCommitted
    BY <1>2 DEF KeptCommitted, CommittedBy, Committed
  <2>4. \A c \in Conns : DiskShapeOf(c)
    BY DiskOfIdle DEF Init, DiskShapeOf
  <2> QED
    BY <2>1, <2>2, <2>3, <2>4 DEF DiskShape
<1>4. TransactionShape
  BY DEF Init, TransactionShape, TransactionShapeOf, Reading, Changing
<1>5. CounterShape
  BY DEF Init, CounterShape, CounterShapeOf, Reading, Changing
<1> QED
  BY <1>1, <1>3, <1>4, <1>5, InductiveParts

LEMMA InductiveStep ==
    ASSUME Inductive, [Next]_vars
    PROVE  Inductive'
<1>1. Shapes /\ DiskShape /\ TransactionShape /\ CounterShape
  BY InductiveParts
<1>2. Shapes'
  BY <1>1, ShapesStep
<1>3. DiskShape'
  BY <1>1, DiskStep
<1>4. TransactionShape'
  BY <1>1, TransactionStep
<1>5. CounterShape'
  BY <1>1, CounterStep
<1> QED
  BY <1>2, <1>3, <1>4, <1>5 DEF Inductive, Shapes, Locks

(* The inductive invariant of the pagers.                                       *)
THEOREM PagerInductive == Spec => []Inductive
<1>1. Inductive /\ [Next]_vars => Inductive'
  BY InductiveStep
<1> QED
  BY <1>1, InitInductive, PTL DEF Spec

(* A reader, and a writer of the pages it has not changed, sees the one         *)
(* committed version of the file, however old its cache is and whoever writes,  *)
(* spills, rolls back, dies or recovers beside it.                              *)
THEOREM ReadsCommittedHolds == Spec => []ReadsCommitted
<1>1. Inductive => ReadsCommitted
  <2> SUFFICES ASSUME Inductive, NEW c \in Conns, NEW p \in Pages, cache[c][p] # NoPage,
                      \/ state[c] \in {"reader", "locked"}
                      \/ state[c] \in Writing /\ journal.record[p] = NoPage
               PROVE  cache[c][p] = CommittedBy[p]
    BY DEF ReadsCommitted
  <2>1. /\ FileTypes /\ StateLocks /\ CacheShapeOf(c) /\ JournalShapeOf(c)
        /\ TransactionShapeOf(c, p)
    BY TypeParts DEF Inductive, CacheShape, JournalShape, TransactionShape
  <2>2. journal.counted \subseteq Recorded(journal)
    BY <2>1 DEF FileTypes, Journals
  <2>3. p \notin journal.counted
    <3>1. CASE state[c] \in {"reader", "locked"}
      BY <2>1, <3>1 DEF JournalShapeOf, StateLocks
    <3>2. CASE journal.record[p] = NoPage
      BY <2>2, <3>2 DEF Recorded
    <3> QED
      BY <3>1, <3>2
  <2>4. CommittedBy[p] = disk[p].by
    BY <2>3, CommittedAt
  <2>5. CASE state[c] \in {"reader", "locked"}
    BY <2>1, <2>4, <2>5 DEF CacheShapeOf, TransactionShapeOf, Reading, Pending
  <2>6. CASE state[c] \in Changing /\ journal.record[p] = NoPage
    <3>1. p \notin Pending(c)
      BY <2>1, <2>6 DEF JournalShapeOf, Pending, Recorded, Changing
    <3> QED
      BY <2>1, <2>4, <2>6, <3>1 DEF TransactionShapeOf, Reading
  <2>7. CASE state[c] = "undo" /\ journal.record[p] = NoPage
    BY <2>1, <2>4, <2>7 DEF TransactionShapeOf, Recorded
  <2> QED
    BY <2>5, <2>6, <2>7 DEF Writing, Changing
<1> QED
  BY <1>1, PagerInductive, PTL

LEMMA SurvivorsRead ==
    ASSUME Inductive, NEW d \in Survivors, NEW j \in kept
    PROVE  [p \in Pages |-> PlayedBack(j, d)[p].by] \in {CommittedBy, previous}
<1>1. UncountedSynced /\ KeptSameEffect /\ KeptCommitted /\ FileTypes
  BY TypeParts DEF Inductive, DiskShape
<1>2. \A p \in Pages : d[p] \in durable[p]
  BY DEF Survivors
<1>3. CASE journal.counted # {}
  <2>1. SameEffect(j)
    BY <1>1, <1>3 DEF KeptSameEffect
  <2>2. \A p \in Pages : PlayedBack(j, d)[p] = Committed[p]
    BY <1>1, <1>2, <2>1, CommittedAt DEF UncountedSynced, SameEffect, PlayedBack
  <2> QED
    BY <2>2 DEF CommittedBy
<1>4. CASE journal.counted = {}
  <2>1. \A p \in Pages : d[p] = disk[p]
    BY <1>1, <1>2, <1>4 DEF UncountedSynced
  <2>2. \A p \in Pages : PlayedBack(j, d)[p] = PlayedBack(j, disk)[p]
    BY <2>1 DEF PlayedBack
  <2> QED
    BY <1>1, <1>4, <2>2 DEF KeptCommitted
<1> QED
  BY <1>3, <1>4

(* Whatever part of the unsynced writes a loss of power leaves on the disk, the *)
(* next reader finds the last committed version, or the one before it.          *)
THEOREM RecoverableHolds == Spec => []Recoverable
<1>1. Inductive => Recoverable
  BY SurvivorsRead DEF Recoverable
<1> QED
  BY <1>1, PagerInductive, PTL

-----------------------------------------------------------------------------
LEMMA QuietFrame ==
    ASSUME TypeOK, QuietStep
    PROVE  /\ previous' = previous
           /\ \E c \in Conns : \A d \in Conns \ {c} : state'[d] = state[d]
<1> USE DEF fileVars, journalVars, cacheVars, rekeyVars, keyVars, boundVars
<1> DEFINE Frame(c) == previous' = previous /\ \A d \in Conns \ {c} : state'[d] = state[d]
<1>a. LockTypes
  BY TypeParts
<1>1. ASSUME NEW c \in Conns, SharedLock(c) PROVE Frame(c)
  BY <1>a, <1>1 DEF LockTypes, SharedLock, Enter
<1>2. ASSUME NEW c \in Conns, HasHotJournal(c) PROVE Frame(c)
  BY <1>a, <1>2 DEF LockTypes, HasHotJournal, Enter
<1>3. ASSUME NEW c \in Conns, LockHotJournal(c) PROVE Frame(c)
  BY <1>a, <1>3 DEF LockTypes, LockHotJournal, Enter
<1>4. ASSUME NEW c \in Conns, HotJournalBusy(c) \/ EndRead(c) PROVE Frame(c)
  BY <1>a, <1>4 DEF LockTypes, HotJournalBusy, EndRead
<1>5. ASSUME NEW c \in Conns, PlaybackEnd(c) PROVE Frame(c)
  BY <1>a, <1>5 DEF LockTypes, PlaybackEnd, Enter
<1>6. ASSUME NEW c \in Conns, BeginWrite(c) PROVE Frame(c)
  BY <1>a, <1>6 DEF LockTypes, BeginWrite, Reserve
<1>7. ASSUME NEW c \in Conns, CommitPhaseOne(c) PROVE Frame(c)
  BY <1>a, <1>7 DEF LockTypes, CommitPhaseOne
<1>8. ASSUME NEW c \in Conns, SyncDatabase(c) PROVE Frame(c)
  BY <1>a, <1>8 DEF LockTypes, SyncDatabase
<1>10. ASSUME NEW c \in Conns, PagerRollback(c), UNCHANGED <<fileVars, writeKey, previous>> PROVE Frame(c)
  BY <1>a, <1>10 DEF LockTypes, PagerRollback, EndTransaction
<1>11. ASSUME NEW c \in Conns, UndoEnd(c) PROVE Frame(c)
  BY <1>a, <1>11 DEF LockTypes, UndoEnd, EndTransaction
<1>12. ASSUME NEW c \in Conns, NEW k \in Keys, Rekey(c, k) PROVE Frame(c)
  BY <1>a, <1>12 DEF LockTypes, Rekey, Reserve
<1>13. ASSUME NEW c \in Conns, RekeyCommitFails(c) PROVE Frame(c)
  BY <1>a, <1>13 DEF LockTypes, RekeyCommitFails
<1>14. ASSUME NEW c \in Conns, PlaybackFails(c) \/ SpillFails(c) PROVE Frame(c)
  BY <1>a, <1>14 DEF LockTypes, PlaybackFails, SpillFails
<1>15. ASSUME NEW c \in Conns, CommitPhaseTwoFails(c) PROVE Frame(c)
  BY <1>a, <1>15 DEF LockTypes, CommitPhaseTwoFails
<1>16. ASSUME NEW c \in Conns, PagerUnlock(c) PROVE Frame(c)
  BY <1>a, <1>16 DEF LockTypes, PagerUnlock, Drop
<1>17. ASSUME NEW c \in Conns, Close(c) \/ Crash(c) PROVE Frame(c)
  BY <1>a, <1>17 DEF LockTypes, Close, Crash, Forget, Drop
<1>18. ASSUME NEW c \in Conns, NEW k \in Keys, Open(c, k) PROVE Frame(c)
  BY <1>a, <1>18 DEF LockTypes, Open
<1>19. ASSUME NEW c \in Conns, NEW p \in Pages, PlaybackOnePage(c, p) PROVE Frame(c)
  BY <1>a, <1>19 DEF LockTypes, PlaybackOnePage
<1>20. ASSUME NEW c \in Conns, NEW p \in Pages, ReadPage(c, p) PROVE Frame(c)
  BY <1>a, <1>20 DEF LockTypes, ReadPage
<1>21. ASSUME NEW c \in Conns, NEW p \in Pages, WritePage(c, p) PROVE Frame(c)
  BY <1>a, <1>21 DEF LockTypes, WritePage
<1>22. ASSUME NEW c \in Conns, NEW p \in Pages, WriteBack(c, p) PROVE Frame(c)
  BY <1>a, <1>22 DEF LockTypes, WriteBack
<1>23. ASSUME NEW c \in Conns, NEW p \in Pages, Spill(c, p) PROVE Frame(c)
  BY <1>a, <1>23 DEF LockTypes, Spill
<1>24. ASSUME NEW c \in Conns, NEW p \in Pages, UndoPage(c, p) PROVE Frame(c)
  BY <1>a, <1>24 DEF LockTypes, UndoPage, UndoCache
<1> HIDE DEF Frame
<1>25. \E c \in Conns : Frame(c)
  BY <1>1, <1>2, <1>3, <1>4, <1>5, <1>6, <1>7, <1>8, <1>10, <1>11, <1>12, <1>13, <1>14, <1>15, <1>16, <1>17, <1>18, <1>19, <1>20, <1>21, <1>22, <1>23, <1>24 DEF QuietStep, Rollback, RekeyFails, RekeyEnds
<1> QED
  BY <1>25 DEF Frame

reading == {c \in Conns : state[c] \in InTransaction}

LEMMA QuietAtomic ==
    ASSUME Inductive, QuietStep
    PROVE  Atomic!Next
<1>1. TypeOK /\ Shapes /\ DiskShape /\ TransactionShape /\ CounterShape
  BY InductiveParts DEF Inductive
<1>2. CommittedBy' = CommittedBy /\ previous' = previous
  BY <1>1, CommittedStep, QuietFrame DEF SameCommitted
<1>3. PICK c \in Conns : \A d \in Conns \ {c} : state'[d] = state[d]
  BY <1>1, QuietFrame
<1>4. CASE state'[c] \in InTransaction
  <2>1. reading' = reading \union {c}
    BY <1>3, <1>4 DEF reading
  <2>2. Atomic!Begin(c)
    BY <1>2, <2>1 DEF Atomic!Begin, reading
  <2> QED
    BY <2>2 DEF Atomic!Next
<1>5. CASE state'[c] \notin InTransaction
  <2>1. reading' = reading \ {c}
    BY <1>3, <1>5 DEF reading
  <2>2. Atomic!End({c})
    BY <1>2, <2>1 DEF Atomic!End, reading
  <2> QED
    BY <2>2 DEF Atomic!Next
<1> QED
  BY <1>4, <1>5

(* Nobody reads while the journal of a commit is deleted; what was written is   *)
(* what the transaction has named.                                              *)
LEMMA CommitAtomic ==
    ASSUME Inductive, NEW c \in Conns, CommitPhaseTwo(c)
    PROVE  Atomic!Next
<1>1. /\ TypeOK /\ LockTypes /\ Locks /\ FileTypes /\ CacheTypes /\ JournalShapeOf(c)
      /\ \A q \in Pages : TransactionShapeOf(c, q)
  BY TypeParts DEF Inductive, Locks, JournalShape, TransactionShape
<1>2. /\ state[c] = "finished" /\ state'[c] = "reader" /\ lock[c] = EXCLUSIVE
      /\ journal' = NoJournal /\ disk' = disk /\ previous' = CommittedBy
      /\ \A d \in Conns \ {c} : state'[d] = state[d]
  BY <1>1 DEF CommitPhaseTwo, DeleteJournal, LockTypes, Locks, StateLocks, fileVars
<1>3. \A d \in Conns \ {c} : state[d] \notin InTransaction
  BY <1>1, <1>2, OnlyWriter DEF InTransaction, Writing, RESERVED, EXCLUSIVE
<1>4. reading = {c} /\ reading' = reading
  BY <1>2, <1>3 DEF reading, InTransaction, Writing
<1> DEFINE W == {q \in Pages : disk[q].by = txn[c]}
<1>5. CommittedBy' = [q \in Pages |-> disk[q].by]
  BY <1>2 DEF CommittedBy, Committed, PlayedBack, NoJournal
<1>6. ASSUME NEW q \in Pages
      PROVE  disk[q].by = IF q \in W THEN txn[c] ELSE CommittedBy[q]
  <2>1. CASE q \in journal.counted
    BY <1>1, <1>2, <2>1, CommittedAt DEF TransactionShapeOf, Versioned, Changing
  <2>2. CASE q \notin journal.counted
    BY <2>2, CommittedAt
  <2> QED
    BY <2>1, <2>2
<1>7. CommittedBy' = [q \in Pages |-> IF q \in W THEN txn[c] ELSE CommittedBy[q]]
  BY <1>5, <1>6
<1>8. txn[c] \in Txns /\ W \in SUBSET Pages
  BY <1>1 DEF CacheTypes
<1>9. Atomic!Commit(c, txn[c], W)
  BY <1>2, <1>4, <1>7 DEF Atomic!Commit, reading
<1> QED
  BY <1>8, <1>9 DEF Atomic!Next

LEMMA PowerLossAtomic ==
    ASSUME Inductive, PowerLoss
    PROVE  Atomic!Next
<1>1. PICK d \in Survivors, j \in kept : disk' = d /\ journal' = j
  BY DEF PowerLoss
<1>2. CommittedBy' = [p \in Pages |-> PlayedBack(j, d)[p].by]
  BY <1>1 DEF CommittedBy, Committed
<1>3. CommittedBy' \in {CommittedBy, previous}
  BY <1>2, SurvivorsRead
<1>4. previous' = CommittedBy' /\ \A c \in Conns : state'[c] = "closed"
  BY DEF PowerLoss, Forget
<1>5. reading' = {}
  BY <1>4 DEF reading, InTransaction, Writing
<1>6. Atomic!PowerLoss
  BY <1>3, <1>4, <1>5 DEF Atomic!PowerLoss, reading
<1> QED
  BY <1>6 DEF Atomic!Next

LEMMA AtomicStep ==
    ASSUME Inductive, [Next]_vars
    PROVE  [Atomic!Next]_(Atomic!vars)
<1>1. CASE Next
  BY <1>1, NextParts, QuietAtomic, CommitAtomic, PowerLossAtomic
<1>2. CASE UNCHANGED vars
  <2>1. UNCHANGED <<disk, journal, state, previous>>
    BY <1>2 DEF vars, fileVars, journalVars
  <2> QED
    BY <2>1 DEF Atomic!vars, CommittedBy, Committed, PlayedBack
<1> QED
  BY <1>1, <1>2

LEMMA InitAtomic == Init => Atomic!Init
<1> SUFFICES ASSUME Init PROVE Atomic!Init
  OBVIOUS
<1>1. journal.counted = {} /\ \A q \in Pages : disk[q].by = 0
  BY DEF Init, NoJournal
<1>2. \A q \in Pages : CommittedBy[q] = 0
  BY <1>1, CommittedAt
<1>3. CommittedBy = [q \in Pages |-> 0] /\ previous = CommittedBy
  BY <1>2 DEF CommittedBy, Init
<1>4. {c \in Conns : state[c] \in InTransaction} = {}
  BY DEF Init, InTransaction, Writing
<1> QED
  BY <1>3, <1>4 DEF Atomic!Init

(* The pagers implement the atomic file: a commit replaces in one step what the *)
(* transaction wrote, while nobody reads; nothing else that a connection does,  *)
(* no error and no process that dies changes what is read, and a loss of power  *)
(* takes back the last commit at most.                                          *)
THEOREM PagerImplementsAtomicFile == Spec => ImplementsAtomicFile
<1>1. Inductive /\ [Next]_vars => [Atomic!Next]_(Atomic!vars)
  BY AtomicStep
<1> QED
  BY <1>1, InitAtomic, PagerInductive, PTL DEF Spec, ImplementsAtomicFile, Atomic!Spec

=============================================================================
