------------------------------ MODULE PagerKeys ------------------------------
(* Which key the pages are encrypted with: theorems about PRAGMA rekey, for     *)
(* any connections, pages, keys and bounds.                                     *)
EXTENDS PagerProofs

SameKeys == \A q \in Pages : Committed'[q].key = Committed[q].key

LEMMA SameKey ==
    ASSUME SameKeys
    PROVE  CommittedKey' = CommittedKey /\ (CommittedOfOneKey => CommittedOfOneKey')
  BY PageOneAssumption DEF SameKeys, CommittedKey, CommittedOfOneKey

(* Changes of the journal and of the file that leave the key of what is         *)
(* committed: those of pages whose original is counted, ...                     *)
LEMMA KeysOfCounted ==
    ASSUME journal'.counted = journal.counted,
           \A q \in journal.counted : journal'.record[q] = journal.record[q],
           \A q \in Pages : q \notin journal.counted => disk'[q] = disk[q]
    PROVE  SameKeys
  BY CommittedAt, CommittedAtNext DEF SameKeys

(* ... the deletion of a journal that was played back, ...                      *)
LEMMA KeysOfPlayedBack ==
    ASSUME journal' = NoJournal, disk' = disk,
           \A q \in journal.counted : disk[q] = journal.record[q]
    PROVE  SameKeys /\ \A q \in Pages : Committed[q] = disk[q]
<1>1. \A q \in Pages : Committed'[q] = disk[q]
  BY CommittedAtNext DEF NoJournal
<1>2. \A q \in Pages : Committed[q] = disk[q]
  BY CommittedAt
<1> QED
  BY <1>1, <1>2 DEF SameKeys

(* ... and the records that are counted now, with the key of the file.          *)
LEMMA KeysOfRecorded ==
    ASSUME journal.counted \subseteq journal'.counted, journal'.counted \subseteq Pages,
           \A q \in journal.counted : journal'.record[q] = journal.record[q],
           \A q \in journal'.counted \ journal.counted : journal'.record[q].key = disk[q].key,
           \A q \in Pages : q \notin journal'.counted => disk'[q] = disk[q]
    PROVE  SameKeys
  BY CommittedAt, CommittedAtNext DEF SameKeys

-----------------------------------------------------------------------------
(* The versions that a loss of power may bring back.                            *)
LEMMA KeptKeys ==
    ASSUME KeyShape,
           journal'.counted = {} =>
               /\ journal.counted = {} /\ disk' = disk
               /\ \A j \in kept' : j \in kept \/ j.counted = {}
    PROVE  KeptOfOneKey'
<1> SUFFICES ASSUME journal'.counted = {}, NEW j \in kept', NEW p \in Pages
             PROVE  PlayedBack(j, disk)[p].key = PlayedBack(j, disk)[PageOne].key
  BY DEF KeptOfOneKey, PlayedBack
<1>1. CASE j \in kept
  BY <1>1 DEF KeyShape, KeptOfOneKey
<1>2. CASE j.counted = {}
  <2>1. \A q \in Pages : PlayedBack(j, disk)[q] = Committed[q]
    BY <1>2, CommittedAt DEF PlayedBack
  <2> QED
    BY <2>1, PageOneAssumption DEF KeyShape, CommittedOfOneKey, CommittedKey
<1> QED
  BY <1>1, <1>2

LEMMA KeptKeysDeleted ==
    ASSUME KeyShape, KeptSameEffect, DeleteJournal, disk' = disk,
           \A q \in Pages : disk[q].key = disk[PageOne].key
    PROVE  KeptOfOneKey' /\ CommittedOfOneKey' /\ CommittedKey' = disk[PageOne].key
<1>0. \A q \in Pages : Committed'[q] = disk[q]
  BY CommittedAtNext DEF DeleteJournal, NoJournal
<1>1. CommittedOfOneKey' /\ CommittedKey' = disk[PageOne].key
  BY <1>0, PageOneAssumption DEF CommittedOfOneKey, CommittedKey
<1>2. ASSUME NEW j \in kept', NEW p \in Pages
      PROVE  PlayedBack(j, disk)[p].key = PlayedBack(j, disk)[PageOne].key
  <2>1. CASE j = NoJournal
    BY <2>1, PageOneAssumption DEF NoJournal, PlayedBack
  <2>2. CASE j \in kept /\ journal.counted # {}
    <3>1. PlayedBack(j, disk) = Committed
      BY <2>2, SameEffectCommits DEF KeptSameEffect
    <3> QED
      BY <3>1 DEF KeyShape, CommittedOfOneKey, CommittedKey
  <2>3. CASE j \in kept /\ journal.counted = {}
    BY <2>3 DEF KeyShape, KeptOfOneKey
  <2> QED
    BY <2>1, <2>2, <2>3 DEF DeleteJournal
<1>3. KeptOfOneKey'
  BY <1>2 DEF KeptOfOneKey, PlayedBack
<1> QED
  BY <1>1, <1>3

(* Whatever a loss of power leaves has one key.                                 *)
LEMMA SurvivorsOfOneKey ==
    ASSUME Inductive, KeyShape, NEW d \in Survivors, NEW j \in kept, NEW p \in Pages
    PROVE  PlayedBack(j, d)[p].key = PlayedBack(j, d)[PageOne].key
<1>1. UncountedSynced /\ KeptSameEffect /\ FileTypes
  BY TypeParts DEF Inductive, DiskShape
<1>2. \A q \in Pages : d[q] \in durable[q]
  BY DEF Survivors
<1>3. CASE journal.counted # {}
  <2>1. SameEffect(j)
    BY <1>1, <1>3 DEF KeptSameEffect
  <2>2. \A q \in Pages : PlayedBack(j, d)[q] = Committed[q]
    BY <1>1, <1>2, <2>1, CommittedAt DEF UncountedSynced, SameEffect, PlayedBack
  <2> QED
    BY <2>2, PageOneAssumption DEF KeyShape, CommittedOfOneKey, CommittedKey
<1>4. CASE journal.counted = {}
  <2>1. \A q \in Pages : d[q] = disk[q]
    BY <1>1, <1>2, <1>4 DEF UncountedSynced
  <2>2. \A q \in Pages : PlayedBack(j, d)[q] = PlayedBack(j, disk)[q]
    BY <2>1 DEF PlayedBack
  <2> QED
    BY <1>4, <2>2, PageOneAssumption DEF KeyShape, KeptOfOneKey
<1> QED
  BY <1>3, <1>4

-----------------------------------------------------------------------------
(* What the steps need of the invariant.                                        *)
LEMMA KeysParts ==
    ASSUME Inductive, KeyShape
    PROVE  /\ Shapes /\ DiskShape /\ TransactionShape /\ CounterShape
           /\ TypeOK /\ LockTypes /\ FileTypes /\ CacheTypes /\ Locks /\ JournalShape
           /\ KeptSameEffect
           /\ journal \in Journals /\ journal.counted \subseteq Recorded(journal)
           /\ Recorded(journal) \subseteq Pages
           /\ \A c \in Conns : /\ CacheShapeOf(c) /\ JournalShapeOf(c) /\ DiskShapeOf(c)
                               /\ KeyShapeOf(c)
<1>1. /\ Shapes /\ DiskShape /\ TransactionShape /\ CounterShape
      /\ TypeOK /\ LockTypes /\ FileTypes /\ CacheTypes /\ Locks /\ JournalShape /\ CacheShape
  BY InductiveParts, ShapesParts
<1>2. journal \in Journals /\ journal.counted \subseteq Recorded(journal)
      /\ Recorded(journal) \subseteq Pages
  BY <1>1 DEF FileTypes, Journals, Recorded
<1> QED
  BY <1>1, <1>2 DEF DiskShape, CacheShape, JournalShape, KeyShape

(* A writer reads with the key of what is committed, and keeps it in the        *)
(* journal.                                                                     *)
LEMMA WriterKey ==
    ASSUME Inductive, KeyShape, NEW c \in Conns, state[c] \in Reading
    PROVE  /\ readKey[c] # NoKey /\ readKey[c] = CommittedKey
           /\ \A q \in Pages : q \notin journal.counted => disk[q].key = readKey[c]
<1>1. CacheShapeOf(c) /\ KeyShapeOf(c)
  BY KeysParts
<1>2. readKey[c] # NoKey
  BY <1>1 DEF CacheShapeOf, Reading, Changing
<1>3. readKey[c] = CommittedKey
  BY <1>1, <1>2 DEF KeyShapeOf
<1> QED
  BY <1>2, <1>3, CommittedAt DEF KeyShape, CommittedOfOneKey

LEMMA RecordsOfKey ==
    ASSUME Inductive, KeyShape, NEW c \in Conns, NEW p \in Pages,
           state[c] \in {"locked", "cachemod", "dbmod"},
           NEW j \in {NewJournal, journal},
           IF state[c] = "locked" THEN j = NewJournal ELSE j = journal,
           NEW q \in Recorded(WithOriginal(j, c, p))
    PROVE  WithOriginal(j, c, p).record[q].key = readKey[c]
<1>1. journal \in Journals /\ KeyShapeOf(c)
  BY KeysParts
<1>2. j \in Journals
  BY <1>1, NewJournalTypes
<1>3. \A r \in Recorded(j) : j.record[r].key = readKey[c]
  <2>1. CASE state[c] = "locked"
    BY <2>1 DEF NewJournal, Recorded, Empty
  <2>2. CASE state[c] # "locked"
    BY <1>1, <2>2 DEF KeyShapeOf, Changing
  <2> QED
    BY <2>1, <2>2
<1>4. q \in Pages /\ WithOriginal(j, c, p).record[q] # NoPage
  BY DEF Recorded
<1>5. CASE q # p \/ j.record[p] # NoPage
  <2>1. WithOriginal(j, c, p).record[q] = j.record[q]
    BY <1>2, <1>4, <1>5, RecordFacts DEF WithOriginal
  <2> QED
    BY <1>3, <1>4, <2>1 DEF Recorded
<1>6. CASE q = p /\ j.record[p] = NoPage
  <2>1. WithOriginal(j, c, p).record[q] = Original(c, p)
    BY <1>2, <1>6, RecordFacts
  <2> QED
    BY <2>1 DEF Original
<1> QED
  BY <1>5, <1>6

(* What a step of c leaves of KeyShape for another connection.                  *)
LEMMA KeysOfOthers ==
    ASSUME LockTypes, Locks, KeyShape, NEW c \in Conns, OthersKeep(c),
           NEW d \in Conns, c # d, writeKey'[d] = writeKey[d],
           d \in rekeying' <=> d \in rekeying,
           \/ /\ SameKeys
              /\ \/ UNCHANGED <<disk, journal>>
                 \/ lock[c] >= RESERVED
                 \/ MayExclude(c)
           \/ lock[c] = EXCLUSIVE
    PROVE  KeyShapeOf(d)'
<1> USE DEF OthersKeep
<1>1. KeyShapeOf(d)
  BY DEF KeyShape
<1>2. CASE SameKeys /\ UNCHANGED <<disk, journal>>
  <2>1. CommittedKey' = CommittedKey
    BY <1>2, SameKey
  <2> QED
    BY <1>1, <1>2, <2>1 DEF KeyShapeOf, Pending, Recorded
<1>3. CASE SameKeys /\ (lock[c] >= RESERVED \/ MayExclude(c))
  <2>1. CommittedKey' = CommittedKey
    BY <1>3, SameKey
  <2>2. state[d] \notin Changing
    <3>1. CASE lock[c] >= RESERVED
      BY <3>1, OnlyWriter DEF Changing, Writing
    <3>2. CASE MayExclude(c)
      BY <3>2 DEF MayExclude, Others, Locks, StateLocks, Changing,
                  NO_LOCK, SHARED, RESERVED, PENDING, EXCLUSIVE
    <3> QED
      BY <1>3, <3>1, <3>2
  <2> QED
    BY <1>1, <2>1, <2>2 DEF KeyShapeOf, Changing
<1>4. CASE lock[c] = EXCLUSIVE
  <2>1. state[d] \in {"closed", "open", "error"}
    BY <1>4, OnlyWriter DEF RESERVED, EXCLUSIVE
  <2> QED
    BY <1>1, <2>1 DEF KeyShapeOf, Reading, Changing
<1> QED
  BY <1>2, <1>3, <1>4

(* Whoever enters a read transaction has the key of the file.                   *)
LEMMA EnterKeys ==
    ASSUME Inductive, KeyShape, NEW c \in Conns, Enter(c), UNCHANGED <<writeKey, rekeying>>,
           state[c] \in {"open", "sharing", "hot", "playback"},
           CommittedKey' = disk[PageOne].key
    PROVE  KeyShapeOf(c)'
<1> DEFINE current == VersionOf(disk[PageOne])
           valid == ValidCache(c)
           readable == valid[PageOne] # NoPage \/ current.key = readKey[c]
<1>1. TypeOK /\ CacheShapeOf(c) /\ KeyShapeOf(c)
  BY KeysParts
<1>2. CASE readable
  <2>1. /\ state'[c] = "reader" /\ readKey'[c] = readKey[c] /\ writeKey'[c] = writeKey[c]
        /\ version'[c] = current
    BY <1>1, <1>2 DEF Enter, TypeOK
  <2>2. readKey[c] = disk[PageOne].key
    <3>1. CASE valid[PageOne] # NoPage
      <4>1. version[c] = current /\ cache[c] # Empty
        BY <3>1, PageOneAssumption DEF ValidCache, Empty
      <4>2. version[c].key = readKey[c]
        BY <1>1, <4>1 DEF CacheShapeOf, KeyShapeOf, Reading, Changing
      <4> QED
        BY <4>1, <4>2 DEF VersionOf
    <3>2. CASE current.key = readKey[c]
      BY <3>2 DEF VersionOf
    <3> QED
      BY <1>2, <3>1, <3>2
  <2> QED
    BY <1>1, <2>1, <2>2 DEF KeyShapeOf, VersionOf, Changing
<1>3. CASE ~readable
  <2>1. state'[c] = "open" /\ readKey'[c] = NoKey
    BY <1>1, <1>3 DEF Enter, TypeOK
  <2> QED
    BY <2>1 DEF KeyShapeOf, Changing
<1> QED
  BY <1>2, <1>3

(* Only the deletion of the journal at the end of a commit, and a loss of       *)
(* power, change the key of what is committed.                                  *)
LEMMA SameKeysStep ==
    ASSUME Inductive, KeyShape, QuietStep \/ UNCHANGED vars
    PROVE  SameKeys
<1> USE DEF fileVars, journalVars, cacheVars, rekeyVars, keyVars, boundVars
<1>a. TypeOK /\ FileTypes /\ Locks /\ JournalShape
  BY KeysParts
<1>b. journal \in Journals /\ journal.counted \subseteq Recorded(journal) /\ Recorded(journal) \subseteq Pages
  BY KeysParts
<1>c. \A c \in Conns : JournalShapeOf(c) /\ CacheShapeOf(c) /\ DiskShapeOf(c) /\ KeyShapeOf(c)
  BY KeysParts
<1>1. ASSUME UNCHANGED <<disk, journal>> PROVE SameKeys
  BY <1>1, KeysOfCounted
<1>2. ASSUME NEW c \in Conns, SharedLock(c) \/ HasHotJournal(c) \/ LockHotJournal(c) PROVE SameKeys
  BY <1>1, <1>2 DEF SharedLock, HasHotJournal, LockHotJournal, Enter
<1>3. ASSUME NEW c \in Conns, HotJournalBusy(c) \/ EndRead(c) \/ BeginWrite(c) \/ SyncDatabase(c) PROVE SameKeys
  BY <1>1, <1>3 DEF HotJournalBusy, EndRead, BeginWrite, SyncDatabase
<1>4. ASSUME NEW c \in Conns, PlaybackEnd(c) \/ UndoEnd(c) PROVE SameKeys
  <2>1. \A q \in journal.counted : disk[q] = journal.record[q]
    BY <1>c, <1>4 DEF PlaybackEnd, UndoEnd, DiskShapeOf
  <2> QED
    BY <1>4, <2>1, KeysOfPlayedBack DEF PlaybackEnd, UndoEnd, DeleteJournal
<1>5. ASSUME NEW c \in Conns, CommitPhaseOne(c) PROVE SameKeys
  <2> DEFINE counted == WithOriginal(journal, c, PageOne)
  <2>1. state[c] \in {"cachemod", "dbmod"} /\ disk' = disk
    BY <1>5 DEF CommitPhaseOne
  <2>2. /\ counted.counted = journal.counted
        /\ \A q \in journal.counted : counted.record[q] = journal.record[q]
        /\ Recorded(journal) \subseteq Recorded(counted) /\ Recorded(counted) \subseteq Pages
    BY <1>b, RecordFacts, RecordsKept, PageOneAssumption
  <2>3. CASE MayExclude(c)
    <3>1. journal' = AllCounted(counted)
      BY <1>5, <2>3 DEF CommitPhaseOne, SyncJournal
    <3>2. journal'.counted = Recorded(counted) /\ journal'.record = counted.record
      BY <1>b, <3>1 DEF AllCounted, WithOriginal, Journals
    <3>3. ASSUME NEW q \in journal'.counted \ journal.counted
          PROVE  journal'.record[q].key = disk[q].key
      BY <1>b, <2>1, <2>2, <3>2, <3>3, RecordsOfKey, WriterKey, PageOneAssumption
         DEF Reading, Changing
    <3> QED
      BY <1>b, <2>1, <2>2, <3>2, <3>3, KeysOfRecorded
  <2>4. CASE ~MayExclude(c)
    BY <1>5, <2>1, <2>2, <2>4, KeysOfCounted DEF CommitPhaseOne
  <2> QED
    BY <2>3, <2>4
<1>6. ASSUME NEW c \in Conns, PagerRollback(c), UNCHANGED fileVars PROVE SameKeys
  BY <1>1, <1>6 DEF PagerRollback
<1>7. ASSUME NEW c \in Conns, \E k \in Keys : Rekey(c, k) \/ Open(c, k) PROVE SameKeys
  BY <1>1, <1>7 DEF Rekey, Open
<1>8. ASSUME NEW c \in Conns,
             \/ RekeyCommitFails(c) \/ PlaybackFails(c) \/ SpillFails(c) \/ CommitPhaseTwoFails(c)
             \/ PagerUnlock(c) \/ Close(c) \/ Crash(c)
      PROVE  SameKeys
  BY <1>1, <1>8 DEF RekeyCommitFails, PlaybackFails, SpillFails, CommitPhaseTwoFails,
     PagerUnlock, Close, Crash
<1>9. ASSUME NEW c \in Conns, NEW p \in Pages, PlaybackOnePage(c, p) \/ WriteBack(c, p) PROVE SameKeys
  <2>1. p \in journal.counted /\ UNCHANGED journal /\ \A q \in Pages : q # p => disk'[q] = disk[q]
    BY <1>a, <1>c, <1>9 DEF PlaybackOnePage, WriteBack, WriteDisk, FileTypes, JournalShapeOf, Changing
  <2> QED
    BY <2>1, KeysOfCounted
<1>10. ASSUME NEW c \in Conns, NEW p \in Pages, ReadPage(c, p) PROVE SameKeys
  BY <1>1, <1>10 DEF ReadPage
<1>11. ASSUME NEW c \in Conns, NEW p \in Pages, WritePage(c, p) PROVE SameKeys
  <2>1. CASE state[c] = "locked"
    <3>1. journal' = WithOriginal(NewJournal, c, p) /\ disk' = disk
      BY <1>11, <2>1 DEF WritePage
    <3>2. journal'.counted = {}
      BY <3>1, RecordFacts, NewJournalTypes DEF NewJournal
    <3>3. journal.counted = {}
      BY <1>a, <1>c, <2>1 DEF JournalShapeOf, Locks, StateLocks
    <3> QED
      BY <3>1, <3>2, <3>3, KeysOfCounted
  <2>2. CASE state[c] # "locked"
    <3>1. journal' = WithOriginal(journal, c, p) /\ disk' = disk
      BY <1>11, <2>2 DEF WritePage
    <3>2. journal'.counted = journal.counted
          /\ \A q \in journal.counted : journal'.record[q] = journal.record[q]
      BY <1>b, <3>1, RecordFacts, RecordsKept
    <3> QED
      BY <3>1, <3>2, KeysOfCounted
  <2> QED
    BY <2>1, <2>2
<1>12. ASSUME NEW c \in Conns, NEW p \in Pages, Spill(c, p) PROVE SameKeys
  <2>1. CASE MayExclude(c)
    <3>1. journal' = AllCounted(journal) /\ state[c] \in {"cachemod", "dbmod"} /\ p \in dirty[c]
          /\ (\A q \in Pages : q # p => disk'[q] = disk[q])
      BY <1>a, <1>12, <2>1 DEF Spill, SyncJournal, WriteDisk, FileTypes
    <3>2. journal'.counted = Recorded(journal) /\ journal'.record = journal.record
      BY <1>b, <3>1, RecordFacts
    <3>3. p \in journal'.counted
      BY <1>c, <3>1, <3>2 DEF JournalShapeOf, Changing
    <3>4. \A q \in journal'.counted \ journal.counted : journal'.record[q].key = disk[q].key
      BY <1>b, <1>c, <3>1, <3>2, WriterKey DEF KeyShapeOf, Reading, Changing
    <3> QED
      <4>1. \A q \in Pages : q \notin journal'.counted => disk'[q] = disk[q]
        BY <3>1, <3>3
      <4> QED
        BY <1>b, <3>2, <3>4, <4>1, KeysOfRecorded
  <2>2. CASE ~MayExclude(c)
    BY <1>1, <1>12, <2>2 DEF Spill
  <2> QED
    BY <2>1, <2>2
<1>13. ASSUME NEW c \in Conns, NEW p \in Pages, UndoPage(c, p) PROVE SameKeys
  <2>1. CASE p \in journal.counted
    <3>1. UNCHANGED journal /\ \A q \in Pages : q # p => disk'[q] = disk[q]
      BY <1>a, <1>13, <2>1 DEF UndoPage, WriteDisk, FileTypes
    <3> QED
      BY <2>1, <3>1, KeysOfCounted
  <2>2. CASE p \notin journal.counted
    BY <1>1, <1>13, <2>2 DEF UndoPage
  <2> QED
    BY <2>1, <2>2
<1>14. CASE UNCHANGED vars
  BY <1>1, <1>14 DEF vars
<1> QED
  BY <1>2, <1>3, <1>4, <1>5, <1>6, <1>7, <1>8, <1>9, <1>10, <1>11, <1>12, <1>13, <1>14
     DEF QuietStep, Rollback, RekeyFails, RekeyEnds

-----------------------------------------------------------------------------
(* A step of c leaves the other connections as they are, and their keys.        *)
OthersKeepKeys(c) ==
    /\ OthersKeep(c)
    /\ \A d \in Conns \ {c} :
           writeKey'[d] = writeKey[d] /\ (d \in rekeying' <=> d \in rekeying)

LEMMA OneConnectionStep ==
    ASSUME Inductive, KeyShape, NEW c \in Conns, OthersKeepKeys(c), SameKeys,
           KeptOfOneKey', KeyShapeOf(c)',
           \/ UNCHANGED <<disk, journal>>
           \/ lock[c] >= RESERVED
           \/ MayExclude(c)
    PROVE  KeyShape'
<1>1. LockTypes /\ Locks
  BY KeysParts
<1>2. ASSUME NEW d \in Conns, d # c PROVE KeyShapeOf(d)'
  <2>1. OthersKeep(c) /\ writeKey'[d] = writeKey[d] /\ (d \in rekeying' <=> d \in rekeying)
    BY <1>2 DEF OthersKeepKeys
  <2> QED
    BY <1>1, <1>2, <2>1, KeysOfOthers
<1>3. CommittedOfOneKey'
  BY SameKey DEF KeyShape
<1> QED
  BY <1>2, <1>3 DEF KeyShape

(* The steps of a connection that is not in a write transaction.                *)
LEMMA ReadingKeys ==
    ASSUME Inductive, KeyShape, NEW c \in Conns,
           \/ SharedLock(c) \/ HasHotJournal(c) \/ LockHotJournal(c) \/ HotJournalBusy(c)
           \/ PlaybackEnd(c) \/ EndRead(c)
           \/ \E p \in Pages : PlaybackOnePage(c, p) \/ ReadPage(c, p)
    PROVE  KeyShape'
<1> USE DEF fileVars, journalVars, cacheVars, rekeyVars, keyVars, boundVars
<1>a. TypeOK /\ Locks /\ JournalShape /\ KeptSameEffect /\ LockTypes
  BY KeysParts
<1>b. JournalShapeOf(c) /\ CacheShapeOf(c) /\ DiskShapeOf(c) /\ KeyShapeOf(c)
  BY KeysParts
<1>c. SameKeys /\ CommittedKey' = CommittedKey
  <2>1. QuietStep
    BY DEF QuietStep
  <2> QED
    BY <2>1, SameKeysStep, SameKey
<1>1. CASE SharedLock(c)
  <2>1. OthersKeepKeys(c) /\ UNCHANGED <<disk, journal, kept>>
    BY <1>a, <1>1 DEF TypeOK, OthersKeepKeys, OthersKeep, SharedLock, Enter
  <2>2. KeptOfOneKey'
    BY <2>1, KeptKeys
  <2>3. KeyShapeOf(c)'
    <3>1. CASE journal.exists
      <4>1. /\ state[c] = "open" /\ state'[c] = "sharing"
            /\ UNCHANGED <<cache, version, readKey, writeKey, rekeying>>
        BY <1>a, <1>1, <3>1 DEF SharedLock, TypeOK
      <4> QED
        BY <1>b, <4>1 DEF KeyShapeOf, Reading, Changing
    <3>2. CASE ~journal.exists
      <4>1. Enter(c) /\ state[c] = "open" /\ UNCHANGED <<writeKey, rekeying>>
        BY <1>1, <3>2 DEF SharedLock
      <4>2. CommittedKey' = disk[PageOne].key
        BY <1>a, <1>c, <3>2, CommittedAt, PageOneAssumption
           DEF JournalShape, NoJournal, CommittedKey
      <4> QED
        BY <4>1, <4>2, EnterKeys
    <3> QED
      BY <3>1, <3>2
  <2> QED
    BY <1>c, <2>1, <2>2, <2>3, OneConnectionStep
<1>2. CASE HasHotJournal(c)
  <2>1. OthersKeepKeys(c) /\ UNCHANGED <<disk, journal, kept>>
    BY <1>a, <1>2 DEF TypeOK, OthersKeepKeys, OthersKeep, HasHotJournal, Enter
  <2>2. KeptOfOneKey'
    BY <2>1, KeptKeys
  <2>3. KeyShapeOf(c)'
    <3>1. CASE MayBeHot(c)
      <4>1. /\ state[c] = "sharing" /\ state'[c] = "hot"
            /\ UNCHANGED <<cache, version, readKey, writeKey, rekeying>>
        BY <1>a, <1>2, <3>1 DEF HasHotJournal, TypeOK
      <4> QED
        BY <1>b, <4>1 DEF KeyShapeOf, Reading, Changing
    <3>2. CASE ~MayBeHot(c)
      <4>1. Enter(c) /\ state[c] = "sharing" /\ UNCHANGED <<writeKey, rekeying>>
        BY <1>2, <3>2 DEF HasHotJournal
      <4>2. CommittedKey' = disk[PageOne].key
        BY <1>a, <1>c, <3>2, <4>1, NobodysJournal, CommittedAt, PageOneAssumption
           DEF CommittedKey
      <4> QED
        BY <4>1, <4>2, EnterKeys
    <3> QED
      BY <3>1, <3>2
  <2> QED
    BY <1>c, <2>1, <2>2, <2>3, OneConnectionStep
<1>3. CASE LockHotJournal(c)
  <2>1. OthersKeepKeys(c) /\ UNCHANGED <<disk, journal>> /\ kept' \in {kept, {journal}}
    BY <1>a, <1>3 DEF TypeOK, OthersKeepKeys, OthersKeep, LockHotJournal, Enter
  <2>2. KeptOfOneKey'
    BY <2>1, KeptKeys
  <2>3. KeyShapeOf(c)'
    <3>1. CASE journal.exists
      <4>1. /\ state[c] = "hot" /\ state'[c] = "playback" /\ cache'[c] \in {cache[c], Empty}
            /\ UNCHANGED <<version, readKey, writeKey, rekeying>>
        BY <1>a, <1>3, <3>1 DEF LockHotJournal, TypeOK
      <4> QED
        BY <1>b, <4>1 DEF KeyShapeOf, Reading, Changing
    <3>2. CASE ~journal.exists
      <4>1. Enter(c) /\ state[c] = "hot" /\ UNCHANGED <<writeKey, rekeying>>
        BY <1>3, <3>2 DEF LockHotJournal
      <4>2. CommittedKey' = disk[PageOne].key
        BY <1>a, <1>c, <3>2, CommittedAt, PageOneAssumption
           DEF JournalShape, NoJournal, CommittedKey
      <4> QED
        BY <4>1, <4>2, EnterKeys
    <3> QED
      BY <3>1, <3>2
  <2> QED
    BY <1>c, <2>1, <2>2, <2>3, OneConnectionStep
<1>4. CASE HotJournalBusy(c) \/ EndRead(c)
  <2>1. /\ OthersKeepKeys(c) /\ UNCHANGED <<disk, journal, kept>>
        /\ state[c] \in {"hot", "reader"} /\ state'[c] = "open"
        /\ UNCHANGED <<cache, version, readKey, writeKey, rekeying>>
    BY <1>a, <1>4 DEF TypeOK, OthersKeepKeys, OthersKeep, HotJournalBusy, EndRead
  <2>2. KeptOfOneKey'
    BY <2>1, KeptKeys
  <2>3. KeyShapeOf(c)'
    BY <1>b, <2>1 DEF KeyShapeOf, Reading, Changing
  <2> QED
    BY <1>c, <2>1, <2>2, <2>3, OneConnectionStep
<1>5. CASE PlaybackEnd(c)
  <2>1. /\ OthersKeepKeys(c) /\ disk' = disk /\ DeleteJournal
        /\ Enter(c) /\ state[c] = "playback" /\ UNCHANGED <<writeKey, rekeying>>
    BY <1>a, <1>5 DEF TypeOK, OthersKeepKeys, OthersKeep, PlaybackEnd, Enter
  <2>2. \A q \in Pages : Committed[q] = disk[q]
    BY <1>b, <1>5, CommittedAt DEF PlaybackEnd, DiskShapeOf
  <2>3. KeptOfOneKey' /\ CommittedKey' = disk[PageOne].key
    BY <1>a, <2>1, <2>2, KeptKeysDeleted, PageOneAssumption
       DEF KeyShape, CommittedOfOneKey, CommittedKey
  <2>4. KeyShapeOf(c)'
    BY <2>1, <2>3, EnterKeys
  <2>5. lock[c] >= RESERVED
    BY <1>a, <2>1 DEF Locks, StateLocks, RESERVED, EXCLUSIVE
  <2> QED
    BY <1>c, <2>1, <2>3, <2>4, <2>5, OneConnectionStep
<1>6. ASSUME NEW p \in Pages, PlaybackOnePage(c, p) PROVE KeyShape'
  <2>1. /\ OthersKeepKeys(c) /\ state[c] = "playback" /\ p \in journal.counted
        /\ UNCHANGED <<journal, kept, state, cache, version, readKey, writeKey, rekeying>>
    BY <1>a, <1>b, <1>6
       DEF TypeOK, OthersKeepKeys, OthersKeep, PlaybackOnePage, JournalShapeOf
  <2>2. KeptOfOneKey'
    BY <2>1, KeptKeys
  <2>3. KeyShapeOf(c)'
    BY <1>b, <2>1 DEF KeyShapeOf, Reading, Changing
  <2>4. lock[c] >= RESERVED
    BY <1>a, <2>1 DEF Locks, StateLocks, RESERVED, EXCLUSIVE
  <2> QED
    BY <1>c, <2>1, <2>2, <2>3, <2>4, OneConnectionStep
<1>7. ASSUME NEW p \in Pages, ReadPage(c, p) PROVE KeyShape'
  <2>1. /\ OthersKeepKeys(c) /\ state[c] \in {"reader", "locked", "cachemod", "dbmod"}
        /\ UNCHANGED <<disk, journal, kept, dirty, todo, version, writeKey, rekeying>>
    BY <1>a, <1>7 DEF TypeOK, OthersKeepKeys, OthersKeep, ReadPage
  <2>2. KeptOfOneKey'
    BY <2>1, KeptKeys
  <2>3. cache[c] # Empty
    BY <1>b, <2>1, PageOneAssumption DEF CacheShapeOf, Reading, Changing, Empty
  <2>4. \/ UNCHANGED <<state, readKey>>
        \/ state'[c] = "error" /\ readKey'[c] = NoKey
    BY <1>a, <1>7 DEF TypeOK, ReadPage
  <2>5. KeyShapeOf(c)'
    BY <1>b, <1>c, <2>1, <2>3, <2>4 DEF KeyShapeOf, Reading, Changing, Pending, Recorded
  <2> QED
    BY <1>c, <2>1, <2>2, <2>5, OneConnectionStep
<1> QED
  BY <1>1, <1>2, <1>3, <1>4, <1>5, <1>6, <1>7

(* The steps of a write transaction up to the deletion of its journal.          *)
LEMMA WritingKeys ==
    ASSUME Inductive, Inductive', KeyShape, ~misled', NEW c \in Conns,
           \/ BeginWrite(c) \/ CommitPhaseOne(c) \/ SyncDatabase(c)
           \/ \E p \in Pages : WritePage(c, p) \/ Spill(c, p) \/ WriteBack(c, p)
    PROVE  KeyShape'
<1> USE DEF fileVars, journalVars, cacheVars, rekeyVars, keyVars, boundVars
<1>a. TypeOK /\ Locks /\ JournalShape /\ LockTypes /\ FileTypes
  BY KeysParts
<1>b. JournalShapeOf(c) /\ CacheShapeOf(c) /\ KeyShapeOf(c)
  BY KeysParts
<1>c. SameKeys /\ CommittedKey' = CommittedKey
  <2>1. QuietStep
    BY DEF QuietStep
  <2> QED
    BY <2>1, SameKeysStep, SameKey
<1>d. journal \in Journals /\ Recorded(journal) \subseteq Pages
  BY KeysParts
<1>e. state[c] \in Reading => cache[c] # Empty /\ readKey[c] # NoKey /\ readKey[c] = CommittedKey
  BY <1>b, WriterKey, PageOneAssumption DEF CacheShapeOf, Empty
<1>f. state[c] \in Writing => lock[c] >= RESERVED
  BY <1>a DEF Locks, StateLocks, Writing, RESERVED, PENDING, EXCLUSIVE
<1>g. (journal' \in Journals) /\ JournalShapeOf(c)'
  BY InductiveParts, ShapesParts DEF Inductive, FileTypes, JournalShape, TypeOK
<1>1. CASE BeginWrite(c)
  <2>1. /\ OthersKeepKeys(c)
        /\ UNCHANGED <<disk, journal, kept, cache, dirty, version, readKey, writeKey, rekeying, todo>>
        /\ \/ state[c] = "reader" /\ state'[c] = "locked"
           \/ state[c] \in {"cachemod", "dbmod"} /\ UNCHANGED state
    BY <1>a, <1>1 DEF TypeOK, OthersKeepKeys, OthersKeep, BeginWrite, Reserve
  <2>2. KeptOfOneKey'
    BY <2>1, KeptKeys
  <2>3. KeyShapeOf(c)'
    BY <1>b, <1>c, <2>1 DEF KeyShapeOf, Reading, Changing, Pending, Recorded
  <2> QED
    BY <1>c, <2>1, <2>2, <2>3, OneConnectionStep
<1>2. CASE CommitPhaseOne(c)
  <2> DEFINE noted == WithOriginal(journal, c, PageOne)
  <2>1. /\ OthersKeepKeys(c) /\ UNCHANGED <<disk, version, writeKey>>
        /\ state[c] \in {"cachemod", "dbmod"} /\ dirty'[c] = dirty[c] \union {PageOne}
        /\ c \in rekeying => Recorded(journal) = Pages
    BY <1>a, <1>2 DEF TypeOK, OthersKeepKeys, OthersKeep, CommitPhaseOne, PagesToWrite, RekeyDone
  <2>2. /\ noted.counted = journal.counted /\ Recorded(journal) \subseteq Recorded(noted)
        /\ Recorded(noted) \subseteq Recorded(journal) \union {PageOne}
        /\ \A q \in Recorded(noted) : noted.record[q].key = readKey[c]
    BY <1>d, <2>1, RecordFacts, RecordsOfKey, PageOneAssumption
  <2>3. \A q \in Recorded(noted) : q \notin dirty'[c] => disk'[q].key = writeKey[c]
    BY <1>b, <2>1, <2>2 DEF KeyShapeOf, Changing, Pending
  <2>4. CASE MayExclude(c)
    <3>1. /\ journal' = AllCounted(noted) /\ state'[c] = "writing" /\ todo'[c] = dirty'[c]
          /\ UNCHANGED <<readKey, rekeying>>
      BY <1>a, <1>2, <2>4 DEF CommitPhaseOne, SyncJournal, TypeOK
    <3>2. Recorded(journal') = Recorded(noted) /\ journal'.record = noted.record
      BY <1>d, <3>1 DEF AllCounted, WithOriginal, Recorded, Journals
    <3>3. journal'.counted # {}
      BY <1>g, <3>1 DEF JournalShapeOf
    <3>4. KeptOfOneKey'
      BY <3>3, KeptKeys
    <3>5. \A q \in Recorded(journal') : journal'.record[q].key = readKey'[c]
      BY <2>2, <3>1, <3>2
    <3>6. \A q \in Recorded(journal') : q \notin Pending(c)' => disk'[q].key = writeKey'[c]
      BY <2>1, <2>3, <3>1, <3>2 DEF Pending
    <3>7. c \in rekeying' => Recorded(journal)' = Pages
      BY <2>1, <2>2, <3>1, <3>2, PageOneAssumption DEF Recorded
    <3>8. KeyShapeOf(c)'
      BY <1>b, <1>c, <1>e, <2>1, <3>1, <3>5, <3>6, <3>7
         DEF KeyShapeOf, Reading, Changing, Recorded
    <3> QED
      BY <1>c, <1>f, <2>1, <3>4, <3>8, OneConnectionStep DEF Writing
  <2>5. CASE ~MayExclude(c)
    <3>1. /\ journal' = noted /\ UNCHANGED <<kept, state, todo>>
          /\ rekeying' = rekeying \ {c} /\ misled' = (misled \/ c \in rekeying)
      BY <1>2, <2>5 DEF CommitPhaseOne, RekeyDone
    <3>2. c \notin rekeying /\ readKey'[c] = readKey[c]
      BY <1>a, <1>2, <2>5, <3>1 DEF CommitPhaseOne, RekeyDone, TypeOK
    <3>3. KeptOfOneKey'
      BY <2>1, <2>2, <3>1, KeptKeys
    <3>4. \A q \in Recorded(journal') : journal'.record[q].key = readKey'[c]
      BY <2>2, <3>1, <3>2
    <3>5. \A q \in Recorded(journal') : q \notin Pending(c)' => disk'[q].key = writeKey'[c]
      BY <2>1, <2>3, <3>1 DEF Pending
    <3>6. KeyShapeOf(c)'
      BY <1>b, <1>c, <1>e, <2>1, <3>1, <3>2, <3>4, <3>5
         DEF KeyShapeOf, Reading, Changing, Recorded
    <3> QED
      BY <1>c, <1>f, <2>1, <3>3, <3>6, OneConnectionStep DEF Writing
  <2> QED
    BY <2>4, <2>5
<1>3. CASE SyncDatabase(c)
  <2>1. /\ OthersKeepKeys(c) /\ state[c] = "writing" /\ state'[c] = "finished"
        /\ todo[c] = {} /\ dirty'[c] = {} /\ version'[c].key = disk[PageOne].key
        /\ UNCHANGED <<disk, journal, kept, readKey, writeKey, rekeying>>
    BY <1>a, <1>3 DEF TypeOK, OthersKeepKeys, OthersKeep, SyncDatabase, VersionOf
  <2>2. KeptOfOneKey'
    BY <2>1, KeptKeys
  <2>3. \A q \in Recorded(journal) : disk[q].key = writeKey[c]
    BY <1>b, <2>1 DEF KeyShapeOf, Changing, Pending
  <2>4. disk[PageOne].key = writeKey[c]
    BY <1>b, <2>1, <2>3 DEF JournalShapeOf
  <2>5. KeyShapeOf(c)'
    BY <1>b, <1>c, <1>e, <2>1, <2>3, <2>4 DEF KeyShapeOf, Reading, Changing, Pending, Recorded
  <2> QED
    BY <1>c, <1>f, <2>1, <2>2, <2>5, OneConnectionStep DEF Writing
<1>4. ASSUME NEW p \in Pages, WritePage(c, p) PROVE KeyShape'
  <2> DEFINE old == IF state[c] = "locked" THEN NewJournal ELSE journal
             noted == WithOriginal(old, c, p)
  <2>1. /\ OthersKeepKeys(c) /\ state[c] \in {"locked", "cachemod", "dbmod"}
        /\ UNCHANGED <<disk, version, readKey, writeKey, rekeying>>
        /\ journal' = noted /\ dirty'[c] = dirty[c] \union {p}
        /\ state'[c] \in {"cachemod", "dbmod"}
        /\ kept' \in {kept, kept \union {NewJournal}}
    BY <1>a, <1>4 DEF TypeOK, OthersKeepKeys, OthersKeep, WritePage
  <2>2. old \in {NewJournal, journal} /\ old \in Journals
        /\ IF state[c] = "locked" THEN old = NewJournal ELSE old = journal
    BY <1>d, NewJournalTypes
  <2>3. /\ noted.counted = old.counted /\ Recorded(noted) \subseteq Recorded(old) \union {p}
        /\ \A q \in Recorded(noted) : noted.record[q].key = readKey[c]
    BY <2>1, <2>2, RecordFacts, RecordsOfKey
  <2>4. old.counted = journal.counted
    BY <1>b, <1>a DEF JournalShapeOf, Locks, StateLocks, NewJournal
  <2>5. KeptOfOneKey'
    <3>1. \A j \in kept' : j \in kept \/ j.counted = {}
      BY <2>1 DEF NewJournal
    <3> QED
      BY <2>1, <2>3, <2>4, <3>1, KeptKeys
  <2>6. \A q \in Recorded(noted) : q \notin dirty'[c] => disk'[q].key = writeKey[c]
    <3>1. ASSUME NEW q \in Recorded(noted), q \notin dirty'[c]
          PROVE  disk'[q].key = writeKey[c]
      <4>1. q \in Recorded(old) /\ q \notin dirty[c]
        BY <2>1, <2>3, <3>1
      <4>2. state[c] # "locked" /\ q \in Recorded(journal)
        BY <4>1 DEF NewJournal, Recorded, Empty
      <4> QED
        BY <1>b, <2>1, <4>1, <4>2 DEF KeyShapeOf, Changing, Pending
    <3> QED
      BY <3>1
  <2>7. KeyShapeOf(c)'
    <3> HIDE DEF noted
    <3> QED
      BY <1>b, <1>c, <1>e, <2>1, <2>3, <2>6 DEF KeyShapeOf, Reading, Changing, Pending, Recorded
  <2> QED
    BY <1>c, <1>f, <2>1, <2>5, <2>7, OneConnectionStep DEF Writing
<1>5. ASSUME NEW p \in Pages, Spill(c, p) PROVE KeyShape'
  <2>1. /\ OthersKeepKeys(c) /\ state[c] \in {"cachemod", "dbmod"} /\ p \in dirty[c]
        /\ UNCHANGED <<version, readKey, writeKey, rekeying>>
    BY <1>a, <1>5 DEF TypeOK, OthersKeepKeys, OthersKeep, Spill
  <2>2. CASE MayExclude(c)
    <3>1. /\ journal' = AllCounted(journal) /\ state'[c] = "dbmod" /\ dirty'[c] = dirty[c] \ {p}
          /\ disk'[p].key = writeKey[c] /\ \A q \in Pages : q # p => disk'[q] = disk[q]
      BY <1>a, <1>5, <2>2 DEF Spill, SyncJournal, WriteDisk, Encrypted, TypeOK, FileTypes
    <3>2. Recorded(journal') = Recorded(journal) /\ journal'.record = journal.record
          /\ journal'.counted = Recorded(journal)
      BY <1>d, <3>1 DEF AllCounted, Recorded, Journals
    <3>3. p \in journal'.counted
      BY <1>b, <2>1, <3>2 DEF JournalShapeOf, Changing
    <3>4. KeptOfOneKey'
      BY <3>3, KeptKeys
    <3>5. \A q \in Recorded(journal') :
             /\ journal'.record[q].key = readKey'[c]
             /\ q \notin Pending(c)' => disk'[q].key = writeKey'[c]
      BY <1>b, <1>d, <2>1, <3>1, <3>2 DEF KeyShapeOf, Changing, Pending
    <3>6. KeyShapeOf(c)'
      BY <1>b, <1>c, <1>e, <2>1, <3>1, <3>5 DEF KeyShapeOf, Reading, Changing, Recorded
    <3> QED
      BY <1>c, <1>f, <2>1, <3>4, <3>6, OneConnectionStep DEF Writing
  <2>3. CASE ~MayExclude(c)
    <3>1. UNCHANGED <<journal, kept, disk, state, cache, dirty>>
      BY <1>5, <2>3 DEF Spill
    <3>2. todo' = todo
      BY <1>5 DEF Spill
    <3>3. KeptOfOneKey'
      BY <3>1, KeptKeys
    <3>4. KeyShapeOf(c)'
      BY <1>b, <1>c, <2>1, <3>1, <3>2 DEF KeyShapeOf, Pending, Recorded
    <3> QED
      BY <1>c, <2>1, <3>1, <3>3, <3>4, OneConnectionStep
  <2> QED
    BY <2>2, <2>3
<1>6. ASSUME NEW p \in Pages, WriteBack(c, p) PROVE KeyShape'
  <2>1. /\ OthersKeepKeys(c) /\ state[c] = "writing" /\ UNCHANGED state
        /\ UNCHANGED <<journal, kept, cache, version, readKey, writeKey, rekeying>>
        /\ todo'[c] = todo[c] \ {p} /\ disk'[p].key = writeKey[c]
        /\ \A q \in Pages : q # p => disk'[q] = disk[q]
    BY <1>a, <1>6 DEF TypeOK, OthersKeepKeys, OthersKeep, WriteBack, WriteDisk, Encrypted, FileTypes
  <2>2. journal'.counted # {}
    BY <1>b, <2>1 DEF JournalShapeOf
  <2>3. KeptOfOneKey'
    BY <2>2, KeptKeys
  <2>4. KeyShapeOf(c)'
    BY <1>b, <1>c, <1>d, <1>e, <2>1 DEF KeyShapeOf, Reading, Changing, Pending, Recorded
  <2> QED
    BY <1>c, <1>f, <2>1, <2>3, <2>4, OneConnectionStep DEF Writing
<1> QED
  BY <1>1, <1>2, <1>3, <1>4, <1>5, <1>6

(* The deletion of the journal: every page of the file has the write key, for   *)
(* a rekey has written them all, and any other transaction writes with the key  *)
(* it reads with.                                                               *)
LEMMA CommitKeys ==
    ASSUME Inductive, KeyShape, NEW c \in Conns, CommitPhaseTwo(c)
    PROVE  /\ KeyShape' /\ CommittedKey' = writeKey[c]
           /\ c \notin rekeying => CommittedKey' = CommittedKey
<1> USE DEF fileVars, journalVars, cacheVars, rekeyVars, keyVars, boundVars
<1>a. TypeOK /\ Locks /\ LockTypes /\ KeptSameEffect
  BY KeysParts
<1>b. JournalShapeOf(c) /\ CacheShapeOf(c) /\ KeyShapeOf(c)
  BY KeysParts
<1>1. /\ OthersKeepKeys(c) /\ state[c] = "finished" /\ state'[c] = "reader"
      /\ DeleteJournal /\ rekeying' = rekeying \ {c} /\ UNCHANGED <<disk, cache, version, writeKey>>
      /\ readKey'[c] = IF c \in rekeying THEN writeKey[c] ELSE readKey[c]
  BY <1>a DEF TypeOK, OthersKeepKeys, OthersKeep, CommitPhaseTwo, RekeyDone
<1>2. readKey[c] # NoKey /\ \A q \in Pages : q \notin journal.counted => disk[q].key = readKey[c]
  BY <1>1, WriterKey DEF Reading, Changing
<1>3. readKey'[c] = writeKey[c]
  BY <1>b, <1>1, <1>2 DEF KeyShapeOf
<1>4. \A q \in Pages : disk[q].key = writeKey[c]
  <2>1. \A q \in Recorded(journal) : disk[q].key = writeKey[c]
    BY <1>b, <1>1 DEF KeyShapeOf, CacheShapeOf, Changing, Pending
  <2>2. CASE c \in rekeying
    BY <1>b, <1>1, <2>1, <2>2 DEF KeyShapeOf
  <2>3. CASE c \notin rekeying
    BY <1>b, <1>1, <1>2, <2>1, <2>3 DEF KeyShapeOf, JournalShapeOf
  <2> QED
    BY <2>2, <2>3
<1>5. KeptOfOneKey' /\ CommittedOfOneKey' /\ CommittedKey' = writeKey[c]
  BY <1>a, <1>1, <1>4, KeptKeysDeleted, PageOneAssumption
<1>6. KeyShapeOf(c)'
  BY <1>b, <1>1, <1>3, <1>5 DEF KeyShapeOf, Changing
<1>7. ASSUME NEW d \in Conns, d # c PROVE KeyShapeOf(d)'
  <2>1. OthersKeep(c) /\ writeKey'[d] = writeKey[d] /\ (d \in rekeying' <=> d \in rekeying)
    BY <1>1, <1>7 DEF OthersKeepKeys
  <2>2. lock[c] = EXCLUSIVE
    BY <1>a, <1>1 DEF Locks, StateLocks
  <2> QED
    BY <1>a, <1>7, <2>1, <2>2, KeysOfOthers
<1>8. c \notin rekeying => writeKey[c] = CommittedKey
  BY <1>b, <1>1, <1>2 DEF KeyShapeOf, Reading, Changing
<1> QED
  BY <1>5, <1>6, <1>7, <1>8 DEF KeyShape

(* A rollback, what ends a connection or begins one, and a rekey that begins.   *)
LEMMA EndingKeys ==
    ASSUME Inductive, KeyShape, ~misled', NEW c \in Conns,
           \/ Rollback(c) \/ UndoEnd(c) \/ RekeyFails(c) \/ RekeyCommitFails(c)
           \/ PlaybackFails(c) \/ SpillFails(c) \/ CommitPhaseTwoFails(c) \/ PagerUnlock(c)
           \/ Close(c) \/ Crash(c)
           \/ \E k \in Keys : Rekey(c, k) \/ Open(c, k)
           \/ \E p \in Pages : UndoPage(c, p)
    PROVE  KeyShape'
<1> USE DEF fileVars, journalVars, cacheVars, rekeyVars, keyVars, boundVars
<1>a. TypeOK /\ Locks /\ JournalShape /\ LockTypes /\ KeptSameEffect
  BY KeysParts
<1>b. JournalShapeOf(c) /\ CacheShapeOf(c) /\ DiskShapeOf(c) /\ KeyShapeOf(c)
  BY KeysParts
<1>c. SameKeys /\ CommittedKey' = CommittedKey
  <2>1. QuietStep
    BY DEF QuietStep
  <2> QED
    BY <2>1, SameKeysStep, SameKey
<1>d. state[c] \in Reading => readKey[c] # NoKey
  BY WriterKey
<1>e. state[c] \in Writing \union {"playback"} => lock[c] >= RESERVED
  BY <1>a DEF Locks, StateLocks, Writing, RESERVED, PENDING, EXCLUSIVE
<1>1. CASE Rollback(c)
  <2>1. /\ OthersKeepKeys(c) /\ c \notin rekeying
        /\ UNCHANGED <<disk, journal, kept, cache, version, readKey, writeKey, rekeying>>
        /\ \/ state[c] = "locked" /\ state'[c] = "reader"
           \/ state[c] \in Changing /\ state'[c] = "undo"
    BY <1>a, <1>1 DEF TypeOK, OthersKeepKeys, OthersKeep, Rollback, PagerRollback,
       EndTransaction, Changing
  <2>2. KeptOfOneKey'
    BY <2>1, KeptKeys
  <2>3. KeyShapeOf(c)'
    BY <1>b, <1>c, <1>d, <2>1 DEF KeyShapeOf, Reading, Changing
  <2> QED
    BY <1>c, <2>1, <2>2, <2>3, OneConnectionStep
<1>2. CASE UndoEnd(c)
  <2>1. /\ OthersKeepKeys(c) /\ state[c] = "undo" /\ todo[c] = {} /\ DeleteJournal
        /\ UNCHANGED <<disk, cache, version, readKey, writeKey, rekeying>>
        /\ \/ state'[c] = "reader"
           \/ state'[c] = "error" /\ readKey[c] = NoKey
    BY <1>a, <1>2 DEF TypeOK, OthersKeepKeys, OthersKeep, UndoEnd, EndTransaction
  <2>2. \A q \in Pages : Committed[q] = disk[q]
    BY <1>b, <2>1, CommittedAt DEF DiskShapeOf
  <2>3. KeptOfOneKey'
    BY <1>a, <2>1, <2>2, KeptKeysDeleted, PageOneAssumption
       DEF KeyShape, CommittedOfOneKey, CommittedKey
  <2>4. KeyShapeOf(c)'
    BY <1>b, <1>c, <2>1 DEF KeyShapeOf, Reading, Changing
  <2> QED
    BY <1>c, <1>e, <2>1, <2>3, <2>4, OneConnectionStep DEF Writing
<1>3. CASE PlaybackFails(c) \/ SpillFails(c) \/ CommitPhaseTwoFails(c)
  <2>1. /\ OthersKeepKeys(c) /\ state'[c] = "error"
        /\ UNCHANGED <<disk, journal, kept, cache, version, writeKey>>
    BY <1>a, <1>3 DEF TypeOK, OthersKeepKeys, OthersKeep, PlaybackFails, SpillFails,
       CommitPhaseTwoFails, RekeyDone
  <2>2. (c \in rekeying' <=> c \in rekeying) /\ readKey'[c] = readKey[c]
    BY <1>a, <1>3 DEF TypeOK, PlaybackFails, SpillFails, CommitPhaseTwoFails, RekeyDone
  <2>3. KeptOfOneKey'
    BY <2>1, KeptKeys
  <2>4. KeyShapeOf(c)'
    BY <1>b, <2>1, <2>2 DEF KeyShapeOf, Reading, Changing
  <2> QED
    BY <1>c, <2>1, <2>3, <2>4, OneConnectionStep
<1>4. CASE RekeyFails(c) \/ RekeyCommitFails(c)
  BY <1>4 DEF RekeyFails, RekeyEnds, RekeyCommitFails, RekeyDone
<1>5. CASE PagerUnlock(c)
  <2>1. /\ OthersKeepKeys(c) /\ state'[c] = "open" /\ cache'[c] = Empty /\ c \notin rekeying
        /\ UNCHANGED <<disk, journal, kept, readKey, writeKey>> /\ rekeying' = rekeying \ {c}
    BY <1>a, <1>5 DEF TypeOK, OthersKeepKeys, OthersKeep, PagerUnlock, Drop, RekeyEnds
  <2>2. KeptOfOneKey'
    BY <2>1, KeptKeys
  <2>3. KeyShapeOf(c)'
    BY <1>b, <2>1 DEF KeyShapeOf, Reading, Changing
  <2> QED
    BY <1>c, <2>1, <2>2, <2>3, OneConnectionStep
<1>6. CASE Close(c) \/ Crash(c)
  <2>1. /\ OthersKeepKeys(c) /\ state'[c] = "closed" /\ readKey'[c] = NoKey
        /\ UNCHANGED <<disk, journal, kept>>
    BY <1>a, <1>6 DEF TypeOK, OthersKeepKeys, OthersKeep, Close, Crash, Forget, Drop
  <2>2. KeptOfOneKey'
    BY <2>1, KeptKeys
  <2>3. KeyShapeOf(c)'
    BY <2>1 DEF KeyShapeOf, Changing
  <2> QED
    BY <1>c, <2>1, <2>2, <2>3, OneConnectionStep
<1>7. ASSUME NEW k \in Keys, Rekey(c, k) PROVE KeyShape'
  <2>1. /\ OthersKeepKeys(c) /\ state[c] = "reader" /\ state'[c] = "locked" /\ c \in rekeying'
        /\ UNCHANGED <<disk, journal, kept, cache, version, readKey>>
    BY <1>a, <1>7 DEF TypeOK, OthersKeepKeys, OthersKeep, Rekey, Reserve
  <2>2. KeptOfOneKey'
    BY <2>1, KeptKeys
  <2>3. KeyShapeOf(c)'
    BY <1>b, <1>c, <2>1 DEF KeyShapeOf, Reading, Changing
  <2> QED
    BY <1>c, <2>1, <2>2, <2>3, OneConnectionStep
<1>8. ASSUME NEW k \in Keys, Open(c, k) PROVE KeyShape'
  <2>1. /\ OthersKeepKeys(c) /\ state'[c] = "open" /\ cache'[c] = Empty
        /\ readKey'[c] = k /\ writeKey'[c] = k
        /\ UNCHANGED <<disk, journal, kept>>
    BY <1>a, <1>b, <1>8 DEF TypeOK, OthersKeepKeys, OthersKeep, Open, CacheShapeOf
  <2>2. KeptOfOneKey'
    BY <2>1, KeptKeys
  <2>3. KeyShapeOf(c)'
    BY <2>1 DEF KeyShapeOf, Reading, Changing
  <2> QED
    BY <1>c, <2>1, <2>2, <2>3, OneConnectionStep
<1>9. ASSUME NEW p \in Pages, UndoPage(c, p) PROVE KeyShape'
  <2>1. /\ OthersKeepKeys(c) /\ state[c] = "undo" /\ state'[c] \in {"undo", "error"}
        /\ UNCHANGED <<journal, kept, writeKey, rekeying>>
        /\ journal.counted = {} => disk' = disk
    BY <1>a, <1>9 DEF TypeOK, OthersKeepKeys, OthersKeep, UndoPage, UndoCache
  <2>2. KeptOfOneKey'
    BY <2>1, KeptKeys
  <2>3. readKey'[c] # NoKey => readKey'[c] = readKey[c]
    BY <1>a, <1>9 DEF TypeOK, UndoPage, UndoCache
  <2>4. cache'[c] # Empty /\ readKey'[c] # NoKey => version'[c].key = readKey'[c]
    <3>1. CASE cache[c][p] # NoPage
      <4>1. cache[c] # Empty
        BY <3>1 DEF Empty
      <4>2. \/ version'[c] = version[c]
            \/ readKey[c] = journal.record[p].key /\ version'[c] = VersionOf(journal.record[p])
        BY <1>a, <1>9 DEF TypeOK, UndoPage, UndoCache
      <4> QED
        BY <1>b, <2>1, <2>3, <4>1, <4>2 DEF KeyShapeOf, VersionOf
    <3>2. CASE cache[c][p] = NoPage
      BY <1>b, <1>9, <2>1, <2>3, <3>2 DEF UndoPage, UndoCache, KeyShapeOf
    <3> QED
      BY <3>1, <3>2
  <2>5. KeyShapeOf(c)'
    BY <1>b, <1>c, <2>1, <2>3, <2>4 DEF KeyShapeOf, Reading, Changing
  <2> QED
    BY <1>c, <1>e, <2>1, <2>2, <2>5, OneConnectionStep DEF Writing
<1> QED
  BY <1>1, <1>2, <1>3, <1>4, <1>5, <1>6, <1>7, <1>8, <1>9

-----------------------------------------------------------------------------
LEMMA PowerLossKeys ==
    ASSUME Inductive, KeyShape, PowerLoss
    PROVE  KeyShape'
<1>1. TypeOK
  BY KeysParts
<1>2. PICK d \in Survivors, j \in kept : disk' = d /\ journal' = j
  BY DEF PowerLoss
<1>3. \A q \in Pages : Committed'[q].key = Committed'[PageOne].key
  BY <1>2, SurvivorsOfOneKey DEF Committed
<1>4. kept' = {journal'}
  BY DEF PowerLoss
<1>5. CommittedOfOneKey' /\ KeptOfOneKey'
  <2>1. CommittedOfOneKey'
    BY <1>3 DEF CommittedOfOneKey, CommittedKey
  <2>2. KeptOfOneKey'
    BY <1>3, <1>4 DEF KeptOfOneKey, Committed
  <2> QED
    BY <2>1, <2>2
<1>6. ASSUME NEW c \in Conns PROVE KeyShapeOf(c)'
  <2>1. state'[c] = "closed" /\ readKey'[c] = NoKey
    BY DEF PowerLoss, Forget
  <2> QED
    BY <2>1 DEF KeyShapeOf, Changing
<1> QED
  BY <1>5, <1>6 DEF KeyShape

LEMMA InitKeys == Init => KeyShape
<1> SUFFICES ASSUME Init PROVE KeyShape
  OBVIOUS
<1>1. \A q \in Pages : Committed[q] = disk[q] /\ disk[q].key = FirstKey
  BY CommittedAt DEF Init, NoJournal
<1>2. CommittedOfOneKey /\ CommittedKey = FirstKey
  BY <1>1, PageOneAssumption DEF CommittedOfOneKey, CommittedKey
<1>3. KeptOfOneKey
  BY <1>1, PageOneAssumption DEF Init, KeptOfOneKey, PlayedBack, NoJournal
<1>4. \A c \in Conns : KeyShapeOf(c)
  BY DEF Init, KeyShapeOf, Reading, Changing
<1> QED
  BY <1>2, <1>3, <1>4 DEF KeyShape

(* A rekey that misled stays one: the answer is given.                          *)
LEMMA MisledKept ==
    ASSUME TypeOK, [Next]_vars, misled
    PROVE  misled'
<1> USE DEF fileVars, journalVars, cacheVars, rekeyVars, keyVars, boundVars
<1>1. CASE UNCHANGED vars
  BY <1>1 DEF vars
<1>2. ASSUME NEW c \in Conns,
             \/ SharedLock(c) \/ HasHotJournal(c) \/ LockHotJournal(c) \/ HotJournalBusy(c)
             \/ PlaybackEnd(c) \/ EndRead(c) \/ BeginWrite(c) \/ SyncDatabase(c)
             \/ Rollback(c) \/ UndoEnd(c) \/ PlaybackFails(c) \/ SpillFails(c)
      PROVE  misled'
  BY <1>2 DEF SharedLock, HasHotJournal, LockHotJournal, HotJournalBusy, PlaybackEnd, EndRead,
     BeginWrite, SyncDatabase, Rollback, UndoEnd, PlaybackFails, SpillFails
<1>3. ASSUME NEW c \in Conns,
             \/ CommitPhaseOne(c) \/ CommitPhaseTwo(c) \/ RekeyFails(c) \/ RekeyCommitFails(c)
             \/ CommitPhaseTwoFails(c) \/ PagerUnlock(c) \/ Close(c) \/ Crash(c)
             \/ \E k \in Keys : Rekey(c, k) \/ Open(c, k)
      PROVE  misled'
  BY <1>3 DEF CommitPhaseOne, CommitPhaseTwo, RekeyFails, RekeyCommitFails, CommitPhaseTwoFails,
     PagerUnlock, Close, Crash, Rekey, Open, RekeyDone, RekeyEnds, Forget
<1>4. ASSUME NEW c \in Conns, NEW p \in Pages,
             \/ PlaybackOnePage(c, p) \/ UndoPage(c, p) \/ ReadPage(c, p) \/ WritePage(c, p)
             \/ Spill(c, p) \/ WriteBack(c, p)
      PROVE  misled'
  BY <1>4 DEF PlaybackOnePage, UndoPage, ReadPage, WritePage, Spill, WriteBack
<1>5. CASE PowerLoss
  BY <1>5 DEF PowerLoss, Forget
<1> QED
  BY <1>1, <1>2, <1>3, <1>4, <1>5 DEF Next

LEMMA KeysStep ==
    ASSUME Inductive, Inductive', KeysInductive, [Next]_vars
    PROVE  KeysInductive'
<1> SUFFICES ASSUME ~misled' PROVE KeyShape'
  BY DEF KeysInductive
<1>1. KeyShape
  BY MisledKept, InductiveParts DEF KeysInductive, Inductive
<1>2. ASSUME NEW c \in Conns,
             \/ SharedLock(c) \/ HasHotJournal(c) \/ LockHotJournal(c) \/ HotJournalBusy(c)
             \/ PlaybackEnd(c) \/ EndRead(c)
             \/ \E p \in Pages : PlaybackOnePage(c, p) \/ ReadPage(c, p)
      PROVE  KeyShape'
  BY <1>1, <1>2, ReadingKeys
<1>3. ASSUME NEW c \in Conns,
             \/ BeginWrite(c) \/ CommitPhaseOne(c) \/ SyncDatabase(c)
             \/ \E p \in Pages : WritePage(c, p) \/ Spill(c, p) \/ WriteBack(c, p)
      PROVE  KeyShape'
  BY <1>1, <1>3, WritingKeys
<1>4. ASSUME NEW c \in Conns,
             \/ Rollback(c) \/ UndoEnd(c) \/ RekeyFails(c) \/ RekeyCommitFails(c)
             \/ PlaybackFails(c) \/ SpillFails(c) \/ CommitPhaseTwoFails(c) \/ PagerUnlock(c)
             \/ Close(c) \/ Crash(c)
             \/ \E k \in Keys : Rekey(c, k) \/ Open(c, k)
             \/ \E p \in Pages : UndoPage(c, p)
      PROVE  KeyShape'
  BY <1>1, <1>4, EndingKeys
<1>5. ASSUME NEW c \in Conns, CommitPhaseTwo(c) PROVE KeyShape'
  BY <1>1, <1>5, CommitKeys
<1>6. CASE PowerLoss
  BY <1>1, <1>6, PowerLossKeys
<1>7. CASE UNCHANGED vars
  <2>1. CommittedKey' = CommittedKey
    BY <1>7 DEF vars, fileVars, journalVars, CommittedKey, Committed, PlayedBack
  <2>2. CommittedOfOneKey' /\ KeptOfOneKey'
    BY <1>1, <1>7, <2>1 DEF vars, fileVars, journalVars, KeyShape, CommittedOfOneKey,
       KeptOfOneKey, Committed, PlayedBack
  <2>3. \A c \in Conns : KeyShapeOf(c)'
    BY <1>1, <1>7, <2>1 DEF vars, fileVars, journalVars, cacheVars, rekeyVars, keyVars,
       KeyShape, KeyShapeOf, Pending, Recorded
  <2> QED
    BY <2>2, <2>3 DEF KeyShape
<1> QED
  BY <1>2, <1>3, <1>4, <1>5, <1>6, <1>7 DEF Next

(* As long as no rekey that failed has answered SQLITE_OK, whoever reads has    *)
(* the key of what is committed, and what a transaction has written has the     *)
(* write key of its connection (codec_ctx.read_ctx and write_ctx).              *)
THEOREM KeysInductiveHolds == Spec => []KeysInductive
<1>1. Init => KeysInductive
  BY InitKeys DEF KeysInductive
<1>2. Inductive /\ Inductive' /\ KeysInductive /\ [Next]_vars => KeysInductive'
  BY KeysStep
<1> QED
  BY <1>1, <1>2, PagerInductive, PTL DEF Spec

(* Whatever part of the unsynced writes a loss of power leaves, and after a     *)
(* rekey that is done (sqlite3_rekey_v2) as after one that was interrupted,     *)
(* what the recovery finds can be decrypted with one key, unless a rekey that   *)
(* failed has answered SQLITE_OK.                                               *)
THEOREM OneKeyHolds == Spec => []OneKeyUnlessMisled
<1>1. ASSUME Inductive, KeysInductive PROVE OneKeyUnlessMisled
  BY <1>1, SurvivorsOfOneKey DEF KeysInductive, OneKeyUnlessMisled, OneKey
<1>2. Inductive /\ KeysInductive => OneKeyUnlessMisled
  BY <1>1
<1> QED
  BY <1>2, KeysInductiveHolds, PagerInductive, PTL

(* The key of what is committed changes only when a rekey commits, to the key   *)
(* it was called with, or with a loss of power that brings the version before   *)
(* a rekey back: CommitPhaseTwo is the only step that replaces it.              *)
KeyChangesByRekey ==
    CommittedKey' # CommittedKey =>
        \/ misled \/ PowerLoss
        \/ \E c \in rekeying : CommitPhaseTwo(c) /\ CommittedKey' = writeKey[c]

THEOREM KeyChangesOnlyByRekey == Spec => [][KeyChangesByRekey]_vars
<1>1. ASSUME Inductive, KeysInductive, [Next]_vars PROVE [KeyChangesByRekey]_vars
  <2> SUFFICES ASSUME KeyShape, Next, ~PowerLoss, CommittedKey' # CommittedKey
               PROVE  \E c \in rekeying : CommitPhaseTwo(c) /\ CommittedKey' = writeKey[c]
    BY <1>1 DEF KeysInductive, KeyChangesByRekey
  <2>1. ~QuietStep
    BY <1>1, SameKeysStep, SameKey
  <2>2. PICK c \in Conns : CommitPhaseTwo(c)
    BY <2>1, NextParts
  <2> QED
    BY <1>1, <2>2, CommitKeys
<1>2. Inductive /\ KeysInductive /\ [Next]_vars => [KeyChangesByRekey]_vars
  BY <1>1
<1> QED
  BY <1>2, KeysInductiveHolds, PagerInductive, PTL DEF Spec

=============================================================================
