------------------------------ MODULE RowsProofs ------------------------------
(***************************************************************************)
(* Proofs about Rows: an instance keeps its row, whatever is inserted,       *)
(* deleted, rolled back and inserted again by any number of connections.     *)
(***************************************************************************)
EXTENDS Rows, SequenceTheorems, TLAPS

(* The constants, as the provers need them.                                  *)
USE NoClient, DefaultOK, BoundsOK

LEMMA FreshAreObjects ==
    /\ Fresh \subseteq Objects
    /\ \A ob \in Fresh : ob.id = 0
BY DEF Fresh, New, Objects, TxtValues, DblValues

(* What the statement of an INSERT writes is a row, and it is there.          *)
LEMMA InsertedContents ==
    ASSUME NEW d \in Contents, Sequenced(d), NEW ob \in Objects, NEW u \in BOOLEAN,
           births \in 0 .. MaxBirths, Accepts(ob, u, d), ob.id # 0 => ob.born # 0
    PROVE  /\ Key(ob, d) \in Ids
           /\ RowOf(ob, d) \in Rows
           /\ AfterInsert(ob, d) \in Contents
           /\ AfterInsert(ob, d).rows[Key(ob, d)] = RowOf(ob, d)
           /\ \A i \in Ids \ {Key(ob, d)} : AfterInsert(ob, d).rows[i] = d.rows[i]
           /\ d.seq <= AfterInsert(ob, d).seq
           /\ Key(ob, d) <= AfterInsert(ob, d).seq
           /\ Sequenced(AfterInsert(ob, d))
<1> DEFINE k == Key(ob, d)
<1>1. k \in Ids /\ births + 1 \in 1 .. MaxBirths
  BY DEF Accepts
<1>2. InsertedRow(ob) \in Rows
  BY <1>1 DEF InsertedRow, OrDefault, Rows, Objects, DblValues, TxtValues
<1>3. d.rows[k] # None => MergedRow(ob, d.rows[k]) \in Rows
  BY <1>1 DEF MergedRow, Rows, Objects, Contents
<1>4. RowOf(ob, d) \in Rows
  BY <1>2, <1>3 DEF RowOf, Conflicts
<1>5. /\ AfterInsert(ob, d).rows = [d.rows EXCEPT ![k] = RowOf(ob, d)]
      /\ AfterInsert(ob, d).seq = IF k > d.seq THEN k ELSE d.seq
  BY DEF AfterInsert
<1>6. d.rows \in [Ids -> Rows \cup {None}] /\ d.seq \in 0 .. MaxId
  BY DEF Contents
<1>7. AfterInsert(ob, d) \in Contents
  BY <1>1, <1>4, <1>6 DEF AfterInsert, Contents, Ids
<1>8. Sequenced(AfterInsert(ob, d))
  BY <1>1, <1>5, <1>6 DEF Sequenced, Ids
<1> QED
  BY <1>1, <1>4, <1>5, <1>6, <1>7, <1>8 DEF Ids

-----------------------------------------------------------------------------
(* The instance of insert, and what the connection keeps of it.               *)
LEMMA AssignedIsObject ==
    ASSUME NEW c \in Clients, NEW ob \in Objects, lastInsertRowID[c] \in 0 .. MaxId,
           stored[c] \in [row : Rows, merged : BOOLEAN]
    PROVE  Assigned(c, ob) \in Objects /\ Assigned(c, ob).born # 0
BY DEF Assigned, Objects, Rows, DblValues

(* What is written for ob has its values, and what insert returns has them.   *)
LEMMA WrittenValues ==
    ASSUME NEW ob, NEW d, NEW got,
           got.txt = ob.txt, got.dbl = IF ob.dbl = Null THEN DefaultDbl ELSE ob.dbl
    PROVE  HasValues(got, ob, [row |-> RowOf(ob, d), merged |-> Conflicts(ob, d)])
BY DEF HasValues, RowOf, MergedRow, InsertedRow, OrDefault

LEMMA InitInductive == Init => Inductive
<1> SUFFICES ASSUME Init PROVE Inductive
  OBVIOUS
<1>1. TypeOK
  BY DEF Init, TypeOK, Contents
<1>2. Sequenced(db) /\ DraftOK
  BY DEF Init, Sequenced, DraftOK
<1>3. Agreement /\ \A c \in Clients : OperationOK(c)
  BY DEF Init, Agreement, Claims, OperationOK
<1> QED
  BY <1>1, <1>2, <1>3 DEF Inductive
-----------------------------------------------------------------------------
(* Who has an operation under way, and who may write.                         *)
LEMMA WriterIsInBatch ==
    ASSUME Inductive, NEW c \in Clients, MayWrite(c), pc[c] \notin {"batch", "batchInserted"}
    PROVE  writer = None
BY DEF Inductive, DraftOK, MayWrite

LEMMA SeenContents ==
    ASSUME Inductive, NEW c \in Clients
    PROVE  Seen(c) \in Contents /\ Sequenced(Seen(c))
BY DEF Inductive, TypeOK, DraftOK, Seen

(* The bookkeeping of an INSERT keeps its types.                              *)
LEMMA InsertedTypes ==
    ASSUME TypeOK, NEW c \in Clients, NEW d \in Contents, Sequenced(d), NEW ob \in Objects,
           NEW u \in BOOLEAN, Accepts(ob, u, d), ob.id # 0 => ob.born # 0,
           Inserted(c, ob, d)
    PROVE  /\ lastInsertRowID' \in [Clients -> 0 .. MaxId]
           /\ stored' \in [Clients -> [row : Rows, merged : BOOLEAN] \cup {None}]
           /\ stored'[c] = [row |-> RowOf(ob, d), merged |-> Conflicts(ob, d)]
           /\ stored'[c] \in [row : Rows, merged : BOOLEAN]
           /\ births' \in 0 .. MaxBirths
<1>1. Key(ob, d) \in Ids /\ RowOf(ob, d) \in Rows
  BY InsertedContents DEF TypeOK
<1>2. births + 1 \in 0 .. MaxBirths
  BY DEF Accepts, TypeOK
<1>3. Conflicts(ob, d) \in BOOLEAN
  BY DEF Conflicts
<1> QED
  BY <1>1, <1>2, <1>3 DEF Inserted, TypeOK, Ids

(* The instances of the next state: one that is put there, or the former.     *)
LEMMA InsertTypes ==
    ASSUME Inductive, NEW c \in Clients, NEW ob \in Objects, NEW u \in BOOLEAN,
           ob.id # 0 => ob.born # 0, Insert(c, ob, u)
    PROVE  TypeOK'
<1>1. db \in Contents /\ Sequenced(db) /\ TypeOK
  BY DEF Inductive, TypeOK
<1>2. db' \in Contents /\ Key(ob, db) \in Ids
  BY <1>1, InsertedContents DEF Insert, TypeOK
<1>3. /\ lastInsertRowID' \in [Clients -> 0 .. MaxId]
      /\ stored' \in [Clients -> [row : Rows, merged : BOOLEAN] \cup {None}]
      /\ births' \in 0 .. MaxBirths
  BY <1>1, InsertedTypes DEF Insert
<1>4. queue' \in [Clients -> Seq(Objects)] /\ gone' \subseteq Ids
  BY <1>1 DEF Insert, TypeOK
<1>5. /\ draft' = draft /\ writer' = writer /\ results' = results /\ held' = held
      /\ pc' \in [Clients -> {"idle", "inserted", "batch", "batchInserted"}]
  BY <1>1 DEF Insert, Goto, TypeOK
<1> QED
  BY <1>1, <1>2, <1>3, <1>4, <1>5 DEF TypeOK

LEMMA BatchTypes ==
    ASSUME Inductive, NEW c \in Clients,
           \/ \E obs \in Batches : InsertAll(c, obs)
           \/ BatchInsert(c) \/ BatchReturns(c) \/ BatchCommits(c) \/ BatchThrows(c)
    PROVE  TypeOK'
<1>1. TypeOK /\ OperationOK(c) /\ Seen(c) \in Contents /\ Sequenced(Seen(c))
  BY SeenContents DEF Inductive
<1>2. ASSUME NEW obs \in Batches, InsertAll(c, obs) PROVE TypeOK'
  <2>1. obs \in Seq(Objects)
    BY BatchesOK, FreshAreObjects
  <2> QED
    BY <1>1, <1>2, <2>1 DEF InsertAll, Goto, TypeOK
<1>3. CASE BatchInsert(c)
  <2> DEFINE ob == Head(queue[c])
  <2>1. ob \in Fresh /\ ob \in Objects /\ ob.id = 0
    BY <1>1, <1>3, FreshAreObjects DEF BatchInsert, OperationOK
  <2>2. draft' \in Contents
    BY <1>1, <1>3, <2>1, InsertedContents DEF BatchInsert, TypeOK
  <2>3. /\ lastInsertRowID' \in [Clients -> 0 .. MaxId]
        /\ stored' \in [Clients -> [row : Rows, merged : BOOLEAN] \cup {None}]
        /\ births' \in 0 .. MaxBirths
    BY <1>1, <1>3, <2>1, InsertedTypes DEF BatchInsert
  <2>4. /\ writer' \in Clients
        /\ pc' \in [Clients -> {"idle", "inserted", "batch", "batchInserted"}]
        /\ UNCHANGED <<db, queue, results, held, gone>>
    BY <1>1, <1>3 DEF BatchInsert, Goto, TypeOK
  <2> QED
    BY <1>1, <2>2, <2>3, <2>4 DEF TypeOK
<1>4. CASE BatchReturns(c)
  <2>1. Head(queue[c]) \in Objects /\ Tail(queue[c]) \in Seq(Objects)
    BY <1>1, <1>4 DEF BatchReturns, OperationOK, TypeOK
  <2>2. Assigned(c, Head(queue[c])) \in Objects
    BY <1>1, <1>4, <2>1, AssignedIsObject DEF BatchReturns, OperationOK, TypeOK
  <2>3. Append(results[c], Assigned(c, Head(queue[c]))) \in Seq(Objects)
    BY <1>1, <2>2 DEF TypeOK
  <2> QED
    BY <1>1, <1>4, <2>1, <2>3 DEF BatchReturns, Goto, TypeOK
<1>5. CASE BatchCommits(c)
  <2>1. PICK k \in DOMAIN results[c] : held' = [held EXCEPT ![c] = results[c][k]]
    BY <1>5 DEF BatchCommits
  <2>2. results[c][k] \in Objects /\ results[c][k].id # 0
    <3>1. results[c] \in Seq(Objects) /\ results[c] # <<>>
      BY <1>1, <2>1 DEF TypeOK
    <3>2. writer = c
      BY <1>1, <3>1 DEF OperationOK
    <3>3. Drafted(results[c][k])
      BY <3>2 DEF Inductive, DraftOK
    <3> QED
      BY <3>1, <3>3 DEF Drafted, Ids
  <2> QED
    BY <1>1, <1>5, <2>1, <2>2 DEF BatchCommits, EndTransaction, Goto, TypeOK
<1>6. CASE BatchThrows(c)
  BY <1>1, <1>6 DEF BatchThrows, EndTransaction, Goto, TypeOK
<1> QED
  BY <1>2, <1>3, <1>4, <1>5, <1>6

LEMMA RowTypes ==
    ASSUME Inductive, NEW c \in Clients,
           \/ InsertReturns(c) \/ Delete(c) \/ DeleteAll(c) \/ Refresh(c) \/ Crash(c)
           \/ \E i \in Ids : Fetch(c, i)
           \/ \E txt \in TxtValues, dbl \in DblValues : Update(c, txt, dbl)
    PROVE  TypeOK'
<1>1. TypeOK /\ OperationOK(c)
  BY DEF Inductive
<1>2. CASE InsertReturns(c)
  <2>1. Head(queue[c]) \in Objects
    BY <1>1, <1>2 DEF InsertReturns, OperationOK, TypeOK
  <2>2. Assigned(c, Head(queue[c])) \in Objects /\ Assigned(c, Head(queue[c])).id # 0
    BY <1>1, <1>2, <2>1, AssignedIsObject DEF InsertReturns, OperationOK, Returned, TypeOK
  <2> QED
    BY <1>1, <1>2, <2>2 DEF InsertReturns, Goto, TypeOK
<1>3. CASE Delete(c)
  <2>1. held[c].id \in Ids
    BY <1>1, <1>3 DEF Delete, TypeOK, Objects, Ids
  <2>2. db' \in Contents
    BY <1>1, <1>3, <2>1 DEF Delete, TypeOK, Contents
  <2> QED
    BY <1>1, <1>3, <2>1, <2>2 DEF Delete, Goto, TypeOK
<1>4. CASE DeleteAll(c)
  <2>1. db' \in Contents
    BY <1>1, <1>4 DEF DeleteAll, TypeOK, Contents
  <2> QED
    BY <1>1, <1>4, <2>1 DEF DeleteAll, Goto, TypeOK
<1>5. ASSUME NEW i \in Ids, db.rows[i] # None
      PROVE  Construct(i, db.rows[i]) \in {ob \in Objects : ob.id # 0}
  BY <1>1, <1>5 DEF Construct, TypeOK, Contents, Rows, Objects, Ids
<1>6. CASE Refresh(c)
  <2>1. held[c].id \in Ids
    BY <1>1, <1>6 DEF Refresh, TypeOK, Objects, Ids
  <2> QED
    BY <1>1, <1>5, <1>6, <2>1 DEF Refresh, Goto, TypeOK
<1>7. CASE Crash(c)
  BY <1>1, <1>7 DEF Crash, EndTransaction, Goto, TypeOK
<1>8. ASSUME NEW i \in Ids, Fetch(c, i) PROVE TypeOK'
  BY <1>1, <1>5, <1>8 DEF Fetch, Goto, TypeOK
<1>9. ASSUME NEW txt \in TxtValues, NEW dbl \in DblValues, Update(c, txt, dbl) PROVE TypeOK'
  <2>0. held[c] # None
    BY <1>9 DEF Update
  <2>1. held[c] \in Objects /\ held[c].id \in Ids
    BY <1>1, <2>0 DEF TypeOK, Objects, Ids
  <2>2. [held[c] EXCEPT !.txt = txt, !.dbl = dbl] \in {ob \in Objects : ob.id # 0}
    <3>1. /\ [held[c] EXCEPT !.txt = txt, !.dbl = dbl].id = held[c].id
          /\ held[c].id # 0
      BY <2>1 DEF Objects, Ids
    <3>2. [held[c] EXCEPT !.txt = txt, !.dbl = dbl] \in Objects
      BY <2>1 DEF Objects
    <3> QED
      BY <3>1, <3>2
  <2>3. held' \in [Clients -> {ob \in Objects : ob.id # 0} \cup {None}]
    BY <1>1, <1>9, <2>2 DEF Update, TypeOK
  <2>4. db.rows[held[c].id] # None =>
           [db EXCEPT !.rows[held[c].id].txt = txt, !.rows[held[c].id].dbl = dbl] \in Contents
    <3> SUFFICES ASSUME db.rows[held[c].id] # None
                 PROVE  [db EXCEPT !.rows[held[c].id].txt = txt,
                                   !.rows[held[c].id].dbl = dbl] \in Contents
      OBVIOUS
    <3>1. db.rows[held[c].id] \in Rows
      BY <1>1, <2>1 DEF TypeOK, Contents
    <3>2. [db.rows[held[c].id] EXCEPT !.txt = txt, !.dbl = dbl] \in Rows
      BY <3>1 DEF Rows
    <3>3. [db.rows EXCEPT ![held[c].id] = [db.rows[held[c].id] EXCEPT !.txt = txt, !.dbl = dbl]]
             \in [Ids -> Rows \cup {None}]
      BY <1>1, <2>1, <3>2 DEF TypeOK, Contents
    <3> QED
      BY <1>1, <2>1, <3>3 DEF TypeOK, Contents
  <2>5. db' \in Contents
    BY <1>1, <1>9, <2>4 DEF Update, TypeOK
  <2> QED
    BY <1>1, <1>9, <2>3, <2>5 DEF Update, Goto, TypeOK
<1> QED
  BY <1>2, <1>3, <1>4, <1>6, <1>7, <1>8, <1>9

LEMMA TypeStep ==
    ASSUME Inductive, NEW c \in Clients, Operation(c)
    PROVE  TypeOK'
<1>1. ASSUME NEW ob \in Fresh, NEW u \in BOOLEAN, Insert(c, ob, u) PROVE TypeOK'
  BY <1>1, FreshAreObjects, InsertTypes
<1>2. ASSUME held[c] # None, NEW u \in BOOLEAN, Insert(c, held[c], u) PROVE TypeOK'
  <2>1. held[c] \in Objects /\ held[c].born # 0
    BY <1>2 DEF Inductive, TypeOK, OperationOK
  <2> QED
    BY <1>2, <2>1, InsertTypes
<1> QED
  BY <1>1, <1>2, BatchTypes, RowTypes DEF Operation

-----------------------------------------------------------------------------
(* A step of c leaves the operations and instances of the others alone.       *)
LEMMA OthersKeep ==
    ASSUME TypeOK, NEW c \in Clients, Operation(c), NEW d \in Clients \ {c}
    PROVE  /\ pc'[d] = pc[d] /\ queue'[d] = queue[d] /\ results'[d] = results[d]
           /\ held'[d] = held[d] /\ stored'[d] = stored[d]
           /\ lastInsertRowID'[d] = lastInsertRowID[d]
<1>1. ASSUME NEW ob, NEW u, Insert(c, ob, u)
      PROVE  /\ pc'[d] = pc[d] /\ queue'[d] = queue[d] /\ results'[d] = results[d]
             /\ held'[d] = held[d] /\ stored'[d] = stored[d]
             /\ lastInsertRowID'[d] = lastInsertRowID[d]
  BY <1>1 DEF Insert, Inserted, Goto, TypeOK
<1>2. CASE BatchInsert(c)
  BY <1>2 DEF BatchInsert, Inserted, Goto, TypeOK
<1>3. CASE \E txt \in TxtValues, dbl \in DblValues : Update(c, txt, dbl)
  BY <1>3 DEF Update, Goto, TypeOK
<1>4. CASE InsertReturns(c) \/ \E obs \in Batches : InsertAll(c, obs)
  BY <1>4 DEF InsertReturns, InsertAll, Goto, TypeOK
<1>5. CASE BatchReturns(c) \/ BatchCommits(c) \/ BatchThrows(c)
  BY <1>5 DEF BatchReturns, BatchCommits, BatchThrows, Goto, TypeOK
<1>6. CASE Delete(c) \/ DeleteAll(c) \/ Refresh(c) \/ Crash(c) \/ \E i \in Ids : Fetch(c, i)
  BY <1>6 DEF Delete, DeleteAll, Refresh, Crash, Fetch, Goto, TypeOK
<1> QED
  BY <1>1, <1>2, <1>3, <1>4, <1>5, <1>6 DEF Operation

(* The transaction of another is not ended by c, and c writes only when there *)
(* is none.                                                                   *)
LEMMA OthersWrite ==
    ASSUME Inductive, NEW c \in Clients, Operation(c), writer # None, writer # c
    PROVE  /\ writer' = writer /\ draft' = draft
           /\ db'.seq = db.seq
           /\ db'.rows = db.rows
<1>1. ~MayWrite(c) /\ Seen(c) = db
  BY DEF MayWrite, Seen
<1>2. CASE InsertReturns(c) \/ (\E obs \in Batches : InsertAll(c, obs)) \/ BatchReturns(c)
  BY <1>2 DEF InsertReturns, InsertAll, BatchReturns
<1>3. CASE BatchCommits(c) \/ BatchThrows(c) \/ Crash(c)
  BY <1>1, <1>3 DEF BatchCommits, BatchThrows, Crash, EndTransaction
<1>4. CASE Refresh(c) \/ (\E i \in Ids : Fetch(c, i))
           \/ \E txt \in TxtValues, dbl \in DblValues : Update(c, txt, dbl)
  BY <1>1, <1>4 DEF Refresh, Fetch, Update
<1> QED
  BY <1>1, <1>2, <1>3, <1>4 DEF Operation, Insert, BatchInsert, Delete, DeleteAll

-----------------------------------------------------------------------------
(* An operation of c keeps c's own promises and the others' theirs.           *)
LEMMA OperationStep ==
    ASSUME Inductive, NEW c \in Clients, Operation(c), NEW d \in Clients
    PROVE  OperationOK(d)'
<1>0. TypeOK /\ OperationOK(c) /\ OperationOK(d) /\ TypeOK'
  BY TypeStep DEF Inductive
<1>1. CASE d # c
  <2>1. /\ pc'[d] = pc[d] /\ queue'[d] = queue[d] /\ results'[d] = results[d]
        /\ held'[d] = held[d] /\ stored'[d] = stored[d]
        /\ lastInsertRowID'[d] = lastInsertRowID[d]
    BY <1>0, <1>1, OthersKeep
  <2>2. writer = d => writer' = d
    BY <1>1, OthersWrite
  <2>3. Returned(d)' = Returned(d)
    BY <2>1 DEF Returned, Assigned
  <2>4. HasValues(Assigned(d, Head(queue[d])), Head(queue[d]), stored[d])'
           <=> HasValues(Assigned(d, Head(queue[d])), Head(queue[d]), stored[d])
    BY <2>1, <2>3 DEF HasValues, Returned
  <2> QED
    BY <1>0, <2>1, <2>2, <2>3, <2>4 DEF OperationOK
<1>2. CASE d = c
  <2> SUFFICES OperationOK(c)'
    BY <1>2
  <2>1. ASSUME NEW ob \in Objects, ob.id # 0 => ob.born # 0, NEW u \in BOOLEAN,
               Insert(c, ob, u)
        PROVE  OperationOK(c)'
    <3>1. db \in Contents /\ Sequenced(db) /\ Key(ob, db) \in Ids
      BY <1>0, <2>1, InsertedContents DEF Inductive, TypeOK, Insert
    <3>2. /\ stored'[c] = [row |-> RowOf(ob, db), merged |-> Conflicts(ob, db)]
          /\ stored'[c] \in [row : Rows, merged : BOOLEAN]
      BY <1>0, <2>1, <3>1, InsertedTypes DEF Insert
    <3>3. /\ pc'[c] = "inserted" /\ queue'[c] = <<ob>> /\ results'[c] = results[c]
          /\ held'[c] = held[c] /\ writer' = writer /\ pc[c] = "idle"
      BY <1>0, <2>1 DEF Insert, Goto, Ready, TypeOK
    <3>4. ob.id = 0 => ~Conflicts(ob, db)
      BY <3>1 DEF Conflicts, Sequenced, Key, Contents, Ids
    <3>5. Returned(c)'.id = Key(ob, db)
      <4>1. Head(queue'[c]) = ob
        BY <3>3
      <4>2. ob.id = 0 => lastInsertRowID'[c] = Key(ob, db)
        BY <1>0, <2>1, <3>4 DEF Insert, Inserted, TypeOK
      <4> QED
        BY <4>1, <4>2 DEF Returned, Assigned, Key
    <3>6. HasValues(Assigned(c, ob)', ob, stored'[c])
      BY <3>2, WrittenValues DEF Assigned
    <3>7. Head(queue'[c]) = ob
      BY <3>3
    <3> QED
      BY <1>0, <3>1, <3>2, <3>3, <3>5, <3>6, <3>7 DEF OperationOK, Ids
  <2>2. ASSUME NEW ob \in Fresh, NEW u \in BOOLEAN, Insert(c, ob, u) PROVE OperationOK(c)'
    BY <2>1, <2>2, FreshAreObjects
  <2>3. ASSUME held[c] # None, NEW u \in BOOLEAN, Insert(c, held[c], u)
        PROVE  OperationOK(c)'
    <3>1. held[c] \in Objects /\ held[c].born # 0
      BY <1>0, <2>3 DEF TypeOK, OperationOK
    <3> QED
      BY <2>1, <2>3, <3>1
  <2>4. CASE InsertReturns(c)
    <3>1. /\ pc'[c] = "idle" /\ results'[c] = results[c] /\ writer' = writer
          /\ held'[c] = Returned(c) /\ pc[c] = "inserted"
      BY <1>0, <2>4 DEF InsertReturns, Goto, Returned, TypeOK
    <3>2. Head(queue[c]) \in Objects
      BY <1>0, <3>1 DEF OperationOK, TypeOK
    <3>3. Returned(c).born # 0
      BY <1>0, <3>1, <3>2, AssignedIsObject DEF Returned, OperationOK, TypeOK
    <3> QED
      BY <1>0, <3>1, <3>3 DEF OperationOK
  <2>5. ASSUME NEW obs \in Batches, InsertAll(c, obs) PROVE OperationOK(c)'
    <3>1. /\ pc'[c] = "batch" /\ results'[c] = <<>> /\ queue'[c] = obs
          /\ held'[c] = held[c]
      BY <1>0, <2>5 DEF InsertAll, Goto, TypeOK
    <3> QED
      BY <1>0, <3>1, BatchesOK DEF OperationOK
  <2>6. CASE BatchInsert(c)
    <3> DEFINE ob == Head(queue[c])
               d1 == Seen(c)
    <3>1. d1 \in Contents /\ Sequenced(d1)
      BY SeenContents
    <3>2. ob \in Fresh /\ ob \in Objects /\ ob.id = 0 /\ queue[c] # <<>>
      BY <1>0, <2>6, FreshAreObjects DEF BatchInsert, OperationOK
    <3>3. /\ Accepts(ob, FALSE, d1) /\ Inserted(c, ob, d1)
          /\ pc'[c] = "batchInserted" /\ queue' = queue /\ results' = results
          /\ held' = held /\ writer' = c /\ pc[c] = "batch"
      BY <1>0, <2>6 DEF BatchInsert, Goto, TypeOK
    <3>4. Key(ob, d1) \in Ids
      BY <1>0, <3>1, <3>2, <3>3, InsertedContents DEF TypeOK
    <3>5. stored'[c] \in [row : Rows, merged : BOOLEAN]
      BY <1>0, <3>1, <3>2, <3>3, InsertedTypes
    <3>6. ~Conflicts(ob, d1)
      BY <3>3 DEF Accepts
    <3>7. lastInsertRowID'[c] = Key(ob, d1)
      BY <1>0, <3>3, <3>6 DEF Inserted, TypeOK
    <3>8. Returned(c)'.id = Key(ob, d1)
      BY <3>2, <3>3, <3>7 DEF Returned, Assigned
    <3>9. HasValues(Assigned(c, ob)', ob, stored'[c])
      BY <1>0, <3>3, WrittenValues DEF Inserted, Assigned, TypeOK
    <3> QED
      BY <1>0, <3>2, <3>3, <3>4, <3>5, <3>8, <3>9 DEF OperationOK, Ids
  <2>7. CASE BatchReturns(c)
    <3>1. /\ pc'[c] = "batch" /\ queue'[c] = Tail(queue[c]) /\ held' = held
          /\ writer' = writer /\ pc[c] = "batchInserted"
      BY <1>0, <2>7 DEF BatchReturns, Goto, TypeOK
    <3>2. queue[c] \in Seq(Fresh) /\ queue[c] # <<>> /\ writer = c
      BY <1>0, <3>1 DEF OperationOK
    <3> QED
      BY <1>0, <3>1, <3>2 DEF OperationOK
  <2>8. CASE BatchCommits(c)
    <3>1. PICK k \in DOMAIN results[c] : held' = [held EXCEPT ![c] = results[c][k]]
      BY <2>8 DEF BatchCommits
    <3>2. results[c] # <<>> /\ results[c][k] \in Objects
      BY <1>0, <3>1 DEF TypeOK
    <3>3. writer = c
      BY <1>0, <3>2 DEF OperationOK
    <3>4. Drafted(results[c][k]) /\ draft \in Contents
      BY <3>1, <3>3 DEF Inductive, DraftOK
    <3>5. results[c][k].born # 0
      BY <3>4 DEF Drafted, Contents, Rows
    <3>6. held'[c] = results[c][k] /\ pc'[c] = "idle" /\ results'[c] = <<>>
      BY <1>0, <2>8, <3>1 DEF BatchCommits, Goto, TypeOK
    <3> QED
      BY <3>5, <3>6 DEF OperationOK
  <2>9. CASE BatchThrows(c) \/ Crash(c)
    <3>1. /\ pc'[c] = "idle" /\ results'[c] = <<>>
          /\ held'[c] = held[c] \/ held'[c] = None
      BY <1>0, <2>9 DEF BatchThrows, Crash, Goto, TypeOK
    <3> QED
      BY <1>0, <3>1 DEF OperationOK
  <2>10. CASE \/ Delete(c) \/ DeleteAll(c) \/ Refresh(c) \/ \E i \in Ids : Fetch(c, i)
              \/ \E txt \in TxtValues, dbl \in DblValues : Update(c, txt, dbl)
    <3>1. pc'[c] = "idle" /\ results' = results /\ writer' = writer
      BY <1>0, <2>10 DEF Delete, DeleteAll, Refresh, Fetch, Update, Goto, TypeOK
    <3>2. pc[c] = "idle"
      BY <2>10 DEF Delete, DeleteAll, Refresh, Fetch, Update, Ready
    <3>3. held'[c] # None => held'[c].born # 0
      <4>1. CASE Delete(c) \/ DeleteAll(c)
        BY <1>0, <4>1 DEF Delete, DeleteAll, OperationOK
      <4>2. ASSUME NEW i \in Ids, db.rows[i] # None PROVE Construct(i, db.rows[i]).born # 0
        BY <1>0, <4>2 DEF Construct, TypeOK, Contents, Rows
      <4>3. CASE Refresh(c)
        <5>1. held[c].id \in Ids
          BY <1>0, <4>3 DEF Refresh, TypeOK, Objects, Ids
        <5> QED
          BY <1>0, <4>2, <4>3, <5>1 DEF Refresh, OperationOK, TypeOK
      <4>4. ASSUME NEW i \in Ids, Fetch(c, i) PROVE held'[c].born # 0
        BY <1>0, <4>2, <4>4 DEF Fetch, TypeOK
      <4>5. ASSUME NEW txt \in TxtValues, NEW dbl \in DblValues, Update(c, txt, dbl)
            PROVE  held'[c].born # 0
        <5>1. held[c] # None
          BY <4>5 DEF Update
        <5>2. held[c] \in Objects /\ held[c].born # 0
          BY <1>0, <5>1 DEF TypeOK, OperationOK
        <5>3. held'[c] = [held[c] EXCEPT !.txt = txt, !.dbl = dbl]
          BY <1>0, <4>5 DEF Update, TypeOK
        <5> QED
          BY <5>2, <5>3 DEF Objects
      <4> QED
        BY <2>10, <4>1, <4>3, <4>4, <4>5
    <3> QED
      BY <1>0, <3>1, <3>2, <3>3 DEF OperationOK
  <2> QED
    BY <1>2, <2>2, <2>3, <2>4, <2>5, <2>6, <2>7, <2>8, <2>9, <2>10 DEF Operation
<1> QED
  BY <1>1, <1>2

-----------------------------------------------------------------------------
(* What a step may do to the committed table without anybody's losing a row:  *)
(* delete rows, with a note of it, and change the columns of others.          *)
RowsStay ==
    /\ db'.seq = db.seq
    /\ gone \subseteq gone'
    /\ \A i \in Ids : IF db'.rows[i] = None THEN db.rows[i] # None => i \in gone'
                      ELSE db.rows[i] # None /\ db'.rows[i].born = db.rows[i].born

LEMMA UnchangedRowsStay == ASSUME db' = db, gone' = gone PROVE RowsStay
BY DEF RowsStay

LEMMA DeletesAndUpdates ==
    ASSUME Inductive, NEW c \in Clients,
           \/ Delete(c) \/ DeleteAll(c)
           \/ \E txt \in TxtValues, dbl \in DblValues : Update(c, txt, dbl)
    PROVE  RowsStay /\ (db' = db \/ writer = None) /\ writer' = writer /\ draft' = draft
<1>1. TypeOK
  BY DEF Inductive
<1>2. CASE Delete(c)
  <2>0. held[c] # None /\ writer = None
    BY <1>2, WriterIsInBatch DEF Delete, Ready
  <2>1. held[c].id \in Ids
    BY <1>1, <2>0 DEF TypeOK, Objects, Ids
  <2> QED
    BY <1>1, <1>2, <2>0, <2>1 DEF Delete, RowsStay, TypeOK, Contents
<1>3. CASE DeleteAll(c)
  <2>1. writer = None
    BY <1>3, WriterIsInBatch DEF DeleteAll, Ready
  <2> QED
    BY <1>1, <1>3, <2>1 DEF DeleteAll, RowsStay, TypeOK, Contents
<1>4. ASSUME NEW txt \in TxtValues, NEW dbl \in DblValues, Update(c, txt, dbl)
      PROVE  RowsStay /\ (db' = db \/ writer = None) /\ writer' = writer /\ draft' = draft
  <2>0. held[c] # None
    BY <1>4 DEF Update
  <2>1. held[c].id \in Ids
    BY <1>1, <2>0 DEF TypeOK, Objects, Ids
  <2>2. CASE db' = db
    BY <1>4, <2>2, UnchangedRowsStay DEF Update
  <2>3. CASE db' # db
    <3> DEFINE k == held[c].id
               row == [db.rows[k] EXCEPT !.txt = txt, !.dbl = dbl]
    <3>1. /\ MayWrite(c) /\ db.rows[k] # None /\ Ready(c) /\ gone' = gone
          /\ db' = [db EXCEPT !.rows[k].txt = txt, !.rows[k].dbl = dbl]
          /\ writer' = writer /\ draft' = draft
      BY <1>4, <2>3 DEF Update
    <3>2. writer = None
      BY <3>1, WriterIsInBatch DEF Ready
    <3>3. db.rows[k] \in Rows
      BY <1>1, <2>1, <3>1 DEF TypeOK, Contents
    <3>4. row \in Rows /\ row.born = db.rows[k].born /\ row # None
      BY <3>3, NoneIsNothing DEF Rows
    <3>5. db'.rows = [db.rows EXCEPT ![k] = row] /\ db'.seq = db.seq
      BY <1>1, <2>1, <3>1 DEF TypeOK, Contents
    <3> QED
      BY <1>1, <2>1, <3>1, <3>2, <3>4, <3>5 DEF RowsStay, TypeOK, Contents
  <2> QED
    BY <2>2, <2>3
<1> QED
  BY <1>2, <1>3, <1>4

(* A row is read, or nothing of the file is touched.                          *)
Reads(c) ==
    \/ InsertReturns(c) \/ Refresh(c) \/ \E i \in Ids : Fetch(c, i)
    \/ \E obs \in Batches : InsertAll(c, obs)

LEMMA ReadsKeep ==
    ASSUME NEW c, Reads(c) PROVE UNCHANGED <<db, draft, writer, gone>>
BY DEF Reads, InsertReturns, Refresh, Fetch, InsertAll

LEMMA InsertKeeps ==
    ASSUME Inductive, NEW c \in Clients, NEW ob, NEW u, Insert(c, ob, u)
    PROVE  writer = None /\ writer' = None
BY WriterIsInBatch DEF Insert, Ready

LEMMA SequencedStep ==
    ASSUME Inductive, NEW c \in Clients, Operation(c)
    PROVE  Sequenced(db)'
<1>1. TypeOK /\ Sequenced(db)
  BY DEF Inductive
<1>2. ASSUME RowsStay PROVE Sequenced(db)'
  BY <1>1, <1>2 DEF RowsStay, Sequenced
<1>3. ASSUME NEW ob \in Objects, ob.id # 0 => ob.born # 0, NEW u \in BOOLEAN,
             Insert(c, ob, u)
      PROVE  Sequenced(db)'
  BY <1>1, <1>3, InsertedContents DEF Insert, TypeOK, Sequenced
<1>4. ASSUME held[c] # None PROVE held[c] \in Objects /\ held[c].born # 0
  BY <1>4 DEF Inductive, TypeOK, OperationOK
<1>5. CASE BatchCommits(c)
  BY <1>5, SeenContents DEF BatchCommits, Sequenced
<1>6. CASE Reads(c) \/ BatchInsert(c) \/ BatchReturns(c) \/ BatchThrows(c) \/ Crash(c)
  BY <1>1, <1>6, ReadsKeep DEF BatchInsert, BatchReturns, BatchThrows, Crash, Sequenced
<1> QED
  BY <1>2, <1>3, <1>4, <1>5, <1>6, FreshAreObjects, DeletesAndUpdates DEF Operation, Reads

-----------------------------------------------------------------------------
LEMMA DraftStep ==
    ASSUME Inductive, NEW c \in Clients, Operation(c)
    PROVE  DraftOK'
<1>1. TypeOK /\ DraftOK /\ OperationOK(c) /\ TypeOK'
  BY TypeStep DEF Inductive
<1>2. CASE writer # None /\ writer # c
  <2>1. writer \in Clients \ {c}
    BY <1>1, <1>2 DEF TypeOK
  <2>2. /\ pc'[writer] = pc[writer] /\ queue'[writer] = queue[writer]
        /\ results'[writer] = results[writer] /\ stored'[writer] = stored[writer]
        /\ lastInsertRowID'[writer] = lastInsertRowID[writer]
    BY <1>1, <2>1, OthersKeep
  <2>3. writer' = writer /\ draft' = draft /\ db'.seq = db.seq /\ db'.rows = db.rows
    BY <1>2, OthersWrite
  <2>4. Returned(writer)' = Returned(writer)
    BY <2>2, <2>3 DEF Returned, Assigned
  <2>5. \A ob : Drafted(ob)' <=> Drafted(ob)
    BY <2>3 DEF Drafted
  <2> QED
    BY <1>1, <1>2, <2>2, <2>3, <2>4, <2>5 DEF DraftOK, Sequenced
<1>3. CASE writer = c \/ writer = None
  <2>1. CASE writer' = None
    BY <2>1 DEF DraftOK
  <2>2. CASE BatchInsert(c)
    <3> DEFINE ob == Head(queue[c])
               d1 == Seen(c)
               k == Key(ob, d1)
    <3>1. d1 \in Contents /\ Sequenced(d1) /\ db \in Contents
      BY <1>1, SeenContents DEF TypeOK
    <3>2. ob \in Fresh /\ ob \in Objects /\ ob.id = 0 /\ queue[c] # <<>>
      BY <1>1, <2>2, FreshAreObjects DEF BatchInsert, OperationOK
    <3>3. /\ Accepts(ob, FALSE, d1) /\ Inserted(c, ob, d1)
          /\ draft' = AfterInsert(ob, d1) /\ db' = db
          /\ pc'[c] = "batchInserted" /\ queue' = queue /\ results' = results
          /\ writer' = c /\ pc[c] = "batch"
      BY <1>1, <2>2 DEF BatchInsert, Goto, TypeOK
    <3>4. /\ k \in Ids /\ draft' \in Contents /\ Sequenced(draft)'
          /\ draft'.rows[k] = RowOf(ob, d1) /\ RowOf(ob, d1) \in Rows
          /\ \A i \in Ids \ {k} : draft'.rows[i] = d1.rows[i]
          /\ d1.seq <= draft'.seq /\ k <= draft'.seq
      <4> DEFINE d2 == AfterInsert(ob, d1)
      <4>1. births \in 0 .. MaxBirths
        BY <1>1 DEF TypeOK
      <4>2. /\ k \in Ids /\ d2 \in Contents /\ Sequenced(d2)
            /\ d2.rows[k] = RowOf(ob, d1) /\ RowOf(ob, d1) \in Rows
            /\ \A i \in Ids \ {k} : d2.rows[i] = d1.rows[i]
            /\ d1.seq <= d2.seq /\ k <= d2.seq
        BY <3>1, <3>2, <3>3, <4>1, InsertedContents
      <4> QED
        BY <3>3, <4>2 DEF Sequenced
    <3>5. k = d1.seq + 1
      BY <3>2 DEF Key
    <3>6. /\ db.seq <= d1.seq
          /\ \A i \in 1 .. db.seq : d1.rows[i] = db.rows[i]
      BY <1>1, <1>3, <3>1 DEF DraftOK, Seen, Contents
    <3>7. db.seq \in 0 .. MaxId /\ d1.seq \in 0 .. MaxId /\ draft'.seq \in 0 .. MaxId
      BY <3>1, <3>4 DEF Contents
    <3>8. /\ db.seq <= draft'.seq
          /\ \A i \in 1 .. db.seq : draft'.rows[i] = db.rows[i]
      BY <3>4, <3>5, <3>6, <3>7 DEF Ids
    <3>9. ASSUME NEW x \in DOMAIN results[c] PROVE Drafted(results[c][x])'
      <4>1. results[c] # <<>>
        BY <1>1, <3>9 DEF TypeOK
      <4>2. writer = c
        BY <1>1, <4>1 DEF OperationOK
      <4>3. d1 = draft /\ Drafted(results[c][x])
        BY <1>1, <3>9, <4>2 DEF DraftOK, Seen
      <4>4. results[c][x].id \in Ids \ {k}
        BY <3>5, <3>7, <4>3 DEF Drafted, Ids
      <4> QED
        BY <3>3, <3>4, <3>7, <4>3, <4>4 DEF Drafted, Ids
    <3>10. ~Conflicts(ob, d1)
      BY <3>3 DEF Accepts
    <3>11. Returned(c)'.id = k /\ Returned(c)'.born = RowOf(ob, d1).born
      <4>1. lastInsertRowID'[c] = k /\ stored'[c].row = RowOf(ob, d1)
        BY <1>1, <3>3, <3>10 DEF Inserted, TypeOK
      <4> QED
        BY <3>2, <3>3, <4>1 DEF Returned, Assigned
    <3>12. Drafted(Returned(c))'
      BY <3>3, <3>4, <3>5, <3>6, <3>7, <3>11, NoneIsNothing DEF Drafted
    <3> QED
      BY <3>3, <3>4, <3>8, <3>9, <3>12 DEF DraftOK
  <2>3. CASE BatchReturns(c)
    <3> DEFINE ob == Assigned(c, Head(queue[c]))
    <3>1. /\ pc[c] = "batchInserted" /\ pc'[c] = "batch"
          /\ results'[c] = Append(results[c], ob)
          /\ UNCHANGED <<db, draft, writer>>
      BY <1>1, <2>3 DEF BatchReturns, Goto, TypeOK
    <3>2. writer = c /\ Drafted(ob)
      BY <1>1, <3>1 DEF OperationOK, DraftOK, Returned
    <3>3. \A x : Drafted(x)' <=> Drafted(x)
      BY <3>1 DEF Drafted
    <3>4. \A x \in DOMAIN results'[c] : Drafted(results'[c][x])
      <4>1. results[c] \in Seq(Objects)
        BY <1>1 DEF TypeOK
      <4>2. \A x \in DOMAIN results[c] : Drafted(results[c][x])
        BY <1>1, <3>2 DEF DraftOK
      <4>3. ASSUME NEW x \in DOMAIN results'[c] PROVE Drafted(results'[c][x])
        <5>1. \/ x \in DOMAIN results[c] /\ results'[c][x] = results[c][x]
              \/ results'[c][x] = ob
          BY <3>1, <4>1, <4>3, AppendProperties
        <5> QED
          BY <3>2, <4>2, <5>1
      <4> QED
        BY <4>3
    <3> QED
      BY <1>1, <3>1, <3>2, <3>3, <3>4 DEF DraftOK, Sequenced
  <2>4. CASE BatchCommits(c) \/ BatchThrows(c) \/ Crash(c)
    <3>1. writer' = None
      BY <1>3, <2>4 DEF BatchCommits, BatchThrows, Crash, EndTransaction
    <3> QED
      BY <2>1, <3>1
  <2>5. CASE \/ \E ob \in Fresh, u \in BOOLEAN : Insert(c, ob, u)
             \/ \E u \in BOOLEAN : Insert(c, held[c], u)
    BY <2>1, <2>5, InsertKeeps
  <2>6. CASE \/ Reads(c) \/ Delete(c) \/ DeleteAll(c)
             \/ \E txt \in TxtValues, dbl \in DblValues : Update(c, txt, dbl)
    <3>1. writer' = writer
      BY <2>6, ReadsKeep, DeletesAndUpdates
    <3>2. pc[c] \notin {"batch", "batchInserted"}
      BY <2>6 DEF Reads, InsertReturns, Refresh, Fetch, InsertAll, Delete, DeleteAll,
                  Update, Ready
    <3>3. writer = None
      BY <1>1, <1>3, <3>2 DEF DraftOK
    <3> QED
      BY <2>1, <3>1, <3>3
  <2> QED
    BY <2>2, <2>3, <2>4, <2>5, <2>6 DEF Operation, Reads
<1> QED
  BY <1>2, <1>3

-----------------------------------------------------------------------------
(* Agreement survives a step after which every claim is an old one, or one    *)
(* that a row of the table confirms, and that takes no row from anybody.      *)
Confirmed(i, b) == i <= db.seq /\ db.rows[i] # None /\ db.rows[i].born = b

LEMMA AgreementKept ==
    ASSUME Agreement, RowsStay,
           \A d \in Clients, i \in Ids, b \in 1 .. MaxBirths :
              Claims(d, i, b)' => Claims(d, i, b) \/ Confirmed(i, b)
    PROVE  Agreement'
<1> SUFFICES ASSUME NEW d \in Clients, NEW i \in Ids, NEW b \in 1 .. MaxBirths,
                    Claims(d, i, b)'
             PROVE  /\ i <= db'.seq
                    /\ IF db'.rows[i] = None THEN i \in gone' ELSE db'.rows[i].born = b
                    /\ \A e \in Clients, a \in 1 .. MaxBirths : Claims(e, i, a)' => a = b
  BY DEF Agreement
<1>1. Claims(d, i, b) \/ Confirmed(i, b)
  OBVIOUS
<1>2. i <= db'.seq
  BY <1>1 DEF Agreement, Confirmed, RowsStay
<1>3. IF db'.rows[i] = None THEN i \in gone' ELSE db'.rows[i].born = b
  BY <1>1 DEF Agreement, Confirmed, RowsStay
<1>4. ASSUME NEW e \in Clients, NEW a \in 1 .. MaxBirths, Claims(e, i, a)' PROVE a = b
  <2>1. Claims(e, i, a) \/ Confirmed(i, a)
    BY <1>4
  <2> QED
    BY <1>1, <2>1 DEF Agreement, Confirmed
<1> QED
  BY <1>2, <1>3, <1>4

LEMMA OthersClaims ==
    ASSUME TypeOK, NEW c \in Clients, Operation(c), NEW d \in Clients \ {c}, NEW i, NEW b
    PROVE  Claims(d, i, b)' <=> Claims(d, i, b)
BY OthersKeep DEF Claims, Returned, Assigned

(* The claim that an INSERT makes is to a new key, or it is the one that the  *)
(* instance had before.                                                       *)
LEMMA InsertAgreement ==
    ASSUME Inductive, NEW c \in Clients, NEW ob \in Objects, NEW u \in BOOLEAN,
           Operation(c), Insert(c, ob, u), ob.id # 0 => ob = held[c] /\ ob.born # 0
    PROVE  Agreement'
<1> DEFINE k == Key(ob, db)
           row == RowOf(ob, db)
<1>1. /\ TypeOK /\ Agreement /\ Sequenced(db) /\ db \in Contents
      /\ births \in 0 .. MaxBirths /\ db.seq \in 0 .. MaxId
  BY DEF Inductive, TypeOK, Contents
<1>2. /\ Accepts(ob, u, db) /\ Inserted(c, ob, db)
      /\ db' = AfterInsert(ob, db) /\ gone' = gone \ {k}
      /\ pc'[c] = "inserted" /\ queue'[c] = <<ob>> /\ held' = held
  BY <1>1 DEF Insert, Goto, TypeOK
<1>3. /\ k \in Ids /\ row \in Rows /\ db'.rows[k] = row /\ row # None
      /\ \A i \in Ids \ {k} : db'.rows[i] = db.rows[i]
      /\ db.seq <= db'.seq /\ k <= db'.seq
      /\ db'.seq \in 0 .. MaxId
  BY <1>1, <1>2, InsertedContents, NoneIsNothing DEF Contents
<1>4. stored'[c].row = row
  BY <1>1, <1>2 DEF Inserted, TypeOK
<1>5. Returned(c)'.id = k /\ Returned(c)'.born = row.born
  <2>1. ob.id = 0 => lastInsertRowID'[c] = k
    <3>1. ob.id = 0 => ~Conflicts(ob, db)
      BY <1>1, <1>3 DEF Conflicts, Sequenced, Key
    <3> QED
      BY <1>1, <1>2, <3>1 DEF Inserted, TypeOK
  <2> QED
    BY <1>2, <1>4, <2>1 DEF Returned, Assigned, Key
<1>6. row.born \in 1 .. MaxBirths
  BY <1>3 DEF Rows
<1>7. ASSUME NEW d \in Clients, NEW i \in Ids, NEW b \in 1 .. MaxBirths, Claims(d, i, b)'
      PROVE  Claims(d, i, b) \/ (i = k /\ b = row.born)
  <2>1. CASE d # c
    BY <1>1, <1>7, <2>1, OthersClaims
  <2>2. CASE d = c
    BY <1>2, <1>5, <1>7, <2>2 DEF Claims
  <2> QED
    BY <2>1, <2>2
<1>8. ASSUME NEW d \in Clients, NEW b \in 1 .. MaxBirths, Claims(d, k, b)
      PROVE  b = row.born
  <2>1. CASE ob.id = 0
    BY <1>1, <1>3, <1>8, <2>1 DEF Agreement, Key
  <2>2. CASE ob.id # 0
    <3>1. ob = held[c] /\ k = ob.id /\ ob.born \in 1 .. MaxBirths /\ held[c] # None
      BY <2>2, NoneIsNothing DEF Key, Objects
    <3>2. Claims(c, k, ob.born)
      BY <3>1 DEF Claims
    <3>3. /\ b = ob.born
          /\ db.rows[k] # None => db.rows[k].born = ob.born
      BY <1>1, <1>3, <1>8, <3>1, <3>2 DEF Agreement
    <3>4. row.born = ob.born
      BY <2>2, <3>1, <3>3 DEF RowOf, Conflicts, MergedRow, InsertedRow
    <3> QED
      BY <3>3, <3>4
  <2> QED
    BY <2>1, <2>2
<1>9. ASSUME NEW d \in Clients, NEW i \in Ids, NEW b \in 1 .. MaxBirths, Claims(d, i, b)'
      PROVE  /\ i <= db'.seq
             /\ IF db'.rows[i] = None THEN i \in gone' ELSE db'.rows[i].born = b
             /\ \A e \in Clients, a \in 1 .. MaxBirths : Claims(e, i, a)' => a = b
  <2>1. CASE i = k
    BY <1>3, <1>7, <1>8, <1>9, <2>1
  <2>2. CASE i # k
    <3>1. Claims(d, i, b) /\ \A e \in Clients, a \in 1 .. MaxBirths : Claims(e, i, a)' => Claims(e, i, a)
      BY <1>7, <1>9, <2>2
    <3>2. i <= db.seq /\ IF db.rows[i] = None THEN i \in gone ELSE db.rows[i].born = b
      BY <1>1, <3>1 DEF Agreement
    <3>3. \A e \in Clients, a \in 1 .. MaxBirths : Claims(e, i, a)' => a = b
      BY <1>1, <3>1 DEF Agreement
    <3> QED
      BY <1>1, <1>2, <1>3, <2>2, <3>2, <3>3 DEF Ids
  <2> QED
    BY <2>1, <2>2
<1> QED
  BY <1>9 DEF Agreement

(* The rows of a batch have keys that nobody has had before.                  *)
LEMMA CommitAgreement ==
    ASSUME Inductive, NEW c \in Clients, Operation(c), BatchCommits(c)
    PROVE  Agreement'
<1>1. TypeOK /\ Agreement /\ DraftOK /\ OperationOK(c)
  BY DEF Inductive
<1>2. PICK k \in DOMAIN results[c] : held' = [held EXCEPT ![c] = results[c][k]]
  BY DEF BatchCommits
<1> DEFINE ob == results[c][k]
<1>3. writer = c /\ Drafted(ob) /\ ob \in Objects
  <2>1. results[c] # <<>> /\ ob \in Objects
    BY <1>1, <1>2 DEF TypeOK
  <2> QED
    BY <1>1, <1>2, <2>1 DEF OperationOK, DraftOK
<1>4. /\ db' = draft /\ draft \in Contents /\ db \in Contents
      /\ db.seq <= draft.seq /\ \A i \in 1 .. db.seq : draft.rows[i] = db.rows[i]
      /\ gone' = gone \ {i \in Ids : draft.rows[i] # None}
      /\ held'[c] = ob /\ pc'[c] = "idle"
  BY <1>1, <1>2, <1>3 DEF BatchCommits, Seen, DraftOK, Goto, TypeOK
<1>5. ASSUME NEW d \in Clients, NEW i \in Ids, NEW b \in 1 .. MaxBirths, Claims(d, i, b)'
      PROVE  Claims(d, i, b) \/ (i = ob.id /\ b = ob.born)
  <2>1. CASE d # c
    BY <1>1, <1>5, <2>1, OthersClaims
  <2>2. CASE d = c
    BY <1>4, <1>5, <2>2 DEF Claims
  <2> QED
    BY <2>1, <2>2
<1>6. ASSUME NEW d \in Clients, NEW i \in Ids, NEW b \in 1 .. MaxBirths, Claims(d, i, b)
      PROVE  i <= db.seq /\ i # ob.id /\ db'.rows[i] = db.rows[i]
  <2>1. i <= db.seq
    BY <1>1, <1>6 DEF Agreement
  <2> QED
    BY <1>3, <1>4, <2>1 DEF Drafted, Contents, Ids
<1>7. ASSUME NEW d \in Clients, NEW i \in Ids, NEW b \in 1 .. MaxBirths, Claims(d, i, b)'
      PROVE  /\ i <= db'.seq
             /\ IF db'.rows[i] = None THEN i \in gone' ELSE db'.rows[i].born = b
             /\ \A e \in Clients, a \in 1 .. MaxBirths : Claims(e, i, a)' => a = b
  <2>1. CASE i = ob.id
    BY <1>3, <1>4, <1>5, <1>6, <1>7, <2>1 DEF Drafted
  <2>2. CASE i # ob.id
    <3>1. Claims(d, i, b) /\ \A e \in Clients, a \in 1 .. MaxBirths : Claims(e, i, a)' => Claims(e, i, a)
      BY <1>5, <1>7, <2>2
    <3>2. /\ IF db.rows[i] = None THEN i \in gone ELSE db.rows[i].born = b
          /\ \A e \in Clients, a \in 1 .. MaxBirths : Claims(e, i, a)' => a = b
      BY <1>1, <3>1 DEF Agreement
    <3>3. i <= db.seq /\ db'.rows[i] = db.rows[i]
      BY <1>6, <3>1
    <3> QED
      <4>1. i <= db'.seq
        BY <1>4, <3>3 DEF Contents, Ids
      <4>2. IF db'.rows[i] = None THEN i \in gone' ELSE db'.rows[i].born = b
        BY <1>4, <3>2, <3>3
      <4> QED
        BY <3>2, <4>1, <4>2
  <2> QED
    BY <2>1, <2>2
<1> QED
  BY <1>7 DEF Agreement

LEMMA AgreementStep ==
    ASSUME Inductive, NEW c \in Clients, Operation(c)
    PROVE  Agreement'
<1>1. TypeOK /\ Agreement /\ Sequenced(db) /\ OperationOK(c)
  BY DEF Inductive
<1>2. ASSUME NEW ob \in Fresh, NEW u \in BOOLEAN, Insert(c, ob, u) PROVE Agreement'
  BY <1>2, FreshAreObjects, InsertAgreement
<1>3. ASSUME held[c] # None, NEW u \in BOOLEAN, Insert(c, held[c], u) PROVE Agreement'
  <2>1. held[c] \in Objects /\ held[c].born # 0
    BY <1>1, <1>3 DEF TypeOK, OperationOK
  <2> QED
    BY <1>3, <2>1, InsertAgreement
<1>4. ASSUME RowsStay,
             \A i \in Ids, b \in 1 .. MaxBirths :
                Claims(c, i, b)' => Claims(c, i, b) \/ Confirmed(i, b)
      PROVE  Agreement'
  <2>1. ASSUME NEW d \in Clients, NEW i \in Ids, NEW b \in 1 .. MaxBirths, Claims(d, i, b)'
        PROVE  Claims(d, i, b) \/ Confirmed(i, b)
    BY <1>1, <1>4, <2>1, OthersClaims
  <2> QED
    BY <1>1, <1>4, <2>1, AgreementKept
<1>5. CASE InsertReturns(c)
  <2>1. pc[c] = "inserted" /\ pc'[c] = "idle" /\ held'[c] = Returned(c)
    BY <1>1, <1>5 DEF InsertReturns, Goto, Returned, TypeOK
  <2>2. \A i, b : Claims(c, i, b)' => Claims(c, i, b)
    BY <2>1 DEF Claims
  <2> QED
    BY <1>4, <1>5, <2>2, UnchangedRowsStay DEF InsertReturns
<1>6. CASE BatchInsert(c) \/ BatchReturns(c) \/ BatchThrows(c) \/ Crash(c)
           \/ \E obs \in Batches : InsertAll(c, obs)
  <2>1. pc'[c] # "inserted" /\ (held'[c] = held[c] \/ held'[c] = None)
    BY <1>1, <1>6 DEF BatchInsert, BatchReturns, BatchThrows, Crash, InsertAll, Goto, TypeOK
  <2>2. \A i, b : Claims(c, i, b)' => Claims(c, i, b)
    BY <2>1 DEF Claims
  <2>3. db' = db /\ gone' = gone
    BY <1>6 DEF BatchInsert, BatchReturns, BatchThrows, Crash, InsertAll
  <2> QED
    BY <1>4, <2>2, <2>3, UnchangedRowsStay
<1>7. CASE Delete(c) \/ DeleteAll(c)
  <2>1. pc'[c] # "inserted" /\ held' = held
    BY <1>1, <1>7 DEF Delete, DeleteAll, Goto, TypeOK
  <2>2. \A i, b : Claims(c, i, b)' => Claims(c, i, b)
    BY <2>1 DEF Claims
  <2> QED
    BY <1>4, <1>7, <2>2, DeletesAndUpdates
<1>8. ASSUME NEW txt \in TxtValues, NEW dbl \in DblValues, Update(c, txt, dbl)
      PROVE  Agreement'
  <2>1. held[c] # None
    BY <1>8 DEF Update
  <2>2. held[c] \in Objects /\ held'[c] = [held[c] EXCEPT !.txt = txt, !.dbl = dbl]
        /\ pc'[c] = "idle"
    BY <1>1, <1>8, <2>1 DEF Update, Goto, TypeOK
  <2>3. held'[c].id = held[c].id /\ held'[c].born = held[c].born
    BY <2>2 DEF Objects
  <2>4. \A i, b : Claims(c, i, b)' => Claims(c, i, b)
    BY <2>1, <2>2, <2>3 DEF Claims
  <2> QED
    BY <1>4, <1>8, <2>4, DeletesAndUpdates
<1>9. ASSUME NEW i \in Ids, db.rows[i] # None, held'[c] = Construct(i, db.rows[i]),
             pc'[c] = "idle", NEW a, NEW b, Claims(c, a, b)'
      PROVE  Confirmed(a, b)
  BY <1>1, <1>9 DEF Claims, Construct, Confirmed, Sequenced
<1>10. CASE Refresh(c)
  <2>1. /\ held[c].id \in Ids /\ pc'[c] = "idle" /\ db' = db /\ gone' = gone
        /\ held'[c] = IF db.rows[held[c].id] = None THEN held[c]
                      ELSE Construct(held[c].id, db.rows[held[c].id])
    <3>1. held[c] # None
      BY <1>10 DEF Refresh
    <3>2. held[c].id \in Ids
      BY <1>1, <3>1 DEF TypeOK, Objects, Ids
    <3> QED
      BY <1>1, <1>10, <3>2 DEF Refresh, Goto, TypeOK
  <2>2. ASSUME NEW a, NEW b, Claims(c, a, b)' PROVE Claims(c, a, b) \/ Confirmed(a, b)
    <3>1. CASE db.rows[held[c].id] = None
      BY <2>1, <2>2, <3>1 DEF Claims
    <3>2. CASE db.rows[held[c].id] # None
      BY <1>9, <2>1, <2>2, <3>2
    <3> QED
      BY <3>1, <3>2
  <2> QED
    BY <1>4, <2>1, <2>2, UnchangedRowsStay
<1>11. ASSUME NEW i \in Ids, Fetch(c, i) PROVE Agreement'
  <2>1. /\ db.rows[i] # None /\ held'[c] = Construct(i, db.rows[i]) /\ pc'[c] = "idle"
        /\ db' = db /\ gone' = gone
    BY <1>1, <1>11 DEF Fetch, Goto, TypeOK
  <2>2. \A a, b : Claims(c, a, b)' => Confirmed(a, b)
    BY <1>9, <2>1
  <2> QED
    BY <1>4, <2>1, <2>2, UnchangedRowsStay
<1> QED
  BY <1>2, <1>3, <1>5, <1>6, <1>7, <1>8, <1>10, <1>11, CommitAgreement DEF Operation

-----------------------------------------------------------------------------
LEMMA InductiveStep == Inductive /\ [Next]_vars => Inductive'
<1>1. ASSUME Inductive, NEW c \in Clients, Operation(c) PROVE Inductive'
  BY <1>1, TypeStep, SequencedStep, DraftStep, AgreementStep, OperationStep DEF Inductive
<1>2. ASSUME Inductive, UNCHANGED vars PROVE Inductive'
  BY <1>2 DEF vars, Inductive, TypeOK, Sequenced, DraftOK, Drafted, Agreement, Claims,
              OperationOK, Returned, Assigned
<1> QED
  BY <1>1, <1>2 DEF Next

(* The inductive invariant of instances, rows and drafts.                     *)
THEOREM RowsInductive == Spec => []Inductive
  BY InitInductive, InductiveStep, PTL DEF Spec

(* The table, the connections and the instances keep their types, for any     *)
(* number of clients and any batches of new instances.                        *)
THEOREM RowsTypes == Spec => []TypeOK
<1>1. Inductive => TypeOK
  BY DEF Inductive
<1> QED
  BY <1>1, RowsInductive, PTL

LEMMA HeldIsClaimed ==
    ASSUME Inductive, NEW c \in Clients, held[c] # None
    PROVE  /\ held[c].id \in Ids
           /\ IF db.rows[held[c].id] = None THEN held[c].id \in gone
              ELSE db.rows[held[c].id].born = held[c].born
<1>1. held[c].id \in Ids /\ held[c].born \in 1 .. MaxBirths
  BY DEF Inductive, TypeOK, OperationOK, Objects, Ids
<1>2. Claims(c, held[c].id, held[c].born)
  BY DEF Claims
<1> QED
  BY <1>1, <1>2 DEF Inductive, Agreement

(* Whatever is deleted, inserted, rolled back, upserted and inserted again,   *)
(* and whoever does it, an instance never reaches a row of someone else: the  *)
(* key that insert reads back after its statement is the one of its row.      *)
THEOREM InstancesKeepTheirRows == Spec => []IdentityKept
<1>1. Inductive => IdentityKept
  BY HeldIsClaimed DEF IdentityKept
<1> QED
  BY <1>1, RowsInductive, PTL

(* An instance whose row is not there is one whose row was deleted: a batch   *)
(* that is refused in the middle leaves no instances.                         *)
THEOREM NoPhantoms == Spec => []NoPhantom
<1>1. Inductive => NoPhantom
  BY HeldIsClaimed DEF NoPhantom
<1> QED
  BY <1>1, RowsInductive, PTL

(* What insert returns, and what insertAll collects, has the values of the    *)
(* row it wrote, and after an upsert the values that it wrote.                *)
THEOREM ReturnsWhatItStores == Spec => ReturnedAsStored
<1> DEFINE Stored(c) ==
        /\ pc[c] = "inserted" /\ pc'[c] = "idle" /\ held'[c] # None
              => HasValues(held'[c], Head(queue[c]), stored[c])
        /\ pc[c] = "batchInserted" /\ pc'[c] = "batch"
              => HasValues(results'[c][Len(results'[c])], Head(queue[c]), stored[c])
<1>1. ASSUME Inductive, NEW c \in Clients, NEW d \in Clients, Operation(d) PROVE Stored(c)
  <2>1. TypeOK /\ OperationOK(c)
    BY <1>1 DEF Inductive
  <2>2. CASE d # c
    <3>1. pc'[c] = pc[c]
      BY <1>1, <2>1, <2>2, OthersKeep
    <3> QED
      BY <3>1
  <2>3. CASE d = c /\ ~InsertReturns(c) /\ ~BatchReturns(c) /\ ~Crash(c)
    <3>1. /\ pc[c] # "inserted"
          /\ pc[c] = "batchInserted" => pc'[c] # "batch"
      BY <1>1, <2>3 DEF Operation, Insert, InsertAll, BatchInsert, BatchCommits,
                        BatchThrows, Update, Delete, DeleteAll, Refresh, Fetch, Ready
    <3> QED
      BY <3>1
  <2>4. CASE Crash(c)
    <3>1. held'[c] = None /\ pc'[c] = "idle"
      BY <2>1, <2>4 DEF Crash, Goto, TypeOK
    <3> QED
      BY <3>1
  <2>5. CASE InsertReturns(c)
    <3>1. held'[c] = Assigned(c, Head(queue[c])) /\ pc[c] = "inserted"
      BY <2>1, <2>5 DEF InsertReturns, TypeOK
    <3> QED
      BY <2>1, <3>1 DEF OperationOK
  <2>6. CASE BatchReturns(c)
    <3>1. /\ results'[c] = Append(results[c], Assigned(c, Head(queue[c])))
          /\ pc[c] = "batchInserted"
      BY <2>1, <2>6 DEF BatchReturns, TypeOK
    <3>2. results[c] \in Seq(Objects)
      BY <2>1 DEF TypeOK
    <3>3. results'[c][Len(results'[c])] = Assigned(c, Head(queue[c]))
      BY <3>1, <3>2
    <3> QED
      BY <2>1, <3>1, <3>3 DEF OperationOK
  <2> QED
    BY <1>1, <2>2, <2>3, <2>4, <2>5, <2>6
<1>2. ASSUME Inductive, [Next]_vars PROVE [\A c \in Clients : Stored(c)]_vars
  BY <1>1, <1>2 DEF Next
<1> QED
  BY <1>2, RowsInductive, PTL DEF Spec, ReturnedAsStored
=============================================================================
