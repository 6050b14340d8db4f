---------------------------------- MODULE Rows ----------------------------------
(***************************************************************************)
(* SQLCodable instances and the rows they stand for: insert, upsert,         *)
(* insertAll, update, delete, deleteAll, refresh and fetch on a table whose   *)
(* primary key is an AUTOINCREMENT integer (0 in an instance that is new),   *)
(* with a UNIQUE column and one that has a DEFAULT.                          *)
(*                                                                           *)
(* Each client has a connection of its own to the same file and calls one    *)
(* operation at a time on it, as the README of the library asks; clients     *)
(* interleave between the statements of an operation.  A statement outside a *)
(* transaction is atomic; no busy timeout is set, so a statement that finds  *)
(* the write lock taken throws.  An instance gets its key from the library.  *)
(***************************************************************************)
EXTENDS Integers, Sequences

CONSTANTS
    Clients,        \* the connections
    None,           \* no client, no row, no instance
    Null,           \* the NULL value
    Txts,           \* values of the UNIQUE column
    Dbls,           \* values of the column with a default
    DefaultDbl,     \* that default
    Batches,        \* the arrays of new instances given to insertAll
    MaxId,          \* bound: the largest key
    MaxBirths       \* bound: INSERTs that made a row, the rolled back included

ASSUME NoClient == None \notin Clients
ASSUME NullIsNoValue == Null \notin Txts \cup Dbls
ASSUME DefaultOK == DefaultDbl \in Dbls
ASSUME BoundsOK == MaxId \in Nat /\ MaxBirths \in Nat

TxtValues == Txts \cup {Null}
DblValues == Dbls \cup {Null}

VARIABLES
    db,             \* what is committed: the rows by key, and sqlite_sequence
    draft,          \* the same as the writer sees it, or None
    writer,         \* the client that holds the write lock, or None
    lastInsertRowID,\* of each connection
    pc,             \* where each client is in its operation
    queue,          \* the instances insert or insertAll has still to insert
    results,        \* the instances insertAll has inserted so far
    held,           \* the instance the application of each client holds
    stored,         \* history: the row the INSERT of insert has written
    births,         \* history: the rows made so far, each born with a number
    gone            \* history: the keys of the rows that were deleted

vars == <<db, draft, writer, lastInsertRowID, pc, queue, results, held, stored,
          births, gone>>

Ids == 1 .. MaxId

(* A row carries the number it was born with, and so does an instance that    *)
(* stands for it: the identity the application believes in.                   *)
New(txt, dbl) == [id |-> 0, txt |-> txt, dbl |-> dbl, born |-> 0]
Fresh == {New(txt, dbl) : txt \in TxtValues, dbl \in DblValues}

Rows == [txt : TxtValues, dbl : DblValues, born : 1 .. MaxBirths]
Objects == [id : 0 .. MaxId, txt : TxtValues, dbl : DblValues, born : 0 .. MaxBirths]

ASSUME BatchesOK == Batches \subseteq Seq(Fresh)
ASSUME NoneIsNothing == None \notin Rows /\ None \notin Objects

(* construct(row:): the instance made from the row with key i.                *)
Construct(i, row) == [id |-> i, txt |-> row.txt, dbl |-> row.dbl, born |-> row.born]

Init ==
    /\ db = [rows |-> [i \in Ids |-> None], seq |-> 0]
    /\ draft = None
    /\ writer = None
    /\ lastInsertRowID = [c \in Clients |-> 0]
    /\ pc = [c \in Clients |-> "idle"]
    /\ queue = [c \in Clients |-> <<>>]
    /\ results = [c \in Clients |-> <<>>]
    /\ held = [c \in Clients |-> None]
    /\ stored = [c \in Clients |-> None]
    /\ births = 0
    /\ gone = {}

Goto(c, label) == pc' = [pc EXCEPT ![c] = label]

(* The application calls the next operation.                                  *)
Ready(c) == pc[c] = "idle"

(* Nobody else holds the write lock.                                          *)
MayWrite(c) == writer \in {None, c}

(* What the statements of c see.                                              *)
Seen(c) == IF writer = c THEN draft ELSE db

(* COMMIT or ROLLBACK: the lock is given up and the draft with it.            *)
EndTransaction(c) ==
    /\ writer' = IF writer = c THEN None ELSE writer
    /\ draft' = IF writer = c THEN None ELSE draft

-----------------------------------------------------------------------------
(* insertUpdateSQL and the statement it makes.                                *)

(* Mutant: a key column without AUTOINCREMENT, which reuses the keys of       *)
(* deleted rows.                                                              *)
KeyReused(ob, d) ==
    IF ob.id # 0 THEN ob.id
    ELSE CHOOSE i \in 1 .. MaxId + 1 :
           /\ \A j \in Ids : j >= i => d.rows[j] = None
           /\ i = 1 \/ d.rows[i - 1] # None

(* A zero key is filtered out of the INSERT, and AUTOINCREMENT gives a key    *)
(* larger than any there has been.                                            *)
Key(ob, d) == IF ob.id = 0 THEN d.seq + 1 ELSE ob.id

(* UNIQUE: no row but the one with key i has the text; NULLs are distinct.    *)
TxtFree(txt, i, d) ==
    txt = Null \/ \A j \in Ids \ {i} : d.rows[j] # None => d.rows[j].txt # txt

(* Mutant: NULLs are written as they are.                                     *)
OrNull(dbl) == dbl

(* NULLs are filtered out too: the column's default is written.               *)
OrDefault(dbl) == IF dbl = Null THEN DefaultDbl ELSE dbl

InsertedRow(ob) ==
    [txt |-> ob.txt, dbl |-> OrDefault(ob.dbl),
     born |-> IF ob.id = 0 THEN births + 1 ELSE ob.born]

(* ON CONFLICT(key) DO UPDATE SET: only the columns that were not filtered.   *)
MergedRow(ob, row) ==
    [txt |-> IF ob.txt = Null THEN row.txt ELSE ob.txt,
     dbl |-> IF ob.dbl = Null THEN row.dbl ELSE ob.dbl,
     born |-> row.born]

Conflicts(ob, d) == d.rows[Key(ob, d)] # None

(* An INSERT with every column filtered out, INSERT INTO T () VALUES (), is   *)
(* no statement.                                                              *)
HasColumns(ob) == ob.id # 0 \/ ob.txt # Null \/ ob.dbl # Null

Accepts(ob, upsert, d) ==
    /\ HasColumns(ob)
    /\ Key(ob, d) \in Ids /\ births < MaxBirths
    /\ TxtFree(ob.txt, Key(ob, d), d)
    /\ Conflicts(ob, d) => upsert

RowOf(ob, d) ==
    IF Conflicts(ob, d) THEN MergedRow(ob, d.rows[Key(ob, d)]) ELSE InsertedRow(ob)

AfterInsert(ob, d) ==
    [rows |-> [d.rows EXCEPT ![Key(ob, d)] = RowOf(ob, d)],
     seq |-> IF Key(ob, d) > d.seq THEN Key(ob, d) ELSE d.seq]

(* What the connection and the histories keep of an INSERT.  An upsert that   *)
(* updates leaves the last row id alone.                                      *)
Inserted(c, ob, d) ==
    /\ lastInsertRowID' =
         [lastInsertRowID EXCEPT ![c] = IF Conflicts(ob, d) THEN @ ELSE Key(ob, d)]
    /\ stored' = [stored EXCEPT ![c] =
                    [row |-> RowOf(ob, d), merged |-> Conflicts(ob, d)]]
    /\ births' = IF ob.id = 0 THEN births + 1 ELSE births

-----------------------------------------------------------------------------
(* insert(ob, upsert:): the statement runs and commits.                       *)
Insert(c, ob, upsert) ==
    /\ Ready(c) /\ MayWrite(c)
    /\ Accepts(ob, upsert, db)
    /\ db' = AfterInsert(ob, db)
    /\ gone' = gone \ {Key(ob, db)}
    /\ Inserted(c, ob, db)
    /\ queue' = [queue EXCEPT ![c] = <<ob>>]
    /\ Goto(c, "inserted")
    /\ UNCHANGED <<draft, writer, results, held>>

(* Mutant: the instance comes back as it was given.                           *)
AssignNothing(c, ob) == [ob EXCEPT !.born = stored[c].row.born]

(* The instance that insert returns: the key is the connection's last row id  *)
(* and the defaults are filled in.                                            *)
Assigned(c, ob) ==
    [id |-> IF ob.id = 0 THEN lastInsertRowID[c] ELSE ob.id,
     txt |-> ob.txt, dbl |-> IF ob.dbl = Null THEN DefaultDbl ELSE ob.dbl,
     born |-> stored[c].row.born]

(* insert returns, after the statement: others may have been at the table.    *)
InsertReturns(c) ==
    /\ pc[c] = "inserted"
    /\ held' = [held EXCEPT ![c] = Assigned(c, Head(queue[c]))]
    /\ queue' = [queue EXCEPT ![c] = <<>>]
    /\ stored' = [stored EXCEPT ![c] = None]
    /\ Goto(c, "idle")
    /\ UNCHANGED <<db, draft, writer, lastInsertRowID, results, births, gone>>

-----------------------------------------------------------------------------
(* insertAll(instances): BEGIN DEFERRED, which takes no lock.                 *)
InsertAll(c, obs) ==
    /\ Ready(c)
    /\ queue' = [queue EXCEPT ![c] = obs]
    /\ results' = [results EXCEPT ![c] = <<>>]
    /\ Goto(c, "batch")
    /\ UNCHANGED <<db, draft, writer, lastInsertRowID, held, stored, births, gone>>

(* The INSERT of the next instance, in the transaction.                       *)
BatchInsert(c) ==
    /\ pc[c] = "batch" /\ queue[c] # <<>>
    /\ MayWrite(c)
    /\ LET ob == Head(queue[c]) IN
         /\ Accepts(ob, FALSE, Seen(c))
         /\ draft' = AfterInsert(ob, Seen(c))
         /\ Inserted(c, ob, Seen(c))
    /\ writer' = c
    /\ Goto(c, "batchInserted")
    /\ UNCHANGED <<db, queue, results, held, gone>>

(* insert returns to insertAll, which appends the instance.                   *)
BatchReturns(c) ==
    /\ pc[c] = "batchInserted"
    /\ results' = [results EXCEPT ![c] = Append(@, Assigned(c, Head(queue[c])))]
    /\ queue' = [queue EXCEPT ![c] = Tail(@)]
    /\ stored' = [stored EXCEPT ![c] = None]
    /\ Goto(c, "batch")
    /\ UNCHANGED <<db, draft, writer, lastInsertRowID, held, births, gone>>

(* COMMIT; the application keeps one of the instances.                        *)
BatchCommits(c) ==
    /\ pc[c] = "batch" /\ queue[c] = <<>>
    /\ db' = Seen(c)
    /\ gone' = gone \ {i \in Ids : Seen(c).rows[i] # None}
    /\ EndTransaction(c)
    /\ \E k \in DOMAIN results[c] : held' = [held EXCEPT ![c] = results[c][k]]
    /\ results' = [results EXCEPT ![c] = <<>>]
    /\ Goto(c, "idle")
    /\ UNCHANGED <<lastInsertRowID, queue, stored, births>>

(* Mutant: insertAll returns what it has inserted when an instance is refused.*)
ThrowsPartial(c) ==
    /\ pc[c] = "batch" /\ results[c] # <<>>
    /\ EndTransaction(c)
    /\ held' = [held EXCEPT ![c] = Head(results[c])]
    /\ queue' = [queue EXCEPT ![c] = <<>>]
    /\ results' = [results EXCEPT ![c] = <<>>]
    /\ Goto(c, "idle")
    /\ UNCHANGED <<db, lastInsertRowID, stored, births, gone>>

(* An instance or the COMMIT is refused: ROLLBACK, which takes the sequence   *)
(* back as well, and insertAll throws.                                        *)
BatchThrows(c) ==
    /\ pc[c] = "batch"
    /\ EndTransaction(c)
    /\ queue' = [queue EXCEPT ![c] = <<>>]
    /\ results' = [results EXCEPT ![c] = <<>>]
    /\ Goto(c, "idle")
    /\ UNCHANGED <<db, lastInsertRowID, held, stored, births, gone>>

-----------------------------------------------------------------------------
(* The application changes its instance and calls update: every column but    *)
(* the key is written, NULLs included, WHERE the key is the instance's.       *)
Update(c, txt, dbl) ==
    /\ Ready(c) /\ held[c] # None
    /\ held' = [held EXCEPT ![c].txt = txt, ![c].dbl = dbl]
    /\ LET i == held[c].id
       IN \/ /\ MayWrite(c) /\ TxtFree(txt, i, db)
             /\ db' = IF db.rows[i] = None THEN db
                      ELSE [db EXCEPT !.rows[i].txt = txt, !.rows[i].dbl = dbl]
          \/ UNCHANGED db                               \* it throws
    /\ Goto(c, "idle")
    /\ UNCHANGED <<draft, writer, lastInsertRowID, queue, results, stored, births, gone>>

(* delete(instances: [ob]): the row with the instance's key, if there is one. *)
Delete(c) ==
    /\ Ready(c) /\ held[c] # None /\ MayWrite(c)
    /\ db' = [db EXCEPT !.rows[held[c].id] = None]
    /\ gone' = gone \cup {held[c].id}
    /\ Goto(c, "idle")
    /\ UNCHANGED <<draft, writer, lastInsertRowID, queue, results, held, stored, births>>

(* deleteAll: the rows go, the sequence stays.                                *)
DeleteAll(c) ==
    /\ Ready(c) /\ MayWrite(c)
    /\ db' = [db EXCEPT !.rows = [i \in Ids |-> None]]
    /\ gone' = gone \cup {i \in Ids : db.rows[i] # None}
    /\ Goto(c, "idle")
    /\ UNCHANGED <<draft, writer, lastInsertRowID, queue, results, held, stored, births>>

(* refresh(ob): the row with its key, or the instance as it was.              *)
Refresh(c) ==
    /\ Ready(c) /\ held[c] # None
    /\ LET i == held[c].id
       IN held' = IF db.rows[i] = None THEN held
                  ELSE [held EXCEPT ![c] = Construct(i, db.rows[i])]
    /\ Goto(c, "idle")
    /\ UNCHANGED <<db, draft, writer, lastInsertRowID, queue, results, stored, births, gone>>

(* fetch(type, id:), or fetchAll: the application takes up a row it finds.    *)
Fetch(c, i) ==
    /\ Ready(c) /\ db.rows[i] # None
    /\ held' = [held EXCEPT ![c] = Construct(i, db.rows[i])]
    /\ Goto(c, "idle")
    /\ UNCHANGED <<db, draft, writer, lastInsertRowID, queue, results, stored, births, gone>>

(* The process dies, with its open transaction, and starts again.             *)
Crash(c) ==
    /\ EndTransaction(c)
    /\ lastInsertRowID' = [lastInsertRowID EXCEPT ![c] = 0]
    /\ queue' = [queue EXCEPT ![c] = <<>>]
    /\ results' = [results EXCEPT ![c] = <<>>]
    /\ held' = [held EXCEPT ![c] = None]
    /\ stored' = [stored EXCEPT ![c] = None]
    /\ Goto(c, "idle")
    /\ UNCHANGED <<db, births, gone>>

Operation(c) ==
    \/ \E ob \in Fresh, upsert \in BOOLEAN : Insert(c, ob, upsert)
    \/ held[c] # None /\ \E upsert \in BOOLEAN : Insert(c, held[c], upsert)
    \/ InsertReturns(c)
    \/ \E obs \in Batches : InsertAll(c, obs)
    \/ BatchInsert(c) \/ BatchReturns(c) \/ BatchCommits(c) \/ BatchThrows(c)
    \/ \E txt \in TxtValues, dbl \in DblValues : Update(c, txt, dbl)
    \/ Delete(c) \/ DeleteAll(c) \/ Refresh(c)
    \/ \E i \in Ids : Fetch(c, i)
    \/ Crash(c)

Next == \E c \in Clients : Operation(c)

Spec == Init /\ [][Next]_vars

-----------------------------------------------------------------------------
Contents == [rows : [Ids -> Rows \cup {None}], seq : 0 .. MaxId]

(* The types of the table, the connections and the instances.                 *)
TypeOK ==
    /\ db \in Contents
    /\ draft \in Contents \cup {None}
    /\ writer \in Clients \cup {None}
    /\ lastInsertRowID \in [Clients -> 0 .. MaxId]
    /\ pc \in [Clients -> {"idle", "inserted", "batch", "batchInserted"}]
    /\ queue \in [Clients -> Seq(Objects)]
    /\ results \in [Clients -> Seq(Objects)]
    /\ held \in [Clients -> {ob \in Objects : ob.id # 0} \cup {None}]
    /\ stored \in [Clients -> [row : Rows, merged : BOOLEAN] \cup {None}]
    /\ births \in 0 .. MaxBirths
    /\ gone \subseteq Ids

(* The row that has an instance's key is the row the instance was made from   *)
(* or inserted as, so that an update, a delete or a refresh never reaches a   *)
(* row of someone else, however rows were deleted, inserted and rolled back.  *)
IdentityKept ==
    \A c \in Clients :
        held[c] # None /\ db.rows[held[c].id] # None
            => db.rows[held[c].id].born = held[c].born

(* The row of an instance that insert or insertAll has returned is in the     *)
(* table unless somebody has deleted it: no refused batch leaves instances.   *)
NoPhantom ==
    \A c \in Clients :
        held[c] # None /\ db.rows[held[c].id] = None => held[c].id \in gone

(* The values of an instance are those of the row that was written for ob,    *)
(* or, where an upsert has updated a row, those that ob had values for.       *)
HasValues(got, ob, written) ==
    /\ got.txt = written.row.txt \/ (written.merged /\ ob.txt = Null)
    /\ got.dbl = written.row.dbl \/ (written.merged /\ ob.dbl = Null)

(* The instance that insert returns, or adds to what insertAll will return,   *)
(* has the values of the row it has written, defaults included; an upsert     *)
(* that updated a row leaves open only the columns it did not write.          *)
ReturnedAsStored ==
    [][\A c \in Clients :
         /\ pc[c] = "inserted" /\ pc'[c] = "idle" /\ held'[c] # None
               => HasValues(held'[c], Head(queue[c]), stored[c])
         /\ pc[c] = "batchInserted" /\ pc'[c] = "batch"
               => HasValues(results'[c][Len(results'[c])], Head(queue[c]), stored[c])]_vars

-----------------------------------------------------------------------------
(* What makes identity last.                                                  *)

(* The instance that c is about to be given.                                  *)
Returned(c) == Assigned(c, Head(queue[c]))

(* c believes, or is about to, that the row with key i is the one born as b.  *)
Claims(c, i, b) ==
    \/ held[c] # None /\ held[c].id = i /\ held[c].born = b
    \/ pc[c] = "inserted" /\ Returned(c).id = i /\ Returned(c).born = b

(* All who believe something of a key agree, and the row is that one or was   *)
(* deleted; what nobody has a claim to yet are the keys after the sequence.   *)
Agreement ==
    \A c \in Clients, i \in Ids, b \in 1 .. MaxBirths : Claims(c, i, b) =>
        /\ i <= db.seq
        /\ IF db.rows[i] = None THEN i \in gone ELSE db.rows[i].born = b
        /\ \A d \in Clients, a \in 1 .. MaxBirths : Claims(d, i, a) => a = b

(* No row has a key after the sequence.                                       *)
Sequenced(d) == \A i \in Ids : d.rows[i] # None => i <= d.seq

(* A writer's instance has a key that is new and the row of its draft.        *)
Drafted(ob) ==
    /\ db.seq < ob.id /\ ob.id <= draft.seq
    /\ ob.id \in Ids /\ draft.rows[ob.id] # None
    /\ draft.rows[ob.id].born = ob.born

(* Of an open transaction: it only adds rows, with keys after the sequence.   *)
DraftOK ==
    writer # None =>
        /\ draft \in Contents /\ Sequenced(draft)
        /\ db.seq <= draft.seq
        /\ \A i \in 1 .. db.seq : draft.rows[i] = db.rows[i]
        /\ pc[writer] \in {"batch", "batchInserted"}
        /\ \A k \in DOMAIN results[writer] : Drafted(results[writer][k])
        /\ pc[writer] = "batchInserted" => Drafted(Returned(writer))

(* Where an operation is, and what it has in hand.                            *)
OperationOK(c) ==
    /\ held[c] # None => held[c].born # 0
    /\ pc[c] \in {"inserted", "batchInserted"} =>
           /\ queue[c] # <<>> /\ stored[c] \in [row : Rows, merged : BOOLEAN]
           /\ Returned(c).id # 0
    /\ pc[c] \in {"batch", "batchInserted"} => queue[c] \in Seq(Fresh)
    /\ pc[c] \in {"inserted", "batchInserted"} =>
           HasValues(Assigned(c, Head(queue[c])), Head(queue[c]), stored[c])
    /\ results[c] # <<>> \/ pc[c] = "batchInserted" => writer = c

Inductive ==
    /\ TypeOK
    /\ Sequenced(db) /\ DraftOK /\ Agreement
    /\ \A c \in Clients : OperationOK(c)
=============================================================================
