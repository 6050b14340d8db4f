--------------------------------- MODULE Queries ---------------------------------
(***************************************************************************)
(* SQLTableQuery and the join queries: an application builds a predicate,    *)
(* adds it to a query with where, joins one or two more tables, and eval     *)
(* makes one SELECT of it and takes the rows apart into instances again.     *)
(* Next to it, the instances of primaryKeyQuery, which update and delete use.*)
(*                                                                           *)
(* Ordering, limits, schema names and the quoting of names are left out.     *)
(***************************************************************************)
EXTENDS Predicates

CONSTANTS
    None,           \* no predicate, no condition, no instance
    Tables,         \* the tables, by name: the columns, how an alias of the
                    \* table names each of them, and the rows
    Atoms(_),       \* the simple predicates about some columns
    MaxSize,        \* bound: predicates in a query, a join counting for two
    KeyColumns,     \* a table with a composite primary key
    KeyRows,        \* and its rows
    MaxKeys         \* bound: the instances of one update or delete

ASSUME TwoKeyColumns == Len(KeyColumns) = 2
ASSUME BoundsOK == MaxSize \in Nat /\ MaxKeys \in Nat

VARIABLES
    tables,         \* the names of the tables, in the order they were joined
    joins,          \* the kind and the condition of each join
    whereClauses,   \* the predicates given to where
    pred,           \* the predicate being built, or None
    keys            \* the primary keys of the instances to update or delete

vars == <<tables, joins, whereClauses, pred, keys>>

Kinds == {"left", "right", "full", "inner", "cross"}

(* A column is its name and the foreign key it references, if any.            *)
ForeignKeys(t) == {c \in ToSet(Tables[t].columns) : c.references # None}

ColumnsOf(ts) == FlattenSeq([k \in DOMAIN ts |-> Tables[ts[k]].columns])
NamesOf(t) == [k \in DOMAIN Tables[t].columns |->
                 Tables[t].as[Tables[t].columns[k].name]]
Names(ts) == FlattenSeq([k \in DOMAIN ts |-> NamesOf(ts[k])])

Init ==
    /\ \E t \in DOMAIN Tables : tables = <<t>>
    /\ joins = <<>>
    /\ whereClauses = <<>>
    /\ pred = None
    /\ keys = <<>>

RECURSIVE Size(_)
Size(p) ==
    IF p = None THEN 0
    ELSE IF p.pred \in {"and", "or"} THEN Size(p.parts[1]) + Size(p.parts[2])
    ELSE IF p.pred = "not" THEN Size(p.part) ELSE 1

Room ==
    keys = <<>> /\ 2 * Len(joins) + Size(pred) + FoldLeft(LAMBDA n, p : n + Size(p), 0,
                                             whereClauses) < MaxSize

-----------------------------------------------------------------------------
(* query(type).join(type, kind:, on:): a column that is a foreign key between *)
(* the new table and the one before it, one that is none, or nothing.         *)
Conditions(from, to) ==
    {c \in ForeignKeys(from) : c.references.table = to}
        \cup {c \in ForeignKeys(to) : c.references.table = from}
        \cup {Head(Tables[to].columns), None}

Join(t, kind) ==
    /\ Len(tables) < 3 /\ t \notin ToSet(tables) /\ pred = None /\ Room
    /\ \E condition \in Conditions(Last(tables), t) :
         joins' = Append(joins, [kind |-> kind, condition |-> condition])
    /\ tables' = Append(tables, t)
    /\ UNCHANGED <<whereClauses, pred, keys>>

(* The application builds a predicate.                                        *)
Build ==
    /\ Room
    /\ \E p \in Atoms(Names(tables)) :
         pred' \in IF pred = None THEN {p} ELSE {And(<<pred, p>>), Or(<<p, pred>>)}
    /\ UNCHANGED <<tables, joins, whereClauses, keys>>

Negate ==
    /\ pred # None /\ pred.pred # "not"
    /\ pred' = Not(pred)
    /\ UNCHANGED <<tables, joins, whereClauses, keys>>

(* Mutant: where(nil) adds a clause.                                          *)
WhereAny(p) ==
    /\ Len(whereClauses) < 2
    /\ whereClauses' = Append(whereClauses, p)
    /\ pred' = None
    /\ UNCHANGED <<tables, joins, keys>>

(* where(predicate): one more clause, unless it is nil.                       *)
Where(p) ==
    /\ p # None /\ Len(whereClauses) < 2
    /\ whereClauses' = Append(whereClauses, p)
    /\ pred' = None
    /\ UNCHANGED <<tables, joins, keys>>

(* One more instance is to be updated or deleted.                             *)
AddInstance(row) ==
    /\ Len(tables) = 1 /\ pred = None /\ whereClauses = <<>>
    /\ Len(keys) < MaxKeys
    /\ keys' = Append(keys, [k \in DOMAIN KeyColumns |-> row[KeyColumns[k]]])
    /\ UNCHANGED <<tables, joins, whereClauses, pred>>

Next ==
    \/ \E t \in DOMAIN Tables, kind \in Kinds : Join(t, kind)
    \/ Build
    \/ Negate
    \/ Where(pred)
    \/ \E row \in KeyRows : AddInstance(row)

Spec == Init /\ [][Next]_vars

-----------------------------------------------------------------------------
(* SQLColumn.applyJoinCondition: each side of the foreign key under the alias *)
(* of the table it is in.                                                     *)
JoinCondition(column, from, to) ==
    IF column.references = None THEN Bound(1)
    ELSE IF column \in ToSet(Tables[from].columns)
    THEN Apply(Equals(Column(Tables[to].as[column.references.column]),
                      Column(Tables[from].as[column.name])))
    ELSE Apply(Equals(Column(Tables[from].as[column.references.column]),
                      Column(Tables[to].as[column.name])))

JoinClause(k) ==
    Concat(<<Text(joins[k].kind), Text(tables[k + 1])>>
           \o IF joins[k].condition = None THEN <<>>
              ELSE <<Text("ON"),
                     JoinCondition(joins[k].condition, tables[k], tables[k + 1])>>)

(* SQLContext.applyClauses: the where clauses are joined with AND.            *)
WhereClause ==
    IF whereClauses = <<>> THEN Empty
    ELSE Concat(<<Text("WHERE"), Apply(And(whereClauses))>>)

(* SQLContext.assembleQuery, from the first table on.                         *)
Select ==
    Concat(<<Text(tables[1])>> \o [k \in DOMAIN joins |-> JoinClause(k)]
           \o <<WhereClause>>)

-----------------------------------------------------------------------------
(* The pairs of a join: those that match, and by its kind those of one side   *)
(* that match none of the other, next to nothing.                             *)
Pairs(left, right, kind, Match(_, _), noLeft, noRight) ==
    LET matched == {p \in left \X right : Match(p[1], p[2])}
    IN matched
       \cup {<<l, noRight>> : l \in
               {l \in left : kind \in {"left", "full"} /\ ~\E r \in right : Match(l, r)}}
       \cup {<<noLeft, r>> : r \in
               {r \in right : kind \in {"right", "full"} /\ ~\E l \in left : Match(l, r)}}

(* A row of the tables ts, by the names of its columns.                       *)
Named(ts, flat) ==
    LET names == Names(ts)
    IN [n \in ToSet(names) |-> flat[CHOOSE k \in DOMAIN names : names[k] = n]]

Nulls(ts) == [k \in DOMAIN Names(ts) |-> Null]

(* What SQLite makes of the text: the rows of the first table, joined with    *)
(* each of the others under its condition, that satisfy the WHERE.  A clause  *)
(* ends where the next begins.                                                *)
EndOfClause(st, i) ==
    CHOOSE n \in i + 1 .. Len(st.sql) :
        /\ Token(st, n + 1) \in Kinds \cup {"WHERE", "end"}
        /\ \A k \in i + 1 .. n : st.sql[k] \notin Kinds \cup {"WHERE"}

RECURSIVE JoinedRows(_, _, _, _)
JoinedRows(st, ts, rows, i) ==
    IF Token(st, i) = "WHERE" THEN
        {flat \in rows : Holds(st, Named(ts, flat), i + 1, Len(st.sql))}
    ELSE IF Token(st, i) = "end" THEN rows
    ELSE LET t == st.sql[i + 1]
             end == EndOfClause(st, i)
             all == Append(ts, t)
             Match(l, r) == end = i + 1 \/ Holds(st, Named(all, l \o r), i + 3, end)
             pairs == Pairs(rows, Tables[t].rows, st.sql[i], Match, Nulls(ts), Nulls(<<t>>))
         IN JoinedRows(st, all, {p[1] \o p[2] : p \in pairs}, end + 1)

Fetched == JoinedRows(Select, <<tables[1]>>, Tables[tables[1]].rows, 2)

(* constructOptional: no instance when every value is NULL.                   *)
ConstructOptional(values) == IF ToSet(values) \subseteq {Null} THEN None ELSE values

(* eval: the values of a row, cut at the numbers of columns of the tables.    *)
Instances(flat) ==
    LET Width(k) == Len(Tables[tables[k]].columns)
        Start(k) == FoldLeft(LAMBDA n, t : n + Len(Tables[t].columns), 0,
                             SubSeq(tables, 1, k - 1))
        Values(k) == SubSeq(flat, Start(k) + 1, Start(k) + Width(k))
    IN IF Len(tables) = 1 THEN <<Values(1)>>
       ELSE [k \in DOMAIN tables |-> ConstructOptional(Values(k))]

Evaluated == {Instances(flat) : flat \in Fetched}

-----------------------------------------------------------------------------
(* What the query asks for, said of instances: a join on a foreign key pairs  *)
(* an instance with those it references, or that reference it.                *)
At(t, values, name) ==
    values[CHOOSE k \in DOMAIN values : Tables[t].columns[k].name = name]

Linked(column, holder, x, target, y) ==
    LET v == At(holder, x, column.name)
    IN v # Null /\ v = At(target, y, column.references.column)

Related(k, x, y) ==
    LET column == joins[k].condition
        from == tables[k]
        to == tables[k + 1]
    IN IF column = None THEN TRUE
       ELSE IF column.references = None THEN TRUE
       ELSE /\ x # None
            /\ IF column.references.table = to
               THEN Linked(column, from, x, to, y)
               ELSE Linked(column, to, y, from, x)

RECURSIVE JoinedInstances(_)
JoinedInstances(n) ==
    IF n = 1 THEN {<<values>> : values \in Tables[tables[1]].rows}
    ELSE LET Match(l, y) == Related(n - 1, l[n - 1], y)
         IN {Append(p[1], p[2]) :
               p \in Pairs(JoinedInstances(n - 1), Tables[tables[n]].rows,
                           joins[n - 1].kind, Match, [k \in 1 .. n - 1 |-> None], None)}

Flat(instances) ==
    FlattenSeq([k \in DOMAIN instances |->
                  IF instances[k] = None THEN Nulls(<<tables[k]>>) ELSE instances[k]])

Asked ==
    {instances \in JoinedInstances(Len(tables)) :
       \A k \in DOMAIN whereClauses :
          Meaning(whereClauses[k], Named(tables, Flat(instances))) = 1}

(* The keys of the rows that the statement of primaryKeyQuery reaches.        *)
Reached(columns, ks, rowValueIn) ==
    LET st == Apply(PrimaryKeyQuery(columns, ks, rowValueIn))
    IN {[k \in DOMAIN columns |-> row[columns[k]]] : row \in {r \in KeyRows : Holds(st, r, 1, Len(st.sql))}}

-----------------------------------------------------------------------------
(* The types of a query under construction.                                   *)
TypeOK ==
    /\ tables \in Seq(DOMAIN Tables) /\ Len(tables) = Len(joins) + 1
    /\ \A k \in DOMAIN joins : joins[k].kind \in Kinds
    /\ None \notin ToSet(whereClauses)
    /\ \A k \in DOMAIN keys : Len(keys[k]) = Len(KeyColumns)

(* A query returns the instances it asks for: the text that is assembled,     *)
(* read as SQLite reads it, with its bindings in their places, and the rows   *)
(* taken apart again, give what the predicates and the joins mean.  (A        *)
(* predicate that is still being built is not in the query.)                  *)
ReturnsWhatIsAsked == pred = None => Evaluated = Asked

(* The statement of update and delete reaches the rows of the instances it is *)
(* given and no others, with one key column or two, and with or without row   *)
(* values.                                                                    *)
KeysReachTheirRows ==
    keys # <<>> =>
        /\ \A rowValueIn \in BOOLEAN : Reached(KeyColumns, keys, rowValueIn) = ToSet(keys)
        /\ LET first == [k \in DOMAIN keys |-> <<keys[k][1]>>]
           IN Reached(<<KeyColumns[1]>>, first, FALSE) = ToSet(first)
=============================================================================
