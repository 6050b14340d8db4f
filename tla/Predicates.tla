------------------------------- MODULE Predicates -------------------------------
(***************************************************************************)
(* SQLPredicate and SQLRepresentable: how a condition that is built with     *)
(* them becomes SQL text with bindings, what SQLite reads in that text, and  *)
(* what the condition was meant to say.                                      *)
(*                                                                           *)
(* A statement is a sequence of tokens and a sequence of bindings; a token   *)
(* stands for what is written between spaces.  A value of SQL is a tuple:    *)
(* <<v>> for a scalar, longer for a row value; truth is 1, 0 or Null.        *)
(***************************************************************************)
EXTENDS Integers, Sequences, SequencesExt, FiniteSets

CONSTANT Null       \* the NULL value

-----------------------------------------------------------------------------
(* SQLRepresentable: a column, a bound value or a tuple.                      *)
Column(name) == [column |-> name]
Value(v) == [value |-> v]
Tuple(reps) == [tuple |-> reps]

Is(rep, kind) == kind \in DOMAIN rep

(* SQLExpression: its text and its bindings, in the order of its parts.       *)
Text(token) == [sql |-> <<token>>, bindings |-> <<>>]
Bound(v) == [sql |-> <<"?">>, bindings |-> <<v>>]
Empty == [sql |-> <<>>, bindings |-> <<>>]

Join2(e, f) == [sql |-> e.sql \o f.sql, bindings |-> e.bindings \o f.bindings]
Concat(es) == FoldLeft(Join2, Empty, es)

Separated(es, separator) ==
    FoldLeft(LAMBDA e, f : IF e = Empty THEN f ELSE Concat(<<e, Text(separator), f>>),
             Empty, es)

RECURSIVE Represent(_)
Represent(rep) ==
    IF Is(rep, "column") THEN Text(rep.column)
    ELSE IF Is(rep, "value") THEN Bound(rep.value)
    ELSE Concat(<<Text("("),
                  Separated([k \in DOMAIN rep.tuple |-> Represent(rep.tuple[k])], ","),
                  Text(")")>>)

-----------------------------------------------------------------------------
(* The predicates.                                                            *)
Compare(lhs, op, rhs) == [pred |-> "compare", lhs |-> lhs, op |-> op, rhs |-> rhs]
IsNull(rep) == [pred |-> "isNull", rep |-> rep]
IsNotNull(rep) == [pred |-> "isNotNull", rep |-> rep]
Between(rep, min, max) == [pred |-> "between", rep |-> rep, min |-> min, max |-> max]
NotBetween(rep, min, max) == [pred |-> "notBetween", rep |-> rep, min |-> min, max |-> max]
In(rep, values) == [pred |-> "in", rep |-> rep, values |-> values]
And(ps) == [pred |-> "and", parts |-> ps]
Or(ps) == [pred |-> "or", parts |-> ps]
Not(p) == [pred |-> "not", part |-> p]

(* SQL of the application's own, which says what the predicate means says.    *)
Custom(sql, bindings, means) ==
    [pred |-> "custom", sql |-> sql, bindings |-> bindings, means |-> means]

NullValue(rep) == Is(rep, "value") /\ rep = Value(Null)

Equals(lhs, rhs) == IF NullValue(rhs) THEN IsNull(lhs) ELSE Compare(lhs, "=", rhs)
NotEquals(lhs, rhs) == IF NullValue(rhs) THEN IsNotNull(lhs) ELSE Compare(lhs, "<>", rhs)

(* Mutant: a compound without parentheses.                                    *)
CompoundBare(conjunction, es) == Separated(es, conjunction)

(* SQLPredicate.compound: parentheses, unless there is only one part.         *)
Compound(conjunction, es) ==
    IF Len(es) > 1
    THEN Concat(<<Text("("), Separated(es, conjunction), Text(")")>>)
    ELSE Separated(es, conjunction)

(* The bounds of between: the code writes min twice.                          *)
Bounds(min, max) == Concat(<<Represent(min), Text("AND"), Represent(min)>>)

(* SQLPredicate.apply.                                                        *)
RECURSIVE Apply(_)
Apply(p) ==
    CASE p.pred = "compare" ->
           Concat(<<Represent(p.lhs), Text(p.op), Represent(p.rhs)>>)
      [] p.pred = "isNull" -> Concat(<<Represent(p.rep), Text("ISNULL")>>)
      [] p.pred = "isNotNull" -> Concat(<<Represent(p.rep), Text("NOTNULL")>>)
      [] p.pred = "between" ->
           Concat(<<Represent(p.rep), Text("BETWEEN"), Bounds(p.min, p.max)>>)
      [] p.pred = "notBetween" ->
           Concat(<<Represent(p.rep), Text("NOT BETWEEN"), Bounds(p.min, p.max)>>)
      [] p.pred = "in" ->
           Concat(<<Represent(p.rep), Text("IN"), Text("("),
                    Separated([k \in DOMAIN p.values |-> Represent(p.values[k])], ","),
                    Text(")")>>)
      [] p.pred = "and" -> Compound("AND", [k \in DOMAIN p.parts |-> Apply(p.parts[k])])
      [] p.pred = "or" -> Compound("OR", [k \in DOMAIN p.parts |-> Apply(p.parts[k])])
      [] p.pred = "not" -> Concat(<<Text("NOT"), Text("("), Apply(p.part), Text(")")>>)
      [] p.pred = "custom" -> [sql |-> p.sql, bindings |-> p.bindings]

-----------------------------------------------------------------------------
(* SQL's three-valued logic.                                                  *)
Bit(b) == IF b THEN 1 ELSE 0
Not3(x) == IF x = Null THEN Null ELSE 1 - x
And3(x, y) == IF 0 \in {x, y} THEN 0 ELSE IF Null \in {x, y} THEN Null ELSE 1
Or3(x, y) == Not3(And3(Not3(x), Not3(y)))

ComparisonOps == {"=", "<>", "<", "<=", ">", ">="}

Compare3(x, op, y) ==
    IF Null \in {x, y} THEN Null
    ELSE Bit(CASE op = "=" -> x = y [] op = "<>" -> x # y [] op = "<" -> x < y
               [] op = "<=" -> x <= y [] op = ">" -> x > y [] op = ">=" -> x >= y)

(* Row values are equal when all their parts are.                             *)
Equal3(v, w) == FoldLeft(And3, 1, [k \in DOMAIN v |-> Compare3(v[k], "=", w[k])])
In3(v, ws) == FoldLeft(Or3, 0, [k \in DOMAIN ws |-> Equal3(v, ws[k])])
Between3(x, min, max) == And3(Compare3(min, "<=", x), Compare3(x, "<=", max))

-----------------------------------------------------------------------------
(* What SQLite reads in the text: OR binds looser than AND, AND than NOT, NOT *)
(* than the comparisons; the n-th ? has the n-th binding.  The text is read   *)
(* token by token; s keeps the values and the operators still to be applied.  *)
Token(st, i) == IF i \in DOMAIN st.sql THEN st.sql[i] ELSE "end"
Binding(st, i) == st.bindings[Cardinality({j \in 1 .. i : st.sql[j] = "?"})]

Open == <<>>        \* among the values, where a parenthesis has been opened

Push(s, op) == [s EXCEPT !.ops = Append(@, op)]
PushValue(s, v) == [s EXCEPT !.vals = Append(@, v)]

Precedence(op) ==
    CASE op = "(" -> 0 [] op = "OR" -> 1 [] op = "AND" -> 2 [] op = "NOT" -> 3
      [] OTHER -> 4

Arity(op) == IF op = "NOT" THEN 1 ELSE IF op \in {"RANGE", "NOT RANGE"} THEN 3 ELSE 2

Result(op, v) ==
    CASE op = "NOT" -> Not3(v[1][1])
      [] op = "AND" -> And3(v[1][1], v[2][1])
      [] op = "OR" -> Or3(v[1][1], v[2][1])
      [] op = "RANGE" -> Between3(v[1][1], v[2][1], v[3][1])
      [] op = "NOT RANGE" -> Not3(Between3(v[1][1], v[2][1], v[3][1]))
      [] OTHER -> Compare3(v[1][1], op, v[2][1])

(* The last operators are applied, those that bind at least as tight as level.*)
RECURSIVE Reduce(_, _)
Reduce(s, level) ==
    IF s.ops = <<>> \/ Precedence(Last(s.ops)) < level THEN s
    ELSE LET op == Last(s.ops)
             rest == Len(s.vals) - Arity(op)
             v == SubSeq(s.vals, rest + 1, Len(s.vals))
         IN Reduce([vals |-> Append(SubSeq(s.vals, 1, rest), <<Result(op, v)>>),
                    ops |-> Front(s.ops)], level)

(* A parenthesis is closed: the list of an IN, a row value or one value.      *)
Close(s) ==
    LET open == SelectLastInSeq(s.vals, LAMBDA v : v = Open)
        list == SubSeq(s.vals, open + 1, Len(s.vals))
        ops == Front(s.ops)
    IN IF ops # <<>> /\ Last(ops) = "IN"
       THEN [vals |-> Append(SubSeq(s.vals, 1, open - 2),
                             <<In3(s.vals[open - 1], list)>>),
             ops |-> Front(ops)]
       ELSE [vals |-> Append(SubSeq(s.vals, 1, open - 1), FlattenSeq(list)), ops |-> ops]

ReadToken(st, row, s, i) ==
    LET t == Token(st, i)
        from == IF s.ops = <<>> THEN "" ELSE Last(s.ops)
    IN CASE t = "(" -> Push(PushValue(s, Open), t)
         [] t = "," -> Reduce(s, 1)
         [] t = ")" -> Close(Reduce(s, 1))
         [] t = "AND" /\ from = "BETWEEN" -> [s EXCEPT !.ops = Append(Front(@), "RANGE")]
         [] t = "AND" /\ from = "NOT BETWEEN" ->
              [s EXCEPT !.ops = Append(Front(@), "NOT RANGE")]
         [] t = "NOT" -> Push(s, t)
         [] t \in {"ISNULL", "NOTNULL"} ->
              [s EXCEPT !.vals = Append(Front(@),
                                        <<Bit((Last(@)[1] = Null) <=> (t = "ISNULL"))>>)]
         [] t \in ComparisonOps \cup {"OR", "AND", "IN", "BETWEEN", "NOT BETWEEN"} ->
              Push(Reduce(s, Precedence(t)), t)
         [] t = "?" -> PushValue(s, <<Binding(st, i)>>)
         [] OTHER -> PushValue(s, <<row[t]>>)

(* The expression from first to last, and whether it holds of the row.        *)
Holds(st, row, first, last) ==
    LET read == FoldLeft(LAMBDA s, i : ReadToken(st, row, s, i),
                         [vals |-> <<>>, ops |-> <<>>],
                         [k \in 1 .. last - first + 1 |-> first + k - 1])
    IN Reduce(read, 1).vals[1] = <<1>>

-----------------------------------------------------------------------------
(* What a predicate was meant to say of a row.                                *)
RECURSIVE ValueOf(_, _)
ValueOf(rep, row) ==
    IF Is(rep, "column") THEN <<row[rep.column]>>
    ELSE IF Is(rep, "value") THEN <<rep.value>>
    ELSE [k \in DOMAIN rep.tuple |-> ValueOf(rep.tuple[k], row)[1]]

RECURSIVE Meaning(_, _)
Meaning(p, row) ==
    CASE p.pred = "compare" ->
           Compare3(ValueOf(p.lhs, row)[1], p.op, ValueOf(p.rhs, row)[1])
      [] p.pred = "isNull" -> Bit(ValueOf(p.rep, row)[1] = Null)
      [] p.pred = "isNotNull" -> Bit(ValueOf(p.rep, row)[1] # Null)
      [] p.pred \in {"between", "notBetween"} ->
           LET within == Between3(ValueOf(p.rep, row)[1], ValueOf(p.min, row)[1],
                                  ValueOf(p.max, row)[1])
           IN IF p.pred = "between" THEN within ELSE Not3(within)
      [] p.pred = "in" ->
           In3(ValueOf(p.rep, row), [k \in DOMAIN p.values |-> ValueOf(p.values[k], row)])
      [] p.pred = "and" ->
           FoldLeft(And3, 1, [k \in DOMAIN p.parts |-> Meaning(p.parts[k], row)])
      [] p.pred = "or" ->
           FoldLeft(Or3, 0, [k \in DOMAIN p.parts |-> Meaning(p.parts[k], row)])
      [] p.pred = "not" -> Not3(Meaning(p.part, row))
      [] p.pred = "custom" -> Meaning(p.means, row)

-----------------------------------------------------------------------------
(* Mutant: the instances of the fallback are joined with AND.                 *)
PrimaryKeyQueryAnd(columns, keys, rowValueIn) ==
    And([k \in DOMAIN keys |->
           And([n \in DOMAIN columns |-> Equals(Column(columns[n]), Value(keys[k][n]))])])

(* SQLContext.primaryKeyQuery: the predicate for the instances with the given *)
(* keys, on a connection that does or does not support row values with IN.    *)
PrimaryKeyQuery(columns, keys, rowValueIn) ==
    IF Len(columns) = 1 THEN
        IF Len(keys) = 1 THEN Equals(Column(columns[1]), Value(keys[1][1]))
        ELSE In(Column(columns[1]), [k \in DOMAIN keys |-> Value(keys[k][1])])
    ELSE IF rowValueIn THEN
        In(Tuple([n \in DOMAIN columns |-> Column(columns[n])]),
           [k \in DOMAIN keys |->
              Tuple([n \in DOMAIN columns |-> Value(keys[k][n])])])
    ELSE Or([k \in DOMAIN keys |->
               And([n \in DOMAIN columns |-> Equals(Column(columns[n]), Value(keys[k][n]))])])
=============================================================================
