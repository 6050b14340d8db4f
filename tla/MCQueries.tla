------------------------------ MODULE MCQueries ------------------------------
(* Small instances of Queries for TLC.                                      *)
EXTENDS Queries

Plain(name) == [name |-> name, references |-> None]
Foreign(name, table) ==
    [name |-> name, references |-> [table |-> table, column |-> "ID"]]

Family ==
    [parent |-> [columns |-> <<Plain("ID"), Plain("INFO")>>,
                 as |-> [ID |-> "t0.ID", INFO |-> "t0.INFO"],
                 rows |-> {<<1, 2>>, <<2, Null>>, <<3, 1>>}],
     child |-> [columns |-> <<Plain("ID"), Foreign("PARENT_ID", "parent"), Plain("INFO")>>,
                as |-> [ID |-> "t1.ID", PARENT_ID |-> "t1.PARENT_ID", INFO |-> "t1.INFO"],
                rows |-> {<<1, 2, 3>>, <<2, 2, Null>>, <<3, Null, 1>>}],
     toy |-> [columns |-> <<Plain("ID"), Foreign("CHILD_ID", "child")>>,
              as |-> [ID |-> "t2.ID", CHILD_ID |-> "t2.CHILD_ID"],
              rows |-> {<<1, 3>>, <<2, Null>>}]]

(* Predicates about the first and the last column of a query.               *)
About(names) ==
    LET first == Column(Head(names))
        last == Column(Last(names))
    IN {Equals(last, Value(Null)), NotEquals(last, Value(2)), Compare(first, "<", last),
        In(Tuple(<<first, last>>), <<Tuple(<<Value(1), Value(2)>>),
                                     Tuple(<<Value(2), Value(Null)>>)>>),
        Custom(<<Head(names), ">=", "?">>, <<2>>, Compare(first, ">=", Value(2)))}

(* The ranges.                                                              *)
Ranges(names) ==
    {Between(Column(Last(names)), Value(1), Value(2)),
     NotBetween(Column(Last(names)), Value(1), Value(2))}

TwoColumns == <<"ID1", "ID2">>
Grid == [ID1 : 1 .. 2, ID2 : 1 .. 2]
=============================================================================
