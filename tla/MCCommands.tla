----------------------------- MODULE MCCommands -----------------------------
(* Instances of Commands for TLC. *)
EXTENDS Commands

CONSTANTS t1, t2, n1, n2

MCTenants == {t1, t2}
\* One tenant with two source connections, another with one.
MCLogins == {<<t1, n1>>, <<t1, n2>>, <<t2, n1>>}

Doc == <<"doc", "">>
Str(s) == <<"string", s>>
Int32(i) == <<"int32", i>>
Int64(i) == <<"int64", i>>

\* A command for the collection coll of a database, the first field its name.
CommandFor(name, db, nodes) ==
    [name |-> name, ns |-> <<db, "coll">>,
     body |-> {Node(<< >>, 0, Doc), Node(<<name>>, 1, Str("coll_cache")),
               Node(<<"$db">>, 9, Str(db))} \cup nodes]
FindWith(nodes) == CommandFor("find", "db", nodes)

\* A document in the field at place i with two integer fields, or with one.
TwoFields(field, i, first, second) ==
    {Node(<<field>>, i, Doc), Node(<<field, first[1]>>, 1, first[2]),
     Node(<<field, second[1]>>, 2, second[2])}
OneField(field, i, first) == {Node(<<field>>, i, Doc), Node(<<field, first[1]>>, 1, first[2])}
FilterA == OneField("filter", 2, <<"a", Int32(1)>>)
AB(field) == TwoFields(field, 2, <<"a", Int32(1)>>, <<"b", Int32(1)>>)
BA(field, i) == TwoFields(field, i, <<"b", Int32(1)>>, <<"a", Int64(1)>>)

\* A pipeline whose stages, in order, are the given fields.
Pipeline(stages) ==
    {Node(<<"pipeline">>, 2, <<"array", "">>)} \cup
    UNION {{Node(<<"pipeline", s[1]>>, 0, Doc), Node(<<"pipeline", s[1], s[2]>>, 1, s[3])} :
              s \in stages}
Aggregate(stages) == CommandFor("aggregate", "db", Pipeline(stages))

\* The same filter three ways, and what must not be taken for it.
MCRequests ==
    { FindWith(AB("filter")),
      FindWith({Node(<<"lsid">>, 2, Str("s")), Node(<<"comment">>, 4, Str("x"))}
               \cup BA("filter", 3)),
      FindWith(FilterA),
      CommandFor("find", "db2", FilterA),
      FindWith(FilterA \cup {Node(<<"txnNumber">>, 3, Int64(1))}),
      FindWith(FilterA \cup {Node(<<"autocommit">>, 3, Str("false"))}),
      Aggregate({<<"0", "$limit", Int32(1)>>}),
      Aggregate({<<"0", "$limit", Int32(1)>>, <<"1", "$out", Str("other")>>}),
      CommandFor("insert", "db", {}) }

\* Sorts in two orders, and a filter on a field whose name is that of an option.
MCNestedRequests ==
    { FindWith(AB("sort")),
      FindWith(BA("sort", 2)),
      FindWith(TwoFields("filter", 2, <<"a", Int32(1)>>, <<"comment", Str("x")>>)) }
MCAllRequests == MCRequests \cup MCNestedRequests
=============================================================================
