--------------------------- MODULE MCQueryFilter ----------------------------
(* Instances of QueryFilter for TLC: a keyword and a number, one sibling.  *)
EXTENDS QueryFilter, TLC

CONSTANTS a, b, Spellings

MCFields == {"brand", "price"}
MCDocuments == {("brand" :> bs) @@ ("price" :> ps) :
                    bs \in SUBSET {a, b}, ps \in SUBSET {0, 1, 2}}

Term(v) == [kind |-> "term", field |-> "brand", values |-> {v}]
Exists(f) == [kind |-> "exists", field |-> f]

\* Exactly the number 1, however it is written.
Between(lower, upper) ==
    [Range("price", (lower :> 0) @@ (upper :> 1)) EXCEPT !.includeLower = FALSE]

MCLeaves ==
    {[kind |-> "match_all"], Term(a),
     [kind |-> "terms", field |-> "brand", values |-> {a, b}],
     Range("price", [gte |-> 1]), Exists("price"),
     [kind |-> "pattern", field |-> "brand", values |-> {b}]}
    \cup {Between(s[1], s[2]) : s \in Spellings}

MCSiblings == {Term(b), Exists("brand"),
               [kind |-> "pattern", field |-> "brand", values |-> {a}]}

Number(n) == [percent |-> FALSE, n |-> n]
MCMinimums == {None, Number(0), Number(1), Number(2),
               [percent |-> TRUE, n |-> 50]}
MCSpellings == {<<"gt", "lte">>, <<"from", "to">>}
=============================================================================
