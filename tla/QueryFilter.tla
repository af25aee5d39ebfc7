---------------------------- MODULE QueryFilter -----------------------------
(***************************************************************************)
(* The three evaluations of a filter query (main.rs): query_filter         *)
(* translates it for Qdrant, collect_patterns takes out the patterns which *)
(* the gateway matches itself, and source_matches_query evaluates a        *)
(* post_filter on the source of a hit.  Text clauses are left out.         *)
(*                                                                         *)
(* A client composes the query from Leaves.  A document gives each field   *)
(* the set of its values: a field that is missing, null or [] has none.    *)
(* A pattern is the set of strings that match it.                          *)
(* Bound: MaxDepth, and one sibling beside each nested clause.             *)
(***************************************************************************)
EXTENDS Naturals, Sequences, FiniteSets

CONSTANTS
    Fields,
    Documents,     \* functions from Fields to sets of values
    Leaves,
    Siblings,
    Minimums,      \* values of minimum_should_match, None if absent
    MaxDepth,
    None

ASSUME QueryAssumption ==
    /\ \A doc \in Documents : DOMAIN doc = Fields
    /\ MaxDepth \in Nat

VARIABLES query, depth

vars == <<query, depth>>

Range(field, bounds) ==
    [kind |-> "range", field |-> field, bounds |-> bounds,
     includeLower |-> TRUE, includeUpper |-> TRUE]

Required(q) == q.must \cup q.filter
Alternatives(q) == {q.should[i] : i \in DOMAIN q.should}

\* bool_clauses and the queries of dis_max
Clauses(q) ==
    CASE q.kind = "bool"    -> Required(q) \cup q.must_not \cup Alternatives(q)
      [] q.kind = "dis_max" -> q.queries
      [] OTHER              -> {}

RECURSIVE HasKind(_, _)
HasKind(q, kind) ==
    q.kind = kind \/ \E c \in Clauses(q) : HasKind(c, kind)

----------------------------------------------------------------------------
(* minimum_should_match                                                    *)

AtMost(n, m) == IF n < m THEN n ELSE m
AtLeast(n, m) == IF n > m THEN n ELSE m

Percent(p, n) == (n * p + 99) \div 100

\* Mutant: an explicit minimum is taken as it is.
ExplicitMinimum(msm, n, required) ==
    IF msm = None THEN IF required THEN 0 ELSE AtMost(1, n)
    ELSE AtMost(IF msm.percent THEN Percent(msm.n, n) ELSE msm.n, n)

MinimumShouldMatch(msm, n, required) ==
    LET least == IF required THEN 0 ELSE 1
        explicit == CASE msm = None   -> least
                      [] msm # None /\ msm.percent  -> Percent(msm.n, n)
                      [] msm # None /\ ~msm.percent -> msm.n
    IN  AtMost(AtLeast(explicit, least), n)

MinimumOf(q) ==
    MinimumShouldMatch(q.minimum, Len(q.should), Required(q) # {})

----------------------------------------------------------------------------
(* Qdrant filters.                                                         *)

Match(field, values) == [kind |-> "match", key |-> field, any |-> values]
Filter(must, mustNot) ==
    [kind |-> "filter", must |-> must, must_not |-> mustNot]

Compares(op, v, bound) ==
    CASE op = "gt"  -> v > bound
      [] op = "gte" -> v >= bound
      [] op = "lt"  -> v < bound
      [] op = "lte" -> v <= bound

\* One value within all bounds.
Within(values, range) ==
    \E v \in values : \A op \in DOMAIN range : Compares(op, v, range[op])

RECURSIVE Selects(_, _)
Selects(c, doc) ==
    CASE c.kind = "match"    -> doc[c.key] \cap c.any # {}
      [] c.kind = "range"    -> Within(doc[c.key], c.range)
      [] c.kind = "is_empty" -> doc[c.key] = {}
      [] c.kind = "filter"   ->
            /\ \A d \in c.must : Selects(d, doc)
            /\ \A d \in c.must_not : ~Selects(d, doc)
      [] c.kind = "min_should" ->
            Cardinality({i \in DOMAIN c.conditions :
                            Selects(c.conditions[i], doc)}) >= c.min_count

----------------------------------------------------------------------------
(* query_filter                                                            *)

\* Mutant: what a nested clause excludes is forgotten.
ConditionPositive(w) == Filter(w.must, {})

\* walk's condition: the clause as one condition
Condition(w) ==
    IF w.must_not = {} /\ Cardinality(w.must) = 1
    THEN CHOOSE c \in w.must : TRUE
    ELSE Filter(w.must, w.must_not)

\* from and to, as the Java client writes them
Operator(q, op) ==
    CASE op = "from" -> IF q.includeLower THEN "gte" ELSE "gt"
      [] op = "to"   -> IF q.includeUpper THEN "lte" ELSE "lt"
      [] OTHER       -> op

QdrantRange(q) ==
    LET ops == DOMAIN q.bounds
    IN  [o \in {Operator(q, op) : op \in ops} |->
            q.bounds[CHOOSE op \in ops : Operator(q, op) = o]]

Must(conditions) == [must |-> conditions, must_not |-> {}]

\* Patterns are left to the gateway.
RECURSIVE Walk(_)
Walk(q) ==
    LET walks(clauses) == {Walk(c) : c \in clauses}
        merged(ws) == [must     |-> UNION {w.must : w \in ws},
                       must_not |-> UNION {w.must_not : w \in ws}]
        conditions == [i \in DOMAIN q.should |-> Condition(Walk(q.should[i]))]
        required == merged(walks(Required(q)))
    IN  CASE q.kind \in {"match_all", "pattern"} -> Must({})
          [] q.kind \in {"term", "terms"} -> Must({Match(q.field, q.values)})
          [] q.kind = "range"  -> Must({[kind |-> "range", key |-> q.field,
                                         range |-> QdrantRange(q)]})
          [] q.kind = "exists" ->
                Must({Filter({}, {[kind |-> "is_empty", key |-> q.field]})})
          [] q.kind = "dis_max" -> merged(walks(q.queries))
          [] q.kind = "bool" ->
                [must |-> required.must \cup
                    IF MinimumOf(q) > 0
                    THEN {[kind |-> "min_should", conditions |-> conditions,
                           min_count |-> MinimumOf(q)]}
                    ELSE {},
                 must_not |-> required.must_not
                    \cup {Condition(w) : w \in walks(q.must_not)}]

QueryToFilter(q) ==
    LET w == Walk(q)
    IN  Filter(w.must \cup {Filter({}, {c}) : c \in w.must_not}, {})

----------------------------------------------------------------------------
(* collect_patterns                                                        *)

RECURSIVE Patterns(_)
Patterns(q) ==
    CASE q.kind = "pattern" -> {q}
      [] q.kind = "bool"    -> UNION {Patterns(c) : c \in Clauses(q)}
      [] OTHER              -> {}

\* Mutant: only negated patterns are refused.
RefusesNegated(q) == \E c \in q.must_not : Patterns(c) # {}

RefusesHere(q) == \E c \in q.must_not \cup Alternatives(q) : Patterns(c) # {}

RECURSIVE Refused(_)
Refused(q) ==
    q.kind = "bool" /\ (RefusesHere(q) \/ \E c \in Clauses(q) : Refused(c))

PatternMatches(p, doc) == doc[p.field] \cap p.values # {}

\* What a search finds: Qdrant's filter, then the patterns.
Finds(q, doc) ==
    /\ Selects(QueryToFilter(q), doc)
    /\ \A p \in Patterns(q) : PatternMatches(p, doc)

----------------------------------------------------------------------------
(* post_filter                                                             *)

\* validate_post_filter
RECURSIVE Accepted(_)
Accepted(q) ==
    /\ q.kind \in {"match_all", "term", "terms", "range", "exists", "bool"}
    /\ \A c \in Clauses(q) : Accepted(c)

PlainOperators == {"gt", "gte", "lt", "lte"}

\* Mutant: upper bounds are not read.
GatewayLowerRange(q) ==
    [op \in DOMAIN q.bounds \cap {"gt", "gte"} |-> q.bounds[op]]

GatewayRange(q) ==
    [op \in DOMAIN q.bounds \cap PlainOperators |-> q.bounds[op]]

\* source_matches_query
RECURSIVE SourceMatches(_, _)
SourceMatches(q, doc) ==
    CASE q.kind = "match_all"          -> TRUE
      [] q.kind \in {"term", "terms"}  -> doc[q.field] \cap q.values # {}
      [] q.kind = "range"              -> Within(doc[q.field], GatewayRange(q))
      [] q.kind = "exists"             -> doc[q.field] # {}
      [] q.kind = "bool"               ->
            /\ \A c \in Required(q) : SourceMatches(c, doc)
            /\ \A c \in q.must_not : ~SourceMatches(c, doc)
            /\ Cardinality({i \in DOMAIN q.should :
                    SourceMatches(q.should[i], doc)}) >= MinimumOf(q)
      [] OTHER -> FALSE

----------------------------------------------------------------------------
(* The client's queries.                                                   *)

Roles == {"must", "filter", "must_not", "should"}

Init == query \in Leaves /\ depth = 1

\* Without alternatives the minimum means nothing.
NestInBool(role) ==
    /\ depth < MaxDepth
    /\ \E r \in Roles, beside \in {<<>>} \cup {<<s>> : s \in Siblings} :
        LET clauses(key) == (IF key = role THEN <<query>> ELSE <<>>)
                                \o (IF key = r THEN beside ELSE <<>>)
            all(key) == {clauses(key)[i] : i \in DOMAIN clauses(key)}
        IN  \E minimum \in (IF clauses("should") = <<>> THEN {None} ELSE Minimums) :
                query' = [kind |-> "bool",
                          must     |-> all("must"),
                          filter   |-> all("filter"),
                          must_not |-> all("must_not"),
                          should   |-> clauses("should"),
                          minimum  |-> minimum]
    /\ depth' = depth + 1

NestInDisMax ==
    /\ depth < MaxDepth
    /\ query' = [kind |-> "dis_max", queries |-> {query}]
    /\ depth' = depth + 1

Next ==
    \/ \E role \in Roles : NestInBool(role)
    \/ NestInDisMax

Spec == Init /\ [][Next]_vars

----------------------------------------------------------------------------
(* The meaning of a query.                                                 *)

\* The least count that is the share or number asked for, or all.
Needed(q) ==
    LET n == Len(q.should)
        enough(k) ==
            \/ k = n
            \/ /\ k > 0 \/ Required(q) # {}
               /\ \/ q.minimum = None
                  \/ /\ q.minimum # None
                     /\ IF q.minimum.percent THEN 100 * k >= q.minimum.n * n
                        ELSE k >= q.minimum.n
    IN  CHOOSE k \in 0..n : enough(k) /\ \A j \in 0..(k - 1) : ~enough(j)

InBounds(q, v) ==
    \A op \in DOMAIN q.bounds :
        LET bound == q.bounds[op]
        IN  CASE op = "gt"   -> v > bound
              [] op = "gte"  -> v >= bound
              [] op = "lt"   -> v < bound
              [] op = "lte"  -> v <= bound
              [] op = "from" -> v > bound \/ (v = bound /\ q.includeLower)
              [] op = "to"   -> v < bound \/ (v = bound /\ q.includeUpper)

RECURSIVE Means(_, _)
Means(q, doc) ==
    CASE q.kind = "match_all" -> TRUE
      [] q.kind \in {"term", "terms", "pattern"} ->
            \E v \in doc[q.field] : v \in q.values
      [] q.kind = "range"  -> \E v \in doc[q.field] : InBounds(q, v)
      [] q.kind = "exists" -> doc[q.field] # {}
      [] q.kind = "bool"   ->
            /\ \A c \in Required(q) : Means(c, doc)
            /\ ~\E c \in q.must_not : Means(c, doc)
            /\ Needed(q) <= Cardinality({i \in DOMAIN q.should :
                                            Means(q.should[i], doc)})

----------------------------------------------------------------------------
(* Properties.                                                             *)

(* A query that is not refused finds the documents it means: nested bools  *)
(* keep their bounds under negation and in alternatives, `should` has the  *)
(* default that the clauses beside it give it, and the split between       *)
(* Qdrant and the gateway's patterns loses nothing                         *)
(* (docs/compatibility.md:15 and :24).  dis_max, which is for text, is     *)
(* excepted: collect_patterns does not look into it.                       *)
FindsWhatItMeans ==
    ~Refused(query) /\ ~HasKind(query, "dis_max") =>
        \A doc \in Documents : Finds(query, doc) <=> Means(query, doc)

\* Bounds that are written gt, gte, lt, lte.
RECURSIVE PlainRanges(_)
PlainRanges(q) ==
    /\ q.kind = "range" => DOMAIN q.bounds \subseteq PlainOperators
    /\ \A c \in Clauses(q) : PlainRanges(c)

Agree(q) == \A doc \in Documents : SourceMatches(q, doc) <=> Finds(q, doc)

(* A filter selects the same documents as a post_filter, where the gateway *)
(* evaluates it, as it does as a query, where Qdrant does.                 *)
EvaluationsAgree == Accepted(query) /\ PlainRanges(query) => Agree(query)

=============================================================================
