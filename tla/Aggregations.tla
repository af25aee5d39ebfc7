---------------------------- MODULE Aggregations ----------------------------
(***************************************************************************)
(* The aggregations of a search (aggregations.rs).  Plan::execute first    *)
(* tries what Qdrant can count itself: a filter by one exact count, then   *)
(* each keyword `terms` by one facet.  Beside every such read it looks for *)
(* a point without the writer's marker, and takes the answer only if there *)
(* is none.  What is left is reduced from a scan of every matching point.  *)
(*                                                                         *)
(* The reducers' running values are modelled by the sequence of payloads   *)
(* they have observed.  Calendars and time zones are left out: Bucket      *)
(* gives the bucket of a date.                                             *)
(***************************************************************************)
EXTENDS SearchIndex

CONSTANTS
    AggregationPage,    \* MAX_PAGE_SIZE, as the limit of a page
    MaxBuckets,         \* MAX_BUCKETS
    Bucket              \* the start of the calendar interval of a number

ASSUME AggregationAssumption ==
    /\ AggregationPage \in Nat \ {0}
    /\ MaxBuckets \in Nat

VARIABLE aggregation    \* the plan under way and what it has read

\* [field |-> "n", gte |-> bound] or [field |-> "k", value |-> string]
\* A predicate on a source, as source_matches_query evaluates it.
SourceSelects(q, c) ==
    IF q.field = "n" THEN Number(c.n) /\ c.n.number >= q.gte
    ELSE q.value \in c.k.strings

\* ... and as Qdrant does on the payload index of the field.
IndexSelects(q, c) ==
    IF q.field = "n" THEN c.n.kind = "number" /\ c.n.number >= q.gte
    ELSE q.value \in c.k.strings

Keys(c) == c.k.strings \cup c.k.others

Count(op(_), s) == Cardinality({i \in DOMAIN s : op(s[i])})

----------------------------------------------------------------------------
(* Reductions: observe and finish.                                         *)

\* observe fails on a value its reducer cannot take.
Unfit(r, c) ==
    CASE r.kind \in {"min", "max", "histogram"} -> c.n.kind = "text"
      [] OTHER -> FALSE

\* terms_key: one count for each document and key.
TermCounts(s) ==
    [key \in UNION {Keys(s[i]) : i \in DOMAIN s} |->
        Count(LAMBDA c : key \in Keys(c), s)]

Ahead(counts, a, b) ==
    counts[a] > counts[b] \/ (counts[a] = counts[b] /\ a < b)

\* The `size` keys with most documents, the smaller key first among equals.
Top(counts, size) ==
    LET keys == SetToSortSeq(DOMAIN counts, LAMBDA a, b : Ahead(counts, a, b))
        shown == SubSeq(keys, 1, IF Len(keys) < size THEN Len(keys) ELSE size)
    IN  [buckets |-> [i \in DOMAIN shown |-> [key |-> shown[i], count |-> counts[shown[i]]]],
         others |-> MapThenSumSet(LAMBDA key : counts[key], DOMAIN counts \ ToSet(shown))]

Numbers(s) == {s[i].n.number : i \in {j \in DOMAIN s : Number(s[j].n)}}

Metric(kind, numbers) ==
    IF numbers = {} THEN None
    ELSE CHOOSE x \in numbers :
            \A y \in numbers : IF kind = "max" THEN y <= x ELSE x <= y

Histogram(s) ==
    [b \in {Bucket[x] : x \in Numbers(s)} |->
        Count(LAMBDA c : Number(c.n) /\ Bucket[c.n.number] = b, s)]

Finish(r, s) ==
    CASE r.kind \in {"min", "max"} -> Metric(r.kind, Numbers(s))
      [] r.kind = "filter"    -> Count(LAMBDA c : SourceSelects(r.query, c), s)
      [] r.kind = "filters"   -> [q \in r.queries |->
                                    Count(LAMBDA c : SourceSelects(q, c), s)]
      [] r.kind = "terms"     -> Top(TermCounts(s), r.size)
      [] r.kind = "histogram" -> Histogram(s)

\* More distinct buckets than the gateway keeps.
Overflows(r, s) ==
    CASE r.kind = "terms"     -> Cardinality(DOMAIN TermCounts(s)) > MaxBuckets
      [] r.kind = "histogram" -> Cardinality(DOMAIN Histogram(s)) > MaxBuckets
      [] OTHER -> FALSE

----------------------------------------------------------------------------
(* Plan::execute                                                           *)

Idle == [plan |-> <<>>, filtered |-> FALSE, covered |-> <<>>, answer |-> <<>>,
         offset |-> 0, observed |-> <<>>, failed |-> FALSE]

\* A plan before its first read.
Begun(plan, filtered) ==
    [plan |-> plan, filtered |-> filtered,
     covered |-> [i \in DOMAIN plan |-> None],
     answer |-> [i \in DOMAIN plan |-> None],
     offset |-> 1, observed |-> <<>>, failed |-> FALSE]

Plan == aggregation.plan

\* count_condition accepts; a keyword can be asked for as a facet.
Tries(kind) == {i \in DOMAIN Plan : Plan[i].kind = kind}
FastField(i) == IF Plan[i].kind = "filter" THEN Plan[i].query.field ELSE "k"

HasRead(i) == aggregation.covered[i] # None /\ aggregation.answer[i] # None

\* Filters are read together, facets one after the other.
Turn(i) ==
    \/ i \in Tries("filter")
    \/ /\ i \in Tries("terms")
       /\ \A j \in Tries("filter") : HasRead(j)
       /\ \A j \in Tries("terms") : j < i => HasRead(j)

\* Mutant: an answer is taken whether or not its field is covered.
EveryAnswerTaken(i) == HasRead(i)

\* The answer of Qdrant was proved right by the coverage read.
Taken(i) == HasRead(i) /\ aggregation.covered[i]

\* Mutant: a refused answer fails the search at once.
RefusedAtOnce ==
    \E i \in DOMAIN Plan : aggregation.answer[i] # None /\ aggregation.answer[i].refused

\* An error of the speculative read counts only if it was needed.
Refused == \E i \in DOMAIN Plan : Taken(i) /\ aggregation.answer[i].refused

Tried == \A i \in Tries("filter") \cup Tries("terms") : HasRead(i)
Left == {i \in DOMAIN Plan : ~Taken(i)}
Executed == ~aggregation.failed /\ ~Refused /\ Tried /\ (Left = {} \/ aggregation.offset = 0)

\* marker_covered
ReadCoverage(i) ==
    /\ ~aggregation.failed /\ Turn(i) /\ aggregation.covered[i] = None
    /\ aggregation' = [aggregation EXCEPT
            !.covered[i] = ~Uncovered(FastField(i), aggregation.filtered)]

\* facet_counts: values whose last point is gone are still listed.
NonZero(counts) ==
    [key \in {k \in DOMAIN counts : counts[k] > 0} |-> counts[key]]

FacetCounts(filtered, stale) ==
    LET scope == Scope(filtered)
        listed == UNION {points[d].k.strings : d \in scope}
    IN  [key \in listed \cup stale |->
            Cardinality({d \in scope : key \in points[d].k.strings})]

\* The values a keyword index has ever seen.
Listed == UNION {c.k.strings : c \in Contents}

Known(x) == [refused |-> FALSE, value |-> x]
Rejected == [refused |-> TRUE]

Answer(i, stale) ==
    LET r == Plan[i]
        filtered == aggregation.filtered
        counts == FacetCounts(filtered, stale)
    IN  CASE r.kind = "filter" ->
                Known(Cardinality({d \in Scope(filtered) :
                                    IndexSelects(r.query, points[d])}))
          [] r.kind = "terms" ->
                IF Cardinality(DOMAIN counts) > MaxBuckets THEN Rejected
                ELSE Known(Top(NonZero(counts), r.size))

\* The count or facet, which may also be refused for a field whose index
\* does not fit its values.
ReadAnswer(i) ==
    /\ ~aggregation.failed /\ Turn(i) /\ aggregation.answer[i] = None
    /\ \E stale \in IF Plan[i].kind = "terms" THEN SUBSET Listed ELSE {{}} :
       \E answer \in {Answer(i, stale), Rejected} :
            aggregation' = [aggregation EXCEPT !.answer[i] = answer]

FailExecution ==
    /\ ~aggregation.failed /\ Refused
    /\ aggregation' = [aggregation EXCEPT !.failed = TRUE]

\* The next page of the scan; the payload of the point decides, not a newer
\* document.
Stream ==
    /\ ~aggregation.failed /\ ~Refused
    /\ Tried /\ Left # {} /\ aggregation.offset # 0
    /\ LET page == ScrollPage(Scope(aggregation.filtered), aggregation.offset,
                              AggregationPage)
           seen == aggregation.observed
                       \o [i \in DOMAIN page.docs |-> points[page.docs[i]]]
       IN  aggregation' =
            IF \E i \in Left : \/ Overflows(Plan[i], seen)
                               \/ \E j \in DOMAIN seen : Unfit(Plan[i], seen[j])
            THEN [aggregation EXCEPT !.failed = TRUE]
            ELSE [aggregation EXCEPT !.observed = seen, !.offset = page.next]

Aggregate ==
    \/ \E i \in DOMAIN Plan : ReadCoverage(i) \/ ReadAnswer(i)
    \/ FailExecution
    \/ Stream

\* What the search answers.
Results ==
    [i \in DOMAIN Plan |->
        IF Taken(i) THEN aggregation.answer[i].value
        ELSE Finish(Plan[i], aggregation.observed)]
=============================================================================
