------------------------------- MODULE Search -------------------------------
(***************************************************************************)
(* Searches (main.rs: search_with_total_format, count, and the entries of  *)
(* _msearch one after the other), against writers that change the index    *)
(* between any two of their reads.                                         *)
(*                                                                         *)
(* A search joins three independent reads: its aggregations, an exact      *)
(* count, and a page that Qdrant orders by a numeric field.  If that page  *)
(* is not proved right, hits are collected by a scan of all points, by one *)
(* ranked query for each text field, or from one page; then merged,        *)
(* hydrated, filtered, sorted, collapsed, and cut to the page asked for.   *)
(*                                                                         *)
(* A read that fails ends the search with an error and changes nothing;    *)
(* this is modelled only where a failed read is ignored.  Which documents  *)
(* a query selects is QueryFilter's subject and given by Contents here.    *)
(***************************************************************************)
EXTENDS Aggregations

CONSTANTS
    Batches,            \* what clients ask for: sequences of requests
    MaxPageSize,        \* MAX_PAGE_SIZE
    MaxWindow,          \* 10000
    Malformed           \* a JSON value of the wrong kind

VARIABLES
    queue,      \* the requests still to be answered, the present one first
    search,     \* the locals of the present search
    response,   \* its answer, None before
    returned    \* history: how often a cursor walk has returned a document

vars == <<indexVars, aggregation, queue, search, response, returned>>

Request == Head(queue)

----------------------------------------------------------------------------
(* Requests.                                                               *)

Predicate ==
    [field: {"n"}, gte: Nat] \cup [field: {"k"}, value: Nat]

Aggregation ==
    [kind: {"min", "max", "histogram"}]
        \cup [kind: {"terms"}, size: Nat]
        \cup [kind: {"filter"}, query: Predicate]
        \cup [kind: {"filters"}, queries: SUBSET Predicate]

\* A request but for its cursor and for the weights of its text vectors.
SearchRequest ==
    [entry: {"search", "count"}, controls: BOOLEAN,
     from: Nat \cup {Malformed}, size: Nat \cup {Malformed},
     sort: Seq([field: {"_id", "_score", "n"},
                order: {"asc", "desc", None, Malformed}]),
     after: {None}, text: {None},
     track: [mode: {"enabled", "disabled", "threshold", Malformed}, threshold: Nat],
     asInt: BOOLEAN, approximate: BOOLEAN, sparse: BOOLEAN, filter: BOOLEAN,
     blank: BOOLEAN,  \* the filter holds of a document without any field (must_not)
     patterns: BOOLEAN, like: Docs \cup {None}, post: BOOLEAN,
     collapse: {None, "n", Malformed}, aggs: Seq(Aggregation), walk: BOOLEAN]

\* A count has a query and nothing else; an approximate or a sparse query
\* names the vectors it is for.
Asked(r) ==
    /\ [r EXCEPT !.after = None, !.text = None] \in SearchRequest
    /\ DOMAIN r.text \subseteq TextFields
    /\ \A f \in DOMAIN r.text : r.text[f] \in Nat
    /\ r.entry = "count" =>
          /\ ~r.post /\ ~r.sparse /\ ~r.asInt
          /\ r.sort = <<>> /\ r.collapse = None /\ r.track.mode = "enabled"
    /\ r.approximate \/ r.sparse => DOMAIN r.text # {}
    /\ ~(r.approximate /\ r.sparse)

\* search_after may hold any values, of the field n what IndexAssumption orders.
CursorFits(r) ==
    r.after \notin {None, Malformed} /\ Len(r.after) = Len(r.sort) =>
        \A i \in DOMAIN r.sort :
            r.after[i] \in IF r.sort[i].field = "n" THEN Values ELSE Value

ASSUME SearchAssumption ==
    /\ \A batch \in Batches : /\ batch \in Seq(ToSet(batch))
                             /\ \A r \in ToSet(batch) : Asked(r) /\ CursorFits(r)
    /\ MaxPageSize \in Nat \ {0}
    /\ MaxWindow \in Nat
    /\ Malformed \notin Nat

----------------------------------------------------------------------------
(* Validation.                                                             *)

\* validate_search_execution_controls; pit
ControlsAccepted(r) == ~r.controls

\* parse_search_window
WindowAccepted(r) ==
    /\ r.from # Malformed /\ r.size # Malformed
    /\ r.size <= MaxPageSize
    /\ r.from + r.size <= MaxWindow

\* parse_sort_specs
SortAccepted(r) ==
    \A i \in DOMAIN r.sort : r.sort[i].order \in {"asc", "desc", None}

\* validate_search_after
CursorAccepted(r) ==
    r.after # None =>
        /\ r.after # Malformed
        /\ r.sort # <<>> /\ Len(r.after) = Len(r.sort)
        /\ r.from = 0

\* parse_track_total_hits, with rest_total_hits_as_int
TotalsAccepted(r) ==
    /\ r.track.mode # Malformed
    /\ r.asInt => r.track.mode # "threshold"

Ranked(r) == DOMAIN r.text # {} \/ r.like # None

\* parse_collapse_spec; the combinations search refuses: aggregations of a
\* ranked or pattern query, anything but a window beside a sparse query.
CombinationAccepted(r) ==
    /\ r.collapse # Malformed
    /\ r.aggs # <<>> => ~Ranked(r) /\ ~r.patterns /\ ~r.sparse
    /\ r.sparse => /\ ~r.post /\ r.collapse = None
                   /\ r.sort = <<>> /\ r.after = None

Accepted(r) ==
    /\ ControlsAccepted(r) /\ WindowAccepted(r) /\ SortAccepted(r)
    /\ CursorAccepted(r) /\ TotalsAccepted(r) /\ CombinationAccepted(r)

----------------------------------------------------------------------------
(* Hits and their order.                                                   *)

Text(rank) == [kind |-> "text", number |-> 0, text |-> rank]
Null == CHOOSE v \in Values : v.kind = "null"

\* A hit: the document, its score (0 for none), the source it was given.
Hit(d, score, source) == [id |-> d, field |-> 0, score |-> score, source |-> source]

\* hit_sort_value
SortValue(h, field) ==
    CASE field = "_id"    -> Text(h.id)
      [] field = "_score" -> [kind |-> "number", number |-> h.score, text |-> 0]
      [] field = "n"      -> IF h.source = None THEN Null ELSE h.source.n

\* _score descends by default.
Descends(clause) ==
    clause.order = "desc" \/ (clause.order = None /\ clause.field = "_score")

\* The sort values of a hit.
Key(h, sort) == [i \in DOMAIN sort |-> SortValue(h, sort[i].field)]

KeyCmp(x, y, sort) ==
    LET differ == {i \in DOMAIN sort : ValueCmp(x[i], y[i]) # 0}
        first == CHOOSE i \in differ : \A j \in differ : i <= j
        order == ValueCmp(x[first], y[first])
    IN  IF differ = {} THEN 0
        ELSE IF Descends(sort[first]) THEN -order ELSE order

HitCmp(g, h, sort) == KeyCmp(Key(g, sort), Key(h, sort), sort)

\* compare_sorted_hits
Precedes(g, h, sort) ==
    \/ HitCmp(g, h, sort) < 0
    \/ HitCmp(g, h, sort) = 0 /\ g.id < h.id

\* Mutant: a hit at the cursor is returned again.
IsAtOrAfter(h, cursor, sort) ==
    cursor # None => KeyCmp(Key(h, sort), cursor, sort) >= 0

\* hit_is_after
IsAfter(h, cursor, sort) ==
    cursor # None => KeyCmp(Key(h, sort), cursor, sort) > 0

First(hits, n, sort) ==
    {h \in hits : Cardinality({g \in hits : Precedes(g, h, sort)}) < n}

Window(r) == r.from + r.size

----------------------------------------------------------------------------
(* What a search does, decided from its request.                           *)

FilterOnly(r) == ~Ranked(r) /\ ~r.sparse /\ ~r.patterns /\ ~r.post

Counts(r) == r.track.mode # "disabled" /\ FilterOnly(r)

\* ordered_numeric_hits: what it can serve
OrderedByQdrant(r) ==
    /\ FilterOnly(r) /\ r.size > 0
    /\ ~projection
    /\ Len(r.sort) = 1 /\ r.sort[1].field = "n"
    /\ r.collapse = None
    /\ r.after # None => Number(r.after[1])

CandidateLimit(r) ==
    LET asked == IF Window(r) > 0 THEN Window(r) ELSE 1
    IN  IF r.sort = <<>> \/ r.size = 0 \/ asked > MaxPageSize THEN asked
        ELSE MaxPageSize

CountOnly(r) ==
    /\ r.size = 0
    /\ ~projection \/ r.sort = <<>>
    /\ FilterOnly(r) /\ r.collapse = None

\* Every page is needed for a global order or a post_filter.
CompleteScan(r) ==
    /\ ~CountOnly(r)
    /\ search.ordered = None
    /\ ~Ranked(r) /\ ~r.sparse /\ ~r.patterns
    /\ r.sort # <<>> \/ r.post

----------------------------------------------------------------------------
(* The steps of a search.                                                  *)

At(pc) == search.pc = pc

NoSearch ==
    [pc |-> "idle", waiting |-> {}, like |-> None, exact |-> None,
     covered |-> None, reply |-> None, ordered |-> None, offset |-> 1,
     batch |-> <<>>, fields |-> {}, hits |-> {}, scanned |-> 0]

SearchInit ==
    /\ queue \in Batches
    /\ aggregation = Idle
    /\ search = NoSearch
    /\ response = None
    /\ returned = [d \in Docs |-> 0]

Answered(answer) == /\ response' = answer
                    /\ search' = [NoSearch EXCEPT !.pc = "done"]

Error == [error |-> TRUE]

\* count: of a filter by one read, of anything else by a search of size 0
Rewritten(r) ==
    IF r.entry = "count" /\ (Ranked(r) \/ r.patterns)
    THEN [r EXCEPT !.from = 0, !.size = 0] ELSE r

Joins(r) ==
    (IF Counts(r) THEN {"count"} ELSE {})
        \cup (IF OrderedByQdrant(r) THEN {"coverage", "ordered"} ELSE {})

Start ==
    /\ At("idle") /\ queue # <<>>
    /\ LET r == Rewritten(Request)
           plain == r.entry = "count" /\ ~Ranked(r) /\ ~r.patterns
       IN  /\ queue' = [queue EXCEPT ![1] = r]
           /\ IF ~plain /\ ~Accepted(r)
              THEN Answered(Error) /\ UNCHANGED aggregation
              ELSE /\ search' = [NoSearch EXCEPT
                        !.pc = IF r.like # None THEN "like" ELSE "join",
                        !.waiting = IF plain THEN {"count"} ELSE Joins(r)]
                   /\ aggregation' = IF plain THEN Idle ELSE Begun(r.aggs, r.filter)
                   /\ UNCHANGED response
    /\ IF Request.walk /\ Request.after # None THEN UNCHANGED had ELSE ForgetHistory
    /\ UNCHANGED <<projection, docs, points, writes, returned>>

\* Nothing else changes in a read of the index.
Reads == UNCHANGED <<indexVars, queue, returned>>

\* expand_more_like_this: the text of the document, nothing if there is none
ReadLike ==
    /\ At("like")
    /\ IF docs[Request.like] = None /\ ~projection
       THEN Answered(Error)
       ELSE /\ search' = [search EXCEPT !.pc = "join", !.like = docs[Request.like]]
            /\ UNCHANGED response
    /\ Reads /\ UNCHANGED aggregation

\* qdrant_exact_count
ReadCount ==
    /\ At("join") /\ "count" \in search.waiting
    /\ search' = [search EXCEPT
            !.waiting = @ \ {"count"},
            !.exact = Cardinality(Scope(Request.filter))]
    /\ Reads /\ UNCHANGED <<aggregation, response>>

\* ordered_numeric_hits: is there a document it cannot order?
ReadOrderedCoverage ==
    /\ At("join") /\ "coverage" \in search.waiting
    /\ search' = [search EXCEPT
            !.waiting = @ \ {"coverage"},
            !.covered = ~Uncovered("n", Request.filter)]
    /\ Reads /\ UNCHANGED <<aggregation, response>>

\* The points Qdrant has ordered: those in the index of the field, after the
\* cursor, one more than the window; ties come in the order of point ids.
OrderedPoints(r) ==
    LET after(d) == IsAfter(Hit(d, 0, points[d]), r.after, r.sort)
        members == {d \in Scope(r.filter) : points[d].n.kind = "number" /\ after(d)}
        position(d) == CHOOSE i \in DOMAIN ScrollOrder : ScrollOrder[i] = d
        cmp(d, e) == HitCmp(Hit(d, 0, points[d]), Hit(e, 0, points[e]), r.sort)
        before(d, e) == cmp(d, e) < 0 \/ (cmp(d, e) = 0 /\ position(d) < position(e))
    IN  {d \in members : Cardinality({e \in members : before(e, d)}) <= Window(r)}

ReadOrdered ==
    /\ At("join") /\ "ordered" \in search.waiting
    /\ \E reply \in {[refused |-> TRUE, hits |-> {}],
                     [refused |-> FALSE,
                      hits |-> {Hit(d, 0, points[d]) : d \in OrderedPoints(Request)}]} :
            search' = [search EXCEPT !.waiting = @ \ {"ordered"}, !.reply = reply]
    /\ Reads /\ UNCHANGED <<aggregation, response>>

ReadAggregation ==
    /\ At("join") /\ Aggregate
    /\ Reads /\ UNCHANGED <<search, response>>

\* Mutant: a tie at the end of the window is cut.
TieCut(r, hits) == FALSE

\* More documents tie for the end of the window than it holds.
TieAtBoundary(r, hits) ==
    /\ Cardinality(hits) > Window(r)
    /\ \E g \in First(hits, Window(r), r.sort), h \in hits \ First(hits, Window(r), r.sort) :
            HitCmp(g, h, r.sort) = 0

\* What ordered_numeric_hits makes of its two reads: None is the scan.
Ordered(r) ==
    IF \/ search.reply = None \/ ~search.covered
       \/ \E h \in search.reply.hits : ~Number(h.source.n)
       \/ TieAtBoundary(r, search.reply.hits)
    THEN None
    ELSE First(search.reply.hits, Window(r), r.sort)

\* How the hits are collected.
Source(r, ordered) ==
    IF \/ r.entry = "count" /\ ~Ranked(r) /\ ~r.patterns
       \/ CountOnly(r) \/ ordered # None
    THEN "finish"
    ELSE IF r.approximate /\ ~r.sparse THEN "approximate"
    ELSE IF r.sparse \/ Ranked(r) THEN "ranked"
    ELSE "scroll"

\* The end of try_join!.
Join ==
    /\ At("join") /\ search.waiting = {}
    /\ Reads /\ UNCHANGED aggregation
    /\ IF \/ aggregation.failed
          \/ search.covered = TRUE /\ search.reply.refused
       THEN Answered(Error)
       ELSE /\ Executed
            /\ LET ordered == Ordered(Request)
                   pc == Source(Request, ordered)
               IN  search' = [search EXCEPT
                        !.pc = pc,
                        !.ordered = ordered,
                        !.fields = IF pc = "ranked" THEN DOMAIN Request.text ELSE {},
                        !.hits = IF ordered = None THEN {} ELSE ordered]
            /\ UNCHANGED response

----------------------------------------------------------------------------
(* Collecting hits.                                                        *)

\* A sparse query takes no filter.
ScopeOf(r) == Scope(r.filter /\ ~r.sparse)

\* Mutant: the skipped hits are not asked for.
PageLimit(r, f) == IF r.size > 0 THEN r.size ELSE 1

\* The `limit` of a ranked query.
RankedLimit(r, f) ==
    IF r.sparse THEN (IF Window(r) > 0 THEN Window(r) ELSE 1) ELSE CandidateLimit(r)

\* One of the text vectors: points that match it, best first.  Nothing is
\* like a document without text.
ReadRanked(f) ==
    LET r == Request
        members == {d \in ScopeOf(r) : /\ points[d].score[f] > 0
                                       /\ r.like # None => search.like # None}
        best(S) == \A d \in S, e \in members \ S :
                        points[d].score[f] >= points[e].score[f]
        limit == RankedLimit(r, f)
        size == IF Cardinality(members) < limit THEN Cardinality(members) ELSE limit
        hit(d) == [Hit(d, points[d].score[f] * r.text[f],
                       IF projection THEN None ELSE points[d]) EXCEPT !.field = f]
    IN  /\ At("ranked") /\ f \in search.fields
        /\ \E S \in kSubset(size, members) :
              /\ best(S)
              /\ search' = [search EXCEPT !.fields = @ \ {f},
                                          !.hits = @ \cup {hit(d) : d \in S}]
        /\ Reads /\ UNCHANGED <<aggregation, response>>

\* text_query_matches takes each clause of a filter or pattern as unmatched, so
\* the filter as a whole as if the source had none of its fields.
SourceIsLike(c, r) == /\ r.filter => r.blank
                      /\ ~r.patterns
                      /\ \E f \in DOMAIN r.text : c.score[f] > 0

\* A page of the scan for an approximate query, which reads sources: of the
\* document collection if there is one, where no payload has the fields of
\* a filter.
ReadApproximate ==
    LET r == Request
        collection == IF projection THEN docs ELSE points
        members == {d \in Docs : /\ collection[d] # None
                                 /\ r.filter => IF projection THEN r.blank
                                                ELSE collection[d].filter}
        page == ScrollPage(members, search.offset, MaxPageSize)
        found == {d \in ToSet(page.docs) : SourceIsLike(collection[d], r)}
    IN  /\ At("approximate")
        /\ search' = [search EXCEPT
                !.hits = @ \cup {Hit(d, 1, collection[d]) : d \in found},
                !.offset = page.next,
                !.pc = IF page.next = 0 THEN "gathered" ELSE "approximate"]
        /\ Reads /\ UNCHANGED <<aggregation, response>>

\* pattern_matches; without a _source there is nothing to match.
PatternsMatch(h, r) == r.patterns => h.source # None /\ h.source.pattern

PostMatches(h, r) == r.post => h.source # None /\ h.source.post

\* Mutant: every group but those of the first hits is lost.
AlwaysKeep(r, hits) == First(hits, Window(r), r.sort)

\* A collapse needs every hit, a page only the first ones.
Keep(r, hits) == IF r.collapse = None THEN First(hits, Window(r), r.sort) ELSE hits

\* What a page adds to the hits.
Gather(found, next) ==
    LET r == Request
        complete == CompleteScan(r)
        kept == {h \in found : complete => PostMatches(h, r)}
        all == search.hits \cup
                   {h \in kept : /\ PatternsMatch(h, r)
                                 /\ complete /\ r.collapse = None
                                        => IsAfter(h, r.after, r.sort)}
    IN  [search EXCEPT
            !.hits = IF complete THEN Keep(r, all) ELSE all,
            !.scanned = IF complete THEN @ + Cardinality(kept) ELSE @,
            !.offset = next, !.batch = <<>>,
            !.pc = IF next = 0 \/ (~r.patterns /\ ~complete)
                   THEN "gathered" ELSE "scroll"]

\* A page of the filter scan.
ReadPage ==
    LET r == Request
        limit == IF r.patterns \/ CompleteScan(r) THEN MaxPageSize ELSE CandidateLimit(r)
        page == ScrollPage(ScopeOf(r), search.offset, limit)
        source(d) == IF projection THEN None ELSE points[d]
    IN  /\ At("scroll")
        /\ search' =
             IF CompleteScan(r) /\ projection
             THEN [search EXCEPT !.pc = "sources", !.batch = page.docs, !.offset = page.next]
             ELSE Gather({Hit(d, 0, source(d)) : d \in ToSet(page.docs)}, page.next)
        /\ Reads /\ UNCHANGED <<aggregation, response>>

\* retrieve_sources for the page; a document deleted meanwhile is skipped.
ReadSources ==
    /\ At("sources")
    /\ search' = Gather({Hit(d, 0, docs[d]) : d \in {e \in ToSet(search.batch) : docs[e] # None}},
                        search.offset)
    /\ Reads /\ UNCHANGED <<aggregation, response>>

----------------------------------------------------------------------------
(* From the hits to the answer.                                            *)

Gathered == At("gathered") \/ (At("ranked") /\ search.fields = {})

\* One hit for each document, the one with the best score, the first of equals.
Merged(hits) ==
    {h \in hits : \A g \in hits :
        g.id = h.id => \/ g.score < h.score
                       \/ g.score = h.score /\ h.field <= g.field}

\* retrieve_sources for all hits of a projected index.
Hydrate ==
    /\ Gathered /\ projection /\ ~CompleteScan(Request)
    /\ search' = [search EXCEPT
            !.pc = "finish",
            !.hits = {[h EXCEPT !.source = docs[h.id]] :
                        h \in {g \in Merged(search.hits) : docs[g.id] # None}}]
    /\ Reads /\ UNCHANGED <<aggregation, response>>

\* The hits of the query, of which some may still be behind the cursor.
Remaining(r) ==
    {h \in Merged(search.hits) :
        /\ PatternsMatch(h, r) /\ PostMatches(h, r)
        /\ h.id # r.like}

\* The orders a stable sort may bring hits into that come out of a HashMap.
Orders(r, hits) ==
    {s \in SetToSeqs(hits) :
        \A i, j \in DOMAIN s : i < j =>
            IF r.sort # <<>> THEN HitCmp(s[i], s[j], r.sort) <= 0
            ELSE Ranked(r) => s[i].score >= s[j].score}

Group(h) == SortValue(h, "n")

\* The first hit of every group.
Collapsed(r, s) ==
    IF r.collapse = None THEN s
    ELSE LET first == {i \in DOMAIN s : \A j \in 1..(i - 1) : Group(s[j]) # Group(s[i])}
         IN  [k \in 1..Cardinality(first) |->
                s[CHOOSE i \in first : Cardinality({j \in first : j < i}) = k - 1]]

\* search_after: everything from the first hit behind the cursor on
Behind(r, s) ==
    LET after == {i \in DOMAIN s : IsAfter(s[i], r.after, r.sort)}
    IN  IF after = {} THEN <<>>
        ELSE SubSeq(s, CHOOSE i \in after : \A j \in after : i <= j, Len(s))

Page(r, s) ==
    LET last == IF Len(s) < Window(r) THEN Len(s) ELSE Window(r)
    IN  SubSeq(s, r.from + 1, last)

\* total_hits_value; _count answers with the value alone.
TotalHits(r, total, exact) ==
    LET most == r.track.threshold
        relation(ok) == IF ok THEN "eq" ELSE "gte"
    IN  IF r.track.mode = "disabled" THEN None
        ELSE IF r.asInt \/ r.entry = "count" THEN [value |-> total, relation |-> "none"]
        ELSE IF r.track.mode = "threshold"
        THEN [value |-> IF total < most THEN total ELSE most,
              relation |-> relation(exact /\ total <= most)]
        ELSE [value |-> total, relation |-> relation(exact)]

Total(r, hits) ==
    IF CompleteScan(r) THEN search.scanned
    ELSE IF search.exact # None THEN search.exact
    ELSE Cardinality(hits)

\* Mutant: the candidates of a ranked query pass for all its matches.
RankedIsExact(r) == TRUE

TotalIsExact(r) ==
    CompleteScan(r) \/ search.exact # None \/ r.approximate \/ r.patterns

AnswerOf(r, hits, order) ==
    [error |-> FALSE,
     page |-> Page(r, Behind(r, Collapsed(r, order))),
     total |-> TotalHits(r, Total(r, hits), TotalIsExact(r)),
     results |-> Results]

Respond ==
    LET r == Request
        hits == Remaining(r)
    IN  /\ At("finish") \/ (Gathered /\ (~projection \/ CompleteScan(r)))
        /\ \E order \in Orders(r, hits) :
              LET answer == AnswerOf(r, hits, order)
              IN  /\ Answered(answer)
                  /\ returned' = [d \in Docs |-> IF r.walk /\ d \in {answer.page[i].id : i \in DOMAIN answer.page}
                                                 THEN returned[d] + 1 ELSE returned[d]]
        /\ UNCHANGED <<indexVars, queue, aggregation>>

\* The client: a walk goes on behind the last hit of a full page.
Continues(r) == /\ r.walk /\ ~response.error
                /\ r.size > 0 /\ Len(response.page) = r.size

Ask ==
    /\ At("done")
    /\ queue' = IF Continues(Request)
                THEN [queue EXCEPT ![1].after =
                        Key(response.page[Len(response.page)], Request.sort)]
                ELSE Tail(queue)
    /\ search' = NoSearch
    /\ response' = None
    /\ aggregation' = Idle
    /\ UNCHANGED <<indexVars, returned>>

SearchStep ==
    \/ Start \/ ReadLike
    \/ ReadCount \/ ReadOrderedCoverage \/ ReadOrdered \/ ReadAggregation \/ Join
    \/ \E f \in TextFields : ReadRanked(f)
    \/ ReadApproximate \/ ReadPage \/ ReadSources
    \/ Hydrate \/ Respond

\* A write before a search is another initial state.
Interfere ==
    /\ search.pc \notin {"idle", "done"}
    /\ Writer
    /\ UNCHANGED <<aggregation, queue, search, response, returned>>

Terminated == queue = <<>> /\ UNCHANGED vars

Init == IndexInit /\ SearchInit

Next == SearchStep \/ Ask \/ Interfere \/ Terminated

Spec == Init /\ [][Next]_vars

----------------------------------------------------------------------------
(* Properties.                                                             *)

\* The index and the locals of a search; an embedded index is its own point
\* collection, which write_docs writes in one call.
TypeOK ==
    /\ projection \in BOOLEAN
    /\ docs \in [Docs -> Contents \cup {None}]
    /\ points \in [Docs -> Contents \cup {None}]
    /\ ~projection => points = docs
    /\ writes \in 0..MaxWrites
    /\ search.waiting \subseteq {"count", "coverage", "ordered"}
    /\ search.fields \subseteq TextFields
    /\ \A h \in search.hits : /\ h.id \in Docs
                              /\ h.source \in Contents \cup {None}
    /\ \A d \in Docs : returned[d] \in Nat

\* The request of an answer that is not an error.
Succeeded == At("done") /\ ~response.error

\* What the query makes of a content that is in the index.
Relevant(r, c) == Ranked(r) => \E f \in DOMAIN r.text : c.score[f] > 0

Matches(r, c) ==
    /\ r.filter /\ ~r.sparse => c.filter
    /\ r.post => c.post
    /\ r.patterns => c.pattern
    /\ Relevant(r, c)

Was(d) == CHOOSE c \in had[d].docs : TRUE

\* Documents the answer has to take into account: nobody touched them.
Standing(r) ==
    {d \in Docs : /\ Untouched(d) /\ Was(d) # None
                  /\ Matches(r, Was(d)) /\ d # r.like}

\* An approximate query of a projected index scans documents that have none
\* of the fields of its filter.
FilterIsDropped(r) == projection /\ r.approximate /\ r.blank

\* Documents that may have matched when they were read; a projected document
\* is selected by its point and judged by its source.
Possible(r) ==
    {d \in Docs \ {r.like} :
        \E c \in Held(had[d].points \cup had[d].docs) :
            /\ r.filter /\ ~r.sparse /\ ~FilterIsDropped(r) => c.filter
            /\ \E e \in Held(had[d].docs \cup had[d].points) :
                    /\ r.post => e.post
                    /\ r.patterns => e.pattern
                    /\ \E g \in Held(had[d].docs \cup had[d].points) : Relevant(r, g)}

\* The totals the gateway calls exact although it has not looked at every
\* match: patterns never see the source of a projected document, and beside
\* text they see the candidates of one page, or none; an approximate query
\* finds nothing beside a filter on a field; and a count of ranked text is of
\* one candidate for each field.
Unexact(r) ==
    \/ r.patterns /\ (projection \/ Ranked(r))
    \/ r.approximate /\ r.filter /\ ~r.blank
    \/ r.entry = "count" /\ Ranked(r) /\ ~r.approximate

\* The client is told the number, and not that it is a lower bound.
CalledExact(r, total) == total.relation = "eq" \/ r.entry = "count"

\* Whatever writers do meanwhile, a total called exact counts each document
\* that stands still and none that never matched, and a lower bound is one.
CountsAreBounded ==
    Succeeded =>
        LET r == Request
            total == response.total
        IN  total # None =>
              /\ total.value <= Cardinality(Possible(r))
              /\ CalledExact(r, total) /\ ~Unexact(r)
                    => total.value >= Cardinality(Standing(r))

\* No clause is silently dropped (README.md:89): a document on a page was, at
\* some moment of the search, one that its filter selects.
FiltersHold ==
    Succeeded /\ Request.filter /\ ~Request.sparse =>
        \A i \in DOMAIN response.page :
            LET d == response.page[i].id
            IN  \E c \in Held(had[d].points \cup had[d].docs) : c.filter

PageIds == {response.page[i].id : i \in DOMAIN response.page}

StandingHit(d) == Hit(d, 0, Was(d))

Full(r) == Len(response.page) = r.size

SortedByField(r) ==
    r.sort # <<>> /\ ~Ranked(r) /\ r.collapse = None /\ ~(r.patterns /\ projection)

\* "point order cannot hide a later winner": a page is in order, has no
\* document twice, and a document that stands still is missing only if it is
\* behind a full page, before the cursor, or among the `from` that are skipped.
PageIsRanked ==
    Succeeded /\ SortedByField(Request) =>
        LET r == Request
            page == response.page
            behind(d) == Full(r) /\ \A i \in DOMAIN page :
                IF r.from = 0 /\ ~r.patterns THEN Precedes(page[i], StandingHit(d), r.sort)
                ELSE HitCmp(page[i], StandingHit(d), r.sort) <= 0
            before == {d \in Standing(r) \ PageIds :
                          IsAfter(StandingHit(d), r.after, r.sort) /\ ~behind(d)}
        IN  /\ \A i, j \in DOMAIN page : i < j => /\ HitCmp(page[i], page[j], r.sort) <= 0
                                                  /\ page[i].id # page[j].id
            /\ Cardinality(before) <= r.from
            /\ \A d \in before, i \in DOMAIN page :
                    HitCmp(StandingHit(d), page[i], r.sort) <= 0

Best(r, d) ==
    LET scores == {Was(d).score[f] * r.text[f] : f \in DOMAIN r.text}
    IN  CHOOSE x \in scores : \A y \in scores : y <= x

\* Documents found by several fields count once, with their best score; none
\* is passed over for one of a lower score.  Hydration may shorten the page of
\* a projected index, so there only if nobody wrote.
RankedByBestField ==
    Succeeded /\ (~projection \/ Quiet) =>
        LET r == Request
            page == response.page
        IN  Ranked(r) /\ ~r.approximate /\ r.like = None /\ r.sort = <<>>
              /\ ~r.post /\ ~r.patterns /\ r.collapse = None =>
            /\ \A i, j \in DOMAIN page : i < j => page[i].score >= page[j].score
            /\ Cardinality({d \in Standing(r) \ PageIds :
                    ~(Full(r) /\ \A i \in DOMAIN page : page[i].score >= Best(r, d))})
                 <= r.from
            /\ \A i \in DOMAIN page : page[i].id \in Standing(r) =>
                  page[i].score = Best(r, page[i].id)

\* One hit for each value, the best one, and no value is lost for want of
\* room in the window.
CollapseKeepsBest ==
    Succeeded /\ Request.collapse # None =>
        LET r == Request
            page == response.page
            standing == {d \in Standing(r) : IsAfter(StandingHit(d), r.after, r.sort)}
        IN  /\ \A i, j \in DOMAIN page : i # j => Group(page[i]) # Group(page[j])
            /\ r.sort # <<>> /\ ~Ranked(r) /\ ~r.patterns /\ r.after = None =>
                /\ \A d \in standing, i \in DOMAIN page :
                      Group(page[i]) = Group(StandingHit(d)) =>
                          HitCmp(page[i], StandingHit(d), r.sort) <= 0
                /\ ~Full(r) /\ r.from = 0 =>
                      \A d \in standing : \E i \in DOMAIN page :
                          Group(page[i]) = Group(StandingHit(d))

\* No two documents have ever had the same sort values.
CursorIsUnique(r) ==
    \A d, e \in Docs : d # e =>
        \A b \in Held(had[d].docs \cup had[d].points),
           c \in Held(had[e].docs \cup had[e].points) :
                HitCmp(Hit(d, 0, b), Hit(e, 0, c), r.sort) # 0

\* A walk with search_after returns each document that stands still once,
\* whatever becomes of the others between and within its pages.
WalkVisitsOnce ==
    queue # <<>> /\ Request.walk /\ CursorIsUnique(Request) =>
        /\ \A d \in Docs : Untouched(d) => returned[d] <= 1
        /\ Succeeded /\ ~Continues(Request) =>
              \A d \in Standing(Request) : returned[d] = 1

\* Aggregated documents: all that pass the filter.
Matching(op(_)) == Cardinality({d \in Docs : \E c \in Held(had[d].points) : op(c)})
Certain(r, op(_)) ==
    Cardinality({d \in Docs : Untouched(d) /\ Was(d) # None
                              /\ Selected(Was(d), r.filter) /\ op(Was(d))})

Bounded(r, count, op(_)) ==
    /\ count >= Certain(r, op)
    /\ count <= Matching(LAMBDA c : Selected(c, r.filter) /\ op(c))

TermsBounded(r, spec, result) ==
    LET shown == {result.buckets[i].key : i \in DOMAIN result.buckets}
        room == Len(result.buckets) < spec.size
    IN  /\ \A i \in DOMAIN result.buckets :
              Bounded(r, result.buckets[i].count,
                      LAMBDA c : result.buckets[i].key \in Keys(c))
        /\ \A key \in UNION {Keys(c) : c \in Contents} \ shown :
              LET certain == Certain(r, LAMBDA c : key \in Keys(c))
              IN  /\ certain <= result.others
                  /\ certain > 0 => ~room
                  /\ \A i \in DOMAIN result.buckets : certain <= result.buckets[i].count

ResultBounded(r, spec, result) ==
    CASE spec.kind = "filter" ->
            Bounded(r, result, LAMBDA c : SourceSelects(spec.query, c))
      [] spec.kind = "filters" ->
            \A q \in spec.queries : Bounded(r, result[q], LAMBDA c : SourceSelects(q, c))
      [] spec.kind = "terms" -> TermsBounded(r, spec, result)
      [] spec.kind = "histogram" ->
            /\ \A b \in DOMAIN result :
                  Bounded(r, result[b], LAMBDA c : Number(c.n) /\ Bucket[c.n.number] = b)
            /\ \A d \in Docs : Untouched(d) /\ Was(d) # None
                    /\ Selected(Was(d), r.filter) /\ Number(Was(d).n)
                 => Bucket[Was(d).n.number] \in DOMAIN result
      [] spec.kind \in {"min", "max"} ->
            \A d \in Docs : Untouched(d) /\ Was(d) # None
                    /\ Selected(Was(d), r.filter) /\ Number(Was(d).n)
                 => /\ result # None
                    /\ spec.kind = "max" => result >= Was(d).n.number
                    /\ spec.kind = "min" => result <= Was(d).n.number

\* Whether Qdrant's index or the scan counted: every document that stands
\* still is in the result, and none that never was of the bucket.
AggregationsAreBounded ==
    Succeeded => \A i \in DOMAIN response.results :
                    ResultBounded(Request, Request.aggs[i], response.results[i])

\* A point without the marker all through the search.
Unproved(r, field) ==
    \E d \in Docs : /\ Untouched(d) /\ Was(d) # None
                    /\ Selected(Was(d), r.filter)
                    /\ ~Marked(Was(d), field)

\* Qdrant's refusal of a read the search did not need does no harm.
SpeculationIsFree ==
    At("done") /\ queue # <<>> =>
        LET r == Request
            ever == UNION {Held(had[d].points) : d \in Docs}
            needed == \/ OrderedByQdrant(r) /\ ~Unproved(r, "n")
                      \/ \E i \in DOMAIN r.aggs :
                            \/ r.aggs[i].kind = "terms" /\ ~Unproved(r, "k")
                            \/ /\ r.aggs[i].kind = "filter"
                               /\ ~Unproved(r, r.aggs[i].query.field)
            unfit == \E i \in DOMAIN r.aggs :
                        \/ \E c \in ever : Unfit(r.aggs[i], c)
                        \/ Cardinality(UNION {Keys(c) : c \in ever}) > MaxBuckets
                        \/ Cardinality({Bucket[c.n.number] : c \in {e \in ever : Number(e.n)}})
                              > MaxBuckets
        IN  Accepted(r) /\ r.like = None /\ ~needed /\ ~unfit => ~response.error
=============================================================================
