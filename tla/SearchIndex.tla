---------------------------- MODULE SearchIndex -----------------------------
(***************************************************************************)
(* What a search reads (main.rs): the documents of one index as the Qdrant *)
(* collections hold them, while writers change them, and the order of      *)
(* values (value_cmp).                                                     *)
(*                                                                         *)
(* Documents are numbered in the order of their _id.  One field `n` is     *)
(* numeric, one field `k` a keyword; of the rest only what the query makes *)
(* of a document is kept.  Without `projection` there is one collection;   *)
(* with it a write reaches the document collection first and the search    *)
(* collection later (DocumentProjection has the writers in detail).        *)
(* Bound: MaxWrites writes.                                                *)
(***************************************************************************)
EXTENDS Integers, FiniteSets, SequencesExt

CONSTANTS
    ScrollOrder,    \* the documents in the order of their point ids
    TextFields,     \* fields with a BM25 vector
    Values,         \* JSON values of the field n
    Contents,       \* what a document may hold
    Populations,    \* the documents before a search
    Writable,       \* what the writers write
    MaxWrites,
    None

VARIABLES
    projection,     \* DOCUMENT_PROJECTION
    docs,           \* the sources of the documents
    points,         \* the points of the search collection
    writes,         \* how many writes there were
    had             \* history: what each document and point has been

indexVars == <<projection, docs, points, writes, had>>

Docs == 1..Len(ScrollOrder)

\* An integer of the mapping, another number, a string, null or missing.
Kinds == {"number", "loose", "text", "null"}

\* `number` is what it is as a number, `text` the rank of it as a string.
Value == [kind: Kinds, number: Nat, text: Nat]

Content ==
    [n: Values,
     k: [strings: SUBSET Nat, others: SUBSET Nat],
     filter: BOOLEAN,                 \* selected by the filter of the query
     post: BOOLEAN,                   \* ... by its post_filter
     pattern: BOOLEAN,                \* ... by its patterns
     score: [TextFields -> Nat]]      \* relevance of its text, 0 if no match

Number(v) == v.kind \in {"number", "loose"}

----------------------------------------------------------------------------
(* value_cmp                                                               *)

Sign(n) == CASE n < 0 -> -1 [] n = 0 -> 0 [] n > 0 -> 1

\* Numbers by value, everything else by its text.
ValueCmp(v, w) ==
    IF Number(v) /\ Number(w) THEN Sign(v.number - w.number)
    ELSE Sign(v.text - w.text)

\* sort_by expects an order; strings that sort between two numbers would
\* break it.
ASSUME IndexAssumption ==
    /\ ScrollOrder \in Seq(Nat) /\ ToSet(ScrollOrder) = Docs
    /\ TextFields \subseteq Nat
    /\ Values \subseteq Value
    /\ \E v \in Values : v.kind = "null"
    /\ \A u, v, w \in Values :
            ValueCmp(u, v) <= 0 /\ ValueCmp(v, w) <= 0 => ValueCmp(u, w) <= 0
    /\ Contents \subseteq Content
    /\ \A c \in Contents : IsFiniteSet(c.k.strings) /\ IsFiniteSet(c.k.others)
    /\ Populations \subseteq [Docs -> Contents \cup {None}]
    /\ Writable \subseteq Contents
    /\ MaxWrites \in Nat
    /\ None \notin Contents \cup Nat \cup BOOLEAN

----------------------------------------------------------------------------
(* projected_search_payload: the markers in _qeg_fast_fields               *)

\* The index of the field orders and selects this value as the gateway does.
Marked(c, field) ==
    CASE field = "n" -> c.n.kind = "number"
      [] field = "k" -> c.k.others = {}

----------------------------------------------------------------------------
(* Qdrant: reads of the search collection.                                 *)

Exists(d) == points[d] # None

Selected(c, filtered) == filtered => c.filter

InScope(d, filtered) == Exists(d) /\ Selected(points[d], filtered)

Scope(filtered) == {d \in Docs : InScope(d, filtered)}

\* The positions of a page, and the position the next page starts at, or 0.
ScrollPage(members, offset, limit) ==
    LET left == {i \in DOMAIN ScrollOrder : i >= offset /\ ScrollOrder[i] \in members}
        rank(i) == Cardinality({j \in left : j < i})
    IN  [docs |-> [r \in 1..Cardinality({i \in left : rank(i) < limit}) |->
                      ScrollOrder[CHOOSE i \in left : rank(i) = r - 1]],
         next |-> IF Cardinality(left) <= limit THEN 0
                  ELSE CHOOSE i \in left : rank(i) = limit]

\* A point that lacks the marker, if there is one.
Uncovered(field, filtered) ==
    \E d \in Scope(filtered) : ~Marked(points[d], field)

----------------------------------------------------------------------------
(* Writers.                                                                *)

IndexInit ==
    /\ projection \in BOOLEAN
    /\ docs \in Populations
    /\ points = docs
    /\ writes = 0
    /\ had = [d \in Docs |-> [docs |-> {docs[d]}, points |-> {docs[d]}]]

Records(ds, ps) ==
    had' = [d \in Docs |-> [docs   |-> had[d].docs \cup {ds[d]},
                            points |-> had[d].points \cup {ps[d]}]]

\* Mutant: an embedded index gets its point later, too.
WriteAhead(d, c) ==
    /\ writes < MaxWrites
    /\ docs[d] # c
    /\ docs' = [docs EXCEPT ![d] = c]
    /\ writes' = writes + 1
    /\ Records(docs', points)
    /\ UNCHANGED <<projection, points>>

\* A document is indexed, replaced or deleted.
Write(d, c) ==
    /\ writes < MaxWrites
    /\ docs[d] # c
    /\ docs' = [docs EXCEPT ![d] = c]
    /\ points' = IF projection THEN points ELSE docs'
    /\ writes' = writes + 1
    /\ Records(docs', points')
    /\ UNCHANGED projection

\* The write arrives at the search collection.
Project(d) ==
    /\ points[d] # docs[d]
    /\ points' = [points EXCEPT ![d] = docs[d]]
    /\ Records(docs, points')
    /\ UNCHANGED <<projection, docs, writes>>

Writer ==
    \E d \in Docs :
        \/ \E c \in Writable \cup {None} : Write(d, c)
        \/ Project(d)

\* History starts anew with each search.
ForgetHistory ==
    had' = [d \in Docs |-> [docs |-> {docs[d]}, points |-> {points[d]}]]

----------------------------------------------------------------------------
(* What the documents were during a search.                                *)

\* Mutated by nobody since the search began.
Untouched(d) == had[d].docs = had[d].points /\ Cardinality(had[d].docs) = 1

Quiet == \A d \in Docs : Untouched(d)

Held(S) == S \ {None}
=============================================================================
