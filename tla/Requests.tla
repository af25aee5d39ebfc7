------------------------------ MODULE Requests ------------------------------
(***************************************************************************)
(* Requests with their bodies: Routes decides where a request goes, and    *)
(* the body of a search holds a query of QueryFilter.  They meet in        *)
(* cache_request.rs, which lets a search be cached only if                 *)
(* validate_post_filter accepts its query.                                 *)
(*                                                                         *)
(* Bounds: bodies are composed for the lines in SearchLines where a cache  *)
(* serves them, and those of at most SentDepth nested clauses are sent.    *)
(***************************************************************************)
EXTENDS Routes, QueryFilter

CONSTANTS SearchLines, SentDepth

ASSUME RequestsBound == SearchLines \subseteq Request /\ SentDepth \in 0..MaxDepth

requestVars == <<routeVars, vars>>

\* Mutant: any query will do.
WithAnyQuery(r, q) == [r EXCEPT !.body.cacheable = TRUE]

\* eligible: the query of a search
WithQuery(r, q) == [r EXCEPT !.body.cacheable = Accepted(q)]

\* A search whose body is composed.
Composed == [request EXCEPT !.body.cacheable = FALSE] \in SearchLines

RequestInit ==
    /\ Init /\ RouteInit
    /\ IF Composed THEN config.serve /\ request = WithQuery(request, query)
       ELSE query.kind = "match_all"

Compose ==
    /\ stage = "received" /\ Composed
    /\ Next
    /\ request' = WithQuery(request, query')
    /\ UNCHANGED <<config, stage, token, ticket, view, handler, published>>

\* collect_patterns refuses some queries, whose searches fail.
Send ==
    /\ RouteNext
    /\ depth <= SentDepth
    /\ published' /\ handler = "search" => ~Refused(query)
    /\ UNCHANGED vars

RequestNext == Compose \/ Send

RequestSpec == RequestInit /\ [][RequestNext]_requestVars

----------------------------------------------------------------------------
(* Properties.                                                             *)

\* What the cache keeps of a search is what its query means: it holds no pattern
\* that the gateway applies to a page of hits only, and no dis_max, in which
\* patterns are lost (cache_request.rs: validate_post_filter of the query).
CachedSearchesAreExact ==
    published /\ handler = "search" =>
        /\ Patterns(query) = {} /\ ~HasKind(query, "dis_max")
        /\ \A doc \in Documents : Finds(query, doc) <=> Means(query, doc)
=============================================================================
