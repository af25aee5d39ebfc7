---------------------------- MODULE RoutesProofs ----------------------------
(* Theorems about Routes, for any requests: paths of any length, any names, *)
(* any spelling of them.                                                   *)
EXTENDS Routes, TLAPS

----------------------------------------------------------------------------
(* What the tables say.                                                    *)

Writers == {"create_index", "delete_index", "put_mapping", "aliases", "bulk",
            "write_doc", "create_doc", "update_doc", "delete_doc"}

\* The handlers that write are these.
LEMMA WritersAreKnown ==
    ASSUME NEW h, Writes(h)
    PROVE  h \in Writers
BY DEF Writes, Writers, Calls, Lookups, SearchCalls, DocumentCalls, Reading, Mutation

\* Every call of a handler is a read or has a proof.
LEMMA CallsAreKnown ==
    ASSUME NEW h, NEW c \in Calls(h)
    PROVE  IF c.mutates THEN Classify(c) # "none" ELSE IsRead(c)
BY DEF Calls, Lookups, SearchCalls, DocumentCalls, Reading, Mutation, Classify, IsRead

\* A path compared as sent has the segments it is compared with.
LEMMA OneSegment ==
    ASSUME NEW r, NEW n, IsPath(r, n)
    PROVE  Parts(r) = 1 /\ Part(r, 1) = n
BY DEF IsPath, Parts, Part

\* ... of two segments as well.
LEMMA TwoSegments ==
    ASSUME NEW r, NEW n, NEW k, IsPathBelow(r, n, k)
    PROVE  Parts(r) = 2 /\ Part(r, 1) = n /\ Part(r, 2) = k
BY DEF IsPathBelow, Parts, Part

\* The root is not the liveness probe.
LEMMA RootIsNoName == Root # "healthz"
BY Zenon DEF Root

\* The fixed paths.
LEMMA FixedPaths ==
    ASSUME NEW r
    PROVE  /\ IsPath(r, Root) => Parts(r) = 1 /\ Part(r, 1) = Root
           /\ IsPath(r, "healthz") => Parts(r) = 1 /\ Part(r, 1) = "healthz"
           /\ IsPath(r, "readyz") => Parts(r) = 1 /\ Part(r, 1) = "readyz"
           /\ IsPath(r, "_aliases") => Parts(r) = 1 /\ Part(r, 1) = "_aliases"
           /\ IsPathBelow(r, "_cluster", "health") => Parts(r) = 2 /\ Part(r, 2) = "health"
           /\ IsPathBelow(r, "_qdrant_gateway", "compatibility")
                => Parts(r) = 2 /\ Part(r, 2) = "compatibility"
BY OneSegment, TwoSegments

\* The handlers of fixed paths.
LEMMA PathTable ==
    ASSUME NEW r
    PROVE  \/ OnPath(r) = "none"
           \/ OnPath(r) \in {"root", "health", "healthz", "readyz"} /\ r.method = "GET"
           \/ OnPath(r) = "compatibility" /\ IsPathBelow(r, "_qdrant_gateway", "compatibility")
           \/ OnPath(r) = "aliases" /\ IsPath(r, "_aliases") /\ r.method = "POST"
BY DEF OnPath

\* The handlers of an index.
LEMMA IndexTable ==
    ASSUME NEW m
    PROVE  \/ OnIndex(m) \in {"head_index", "get_index_info", "error"}
           \/ OnIndex(m) = "create_index" /\ m = "PUT"
           \/ OnIndex(m) = "delete_index" /\ m = "DELETE"
BY DEF OnIndex

\* ... of its endpoints.
LEMMA EndpointTable ==
    ASSUME NEW n, NEW m
    PROVE  \/ OnEndpoint(n, m) \in {"index_control", "get_mapping", "error"}
           \/ OnEndpoint(n, m) \in {"search", "count"} /\ m \in {"GET", "POST"}
           \/ OnEndpoint(n, m) = "put_mapping" /\ n = "_mapping" /\ m = "PUT"
           \/ OnEndpoint(n, m) = "write_doc" /\ n = "_doc" /\ m = "POST"
           \/ OnEndpoint(n, m) = "bulk" /\ n = "_bulk" /\ m = "POST"
BY DEF OnEndpoint

\* ... of its documents.
LEMMA DocumentTable ==
    ASSUME NEW n, NEW m
    PROVE  \/ OnDocument(n, m) \in {"get_doc", "head_doc", "error"}
           \/ OnDocument(n, m) = "write_doc" /\ m = "PUT"
           \/ OnDocument(n, m) = "delete_doc" /\ m = "DELETE"
           \/ OnDocument(n, m) = "create_doc" /\ m \in {"PUT", "POST"}
           \/ OnDocument(n, m) = "update_doc" /\ m = "POST"
BY DEF OnDocument

\* Where a handler comes from.
LEMMA HandlerTable ==
    ASSUME NEW r
    PROVE  \/ Handler(r) = "error"
           \/ Handler(r) = "bulk" /\ IsBulk(r)
           \/ /\ ~IsBulk(r)
              /\ Handler(r) = "msearch" /\ r.method = "POST" /\ EndsWith(r, "_msearch")
           \/ /\ ~IsBulk(r) /\ Decodes(r)
              /\ Handler(r) = OnPath(r) /\ OnPath(r) # "none"
           \/ /\ ~IsBulk(r) /\ Decodes(r) /\ OnPath(r) = "none"
              /\ \/ /\ Parts(r) = 2 /\ Part(r, 1) = "_alias"
                    /\ Handler(r) \in {"alias_get", "alias_head"}
                    /\ r.method \in {"GET", "HEAD"}
                    /\ r.method = "GET" => Handler(r) = "alias_get"
                 \/ Parts(r) = 1 /\ Handler(r) = OnIndex(r.method)
                 \/ /\ Parts(r) = 2 /\ Handler(r) = OnEndpoint(Part(r, 2), r.method)
                    /\ ~(Part(r, 1) = "_alias" /\ r.method = "GET")
                 \/ Parts(r) = 3 /\ Handler(r) = OnDocument(Part(r, 2), r.method)
BY DEF Handler

\* The last segment.
LEMMA LastSegment ==
    ASSUME NEW r, NEW n, EndsWith(r, n)
    PROVE  Part(r, Parts(r)) = n
BY DEF EndsWith, Last, Part, Parts

----------------------------------------------------------------------------
(* What the tables say of each other.                                      *)

\* Every request of a handler that writes is fenced.
LEMMA WritersMutate ==
    ASSUME NEW r, Handler(r) \in Writers
    PROVE  Mutating(r)
<1>1. CASE IsBulk(r)
  BY <1>1, LastSegment DEF IsBulk, Mutating
<1>2. CASE ~IsBulk(r) /\ OnPath(r) # "none" /\ Handler(r) = OnPath(r)
  BY <1>2, PathTable, OneSegment DEF Writers, Mutating
<1>3. CASE Parts(r) = 1 /\ Handler(r) = OnIndex(r.method)
  BY <1>3, IndexTable DEF Writers, Mutating
<1>4. CASE Parts(r) = 2 /\ Handler(r) = OnEndpoint(Part(r, 2), r.method)
  BY <1>4, EndpointTable DEF Writers, Mutating
<1>5. CASE Parts(r) = 3 /\ Handler(r) = OnDocument(Part(r, 2), r.method)
  BY <1>5, DocumentTable DEF Writers, Mutating
<1>6. QED
  BY <1>1, <1>2, <1>3, <1>4, <1>5, HandlerTable DEF Writers

\* An administration of the catalog is claimed, and a claim is for one.
LEMMA CatalogChangersClaim ==
    ASSUME NEW r, ChangesCatalog(Handler(r))
    PROVE  /\ IsAdmin(r) /\ ~UsesReadView(r)
           /\ Handler(r) \in Writers /\ r.method # "GET"
<1>0. Handler(r) \in {"create_index", "delete_index", "put_mapping", "aliases"}
  BY DEF ChangesCatalog
<1>1. CASE ~IsBulk(r) /\ OnPath(r) # "none" /\ Handler(r) = OnPath(r)
  BY <1>0, <1>1, PathTable, OneSegment DEF Writers, IsAdmin, UsesReadView
<1>2. CASE ~IsBulk(r) /\ Parts(r) = 1 /\ Handler(r) = OnIndex(r.method)
  BY <1>0, <1>2, IndexTable DEF Writers, IsAdmin, UsesReadView
<1>3. CASE ~IsBulk(r) /\ Parts(r) = 2 /\ Handler(r) = OnEndpoint(Part(r, 2), r.method)
  BY <1>0, <1>3, EndpointTable DEF Writers, IsAdmin, UsesReadView
<1>4. CASE Parts(r) = 3 /\ Handler(r) = OnDocument(Part(r, 2), r.method)
  BY <1>0, <1>4, DocumentTable
<1>5. QED
  BY <1>0, <1>1, <1>2, <1>3, <1>4, HandlerTable

\* Nothing else is taken for an administration.
LEMMA ClaimsAreForChanges ==
    ASSUME NEW r, IsAdmin(r)
    PROVE  ChangesCatalog(Handler(r)) \/ Handler(r) = "error"
<1>1. CASE Parts(r) = 1 /\ r.method \in {"PUT", "DELETE"}
  BY <1>1, HandlerTable, PathTable, IndexTable, TwoSegments
     DEF IsAdmin, ChangesCatalog, OnIndex
<1>2. CASE IsPath(r, "_aliases") /\ r.method = "POST"
  <2>1. Parts(r) = 1 /\ Part(r, 1) = "_aliases"
    BY <1>2, OneSegment
  <2>2. OnPath(r) = "aliases"
    BY <1>2, <2>1, TwoSegments DEF OnPath
  <2>3. ~EndsWith(r, "_msearch")
    BY <2>1, LastSegment
  <2>4. QED
    BY <1>2, <2>2, <2>3 DEF Handler, IsAdmin, ChangesCatalog
<1>3. CASE Parts(r) = 2 /\ Part(r, 2) = "_mapping" /\ r.method = "PUT"
  BY <1>3, HandlerTable, PathTable, TwoSegments DEF IsAdmin, ChangesCatalog, OnEndpoint
<1>4. QED
  BY <1>1, <1>2, <1>3 DEF IsAdmin

\* Handlers behind a read view look indices up and nothing else.
LEMMA ReadViewsAreForReads ==
    ASSUME NEW r, UsesReadView(r)
    PROVE  ReadsIndices(Handler(r))
<1>1. CASE Parts(r) = 3 /\ Part(r, 2) = "_doc" /\ r.method = "GET"
  <2>1. ~IsBulk(r)
    BY <1>1 DEF IsBulk
  <2>2. OnPath(r) = "none"
    BY <1>1, OneSegment, TwoSegments DEF OnPath
  <2>3. QED
    BY <1>1, <2>1, <2>2, HandlerTable DEF OnDocument, ReadsIndices
<1>2. CASE /\ Parts(r) = 2 /\ Part(r, 2) = "_search" /\ r.method \in {"GET", "POST"}
           /\ ~(r.method = "GET" /\ Part(r, 1) = "_alias")
  <2>1. ~IsBulk(r) /\ ~EndsWith(r, "_msearch")
    BY <1>2, LastSegment DEF IsBulk
  <2>2. OnPath(r) = "none"
    BY <1>2, OneSegment, TwoSegments DEF OnPath
  <2>3. QED
    BY <1>2, <2>1, <2>2, HandlerTable DEF OnEndpoint, ReadsIndices
<1>3. QED
  BY <1>1, <1>2 DEF UsesReadView

\* What may be cached is read, and by these handlers.
LEMMA EligibleAreReads ==
    ASSUME NEW r, Eligible(r)
    PROVE  Handler(r) \in {"get_doc", "search", "alias_get", "error"}
<1>1. CASE Parts(r) = 3 /\ Part(r, 2) = "_doc" /\ r.method = "GET"
  BY <1>1, ReadViewsAreForReads DEF Eligible, UsesReadView, ReadsIndices
<1>2. CASE Parts(r) = 2 /\ Part(r, 2) = "_search" /\ r.method \in {"GET", "POST"}
  <2>1. CASE r.method = "GET" /\ Part(r, 1) = "_alias"
    <3>1. ~IsBulk(r)
      BY <2>1 DEF IsBulk
    <3>2. OnPath(r) = "none"
      BY <1>2, OneSegment, TwoSegments DEF OnPath
    <3>3. QED
      BY <1>2, <2>1, <3>1, <3>2, HandlerTable
  <2>2. CASE ~(r.method = "GET" /\ Part(r, 1) = "_alias")
    BY <1>2, <2>2, ReadViewsAreForReads DEF Eligible, UsesReadView, ReadsIndices
  <2>3. QED
    BY <2>1, <2>2
<1>3. QED
  BY <1>1, <1>2 DEF Eligible

\* The liveness probe needs no catalog.
LEMMA ProbesNeedNothing ==
    ASSUME NEW r, IsPath(r, "healthz"), r.method = "GET"
    PROVE  Handler(r) \in {"healthz", "error"}
<1>1. Parts(r) = 1 /\ Part(r, 1) = "healthz"
  BY OneSegment
<1>2. ~IsPath(r, Root)
  BY <1>1, FixedPaths, RootIsNoName
<1>3. OnPath(r) = "healthz"
  BY <1>1, <1>2, FixedPaths DEF OnPath
<1>4. QED
  BY <1>3 DEF Handler, IsBulk
----------------------------------------------------------------------------
(* The way of a request.                                                   *)

\* How far a request is.
Reached(stages) == stage \in stages

\* Nothing is known before the step that finds it out.
Fresh ==
    /\ Reached({"received", "coordinate"}) => ~token /\ ~ticket /\ view = "none"
    /\ Reached({"received", "coordinate", "catalog", "handle"}) => handler = "none"
    /\ Reached({"received", "coordinate", "catalog", "handle", "handled"}) => ~published
    /\ Reached({"received"}) \/ (Reached({"coordinate"}) => config.cached)

\* Writers are admitted on their way to the catalog, nobody else is.
AdmittedMutate ==
    /\ token => config.cached /\ Mutating(request)
    /\ config.cached /\ Mutating(request) /\ (Reached({"catalog", "handle", "handled"})
                                               \/ handler # "none") => token

\* Tickets are for what the cache may serve.
TicketsAreCached == ticket => config.cached /\ Cached

\* A handler finds the catalog where its request asks for it.
ViewIsFound ==
    /\ Reached({"handle", "handled"}) \/ handler # "none" => view # "none"
    /\ view = "local" => LocalCatalog
    /\ view = "read" => UsesReadView(request)
    /\ view = "claimed" => IsAdmin(request)
    /\ view = "copy" => ~UsesReadView(request) /\ (~IsAdmin(request) \/ ~Mutating(request))

Dispatched ==
    /\ handler \in {"none", Handler(request)}
    /\ Reached({"handled"}) => handler = Handler(request)

PublishedByTicket ==
    published => ticket /\ handler = Handler(request) /\ handler # "error"

\* The inductive invariant.
RInv ==
    /\ config \in Deployments /\ request \in Requests
    /\ stage \in {"received", "coordinate", "catalog", "handle", "handled", "answered"}
    /\ {token, ticket, published} \subseteq BOOLEAN
    /\ view \in {"none", "local", "read", "copy", "claimed"}
    /\ Fresh
    /\ AdmittedMutate
    /\ TicketsAreCached
    /\ ViewIsFound
    /\ Dispatched
    /\ PublishedByTicket

\* The invariant holds initially.
LEMMA InitInv == RouteInit => RInv
BY DEF RouteInit, RInv, Fresh, Reached, AdmittedMutate, TicketsAreCached, ViewIsFound,
       Dispatched, PublishedByTicket

\* Every step preserves it.
LEMMA StepInv == RInv /\ [RouteNext]_routeVars => RInv'
<1> SUFFICES ASSUME RInv, [RouteNext]_routeVars
             PROVE  RInv'
  OBVIOUS
<1> USE DEF RInv, Fresh, Reached, AdmittedMutate, TicketsAreCached, ViewIsFound,
            Dispatched, PublishedByTicket, Cached, LocalCatalog
<1>1. CASE Receive
  BY <1>1 DEF Receive
<1>2. CASE Admit
  BY <1>2 DEF Admit
<1>3. CASE Bypass
  BY <1>3 DEF Bypass
<1>4. CASE LookupHits
  BY <1>4 DEF LookupHits
<1>5. CASE LookupMisses
  BY <1>5 DEF LookupMisses
<1>6. CASE LookupFails
  BY <1>6 DEF LookupFails
<1>7. CASE OpenCatalog
  BY <1>7 DEF OpenCatalog
<1>8. CASE NoCatalog
  BY <1>8 DEF NoCatalog
<1>9. CASE Handle
  BY <1>9 DEF Handle
<1>10. CASE Finish
  <2>1. published' \in BOOLEAN /\ (published' => ticket /\ handler # "error")
    BY <1>10, Zenon DEF Finish
  <2>2. stage = "handled" /\ stage' = "answered"
        /\ UNCHANGED <<config, request, token, ticket, view, handler>>
    BY <1>10 DEF Finish
  <2>3. QED
    BY <2>1, <2>2
<1>11. CASE UNCHANGED routeVars
  BY <1>11 DEF routeVars
<1>12. QED
  BY <1>1, <1>2, <1>3, <1>4, <1>5, <1>6, <1>7, <1>8, <1>9, <1>10, <1>11 DEF RouteNext

\* So it always holds.
LEMMA Inductive == RouteSpec => []RInv
BY InitInv, StepInv, PTL DEF RouteSpec

----------------------------------------------------------------------------
(* Theorems.                                                               *)

\* Every request ends at a handler of the table.
LEMMA HandlersAreKnown ==
    ASSUME NEW r
    PROVE  Handler(r) \in Handlers
BY HandlerTable, PathTable, IndexTable, EndpointTable, DocumentTable DEF Handlers

\* Requests are well typed on their way, have a catalog when they are handled,
\* and never hold both a token and a ticket (CacheRuntime::dispatch).
THEOREM RoutesAreTyped == RouteSpec => []RoutesTypeOK
<1>1. RInv => RoutesTypeOK
  BY RequestsAssumption, HandlersAreKnown
     DEF RInv, RoutesTypeOK, AdmittedMutate, TicketsAreCached, Cached, ViewIsFound, Dispatched
<1>2. QED
  BY <1>1, Inductive, PTL

\* No path, however it is written, reaches a handler that writes without
\* admission (cache_runtime.rs: mutating; main.rs: dispatch_inner).
THEOREM EveryWriterIsFenced == RouteSpec => []WritesAreFenced
<1>1. RInv => WritesAreFenced
  BY WritersAreKnown, WritersMutate
     DEF RInv, WritesAreFenced, AdmittedMutate, Dispatched
<1>2. QED
  BY <1>1, Inductive, PTL

\* The catalog is changed by the owner of the claim, which is taken for nothing
\* else; a handler with a read view needs no more, and without a shared catalog
\* only the liveness probe runs (shared_catalog.rs: is_admin, uses_read_view).
THEOREM EveryViewFits == RouteSpec => []ViewsFitHandlers
<1>1. RInv => ViewsFitHandlers
  <2> SUFFICES ASSUME RInv, config.shared, handler # "none"
               PROVE  /\ ChangesCatalog(handler) => view = "claimed"
                      /\ view = "claimed" => ChangesCatalog(handler) \/ handler = "error"
                      /\ view = "read" => ReadsIndices(handler)
                      /\ view = "local" => handler \in {"healthz", "error"}
    BY DEF ViewsFitHandlers
  <2>1. handler = Handler(request)
    BY DEF RInv, Dispatched
  <2>2. ASSUME ChangesCatalog(handler) PROVE view = "claimed"
    <3>1. IsAdmin(request) /\ ~UsesReadView(request) /\ Mutating(request) /\ ~LocalCatalog
      BY <2>1, <2>2, CatalogChangersClaim, WritersMutate DEF LocalCatalog
    <3>2. QED
      BY <3>1 DEF RInv, ViewIsFound
  <2>3. view = "claimed" => ChangesCatalog(handler) \/ handler = "error"
    BY <2>1, ClaimsAreForChanges DEF RInv, ViewIsFound
  <2>4. view = "read" => ReadsIndices(handler)
    BY <2>1, ReadViewsAreForReads DEF RInv, ViewIsFound
  <2>5. view = "local" => handler \in {"healthz", "error"}
    BY <2>1, ProbesNeedNothing DEF RInv, ViewIsFound, LocalCatalog
  <2>6. QED
    BY <2>2, <2>3, <2>4, <2>5
<1>2. QED
  BY <1>1, Inductive, PTL

\* A published response is that of get_doc, search or alias_get, and of no
\* writer (cache_request.rs: eligible).
THEOREM PublishedResponsesAreReads == RouteSpec => []PublishedAreReads
<1>1. RInv => PublishedAreReads
  <2> SUFFICES ASSUME RInv, published
               PROVE  ~Writes(handler) /\ ~token /\ handler \in {"get_doc", "search", "alias_get"}
    BY DEF PublishedAreReads
  <2>1. ~Mutating(request) /\ Eligible(request)
    BY DEF RInv, PublishedByTicket, TicketsAreCached, Cached
  <2>2. handler \in {"get_doc", "search", "alias_get"}
    BY <2>1, EligibleAreReads DEF RInv, PublishedByTicket
  <2>3. QED
    BY <2>1, <2>2, WritersAreKnown DEF RInv, AdmittedMutate, Writers
<1>2. QED
  BY <1>1, Inductive, PTL

\* Under the fence every call is a read, or a mutation whose completion the
\* gateway can prove (mutation_completion.rs: classify, is_read).
THEOREM FencedCallsAreProvable == RouteSpec => []CallsAreProvable
<1>1. RInv => CallsAreProvable
  BY CallsAreKnown DEF RInv, CallsAreProvable, AdmittedMutate, Deployments
<1>2. QED
  BY <1>1, Inductive, PTL
=============================================================================
