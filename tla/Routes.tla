------------------------------- MODULE Routes -------------------------------
(***************************************************************************)
(* The way of a request through the gateway.  Five tables decide about it  *)
(* from its method and path, each on its own: whether it is admitted as a  *)
(* writer (cache_runtime.rs: mutating), whether its response may be cached *)
(* (cache_request.rs: eligible), whether it claims the catalog and whether *)
(* a read view is enough for it (shared_catalog.rs), and which handler it  *)
(* gets (main.rs: dispatch_inner).  A sixth decides which calls to Qdrant  *)
(* it may make (mutation_completion.rs).                                   *)
(*                                                                         *)
(* Some tables read the path as it was sent and some its decoded segments. *)
(* A path is the sequence of its segments between slashes; `encoded` says  *)
(* that a segment is written with %XX, `valid` that it decodes to UTF-8.   *)
(* What the steps do to Valkey is CacheRuntime's subject.                  *)
(***************************************************************************)
EXTENDS Naturals, Sequences

CONSTANT Requests       \* what clients send

Methods == {"GET", "HEAD", "POST", "PUT", "DELETE", "OPTIONS", "PATCH"}

Segment == [name: STRING, encoded: BOOLEAN, valid: BOOLEAN]

\* Query parameters: those the gateway refuses, those cache_request knows.
Parameters == {"guarantee", "cacheable", "other"}

Body ==
    [fits: SUBSET {"MAX_BODY_BYTES", "MAX_BULK_BYTES"},
     utf8: BOOLEAN, json: BOOLEAN, object: BOOLEAN,
     empty: BOOLEAN,            \* {} or blank
     cacheable: BOOLEAN]        \* a search of supported options only

Request ==
    [method: Methods,
     path: Seq(Segment) \ {<<>>},
     leading: BOOLEAN,          \* the path begins with a second slash
     trailing: BOOLEAN,         \* ... or ends with one
     parameters: SUBSET Parameters,
     body: Body]

ASSUME RequestsAssumption == Requests \subseteq Request

VARIABLES
    config,     \* how the process is deployed
    request,
    stage,      \* its next step
    token,      \* it is admitted as a writer
    ticket,     \* it may publish its response
    view,       \* where its handler finds the catalog
    handler,    \* the handler that ran, or "none"
    published

routeVars == <<config, request, stage, token, ticket, view, handler, published>>

----------------------------------------------------------------------------
(* Paths.                                                                  *)

Last(r) == r.path[Len(r.path)]

\* path.ends_with("/<name>")
EndsWith(r, name) ==
    ~r.trailing /\ Last(r).name = name /\ ~Last(r).encoded /\ Last(r).valid

\* The only segment of "/"
Root == ""

\* path == "/<name>", path == "/<first>/<second>"
AsSent(r) ==
    ~r.leading /\ ~r.trailing /\ \A i \in DOMAIN r.path : ~r.path[i].encoded /\ r.path[i].valid

IsPath(r, name) ==
    AsSent(r) /\ Len(r.path) = 1 /\ r.path[1].name = name

IsPathBelow(r, first, second) ==
    AsSent(r) /\ Len(r.path) = 2 /\ r.path[1].name = first /\ r.path[2].name = second

\* decode_path_segments
Decodes(r) == \A i \in DOMAIN r.path : r.path[i].valid
Parts(r) == Len(r.path)
Part(r, i) == r.path[i].name

\* is_bulk_request
IsBulk(r) == r.method \in {"POST", "PUT"} /\ EndsWith(r, "_bulk")

\* request_body_limit
Limit(r) == IF IsBulk(r) THEN "MAX_BULK_BYTES" ELSE "MAX_BODY_BYTES"
Fits(r) == Limit(r) \in r.body.fits

\* validate_request_parameters
ParametersValid(r) == "guarantee" \notin r.parameters

----------------------------------------------------------------------------
(* dispatch_inner                                                          *)

OnIndex(method) ==
    CASE method = "PUT"    -> "create_index"
      [] method = "DELETE" -> "delete_index"
      [] method = "HEAD"   -> "head_index"
      [] method = "GET"    -> "get_index_info"
      [] OTHER             -> "error"

OnEndpoint(name, method) ==
    CASE name \in {"_refresh", "_open", "_close"} /\ method = "POST" -> "index_control"
      [] name = "_settings" /\ method \in {"GET", "PUT"} -> "index_control"
      [] name = "_mapping" /\ method = "GET"  -> "get_mapping"
      [] name = "_mapping" /\ method = "PUT"  -> "put_mapping"
      [] name = "_doc"     /\ method = "POST" -> "write_doc"
      [] name = "_bulk"    /\ method = "POST" -> "bulk"
      [] name = "_search"  /\ method \in {"GET", "POST"} -> "search"
      [] name = "_count"   /\ method \in {"GET", "POST"} -> "count"
      [] OTHER             -> "error"

OnDocument(name, method) ==
    CASE name = "_doc"    /\ method = "PUT"    -> "write_doc"
      [] name = "_doc"    /\ method = "GET"    -> "get_doc"
      [] name = "_doc"    /\ method = "HEAD"   -> "head_doc"
      [] name = "_doc"    /\ method = "DELETE" -> "delete_doc"
      [] name = "_create" /\ method \in {"PUT", "POST"} -> "create_doc"
      [] name = "_update" /\ method = "POST"   -> "update_doc"
      [] OTHER            -> "error"

\* Paths that are compared as they were sent.
OnPath(r) ==
    CASE IsPath(r, Root) /\ r.method = "GET"                      -> "root"
      [] IsPathBelow(r, "_cluster", "health") /\ r.method = "GET" -> "health"
      [] IsPath(r, "healthz") /\ r.method = "GET"                 -> "healthz"
      [] IsPath(r, "readyz") /\ r.method = "GET"                  -> "readyz"
      [] IsPathBelow(r, "_qdrant_gateway", "compatibility")       -> "compatibility"
      [] IsPath(r, "_aliases") /\ r.method = "POST"               -> "aliases"
      [] OTHER                                                    -> "none"

Handler(r) ==
    IF ~Fits(r) THEN "error"
    ELSE IF IsBulk(r) THEN "bulk"
    ELSE IF r.method = "POST" /\ EndsWith(r, "_msearch") THEN "msearch"
    ELSE IF ~r.body.json \/ ~Decodes(r) THEN "error"
    ELSE IF OnPath(r) # "none" THEN OnPath(r)
    ELSE IF Parts(r) = 2 /\ Part(r, 1) = "_alias" /\ r.method = "GET" THEN "alias_get"
    ELSE IF Parts(r) = 2 /\ Part(r, 1) = "_alias" /\ r.method = "HEAD" THEN "alias_head"
    ELSE CASE Parts(r) = 1 -> OnIndex(r.method)
           [] Parts(r) = 2 -> OnEndpoint(Part(r, 2), r.method)
           [] Parts(r) = 3 -> OnDocument(Part(r, 2), r.method)
           [] OTHER        -> "error"

----------------------------------------------------------------------------
(* The other tables.                                                       *)

\* Mutant: an update is a POST like a search.
MutatingButUpdates(r) ==
    /\ r.method \notin {"GET", "HEAD", "OPTIONS"}
    /\ r.method = "POST" /\ Decodes(r) =>
          /\ ~(Parts(r) = 1 /\ Part(r, 1) = "_msearch")
          /\ ~(Parts(r) = 2 /\ Part(r, 2) \in {"_search", "_msearch", "_count"})
          /\ ~(Parts(r) = 3 /\ Part(r, 2) = "_update")

Mutating(r) ==
    /\ r.method \notin {"GET", "HEAD", "OPTIONS"}
    /\ r.method = "POST" /\ Decodes(r) =>
          /\ ~(Parts(r) = 1 /\ Part(r, 1) = "_msearch")
          /\ ~(Parts(r) = 2 /\ Part(r, 2) \in {"_search", "_msearch", "_count"})

\* Mutant: the endpoint of an index is not compared.
EligibleAnyEndpoint(r) ==
    /\ Fits(r) /\ r.parameters \subseteq {"cacheable"} /\ Decodes(r)
    /\ r.body.json /\ r.body.object
    /\ \/ /\ Parts(r) = 3 /\ Part(r, 2) = "_doc" /\ r.method = "GET"
          /\ r.body.empty
       \/ /\ Parts(r) = 2 /\ r.method \in {"GET", "POST"}
          /\ r.body.cacheable

\* cache_request::eligible
Eligible(r) ==
    /\ Fits(r) /\ r.parameters \subseteq {"cacheable"} /\ Decodes(r)
    /\ r.body.json /\ r.body.object
    /\ \/ /\ Parts(r) = 3 /\ Part(r, 2) = "_doc" /\ r.method = "GET"
          /\ r.body.empty
       \/ /\ Parts(r) = 2 /\ Part(r, 2) = "_search" /\ r.method \in {"GET", "POST"}
          /\ r.body.cacheable

\* Mutant: the path is compared as it was sent.
IsAdminAsSent(r) ==
    /\ ~IsBulk(r)
    /\ \/ Parts(r) = 1 /\ r.method \in {"PUT", "DELETE"}
       \/ IsPath(r, "_aliases") /\ r.method = "POST"
       \/ Parts(r) = 2 /\ EndsWith(r, "_mapping") /\ r.method = "PUT"

IsAdmin(r) ==
    /\ ~IsBulk(r)
    /\ \/ Parts(r) = 1 /\ r.method \in {"PUT", "DELETE"}
       \/ IsPath(r, "_aliases") /\ r.method = "POST"
       \/ Parts(r) = 2 /\ Part(r, 2) = "_mapping" /\ r.method = "PUT"

\* Mutant: an alias is taken for an index.
UsesReadViewForAliases(r) ==
    /\ Decodes(r)
    /\ \/ Parts(r) = 3 /\ Part(r, 2) = "_doc" /\ r.method = "GET"
       \/ Parts(r) = 2 /\ Part(r, 2) = "_search" /\ r.method \in {"GET", "POST"}

UsesReadView(r) ==
    /\ Decodes(r)
    /\ \/ Parts(r) = 3 /\ Part(r, 2) = "_doc" /\ r.method = "GET"
       \/ /\ Parts(r) = 2 /\ Part(r, 2) = "_search" /\ r.method \in {"GET", "POST"}
          /\ ~(r.method = "GET" /\ Part(r, 1) = "_alias")

----------------------------------------------------------------------------
(* The calls of a handler to Qdrant, below /collections/<name>.            *)

Mutation(method, path) == [mutates |-> TRUE, method |-> method, path |-> path]
Reading(method, path) == [mutates |-> FALSE, method |-> method, path |-> path]

\* retrieve_source, document_exists, retrieve_sources
Lookups == {Reading("GET", <<"points", "id">>), Reading("POST", <<"points">>)}

SearchCalls ==
    Lookups \cup {Reading("POST", <<"points", p>>) : p \in {"query", "scroll", "count"}}
            \cup {Reading("POST", <<"facet">>)}

DocumentCalls ==
    Lookups \cup {Mutation("PUT", <<"points">>), Mutation("POST", <<"points", "payload">>),
                  Mutation("POST", <<"points", "delete">>)}

Calls(h) ==
    CASE h = "create_index" -> {Mutation("PUT", <<>>), Mutation("PUT", <<"index">>),
                                Mutation("DELETE", <<>>)}
      [] h = "delete_index" -> {Mutation("DELETE", <<>>)}
      [] h = "put_mapping"  -> {Mutation("PUT", <<"index">>)}
      [] h = "bulk"         -> DocumentCalls
      [] h \in {"write_doc", "create_doc"} -> Lookups \cup {Mutation("PUT", <<"points">>)}
      [] h = "update_doc"   -> Lookups \cup {Mutation("PUT", <<"points">>),
                                             Mutation("POST", <<"points", "payload">>)}
      [] h = "delete_doc"   -> Lookups \cup {Mutation("POST", <<"points", "delete">>)}
      [] h \in {"get_doc", "head_doc"} -> Lookups
      [] h \in {"search", "msearch", "count"} -> SearchCalls
      [] OTHER              -> {}

\* Mutant: payload updates are forgotten.
ClassifyWithoutPayload(c) ==
    CASE c.path = <<>> /\ c.method \in {"PUT", "DELETE"} -> "boolean"
      [] c.path \in {<<"points">>, <<"index">>} /\ c.method = "PUT" -> "completed"
      [] c.path = <<"points", "delete">> /\ c.method = "POST" -> "completed"
      [] OTHER -> "none"

\* How its reply proves that a mutation is complete.
Classify(c) ==
    CASE c.path = <<>> /\ c.method \in {"PUT", "DELETE"} -> "boolean"
      [] c.path \in {<<"points">>, <<"index">>} /\ c.method = "PUT" -> "completed"
      [] /\ c.path \in {<<"points", "delete">>, <<"points", "payload">>}
         /\ c.method = "POST" -> "completed"
      [] OTHER -> "none"

IsRead(c) ==
    \/ c.method \in {"GET", "HEAD"}
    \/ /\ c.method = "POST"
       /\ c.path \in {<<"points">>, <<"facet">>, <<"points", "count">>,
                      <<"points", "scroll">>, <<"points", "query">>}

\* Handlers that change documents or collections; that change the catalog.
Writes(h) == (\E c \in Calls(h) : c.mutates) \/ h = "aliases"
ChangesCatalog(h) == h \in {"create_index", "delete_index", "put_mapping", "aliases"}

\* Handlers that find indices through get_index and resolve_index alone.
ReadsIndices(h) == h \in {"get_doc", "search", "error"}

----------------------------------------------------------------------------
(* The way of a request.                                                   *)

\* Settings; cache_deployment.rs requires the shared catalog and synchronous
\* writes beside the cache, and only the cache serves reads.
Deployments ==
    {d \in [shared: BOOLEAN, cached: BOOLEAN, serve: BOOLEAN, async: BOOLEAN] :
        /\ d.cached => d.shared /\ ~d.async
        /\ d.serve => d.cached}

RouteInit ==
    /\ config \in Deployments
    /\ request \in Requests
    /\ stage = "received"
    /\ token = FALSE /\ ticket = FALSE
    /\ view = "none"
    /\ handler = "none"
    /\ published = FALSE

\* gateway_router
Receive ==
    /\ stage = "received"
    /\ stage' = IF ~ParametersValid(request) \/ ~Fits(request) \/ ~request.body.utf8
                THEN "answered"
                ELSE IF config.cached THEN "coordinate" ELSE "catalog"
    /\ UNCHANGED <<config, request, token, ticket, view, handler, published>>

\* admit_writer, which may be refused
Admit ==
    /\ stage = "coordinate" /\ Mutating(request)
    /\ token' \in BOOLEAN
    /\ stage' = IF token' THEN "catalog" ELSE "answered"
    /\ UNCHANGED <<config, request, ticket, view, handler, published>>

Cached == ~Mutating(request) /\ config.serve /\ Eligible(request)

Bypass ==
    /\ stage = "coordinate" /\ ~Mutating(request) /\ ~Cached
    /\ stage' = "catalog"
    /\ UNCHANGED <<config, request, token, ticket, view, handler, published>>

LookupHits ==
    /\ stage = "coordinate" /\ Cached
    /\ stage' = "answered"
    /\ UNCHANGED <<config, request, token, ticket, view, handler, published>>

\* A miss brings the catalog along.
LookupMisses ==
    /\ stage = "coordinate" /\ Cached
    /\ ticket' = TRUE
    /\ view' = IF UsesReadView(request) THEN "read" ELSE "copy"
    /\ stage' = "handle"
    /\ UNCHANGED <<config, request, token, handler, published>>

\* A hit that does not decode keeps its ticket; a busy or unanswered lookup
\* has none.
LookupFails ==
    /\ stage = "coordinate" /\ Cached
    /\ ticket' \in BOOLEAN
    /\ stage' = "catalog"
    /\ UNCHANGED <<config, request, token, view, handler, published>>

LocalCatalog == ~config.shared \/ (IsPath(request, "healthz") /\ request.method = "GET")

\* dispatch_catalog, without a shared catalog or with one that answers
OpenCatalog ==
    /\ stage = "catalog"
    /\ LocalCatalog \/ Decodes(request) \/ IsBulk(request)
    /\ view' = IF LocalCatalog THEN "local"
               ELSE IF UsesReadView(request) THEN "read"
               ELSE IF IsAdmin(request) THEN "claimed"
               ELSE "copy"
    /\ stage' = "handle"
    /\ UNCHANGED <<config, request, token, ticket, handler, published>>

\* ... with one that does not, or a path that says nothing
NoCatalog ==
    /\ stage = "catalog" /\ ~LocalCatalog
    /\ stage' = "answered"
    /\ UNCHANGED <<config, request, token, ticket, view, handler, published>>

Handle ==
    /\ stage = "handle"
    /\ handler' = Handler(request)
    /\ stage' = "handled"
    /\ UNCHANGED <<config, request, token, ticket, view, published>>

\* The response is published if it is a success, and answered.
Finish ==
    /\ stage = "handled"
    /\ published' \in {FALSE, ticket /\ handler # "error"}
    /\ stage' = "answered"
    /\ UNCHANGED <<config, request, token, ticket, view, handler>>

RouteNext ==
    \/ Receive \/ Admit \/ Bypass
    \/ LookupHits \/ LookupMisses \/ LookupFails
    \/ OpenCatalog \/ NoCatalog
    \/ Handle \/ Finish

RouteSpec == RouteInit /\ [][RouteNext]_routeVars

----------------------------------------------------------------------------
(* Properties.                                                             *)

Handlers ==
    {"bulk", "msearch", "root", "health", "healthz", "readyz", "compatibility",
     "aliases", "alias_get", "alias_head", "create_index", "delete_index",
     "head_index", "get_index_info", "index_control", "get_mapping",
     "put_mapping", "write_doc", "create_doc", "update_doc", "delete_doc",
     "get_doc", "head_doc", "search", "count", "error"}

\* Every request ends at a handler that exists and has a catalog to look at; a
\* token and a ticket exclude each other (CacheRuntime::dispatch).
RoutesTypeOK ==
    /\ config \in Deployments
    /\ request \in Request
    /\ stage \in {"received", "coordinate", "catalog", "handle", "handled", "answered"}
    /\ {token, ticket, published} \subseteq BOOLEAN
    /\ ~(token /\ ticket)
    /\ view \in {"none", "local", "read", "copy", "claimed"}
    /\ handler \in Handlers \cup {"none"}
    /\ handler # "none" => view # "none"

\* "Everything that may mutate is fenced": whatever the spelling of its path,
\* no request reaches a handler that writes around the cache's admission.
WritesAreFenced ==
    config.cached /\ handler # "none" /\ Writes(handler) => token

\* A handler changes the shared catalog only under the claim: its change of a
\* copy that nobody commits would be lost.  No other handler makes the
\* administrations wait for it.  With a read view, or no catalog at all, a
\* handler looks at nothing but what it was given (shared_catalog.rs: is_admin,
\* uses_read_view; dispatch_catalog's exception for healthz).
ViewsFitHandlers ==
    config.shared /\ handler # "none" =>
        /\ ChangesCatalog(handler) => view = "claimed"
        /\ view = "claimed" => ChangesCatalog(handler) \/ handler = "error"
        /\ view = "read" => ReadsIndices(handler)
        /\ view = "local" => handler \in {"healthz", "error"}

\* What the cache publishes was computed by a handler that only reads, and not
\* for a writer (cache_request.rs: eligible).
PublishedAreReads ==
    published => ~Writes(handler) /\ ~token /\ handler \in {"get_doc", "search", "alias_get"}

\* A fenced handler makes no call that the gateway refuses to make under the
\* fence, or whose completion it could not prove: that would close the cache
\* for good (main.rs: raw_request, mutation).
CallsAreProvable ==
    token /\ handler # "none" =>
        \A c \in Calls(handler) :
            IF c.mutates
            THEN /\ Classify(c) # "none"
                 /\ Classify(c) = "completed" => ~config.async
            ELSE IsRead(c)
=============================================================================
