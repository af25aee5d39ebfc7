# A verification development for qdrant-es-gateway

The gateway serves a subset of the Elasticsearch HTTP API from Qdrant. Several
replicas may run at once. What can go wrong between them is decided by a few
hundred lines: the shared catalog (`shared_catalog.rs`), the shared read cache
(`read_cache.rs`, `cache_runtime.rs`), the proof of completion of Qdrant
mutations (`mutation_completion.rs`) and the dispatcher that composes them
(`main.rs`). This directory models that part first, then the two things that
span Qdrant calls without a transaction, the administration of indices and the
writing of documents, then what a search reads while others write, the filters,
which are evaluated in two places, and the tables that route a request.

    tlc -workers 2 -config CacheFence.cfg MCCacheFence
    tlapm CacheFenceProofs.tla

Line numbers below are of `src/src/`.

## 1. Inventory

| Component | State it keeps | Operations | Correct when |
| --- | --- | --- | --- |
| Read cache coordination, `read_cache.rs` (Lua scripts run by Valkey) | control hash (deployment, epoch, state, writer tokens), lineage key, one tombstone per identity, response entries with TTL | LOOKUP, PUBLISH, ADMIT, RELEASE, STATUS, BOOTSTRAP, maintenance, RECOVER | a hit is never older than the last write; a write that may still run closes the cache; an identity serves once |
| Cache runtime, `cache_runtime.rs` | none of its own: a token or a ticket per request in flight | the mutating branch (admit, handle, release) and the read branch (lookup, handle, publish) of `dispatch` | tokens are released exactly when nothing is uncertain; what is published is of one instant |
| Mutation completion, `mutation_completion.rs` | a counter of attempts per request | begin, complete, `classify`, `is_read` | zero only if every attempt is proved complete |
| Shared catalog, `shared_catalog.rs` | catalog string, administrative claim; a shared connection behind a gate | begin, read view, commit, release, connect | one administration at a time; no lost catalog update; a failed connection is replaced, once |
| Dispatcher, `main.rs` 4503-4858 | a request-local SQLite copy of the catalog, a "mutation started" flag | `dispatch_catalog`, `dispatch_inner` | a claim is kept exactly when Qdrant may have been changed |
| Index lifecycle, `main.rs` 747-922, 4366-4468 | Qdrant collections and catalog rows | create, clean-up, delete, mapping update | rows and collections agree, or the difference can be repaired |
| Documents, `main.rs` 1218-1514, 3954-4135 | a search collection and, optionally, a document collection per index | write, create, update, delete, bulk; asynchronous search projection and payload writes (317-338) | the two collections converge; create does not overwrite |
| Aliases, `main.rs` 4137-4331 | alias rows | an action list in one transaction | atomic; every alias names an index |
| Search, `main.rs` 1516-3909 | locals of a request: pages, hits, a count | query translation, gateway-side filter, several independent reads, merge, hydration, sort, cursor, collapse | the gateway's evaluation and Qdrant's filter mean the same; pages and totals are right for every document that stands still |
| Aggregations, `aggregations.rs` | a plan and its reducers | exact counts, facets, a scan; a marker check beside each answer of Qdrant's indexes | both ways of counting agree; a read that was not needed does no harm |
| Cache eligibility, `cache_request.rs` | none | `eligible` | what may be cached is read only, and means what it says |
| Sparse vectors, `sparse.rs` | none | validation of explicit vectors | refuses what Qdrant would |
| Operator commands, `cache_deployment.rs` | none | status, bootstrap, maintenance, recover; checks of server and topology | they are refused unless safe |

Who calls whom: `main` routes every request to `dispatch`; with the cache
active it goes through `CacheRuntime::dispatch`, which calls Valkey, then
`dispatch_catalog`, which calls Valkey for the catalog, then the handler, which
calls Qdrant. Replicas share nothing but Valkey and Qdrant. There are no
callbacks. An operator runs commands by hand.

Where it is hard: every call may time out, and a call that timed out is not
cancelled, so its effect may come seconds later or never; a request may be
cancelled at any await; a replica may die; Valkey may restart and bring back old
response entries; RECOVER and BOOTSTRAP are several Redis commands and are not
rolled back; a request to create an index is half a dozen calls to Qdrant with a
clean-up of its own. PROJECT.json lists each hazard with its line and with the
properties that would show it going wrong.

## 2. Modules

| Module | What it is |
| --- | --- |
| `ReadCache`, `ReadCacheProofs` | the Valkey keyspace and one operator per script; no callers; lemmas about the scripts |
| `WriteFence` | the abstract promise: admitting a writer takes back every cached response and every permission to cache one |
| `CacheFence` | the scripts under the weakest assumptions on their callers; implements `WriteFence` |
| `CacheFenceProofs` | theorems about `CacheFence` for every value of its constants |
| `CacheRuntime`, `CacheRuntimeProofs` | the request handlers, the catalog claim and Qdrant over the same keyspace; theorems |
| `CatalogConnection`, `CatalogConnectionProofs` | the connection to the catalog that a process shares, its gate and its deadline; theorems |
| `IndexLifecycle`, `IndexLifecycleProofs` | administration of indices and aliases over catalog and collections; theorems |
| `DocumentProjection`, `DocumentProjectionProofs` | the writes of a document over its two collections; theorems |
| `QueryFilter` | the translation of filter queries and their evaluation in the gateway |
| `SearchIndex` | what a search reads, the writers that change it, the order of values |
| `Aggregations` | the aggregations of a search, as a component that its search steps |
| `Search`, `SearchProofs` | a search, a count or a batch of searches over both; theorems |
| `Routes`, `RoutesProofs` | the tables that decide about a request, and its way through them; theorems |
| `Requests` | `Routes` with `QueryFilter`: requests with their queries |
| `MC...` | instances for TLC: symmetry, operations, queries |

### ReadCache

Valkey runs a script atomically, so a script is one operator. A script whose
guard fails returns an error, `busy` or `skip` and writes nothing, so it is no
step. The control key is a record: `kind` says whether the key is absent, of
another type, a hash that VALIDATE rejects whoever asks, or a usable hash;
`writers[t]` is the epoch under field `writer:<t>` (0: no field); `stray` says
that there is a further field that is no token. Deployment-specific key prefixes
become the first index of `entries`. Epochs are numbers here: the decimal
arithmetic of ADMIT is exact up to its maximum, and `MaxEpoch` stands for
9223372036854775807.

RECOVER appears twice: `Recover` runs to its end, and `RecoverStops` stops
after any command that can fail. The server's own steps are `Expire` (TTL or
eviction), `RewriteAof` and `RestartValkey` (publications bypass the append-only
file, a rewrite does not), and `DamageControl` (the control key lost or
overwritten, which the documentation names as recoverable).

### CacheFence

Every ticket LOOKUP has returned and every token ADMIT has returned stays usable
for ever, in any order and any number of times. This covers delayed, repeated
and lost calls, crashes, replicas with a stale identity, and replicas that nobody has
thought of. `era` is a history variable that counts admissions and recoveries; a
response is represented by the era of its reader's ticket.

`WriteFence` has four variables, and the mapping computes them: `writers` is
`held` (the writers admitted, not released and not declared finished by a
recovery), `ticketed` whether a ticket of the present era exists, `filled` the
requests with a response of the present era in memory or in the append-only
file, `cached` what a lookup would serve.

### CacheRuntime

A writer token names the mutating request that chose it. A request has a
program counter with the awaits of `CacheRuntime::dispatch` and
`dispatch_catalog`; between two awaits it takes one step. The handler is
abstract: it sends any subset of the mutations (`Parts`), one at a time as all
handlers do, and answers with success or an error. `late` holds the calls whose
request no longer waits for them, `pending` the mutations Qdrant has neither
applied nor lost. `AbandonWrite` and `AbandonRead` are the time-out, the
disconnected client and the crash in one: the code does the same in all three,
nothing. The operator follows the documented contract: bootstrap, recover and
the removal of a claim happen with no request running and no mutation pending
(`Quiesced`) while unanswered calls to Valkey may still be under way;
maintenance may be entered at any time.

The content of a part, and of the catalog, is the request that wrote it last,
so "stale" and "torn" are visible as inequality with the present content.

### CatalogConnection

`SharedCatalog::run` as seen by the callers of one process. `slot` is the shared
connection, `gate` the mutex held while connecting. A call that finds the slot
empty queues for the gate and looks again once it has it (`EnterGate`). One
deadline covers waiting, connecting and the reply: `GiveUp` is its end before a
connection is in use, `Fail` its end, or an error reply, afterwards. Only `Fail`
empties the slot, and only if the slot still holds the caller's connection.
`Cancel` is the dropped future, which leaves the slot as it is. The order in
which the mutex is handed on is left out: any waiter may be next.

### IndexLifecycle

Catalog and collections are two places with no transaction over both.
`Shared` says where the catalog is: with it an administration holds the claim in
Redis and its handler works on a copy (`base`) that the commit script installs
together with giving the claim back; without it the catalog is the SQLite file
of the only replica, the handler changes it in its last statement, and the lock
`index_admin` takes the place of the claim and dies with its request. A
request's calls to Qdrant have stages, since both collections are made before
the payload indexes; calls of one stage run in any order. After a failed call of
create_index come the clean-up's deletions, which may fail in turn. An
unanswered call stays in `pending` and may take effect at any later time. Names
map to collections through `SearchOf` and `DocumentsOf`, which collide as they
do in the code: one index's document collection can be another's search
collection. `Reconcile` is the procedure of docs/shared-catalog.md in one step.

### DocumentProjection

One document, since the points of different documents do not interact. A handler
reads it once and derives a plan of calls (`Plan`: the document collection
first, then the search collection), each of which waits for its application, for
its acknowledgement, or for nothing (`detached`, the spawned payload write).
`log` holds the operations that the search collection has acknowledged but not yet
applied, `flight` the calls that nobody waits for. A document has three classes
of fields, which are all that update_doc tells apart: mapped as text, mapped
otherwise, and unmapped. The search point keeps the payload, the vectors of the
text fields (`own`, by the name of the vector) and `text_all` (`all`, by the
strings it is joined from). Vectors have names, and names are lossy:
`mapping_vectors` makes one of a field's by turning every `.` into `_`
(`VectorOf`), `flatten_text` makes a field's of a vector's by turning every `_`
into `.` (`FieldOf`) and looks up what it gets (`TextOf`). What the two functions
are is left to the constants, but for the law that they obey: a vector is read
back as the one of its fields that has no underscore, if there is one
(`DocumentAssumption`). A text field `body_text` is therefore never read: its
vector is made of the empty string, or of the text of a field `body.text`.
History variables: `expected` is the document after the last answered
write, `clean` says that no two writes overlapped and none failed half way,
`stored` is what the document collection has ever held, `created` counts
successful creations since the last deletion.

### QueryFilter

A query is a record per clause, built step by step around a leaf by nesting it in
a `bool` or a `dis_max`. `Walk` and `QueryToFilter` translate it, `Selects` is
Qdrant's evaluation of the result (external: as the gateway relies on it),
`Patterns` and `Refused` are `collect_patterns`, `Accepted` and `SourceMatches`
are the gateway's own evaluation of a post_filter. `Means` is the reference: the
meaning of the query by quantifiers, with `Needed` for `minimum_should_match` as
the least number that is enough. Queries nest, so the operators are recursive
and the module has no theorems.

### SearchIndex, Aggregations, Search

`SearchIndex` holds one index: `docs`, the sources, and `points`, the search
collection, which are one collection unless `projection`; `Write` and `Project`
are a writer in two steps, as short as a search can tell them (the writers'
detail is in `DocumentProjection`). A document has a number, a keyword set, and of
everything else what a query makes of it: whether its filter, its post_filter
and its patterns select it, and the score of each text field. A request says of
its filter whether it holds of a document without any field (`blank`, as a
`must_not` does): that is how the document collection, whose payloads have none
of the fields, and `text_query_matches`, which knows no filter clause, see every
document. `had` is a history
variable: everything each document and each point has been since the search
began, so that "a document that stood still" can be said.

`Search` is `search_with_total_format` with a program counter: after validation
(`Accepted`) it reads an exact count, a page ordered by Qdrant with its coverage
check, and the aggregations, in any order and each at a moment of its own
(`search.waiting`); if that page is not proved right, it scans, queries every
text field, or takes one page, a read per step, and hydrates a projected page by
a further one; then everything after the last await is one step. `count` and the
entries of `_msearch` are requests of the same queue; a walk with `search_after`
sends the next request with the cursor of the last hit. `Aggregations` is a
component with one variable that Search's steps drive: it tries an exact count
or a facet, joins it with a search for a point without the writer's marker
(`Uncovered`), takes the answer only if there is none, and reduces the rest from
a scan.

### Routes, Requests

Five tables decide about a request from its method and path, each on its own:
`mutating`, `eligible`, `is_admin`, `uses_read_view` and the routes of
`dispatch_inner`; `classify` and `is_read` decide about the calls of its handler.
Some compare the path as it was sent (`/_aliases`, a suffix `/_bulk`), some its
decoded segments. So a path is a sequence of segments, each of them written
plainly or with %XX and valid as UTF-8 or not, between surplus slashes or not.
The actions are the way of one request: `Receive` (limits, parameters), `Admit`
or a lookup or neither, a catalog (`OpenCatalog`), `Handle`, `Finish`; what the
scripts do is left to `CacheRuntime`. `Requests` composes it with `QueryFilter`:
the query of a search is built step by step, and `eligible` judges it by
`Accepted`.

## 3. Properties and runs

| Run | Instance | Distinct states | What it shows |
| --- | --- | --- | --- |
| `cache_fence` | 3 identities, 3 tokens, 1 request, epochs 0-2 | 951,315 | `NoStaleHit`, `HeldWriterFences`, `IdentityOpensOnce`, `MaintenanceHolds`, `ImplementsWriteFence` |
| `cache_runtime` | 1 identity, 2 mutating requests, 1 read, 1 part | 1,407,833 | `HitsAreCurrent`, `UncertaintyFences`, `NoNeedlessFence`, `NoLostAdministration` |
| `cache_recovery` | 2 identities, 1 mutating request, 2 reads, 2 parts | 5,904,969 | `HitsAreCurrent` across recoveries, and for responses put together from several calls |
| `cache_liveness` | 1 identity, 2 mutating requests | 148,439 | `FenceReopens` under `FairSpec` |
| `catalog_connection` | 3 callers, 3 connections | 29,256 | `NoNeedlessConnection`, `NeverReplayed`; `BrokenIsReplaced`, `CallsEnd` under `FairSpec` |
| `index_shared` | 3 requests, 3 names over 3 collections, 1 field, both collections, shared catalog, 1 unanswered call | 649,265 | `CatalogWellFormed`, `DisagreementIsClaimed`, `LiveIndexSurvives`, `FailedCreateLeavesNothing` |
| `documents` | 2 clients of 2 operations; with document collection and asynchronous search projection, or without and with payload writes through a queue of 1; 1 unanswered call | about 5,780,000 | `LastWriteStays`, `SearchFollows`, `DocumentFirst`, `CreatesExclude` |
| `search` | 49 requests (and walks and a batch) over 8 populations of 3 documents, 2 writes, pages of 2, 2 text fields, with and without document collection | 3,076,639 | `CountsAreBounded`, `PageIsRanked`, `RankedByBestField`, `CollapseKeepsBest`, `WalkVisitsOnce`, `AggregationsAreBounded`, `SpeculationIsFree` |
| `requests` | every keyword at every place of paths of 1 to 4 segments, encoded or not, 7 methods, surplus slashes, all bodies on one line for each table, every deployment; filters of two nested levels with a sibling each, all documents of two fields | 625,602 | `WritesAreFenced`, `ViewsFitHandlers`, `PublishedAreReads`, `CallsAreProvable`, `CachedSearchesAreExact`, `FindsWhatItMeans`, `EvaluationsAgree` |
| `stale_text_vector` | 1 client of 3 operations | violated | `SparseIndexFollows` |
| `late_create` | 2 clients of 1 creation | violated | `CreateNeverOverwrites` |
| `dropped_filter` | an approximate query with a must_not, document collection | violated | `FiltersHold` |

Why the bounds are enough to be interesting.

Cache: two epochs let ADMIT meet its maximum and let a ticket be one epoch
behind; three identities allow two recoveries, the second of which could return
to the first identity; two mutating requests are what it takes to contend for
the claim, to release under somebody else's claim and to lose an update; a
second read finds the entry the first one published (and finds it corrupted);
two parts are what it takes to tear a response. One request key is enough, since
scripts on different keys touch disjoint entries.

Connection: with three callers one connects, one waits at the gate and one still
holds a connection that has been replaced; three connections are a failure of
the second one after that of the first.

Indices: of three names one has its document collection where another has its
search collection, and two share a search collection, which is every way to
collide; three requests are a failed administration, one that follows it and one
that contends; one unanswered call is a call that comes late. The batches of
alias actions add, move and remove, and name an alias that becomes an index.

Documents: two clients are the smallest overlap, two operations each the
smallest sequence in which a late call meets a later write; a field of each
class tells every branch of update_doc apart. Of the text fields one is plainly
named (`text`) and one has an underscore (`snake`); `dotted`, which is not mapped,
is the name its vector is read back as, so that an update of it touches a vector
that is not its own. The queue of one slot is at its
limit with one call in flight.

Filters: two levels are a bool within a bool, where bounds, negation and
defaults interact; a sibling gives `should` its two defaults. Every query with
these leaves is reached, and each is compared on every document.

Search: three documents are one that stands still and two that do not, or the
other way about; a page of two needs a second page, and the point order of the
documents is none of the orders asked for. Two writes change a document between
two reads and once more before it is hydrated. The values of the sorted field
have one pair of equals, one number that its mapping does not admit, a string, and
none at all, so that every marker is missing somewhere; two buckets are at the
limit of the aggregations. Each request changes the plain one in what makes
`search_with_total_format` take another branch, and the two combinations that
interact (text with patterns, a sort with everything) are among them.

Routes: the tables look at no more than three segments and compare each with a
keyword; so every keyword is at every place, with any other name beside it. That
no longer path behaves otherwise is proved (section 4).

Deadlock checking is off where an instance has finitely many requests and
nothing is left to do when they are done (all but `catalog_connection`).

Fairness. `FairSpec` of `CacheRuntime` assumes only that a request that can take
a step takes one. The code justifies it: every wait has a time-out
(`read_cache.rs` TIMEOUT, `shared_catalog.rs` TIMEOUT, the request time-out of
the Qdrant client set in `main`), and a wait that ends moves the request on.
Nothing is assumed of Valkey, of Qdrant, of reads of other clients or of the
operator. `FairSpec` of `CatalogConnection` assumes the deadline (weakly fair
`GiveUp`; strongly fair `Fail`, that is, not every call on a dead connection is
cancelled by its client before its deadline) and traffic (calls start, take the
gate when it is free, and use their connection). Nothing is assumed of
connection attempts or of replies: `CallsEnd` holds with a server that accepts
connections and says nothing.

Each property has a mutant: a definition changed the way a mistake in the code
would change it, which TLC finds to violate the property. The mutants stand next
to the definitions they replace, under the comment "Mutant:".

### What the violated runs show

* `stale_text_vector`: update_doc leaves the sparse vectors alone when the patch
  has no mapped text field, but `text_all` is made from every string of the
  document. After an update of a keyword or an unmapped string, text search
  finds the old words. In an index without a mapping this is all text search.
* `late_create`: a creation that times out gives the process lock back while
  Qdrant may still execute its PUT, so two creations of one process can both
  store their document.
* `dropped_filter`: with a document collection, a fuzzy or similar query is
  answered by a scan of that collection with the query's filter. Its payloads
  have none of the fields, so a `must_not` excludes nobody there, and
  `text_query_matches` negates the `false` that it gives every clause it does not
  know. The excluded documents are on the page and in a total called exact.

Seen on the way. The models do what the code does here, and the properties
except it by name:

* The text of a field whose name has an underscore is not indexed.
  `mapping_vectors` names the vector of `body_text` `text_body_text`
  (670-671); `flatten_text` takes the name back as `body.text`, and otherwise
  looks for a field called `text_body_text` (701-710). The vector is made of an
  empty string whatever is written and a search by that field finds nothing,
  where docs/architecture.md:25 and README.md:35 speak of one representation for
  each text field. `TextOf` is this conversion, and `SearchFollows` is about
  the other fields (`PlainFields`).
* A range written `from`/`to` in a post_filter or a filter aggregation is
  accepted (1732-1733) and its bounds are ignored (1937), while the same range in a
  query is translated (2068-2088); docs/compatibility.md:26 says that the two are
  kept aligned. `EvaluationsAgree` is about the plain operators (`PlainRanges`).
* A search with collapse and `search_after` is answered, where
  docs/compatibility.md:17 says that it is rejected: neither option's validation
  looks at the other (2815-2851, 2941-3031), and the cursor skips the groups whose
  best hit is before it (3757-3779). `CombinationAccepted` accepts it, and the
  instance has such a request.
* With a document collection a search by patterns finds nothing and says so
  exactly: the scan asks the search collection for `_source`, which its points do
  not have (3525-3531, 3583-3595). docs/compatibility.md:24 calls the totals of
  such searches exact.
* Other totals are called exact and are not. A text query with patterns has
  looked at one candidate window (3698-3701), where docs/compatibility.md:5 calls the totals of ranked text lower bounds. An
  approximate text query with a filter that needs a field (a `term` in `must` or
  `filter`, say) finds nothing at all, since every clause of it is taken as
  unmatched (2660-2680); with a `must_not` it is the other way about
  (`dropped_filter`). And `_count` drops the relation (3904-3905): for ranked text
  its bare number counts at most one candidate for each field, since the search
  it makes has a window of one. `Unexact` names them all; apart from them
  `CountsAreBounded` holds every `_count` to the number it tells (`CalledExact`).
  Where the filter is dropped (`FilterIsDropped`) it bounds the total by the
  documents that the rest of the query may have matched.
* Ties of a from/size page are shuffled by the HashMap that deduplicates hits
  (3630-3654; the last sort has no tie-break by `_id`), so two pages may repeat
  or skip a document although nobody wrote. `PageIsRanked` and `WalkVisitsOnce`
  are about what the sort values decide.
* `value_cmp` is no order on mixed numbers and strings (2693-2724): 2 < 10 as
  numbers, but the string "15x" is after 10 and before 2. The instance has no
  such triple.
* A route may be fenced or admitted under another name than its handler's, to no
  harm: `POST /x/_doc/_msearch` is answered by `msearch` and fenced as a writer,
  `GET /_alias/_search` is `alias_get` and cacheable, `POST /x/%5Fbulk` is a bulk
  request with the smaller body limit.
* `collect_patterns` does not look into `dis_max`, so a pattern there is
  dropped, under `must_not` and `should` too, where docs/compatibility.md:24
  says that patterns are rejected. `FindsWhatItMeans` excepts such queries.
* With the local catalog nothing records that catalog and Qdrant disagree: a
  collection left by a failed clean-up blocks its name, a DELETE that was given
  up may be executed after the index was created again, an index half deleted
  stays listed. `DisagreementIsClaimed` and `LiveIndexSurvives` are therefore
  stated for the shared catalog (run `index_shared`).
* `ASYNC_SEARCH_PROJECTION` without `DOCUMENT_PROJECTION` is accepted (main.rs
  83-88) although docs/production.md:41 and docs/architecture.md:19 speak of the
  pair: every write is then acknowledged before it can be read (1261), and two
  creations of one process are both answered although each looked first.
  `CreatesExclude` is therefore stated for the settings the documentation pairs
  (the run `documents` has these, the theorem assumes them).
* `minimum_should_match` rounds a percentage up; Elasticsearch rounds it down.
  The model follows the code, and `Needed` states the same rounding.

## 4. Proofs

Type correctness of `IndexLifecycle`, `CatalogConnection`, `DocumentProjection`
and `Routes` is proved here and not repeated in the runs; that of `CacheFence`,
`CacheRuntime` and `Search` is both.

`CacheFenceProofs` holds for any sets of identities, tokens and requests and any positive `MaxEpoch`. The assumptions are
`MaxEpochAssumption` (a positive number), `NoneAssumption` and `NoneIsNoEntry`
(the absent value is none of the others).

* `TypeCorrect`, `HitsAreCurrent`, `HeldWritersFence`, `IdentitiesOpenOnce`,
  `MaintenanceIsPersistent`: the properties the run `cache_fence` checks.
* `ScriptsImplementFence`: `Spec => ImplementsWriteFence`.

The argument. `NoStaleHit` is not inductive: it speaks of the entries of the
present epoch, and a step of ADMIT or RECOVER changes which entries those are.
`IInv` adds what makes it so. Everything of the identity in service has an epoch
no greater than the control hash's, and what has that very epoch is of the
present era: entries in memory, entries in the append-only file, tickets
(`EntriesCurrent`, `TicketsCurrent`). An identity without a tombstone has no
entry and no ticket (`UnusedIdentityIsClean`): that is why recovery may set the
epoch back to 0. The identity in service is the lineage's, every held writer is
recorded in the hash in service, and there is none before the lineage exists.
The refinement needs three more facts: nothing is of a future era, nothing is of
the present era while a writer is held, and held tokens were granted (`History`).

`CacheRuntimeProofs` holds for any number of requests, parts, identities and
keys and any positive `MaxEpoch` (`RequestsAssumption`: there is an identity and
a key): `TypesHold`, `HitsStayCurrent`, `UncertaintyIsFenced`, `FencesAreNeeded`
and `AdministrationsAreKept`, which are everything the runs `cache_runtime` and
`cache_recovery` check. None of these is inductive. `RuntimeIsSafe` proves `IInv`,
which says of each mutating request, wherever it or its late calls stand
(`WriteSafe`): it gives up on one call at most, its last; what it has left
unsettled in Qdrant is behind its own uncertainty (`MutationsCounted`); while the
cache is in service, whoever may still change a part or the catalog has its
token in the control hash (`TokenRecorded`); a token that is there has been
admitted, and outlives its request for a reason (`TokenExplained`); the holder of
the claim works on the catalog it will replace (`BaseIsCatalog`). Of reads and
entries it says that what carries the epoch in service is what there is, and
that no token has been recorded since that epoch began (`ReadCurrent`,
`EntriesCurrent`, in memory and in the append-only file). An identity never
used has left nothing behind (`UnusedIsClean`), so recovery may count epochs anew.
The lemmas about the scripts are shared with `CacheFenceProofs`
(`ReadCacheProofs`).

`IndexLifecycleProofs` holds for both catalogs, with or without document
collections, for any names, collections, operations and requests
(`NamesAssumption`, `NoneAssumption`): `TypesHold` and `CatalogIsWellFormed`
(`CatalogWellFormed`: no dangling alias, no name that is index and alias, no two
indices that share a collection). What it takes: the tables that an
administration would install are well-formed at every moment between its
begin and its commit (`TablesAccepted`), because while the claim holder works
nobody else changes the catalog it checked against; and only a creation makes
collections (`OnlyCreateMakes`), so that a clean-up deletes under the name of a
creation. The lemma `AliasesKeepWellFormed` is about the batch of alias actions:
its last word on each association leaves at most one target per alias.

With a shared catalog (hypothesis `Shared`; without one the three statements are
false, see section 3) it proves `DisagreementsAreClaimed`, `FailedCreationsAreUndone`
and `LiveIndicesSurvive`. The invariant is `ClaimInv` (`ClaimIsKept`): Qdrant is
what the catalog says whenever nobody holds the claim; only its holder calls
Qdrant or commits, whether in time or late (`ClaimHeld`), and what the holder
knows says how far Qdrant is from the tables it works on: nothing has been called
(`SeesAgreement`), or exactly the calls made so far took effect (`IsUnderway`), or
the tables to publish are what Qdrant is (`PublishesAgreement`). For a creation it
adds that what it made was not there before, so that its clean-up may delete it
(`IsUndoable`). The name space of the catalog does the rest: a call of an accepted
operation concerns no other index's collection.

`CatalogConnectionProofs` holds for any callers and any number of connections
(`ConnectionAssumption`): `TypesHold`, `ConnectionsAreNeeded`
(`NoNeedlessConnection`) and `ScriptsRunOnce` (`NeverReplayed`). The invariant
adds that while somebody connects the slot is empty (`GateOpens`), which is what
the second look at the slot is for; that a script runs only as its call's last
step but one (`RunsLast`); and that a call's connection is one that was made
(`ConnectionsMade`).

`DocumentProjectionProofs` holds for any clients, replicas, fields, values,
operations and settings (`DocumentAssumption`): `TypesHold` and
`BoundaryHolds` (`DocumentFirst`). `DocumentFirst` speaks of the search collection
alone; `BoundaryInv` says the same of everything that may still reach it: the
operations in its log, the calls in flight, and the rest of every handler's plan,
which has been stored already or begins with a call on the document collection
that stores it and is waited for (`PlanIsLed`). That wait is why a call that is
refused or unanswered ends the plan before the search collection hears of it.

It also proves `LastWritesStay`, `SearchesFollow` and `CreationsExclude`.
`SearchesFollow` is about the filter fields and the plainly named text fields
(`PlainFields`): those that `FieldOf` gives back, whose vector is the name of no
field of a document and is not `text_all`. Of any other it would be false
(section 3). An update that touches no vector touches no such field, nor
what its vector is looked up by: that is what makes its call unnecessary.
`PlanIsPlanned` says what the plan of every kind of operation does under every
combination of the settings. `WriteInv` then places the request under way, while
no writes overlap and none has failed half way, before, between or behind its
calls (`Ready`, `Halfway`, `Through`), and says of the acknowledged but unapplied
operations that they lead the search collection to the document of the last
answered write: there is a history of the document, one state for each of them,
in which each maps its state to the next (`Leads`). Asking for that history
instead of computing it is what makes an induction over the log unnecessary.
`CreationsExclude` rests on `CreateInv`: where nothing deletes, one creation at a
time is under way in a process, it has seen no document, and once answered its
document is there. It assumes `AsyncProjects`, that asynchronous search
projection comes with a document collection. `LogInv` (an awaited operation is in
the log once) serves both.

`RoutesProofs` holds for any set of requests (`RequestsAssumption`: each has a
method, a non-empty path of any length, and a body): `RoutesAreTyped`,
`EveryWriterIsFenced`, `EveryViewFits`, `PublishedResponsesAreReads` and
`FencedCallsAreProvable`; the last four are the invariants of `Routes` that the
run `requests` checks. The argument has two halves. The tables
are compared without any state: `HandlerTable` says where a handler comes from,
and from it each table is shown to contain, or to be contained in, a set of
handlers (`WritersMutate`, `CatalogChangersClaim`, `ClaimsAreForChanges`,
`ReadViewsAreForReads`, `EligibleAreReads`). The invariant `RInv` then says that
every step decided by its table: a token is of a mutating request and conversely
once the request has passed the admission, a ticket is of a cacheable one, the
view is the one its table asks for, and the handler is the dispatcher's.

`SearchProofs` holds for any number of documents and text fields, any contents
and writers, and any batches of requests (`IndexAssumption`, `SearchAssumption`:
the order of the scroll lists every document, sources keep a total preorder of
values with null among them, a request is one that parses, well formed or not,
whose cursor has values of that preorder for the field of the documents
(`CursorFits`), and `MAX_BUCKETS` and the page sizes are numbers:
`AggregationAssumption`): `SearchesAreTyped`,
`TotalsHold` (`CountsAreBounded`), `RefusalsAreHarmless`
(`SpeculationIsFree`), `PagesAreRanked` (`PageIsRanked`) and `CollapsesKeepBest`
(`CollapseKeepsBest`). `CountsAreBounded` compares an answer
with the whole of the search's past, so the proof speaks of the history `had`
throughout. It divides the documents into those that stand still (one source,
one point, both relevant) and those that may have matched at some moment
(`Standing`, `Possible`), and a writer only adds to `had`, so that it makes fewer
of the first and more of the second: `SearchInvGrows` says that everything known
about a search survives that. `SearchInv` then says for each of its locals which
documents it accounts for: an exact count lies between the two numbers
(`Counted`); a scan holds, of the positions it has passed, hits of pairwise
different documents, each of which may have matched, and counts at least the
standing ones there (`Scanned`, `ScanCounts`); the page in hand has sources
written during the search (`Batched`); a ranked or ordered page has no document
twice (`RankedHits`, `Collected`), and where it is called complete it found all
that stand still (`Finds`). What is said of a request that must hold only where
it is read is tied to the read that will come (`CountIsDue`, `Placed`). No
induction over a page is needed: a scan is known by the set of its documents.
A count tells a bare number, so it is held to it whatever the relation was
(`CalledExact`): `CountsAreExact` shows that its total is exact, but for
the requests that `Unexact` names (section 3).

`SpeculationIsFree` lists the excuses for an error; like `Possible` they are
stated over `had` and only grow (`ExcusedGrows`; a set of buckets ever seen must
be shown finite before it can be said to grow past `MaxBuckets`). `SInv` says
that a coverage read which found no unmarked point leaves no unmarked document
that stands still, for as long as the answer may be used (`Covered`,
`CoverInv`), that the scan has observed only points there have been, and that an
execution that failed has an excuse (`PlanInv`). An answer that is refused
without having been covered is dropped and enters nothing.

`PageIsRanked` and `CollapseKeepsBest` rest on `RInv`, beside the two invariants
above, and on what the order of hits is: `HitsOrder` (a preorder, from the one
of the values, clause by clause: `KeysOrder`), `PrecedesIsOrder` (with the ids a
strict total order) and `FirstHits` (which the first n of a finite set are).
`Leading` says what is kept of the documents seen so far: each that stands still
is there, or is before the cursor, or has a full window of hits before it. It
survives a writer (`LeadingGrows`), a page of the scan (`GatherScansLeads`:
hits that had no room before a page have none after it) and the hydration of a
page from the document collection. For the page Qdrant ordered it is shown from
the other read of the same join (`OrderedLeads`): if the coverage read found no
unmarked point, every document that stands still was ordered, and with no tie at
the boundary the hit after the window has everything missing behind it. That is
where the tie check is needed: without it the reply may have cut a document of
the window. `LeadingIsRanked` then cuts the page: what it skips are hits before
it (`PageShows`), so that the documents passed over are injectively among `from`
skipped hits. For a collapse the first of every group is known by position
(`CollapsedGroups`), and since such a scan keeps every hit, no group is missing.

## 5. Only model-checked, and not modelled

Model-checked only:

* the order of pages of text queries (`RankedByBestField`), cursor walks over
  several pages (`WalkVisitsOnce`) and the values of aggregations
  (`AggregationsAreBounded`);
* everything in `QueryFilter`, and `CachedSearchesAreExact` of `Requests`, which
  uses it: what a recursive definition computes for every query needs an
  induction over queries, which the prover cannot do;
* liveness (`FenceReopens`, `BrokenIsReplaced`, `CallsEnd`): the prover has no
  rules for fairness or ENABLED.

Left out of the modelled components:

* cache: the byte format of an entry and its header (the digest in the key and
  the header are taken to identify build, configuration and request), sizes and
  TTL values (an entry may expire at any time; an oversized response is one that
  is not published), and the checks of server, topology and snapshot that an
  operator command makes before its script (they read and refuse). Legacy
  gateways that write without the cache's fence are excluded by the documented
  contract, except for their claims, which `CacheFence` lets come and go. A
  recover command that times out and is executed after the operator started
  writers again is outside the contract too.
* connection: the scripts' effects, which are in `CacheRuntime` and
  `IndexLifecycle`.
* indices: the contents of a mapping beyond which fields have a payload index,
  and the validation of a request beyond whether it is refused before the first
  call.
* documents: other documents of a bulk request, scripts and sparse vectors in a
  request (refused or accepted), and the index's name resolution; the value of a
  text field that is no string (its vector is made of the empty string, as that
  of a missing field), and a field called `_all`, which update_doc takes for a
  text field: such a write sends more than it needs. Reads are in
  `Search`, over writers of two steps.
* search: which fields a text clause names, the restriction of `_source`, the
  format of a response; of the filter of an approximate query, an `ids` clause,
  which the document collection could decide, and text or `match_all` clauses
  under a `must_not`, which `text_query_matches` does know; a failed read, which ends the search with an error,
  except where the code ignores it. Plan::parse and validate_mapping, which
  refuse, and the arithmetic of sums, averages and percentiles. Scores are
  numbers a document has.
* routes: the index and document names in a path, and header fields, which no
  table looks at; what a handler refuses.
* filters: text clauses, scores, the syntax errors of a query, dates and the
  conversion of values; a pattern is the set of strings it matches.

The components with status `not_modelled` in PROJECT.json say why.

## 6. Plan

In order; each step with its checks first, then its proofs.

1. `SearchProofs`: `WalkVisitsOnce`, whose step is `PagesAreRanked` with the
   documents before the cursor already returned, and `RankedByBestField`.
2. Document writes over `IndexLifecycle`, where the index may be deleted and
   made again under a write, and bulk requests of several documents.
3. `DecimalEpoch`: the carry of ADMIT against addition.
4. Text queries: the vector that a query looks for (`search_vector_for_field`)
   against the one that a write fills (`DocumentProjection`), the clauses that
   `text_query_matches` knows against `query_filter` as in `QueryFilter`;
   `Plan::parse` and the explicit sparse vectors.

New questions share the instances of the runs above where they can.
