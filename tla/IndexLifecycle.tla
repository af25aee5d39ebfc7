--------------------------- MODULE IndexLifecycle ---------------------------
(***************************************************************************)
(* Administration of indices: create_index, delete_index, mapping and      *)
(* aliases (main.rs) with the catalog that records them and the Qdrant     *)
(* collections that hold them.  No transaction spans the two.              *)
(*                                                                         *)
(* With Shared the catalog is the Redis snapshot and an administration     *)
(* holds the claim of shared_catalog.rs; otherwise it is the SQLite file   *)
(* of the only replica and an administration holds the lock index_admin.   *)
(* Both are the variable claim.                                            *)
(*                                                                         *)
(* A Qdrant call may be refused without effect, and a call that is not     *)
(* answered stays in pending: Qdrant may execute it at any later time, or  *)
(* never.  An unanswered call to Redis stays in late in the same way.      *)
(* A mapping is the set of its fields that have a payload index; a         *)
(* collection is the set of its payload indexes.                           *)
(* Bounds: each element of Requests is one request, MaxLost limits the     *)
(* unanswered calls.                                                       *)
(***************************************************************************)
EXTENDS Naturals, Sequences

CONSTANTS
    Requests,
    Names,          \* of indices and aliases
    Collections,    \* of Qdrant
    SearchOf,       \* collection(index)
    DocumentsOf,    \* document_collection(index)
    Fields,         \* mapped fields with a payload_field_schema
    FastFields,     \* the payload index _qeg_fast_fields
    Operations,     \* what a request may ask for
    Projection,     \* DOCUMENT_PROJECTION
    Shared,         \* CATALOG_REDIS_URL is set
    MaxLost,
    None

VARIABLES
    catalog,      \* the indices and aliases tables
    claim,        \* who administers
    collections,  \* Qdrant
    request,
    pending,      \* unanswered Qdrant calls, <<request, call>>
    late,         \* unanswered Redis calls, <<script, request>>
    lost          \* how many calls went unanswered

vars == <<catalog, claim, collections, request, pending, late, lost>>

Mappings == SUBSET Fields
Catalog == [rows: [Names -> Mappings \cup {None}],
            aliases: [Names -> Names \cup {None}]]
AliasAction == [kind: {"add", "remove"}, alias: Names, index: Names]
Operation ==
    [kind: {"create", "mapping"}, name: Names, fields: Mappings]
        \cup [kind: {"delete"}, name: Names]
        \cup [kind: {"aliases"}, actions: Seq(AliasAction)]

\* Calls are made in the order of their stages.
Call == [stage: 1..2, kind: {"put", "delete"}, collection: Collections,
         field: {None}]
            \cup [stage: 3..4, kind: {"index"}, collection: Collections,
                  field: Fields \cup {FastFields}]

ASSUME NamesAssumption ==
    /\ SearchOf \in [Names -> Collections]
    /\ DocumentsOf \in [Names -> Collections]
    /\ Operations \subseteq Operation
    /\ Operations # {}
    /\ MaxLost \in Nat

ASSUME NoneAssumption ==
    /\ None \notin Names \cup Collections \cup Fields \cup Requests
    /\ \A fields \in SUBSET (Fields \cup {FastFields}) : fields # None

----------------------------------------------------------------------------
(* The catalog.                                                            *)

IsIndex(cat, n) == cat.rows[n] # None

\* resolve_index: a concrete index first, then one hop through an alias.
Resolve(cat, n) ==
    CASE IsIndex(cat, n) -> n
      [] ~IsIndex(cat, n) /\ cat.aliases[n] # None
            /\ IsIndex(cat, cat.aliases[n]) -> cat.aliases[n]
      [] OTHER -> None

Reserved(n) == {SearchOf[n], DocumentsOf[n]}

\* ensure_collection_namespace_available
NamespaceAvailable(cat, n) ==
    /\ cat.aliases[n] = None
    /\ \A other \in Names :
            IsIndex(cat, other) => other # n /\ Reserved(n) \cap Reserved(other) = {}

\* Action k of a batch is about index i under alias a.
Concerns(cat, actions, k, a, i) ==
    actions[k].alias = a /\ Resolve(cat, actions[k].index) = i

\* The targets of alias a after the first n actions (final_targets): what
\* the last action about an association says, or else what the table says.
Targets(cat, actions, a, n) ==
    {i \in Names :
        \/ /\ cat.aliases[a] = i
           /\ \A k \in 1..n : ~Concerns(cat, actions, k, a, i)
        \/ \E k \in 1..n :
            /\ Concerns(cat, actions, k, a, i)
            /\ actions[k].kind = "add"
            /\ \A later \in (k + 1)..n : ~Concerns(cat, actions, later, a, i)}

Final(cat, actions, a) == Targets(cat, actions, a, Len(actions))

\* An add always succeeds, a removal if the association is there.
ActionSucceeds(cat, actions, k) ==
    LET act == actions[k]
    IN  \/ act.kind = "add"
        \/ Resolve(cat, act.index) \in Targets(cat, actions, act.alias, k - 1)

AliasesAccepted(cat, actions) ==
    /\ Len(actions) > 0
    /\ \A k \in 1..Len(actions) :
            /\ Resolve(cat, actions[k].index) # None
            /\ actions[k].kind = "add" => ~IsIndex(cat, actions[k].alias)
    /\ \A a \in Names : \A i, j \in Final(cat, actions, a) : i = j
    /\ \E k \in 1..Len(actions) : ActionSucceeds(cat, actions, k)

AliasesApplied(cat, actions) ==
    [cat EXCEPT !.aliases = [a \in Names |->
        IF Final(cat, actions, a) = {} THEN None
        ELSE CHOOSE i \in Final(cat, actions, a) : TRUE]]

----------------------------------------------------------------------------
(* What an operation asks of the catalog and of Qdrant.                    *)

\* Mutant: an alias will do.
AcceptedByAnyName(cat, op) ==
    CASE op.kind = "create"  -> NamespaceAvailable(cat, op.name)
      [] op.kind = "delete"  -> Resolve(cat, op.name) # None
      [] op.kind = "mapping" -> Resolve(cat, op.name) # None
      [] op.kind = "aliases" -> AliasesAccepted(cat, op.actions)

\* The checks before the first call to Qdrant that depend on the catalog.
Accepted(cat, op) ==
    CASE op.kind = "create"  -> NamespaceAvailable(cat, op.name)
      [] op.kind = "delete"  -> Resolve(cat, op.name) = op.name
      [] op.kind = "mapping" -> Resolve(cat, op.name) # None
      [] op.kind = "aliases" -> AliasesAccepted(cat, op.actions)

PutCalls(n) ==
    {[stage |-> 1, kind |-> "put", collection |-> SearchOf[n], field |-> None]}
    \cup {[stage |-> 2, kind |-> "put", collection |-> d, field |-> None] :
             d \in IF Projection THEN {DocumentsOf[n]} ELSE {}}

DeleteCalls(n) ==
    {[stage |-> 1, kind |-> "delete", collection |-> SearchOf[n],
      field |-> None]}
    \cup {[stage |-> 2, kind |-> "delete", collection |-> d, field |-> None] :
             d \in IF Projection THEN {DocumentsOf[n]} ELSE {}}

IndexCalls(n, fields) ==
    {[stage |-> 3, kind |-> "index", collection |-> SearchOf[n],
      field |-> f] : f \in fields}
    \cup {[stage |-> 4, kind |-> "index", collection |-> SearchOf[n],
           field |-> FastFields]}

Calls(cat, op) ==
    CASE op.kind = "create"  -> PutCalls(op.name)
                                    \cup IndexCalls(op.name, op.fields)
      [] op.kind = "delete"  -> DeleteCalls(op.name)
      [] op.kind = "mapping" -> LET i == Resolve(cat, op.name)
                                IN  IndexCalls(i, op.fields \ cat.rows[i])
      [] op.kind = "aliases" -> {}

\* Mutant: the aliases of a deleted index stay.
UpdatedKeepingAliases(cat, op) ==
    CASE op.kind = "create"  -> [cat EXCEPT !.rows[op.name] = op.fields]
      [] op.kind = "delete"  -> [cat EXCEPT !.rows[op.name] = None]
      [] op.kind = "mapping" ->
            [cat EXCEPT !.rows[Resolve(cat, op.name)] = @ \cup op.fields]
      [] op.kind = "aliases" -> AliasesApplied(cat, op.actions)

\* The catalog after a successful operation.
Updated(cat, op) ==
    CASE op.kind = "create"  -> [cat EXCEPT !.rows[op.name] = op.fields]
      [] op.kind = "delete"  ->
            [rows |-> [cat.rows EXCEPT ![op.name] = None],
             aliases |-> [a \in Names |-> IF cat.aliases[a] = op.name
                                          THEN None ELSE cat.aliases[a]]]
      [] op.kind = "mapping" ->
            [cat EXCEPT !.rows[Resolve(cat, op.name)] = @ \cup op.fields]
      [] op.kind = "aliases" -> AliasesApplied(cat, op.actions)

----------------------------------------------------------------------------
(* Qdrant.                                                                 *)

\* Creating a collection twice and indexing a missing one are refused.
\* Deleting a missing one is not.
CanExecute(c) ==
    /\ c.kind = "put"   => collections[c.collection] = None
    /\ c.kind = "index" => collections[c.collection] # None

Executed(c) ==
    [collections EXCEPT ![c.collection] =
        CASE c.kind = "put"    -> {}
          [] c.kind = "index"  -> @ \cup {c.field}
          [] c.kind = "delete" -> None]

----------------------------------------------------------------------------
(* Requests.                                                               *)

Indexed == SUBSET (Fields \cup {FastFields})
CollectionState == [Collections -> Indexed \cup {None}]

RequestState ==
    [pc: {"idle", "begin", "handler", "cleanup", "failing", "commit",
          "unclaim", "done"},
     op: Operations,
     base: Catalog,                    \* state.db
     todo: SUBSET Call,
     made: SUBSET Collections,         \* collections create_index has made
     started: BOOLEAN,                 \* admin_mutation_started
     before: CollectionState,          \* history: Qdrant when it began
     tidy: BOOLEAN]                    \* history: no call of it is in doubt

(* Every variable keeps its type.                                          *)
TypeOK ==
    /\ catalog \in Catalog
    /\ claim \in Requests \cup {None}
    /\ collections \in CollectionState
    /\ request \in [Requests -> RequestState]
    /\ pending \subseteq Requests \X Call
    /\ late \subseteq {"begin", "commit", "unclaim"} \X Requests
    /\ lost \in 0..MaxLost

EmptyCatalog == [rows |-> [n \in Names |-> None],
                 aliases |-> [n \in Names |-> None]]

Init ==
    /\ catalog = EmptyCatalog
    /\ claim = None
    /\ collections = [c \in Collections |-> None]
    /\ request = [r \in Requests |->
            [pc |-> "idle", op |-> CHOOSE op \in Operations : TRUE,
             base |-> EmptyCatalog, todo |-> {}, made |-> {},
             started |-> FALSE, before |-> [c \in Collections |-> None],
             tidy |-> TRUE]]
    /\ pending = {}
    /\ late = {}
    /\ lost = 0

At(r, pc) == request[r].pc = pc

\* Of a request that has ended, only the tables it wanted to publish matter.
Ended(r) ==
    [request[r] EXCEPT !.pc = "done", !.todo = {}, !.made = {},
                       !.started = FALSE, !.tidy = TRUE,
                       !.before = [c \in Collections |-> None]]

Arrive(r, op) ==
    /\ At(r, "idle")
    /\ request' = [request EXCEPT ![r].pc = "begin", ![r].op = op]
    /\ UNCHANGED <<catalog, claim, collections, pending, late, lost>>

\* The claim is taken together with the snapshot (the lock before the
\* tables are read), and the catalog's checks come before any call.
Begin(r) ==
    LET op == request[r].op
        plan == IF Accepted(catalog, op) THEN Calls(catalog, op) ELSE {}
    IN  /\ At(r, "begin")
        /\ claim = None
        /\ claim' = r
        /\ request' = [request EXCEPT
                ![r].pc = IF Accepted(catalog, op) THEN "handler" ELSE "failing",
                ![r].base = catalog,
                ![r].todo = plan,
                ![r].before = collections]
        /\ UNCHANGED <<catalog, collections, pending, late, lost>>

\* begin_snapshot is rejected while a claim exists; index_admin waits.
BeginRejected(r) ==
    /\ At(r, "begin")
    /\ Shared
    /\ claim # None
    /\ request' = [request EXCEPT ![r] = Ended(r)]
    /\ UNCHANGED <<catalog, claim, collections, pending, late, lost>>

\* A check of the request itself fails (mapping, sparse fields, capacity).
Invalid(r) ==
    /\ At(r, "handler")
    /\ ~request[r].started
    /\ request' = [request EXCEPT ![r].pc = "failing", ![r].todo = {}]
    /\ UNCHANGED <<catalog, claim, collections, pending, late, lost>>

NextCall(r, c) ==
    /\ At(r, "handler") \/ At(r, "cleanup")
    /\ c \in request[r].todo
    /\ \A other \in request[r].todo : c.stage <= other.stage

CallCompletes(r, c) ==
    /\ NextCall(r, c)
    /\ CanExecute(c)
    /\ collections' = Executed(c)
    /\ request' = [request EXCEPT
            ![r].todo = @ \ {c},
            ![r].made = IF c.kind = "put" THEN @ \cup {c.collection} ELSE @,
            ![r].started = TRUE]
    /\ UNCHANGED <<catalog, claim, pending, late, lost>>

\* cleanup_failed_index_creation, with document_created = "the document
\* collection has been made".
CleanupCalls(r) ==
    {c \in DeleteCalls(request[r].op.name) : c.collection \in request[r].made}

\* Mutant: a failed creation leaves its search collection.
AfterErrorWithoutCleanup(r, c) ==
    [request[r] EXCEPT !.started = TRUE, !.pc = "failing", !.todo = {}]

\* The first error ends the handler; errors of the clean-up are logged.
AfterError(r, c) ==
    IF At(r, "cleanup")
    THEN [request[r] EXCEPT !.todo = @ \ {c}]
    ELSE IF request[r].made = {}
         THEN [request[r] EXCEPT !.started = TRUE, !.pc = "failing",
                                 !.todo = {}]
         ELSE [request[r] EXCEPT !.started = TRUE, !.pc = "cleanup",
                                 !.todo = CleanupCalls(r)]

CallRefused(r, c) ==
    /\ NextCall(r, c)
    /\ request' = [request EXCEPT
            ![r] = [AfterError(r, c) EXCEPT
                        !.tidy = request[r].tidy /\ ~At(r, "cleanup")]]
    /\ UNCHANGED <<catalog, claim, collections, pending, late, lost>>

CallUnanswered(r, c) ==
    /\ lost < MaxLost
    /\ NextCall(r, c)
    /\ pending' = pending \cup {<<r, c>>}
    /\ lost' = lost + 1
    /\ request' = [request EXCEPT
            ![r] = [AfterError(r, c) EXCEPT !.tidy = FALSE]]
    /\ UNCHANGED <<catalog, claim, collections, late>>

CleanupEnds(r) ==
    /\ At(r, "cleanup")
    /\ request[r].todo = {}
    /\ request' = [request EXCEPT ![r].pc = "failing"]
    /\ UNCHANGED <<catalog, claim, collections, pending, late, lost>>

\* The last statement of every handler updates the tables.  SQLite commits
\* at once; the request-local tables wait for the commit script.
HandlerSucceeds(r) ==
    /\ At(r, "handler")
    /\ request[r].todo = {}
    /\ LET updated == Updated(request[r].base, request[r].op)
       IN  IF Shared
           THEN /\ request' = [request EXCEPT ![r].pc = "commit",
                                              ![r].base = updated]
                /\ UNCHANGED <<catalog, claim>>
           ELSE /\ request' = [request EXCEPT ![r] = Ended(r)]
                /\ catalog' = updated
                /\ claim' = None
    /\ UNCHANGED <<collections, pending, late, lost>>

\* Mutant: the claim is given back after every error.
AfterFailureAlwaysUnclaims(r) == [request[r] EXCEPT !.pc = "unclaim"]

\* dispatch_catalog: only an administration that made no call gives its
\* claim back.
AfterFailure(r) == IF request[r].started THEN Ended(r)
                   ELSE [request[r] EXCEPT !.pc = "unclaim"]

\* The lock is released with the handler's guard, whatever happened.
HandlerFails(r) ==
    /\ At(r, "failing")
    /\ request' = [request EXCEPT
            ![r] = IF Shared THEN AfterFailure(r) ELSE Ended(r)]
    /\ claim' = IF Shared THEN claim ELSE None
    /\ UNCHANGED <<catalog, collections, pending, late, lost>>

CommitScript(r) ==
    /\ claim = r
    /\ catalog' = request[r].base
    /\ claim' = None

UnclaimScript(r) ==
    /\ claim = r
    /\ claim' = None
    /\ UNCHANGED catalog

Commit(r) ==
    /\ At(r, "commit")
    /\ CommitScript(r)
    /\ request' = [request EXCEPT ![r] = Ended(r)]
    /\ UNCHANGED <<collections, pending, late, lost>>

Unclaim(r) ==
    /\ At(r, "unclaim")
    /\ UnclaimScript(r)
    /\ request' = [request EXCEPT ![r] = Ended(r)]
    /\ UNCHANGED <<collections, pending, late, lost>>

\* A script without an answer ends the request.
ScriptUnanswered(r) ==
    /\ Shared
    /\ lost < MaxLost
    /\ request[r].pc \in {"begin", "commit", "unclaim"}
    /\ late' = late \cup {<<request[r].pc, r>>}
    /\ lost' = lost + 1
    /\ request' = [request EXCEPT ![r] = Ended(r)]
    /\ UNCHANGED <<catalog, claim, collections, pending>>

\* A cancelled request or a dead replica; of the lock nothing stays.
Abandon(r) ==
    /\ request[r].pc \notin {"idle", "done"}
    /\ request' = [request EXCEPT ![r] = Ended(r)]
    /\ claim' = IF ~Shared /\ claim = r THEN None ELSE claim
    /\ UNCHANGED <<catalog, collections, pending, late, lost>>

----------------------------------------------------------------------------
(* What happens late, and the operator.                                    *)

ExecutePending(r, c) ==
    /\ <<r, c>> \in pending
    /\ CanExecute(c)
    /\ collections' = Executed(c)
    /\ pending' = pending \ {<<r, c>>}
    /\ UNCHANGED <<catalog, claim, request, late, lost>>

LosePending(r, c) ==
    /\ <<r, c>> \in pending
    /\ pending' = pending \ {<<r, c>>}
    /\ UNCHANGED <<catalog, claim, collections, request, late, lost>>

ExecuteLate(r, script) ==
    /\ <<script, r>> \in late
    /\ late' = late \ {<<script, r>>}
    /\ CASE script = "begin"   -> claim = None /\ claim' = r /\ UNCHANGED catalog
         [] script = "commit"  -> CommitScript(r)
         [] script = "unclaim" -> UnclaimScript(r)
    /\ UNCHANGED <<collections, request, pending, lost>>

Own(n) == {SearchOf[n]} \cup IF Projection THEN {DocumentsOf[n]} ELSE {}

Owned(cat) == UNION {Own(n) : n \in {i \in Names : IsIndex(cat, i)}}

\* docs/shared-catalog.md: every replica is stopped, every Qdrant operation
\* has ended; Qdrant is repaired to match the catalog, then the claim goes.
Reconcile ==
    /\ Shared
    /\ claim # None
    /\ \A r \in Requests : request[r].pc \in {"idle", "done"}
    /\ pending = {}
    /\ collections' = [c \in Collections |->
            IF c \notin Owned(catalog) THEN None
            ELSE IF \E n \in Names : IsIndex(catalog, n) /\ SearchOf[n] = c
                 THEN {FastFields} \cup
                      UNION {catalog.rows[n] : n \in
                             {i \in Names : IsIndex(catalog, i)
                                            /\ SearchOf[i] = c}}
                 ELSE {}]
    /\ claim' = None
    /\ UNCHANGED <<catalog, request, pending, late, lost>>

Next ==
    \/ \E r \in Requests :
        \/ \E op \in Operations : Arrive(r, op)
        \/ Begin(r) \/ BeginRejected(r) \/ Invalid(r)
        \/ \E c \in request[r].todo :
            \/ CallCompletes(r, c)
            \/ CallRefused(r, c)
            \/ CallUnanswered(r, c)
        \/ CleanupEnds(r) \/ HandlerSucceeds(r) \/ HandlerFails(r)
        \/ Commit(r) \/ Unclaim(r) \/ ScriptUnanswered(r)
        \/ Abandon(r)
    \/ \E p \in pending : ExecutePending(p[1], p[2]) \/ LosePending(p[1], p[2])
    \/ \E l \in late : ExecuteLate(l[2], l[1])
    \/ Reconcile

Spec == Init /\ [][Next]_vars

----------------------------------------------------------------------------
(* Properties.                                                             *)

\* Resolution never meets a dangling alias, a name that is an index and an
\* alias, or two indices that share a collection (collection() maps several
\* names to one, and one index's documents to another's name).
WellFormed(cat) ==
    /\ \A a \in Names : cat.aliases[a] # None =>
            IsIndex(cat, cat.aliases[a]) /\ ~IsIndex(cat, a)
    /\ \A m, n \in Names : IsIndex(cat, m) /\ IsIndex(cat, n) /\ m # n
            => Reserved(m) \cap Reserved(n) = {}

CatalogWellFormed == WellFormed(catalog)

\* Every listed index has its collections with its payload indexes, and no
\* collection is there that no index owns.
Agree ==
    /\ \A n \in Names : IsIndex(catalog, n) =>
            /\ collections[SearchOf[n]] # None
            /\ catalog.rows[n] \subseteq collections[SearchOf[n]]
            /\ Projection => collections[DocumentsOf[n]] # None
    /\ \A c \in Collections : collections[c] # None => c \in Owned(catalog)

(* When catalog and Qdrant disagree, or a call still under way may make    *)
(* them, the claim is there to say so (dispatch_catalog keeps it when      *)
(* Qdrant may have been changed, and commit gives it back together with    *)
(* the catalog).                                                           *)
DisagreementIsClaimed == (~Agree \/ pending # {}) => claim # None

(* The collections of a listed index vanish only under a delete_index of   *)
(* that very name, however late the call.                                  *)
LiveIndexSurvives ==
    [][\A n \in Names : \A c \in Own(n) :
        IsIndex(catalog, n) /\ collections[c] # None /\ collections'[c] = None
            => /\ claim \in Requests
               /\ request[claim].op.kind = "delete"
               /\ request[claim].op.name = n]_vars

(* create_index undoes what it did: when it fails with every call answered *)
(* and no clean-up refused, the collections are as it found them.          *)
FailedCreateLeavesNothing ==
    \A r \in Requests :
        At(r, "failing") /\ request[r].op.kind = "create" /\ request[r].tidy
            => collections = request[r].before

=============================================================================
