---------------------------- MODULE CacheRuntime ---------------------------
(***************************************************************************)
(* The gateway with the shared read cache active: the request handlers of  *)
(* cache_runtime.rs and dispatch_catalog (main.rs) on any number of        *)
(* replicas, over the keyspace of ReadCache, the shared catalog's claim    *)
(* protocol (shared_catalog.rs) and Qdrant.                                *)
(*                                                                         *)
(* A request is a process with a program counter; between two of its steps *)
(* anything may happen.  A call to Valkey that is not answered (time-out,  *)
(* cancelled request, dead replica) stays in late and may still be         *)
(* executed at any later time, or never.  A mutation sent to Qdrant stays  *)
(* in pending until Qdrant applies it or loses it, whoever still waits.    *)
(* The content of the catalog or of a part of the backend (a collection of *)
(* documents, its search projection, ...) is the request that last wrote   *)
(* it.  Bounds: each element of Tokens and Readers is one request.         *)
(***************************************************************************)
EXTENDS ReadCache

CONSTANTS
    Readers,      \* cacheable reads
    Parts,        \* what a response is assembled from, besides the catalog
    Garbled       \* a stored response that does not decode

\* A request comes to some replica, and asks for something.
ASSUME RequestsAssumption == Identities # {} /\ Keys # {}

VARIABLES
    store,        \* Qdrant: the content of each part
    pending,      \* mutations sent to Qdrant, neither applied nor lost
    late,         \* unanswered calls to Valkey that may still be executed
    write,        \* the mutating requests, named by their writer token
    read          \* the cacheable reads

vars == <<keyspace, store, pending, late, write, read>>

Content == Tokens \cup {"initial"}
View == [catalog: Content, parts: [Parts -> Content]]

WriteRequest ==
    [pc: {"idle", "admit", "begin", "handler", "sent", "commit", "unclaim",
          "release", "done"},
     deployment: Identities,           \* of the replica that serves it
     admin: BOOLEAN,                   \* is_admin: needs the claim
     todo: SUBSET Parts,               \* mutations the handler has left to do
     part: Parts \cup {None},          \* the mutation it waits for
     epoch: 0..MaxEpoch,               \* of its writer token
     base: Content,                    \* the catalog snapshot it works on
     started: BOOLEAN,                 \* admin_mutation_started
     uncertain: BOOLEAN,               \* ~MutationCompletion::is_complete()
     lost: BOOLEAN]                    \* history: left to the operator

ReadRequest ==
    [pc: {"idle", "load", "parts", "publish", "done"},
     deployment: Identities,
     key: Keys,
     epoch: 0..MaxEpoch,               \* of its ticket
     catalog: Content,                 \* the catalog it resolved the index in
     parts: [Parts -> Content \cup {None}]]

Call == {"admit", "begin", "commit", "unclaim", "release"} \X Tokens
            \cup {"publish"} \X Readers

(* Every variable keeps its type.                                          *)
TypeOK ==
    /\ KeyspaceTypeOK(View \cup {Garbled})
    /\ claim \in Tokens \cup {None}
    /\ catalog \in Content
    /\ store \in [Parts -> Content]
    /\ pending \subseteq Tokens \X Parts
    /\ late \subseteq Call
    /\ write \in [Tokens -> WriteRequest]
    /\ read \in [Readers -> ReadRequest]

\* A request that has not arrived; what it asks for is chosen when it does.
Init ==
    /\ KeyspaceInit("initial")
    /\ store = [p \in Parts |-> "initial"]
    /\ pending = {}
    /\ late = {}
    /\ write = [t \in Tokens |->
            [pc |-> "idle", deployment |-> CHOOSE d \in Identities : TRUE,
             admin |-> FALSE, todo |-> {}, part |-> None, epoch |-> 0,
             base |-> "initial", started |-> FALSE, uncertain |-> FALSE,
             lost |-> FALSE]]
    /\ read = [r \in Readers |->
            [pc |-> "idle", deployment |-> CHOOSE d \in Identities : TRUE,
             key |-> CHOOSE k \in Keys : TRUE, epoch |-> 0,
             catalog |-> "initial", parts |-> [p \in Parts |-> None]]]

----------------------------------------------------------------------------
(* Mutating requests: CacheRuntime::dispatch around dispatch_catalog.      *)

AtW(w, pc) == write[w].pc = pc

\* The replica's view when a request needs nothing but its own record.
OnlyWrite == UNCHANGED <<keyspace, store, pending, late, read>>

ArriveWrite(w, d, isAdmin, plan) ==
    /\ AtW(w, "idle")
    /\ write' = [write EXCEPT ![w].pc = "admit", ![w].deployment = d,
                              ![w].admin = isAdmin, ![w].todo = plan]
    /\ OnlyWrite

AdmitRequest(w) ==
    /\ AtW(w, "admit")
    /\ Admit(write[w].deployment, w, "active")
    /\ write' = [write EXCEPT ![w].pc = "begin",
                              ![w].epoch = control.epoch + 1]
    /\ UNCHANGED <<store, pending, late, read>>

\* begin_snapshot's script: rejected while anyone holds the claim.
BeginScript(w, isAdmin) ==
    /\ claim = None
    /\ claim' = IF isAdmin THEN w ELSE None
    /\ UNCHANGED <<control, catalog, lineage, tombstones, entries, saved>>

BeginRequest(w) ==
    /\ AtW(w, "begin")
    /\ BeginScript(w, write[w].admin)
    /\ write' = [write EXCEPT ![w].pc = "handler", ![w].base = catalog]
    /\ UNCHANGED <<store, pending, late, read>>

\* Mutant: the token is released whatever Qdrant answered.
AfterCatalogAlwaysReleases(w) == "release"

\* Where a finished attempt leads: only a request all of whose mutations
\* completed gives its token back.
AfterCatalog(w) == IF write[w].uncertain THEN "done" ELSE "release"

\* Mutant: a request that could not begin returns before the release.
BeginFailsWithItsToken(w) ==
    /\ AtW(w, "begin")
    /\ claim # None \/ ~write[w].admin
    /\ write' = [write EXCEPT ![w].pc = "done"]
    /\ OnlyWrite

\* No claim was taken: a rejected begin, or a begin without an answer that
\* never asked for one.
BeginFails(w) ==
    /\ AtW(w, "begin")
    /\ claim # None \/ ~write[w].admin
    /\ write' = [write EXCEPT ![w].pc = AfterCatalog(w)]
    /\ OnlyWrite

\* Qdrant::mutation, up to the wait for the reply.
SendMutation(w, p) ==
    /\ AtW(w, "handler")
    /\ p \in write[w].todo
    /\ pending' = pending \cup {<<w, p>>}
    /\ write' = [write EXCEPT ![w].pc = "sent", ![w].part = p,
                              ![w].todo = write[w].todo \ {p},
                              ![w].started = TRUE]
    /\ UNCHANGED <<keyspace, store, late, read>>

\* The reply proves that the mutation is completed ...
MutationCompletes(w) ==
    /\ AtW(w, "sent")
    /\ <<w, write[w].part>> \notin pending
    /\ write' = [write EXCEPT ![w].pc = "handler", ![w].part = None]
    /\ OnlyWrite

\* Mutant: an unanswered mutation is taken for a failed one.
MutationUncertainForgotten(w) ==
    /\ AtW(w, "sent")
    /\ write' = [write EXCEPT ![w].pc = "handler", ![w].part = None]
    /\ OnlyWrite

\* ... or it proves nothing, or does not come: the attempt stays counted for
\* good.  A bulk request goes on with its other items.
MutationUncertain(w) ==
    /\ AtW(w, "sent")
    /\ write' = [write EXCEPT ![w].pc = "handler", ![w].part = None,
                              ![w].uncertain = TRUE]
    /\ OnlyWrite

\* The handler answers with success: an administrative one commits.
HandlerSucceeds(w) ==
    /\ AtW(w, "handler")
    /\ write[w].todo = {}
    /\ write[w].admin => ~write[w].uncertain
    /\ write' = [write EXCEPT ![w].pc = IF write[w].admin THEN "commit"
                                                          ELSE AfterCatalog(w)]
    /\ OnlyWrite

\* The handler answers with an error, after any of its steps.  A POST read
\* counts as a started administration too (sentPost).  An administration
\* that started keeps its claim, and its token with it.
HandlerFails(w, sentPost) ==
    /\ AtW(w, "handler")
    /\ write' = [write EXCEPT
            ![w].started = write[w].started \/ sentPost,
            ![w].lost = write[w].admin /\ (write[w].started \/ sentPost),
            ![w].pc = CASE ~write[w].admin -> AfterCatalog(w)
                        [] write[w].admin /\ ~write[w].started /\ ~sentPost
                            -> "unclaim"
                        [] OTHER -> "done"]
    /\ OnlyWrite

\* Mutant: the commit does not compare the claim's owner.
CommitScriptOfAnyOwner(w) ==
    /\ catalog' = w
    /\ claim' = None
    /\ UNCHANGED <<control, lineage, tombstones, entries, saved>>

\* SharedCatalog::publish: the new catalog and the end of the claim.
CommitScript(w) ==
    /\ claim = w
    /\ catalog' = w
    /\ claim' = None
    /\ UNCHANGED <<control, lineage, tombstones, entries, saved>>

\* Mutant: the claim is emptied instead of deleted.
UnclaimScriptEmptiesKey(w) ==
    /\ claim = w
    /\ claim' = ""
    /\ UNCHANGED <<control, catalog, lineage, tombstones, entries, saved>>

\* SharedCatalog::release.
UnclaimScript(w) ==
    /\ claim = w
    /\ claim' = None
    /\ UNCHANGED <<control, catalog, lineage, tombstones, entries, saved>>

Settle(w) ==
    /\ \/ AtW(w, "commit") /\ CommitScript(w)
       \/ AtW(w, "unclaim") /\ UnclaimScript(w)
    /\ write' = [write EXCEPT ![w].pc = AfterCatalog(w)]
    /\ UNCHANGED <<store, pending, late, read>>

ReleaseRequest(w) ==
    /\ AtW(w, "release")
    /\ Release(write[w].deployment, w, write[w].epoch)
    /\ write' = [write EXCEPT ![w].pc = "done"]
    /\ UNCHANGED <<store, pending, late, read>>

\* Mutant: the release has no time-out.
AbandonWriteBeforeRelease(w) ==
    /\ write[w].pc \notin {"idle", "release", "done"}
    /\ late' = late \cup ({<<write[w].pc, w>>} \cap Call)
    /\ write' = [write EXCEPT ![w].pc = "done", ![w].lost = TRUE]
    /\ UNCHANGED <<keyspace, store, pending, read>>

\* The call at which the request waits is refused or not answered in time,
\* the client goes away, or the replica dies.  Nothing is cleaned up.
AbandonWrite(w) ==
    /\ write[w].pc \notin {"idle", "done"}
    /\ late' = late \cup ({<<write[w].pc, w>>} \cap Call)
    /\ write' = [write EXCEPT ![w].pc = "done", ![w].lost = TRUE]
    /\ UNCHANGED <<keyspace, store, pending, read>>

----------------------------------------------------------------------------
(* Cacheable reads.  A read without a ticket changes nothing and is over;  *)
(* so is one that a hit answers.                                           *)

AtR(r, pc) == read[r].pc = pc

OnlyRead == UNCHANGED <<keyspace, store, pending, late, write>>

Undecodable(d, k) == Hit(d, k) /\ entries[d][k].response = Garbled

\* LOOKUP misses: the ticket and the catalog are of the same instant.
LookupMisses(r, d, k) ==
    /\ AtR(r, "idle")
    /\ Quiet(d) /\ ~Hit(d, k)
    /\ read' = [read EXCEPT ![r].pc = "parts", ![r].deployment = d,
                            ![r].key = k, ![r].epoch = control.epoch,
                            ![r].catalog = catalog]
    /\ OnlyRead

\* LOOKUP hits a response that does not decode: the ticket is kept and the
\* catalog is loaded by a later call.
LookupHitsGarbled(r, d, k) ==
    /\ AtR(r, "idle")
    /\ Undecodable(d, k)
    /\ read' = [read EXCEPT ![r].pc = "load", ![r].deployment = d,
                            ![r].key = k, ![r].epoch = control.epoch]
    /\ OnlyRead

LoadCatalog(r) ==
    /\ AtR(r, "load")
    /\ claim = None
    /\ read' = [read EXCEPT ![r].pc = "parts", ![r].catalog = catalog]
    /\ OnlyRead

ReadPart(r, p) ==
    /\ AtR(r, "parts")
    /\ read[r].parts[p] = None
    /\ read' = [read EXCEPT ![r].parts[p] = store[p]]
    /\ OnlyRead

Answer(r) ==
    /\ AtR(r, "parts")
    /\ \A p \in Parts : read[r].parts[p] # None
    /\ read' = [read EXCEPT ![r].pc = "publish"]
    /\ OnlyRead

\* Mutant: the ticket is taken when the response is complete.
PublishScriptWithLateTicket(r) ==
    Publish(read[r].deployment, control.epoch, read[r].key,
            [catalog |-> read[r].catalog, parts |-> read[r].parts])

PublishScript(r) ==
    Publish(read[r].deployment, read[r].epoch, read[r].key,
            [catalog |-> read[r].catalog, parts |-> read[r].parts])

PublishAnswer(r) ==
    /\ AtR(r, "publish")
    /\ PublishScript(r)
    /\ read' = [read EXCEPT ![r].pc = "done"]
    /\ UNCHANGED <<store, pending, late, write>>

\* An error response, a publication skipped or unanswered, a crash.
AbandonRead(r) ==
    /\ read[r].pc \notin {"idle", "done"}
    /\ late' = late \cup ({<<read[r].pc, r>>} \cap Call)
    /\ read' = [read EXCEPT ![r].pc = "done"]
    /\ UNCHANGED <<keyspace, store, pending, write>>

----------------------------------------------------------------------------
(* The environment.                                                        *)

\* A late call is executed.
Execute(call) ==
    LET w == call[2] IN
    /\ \/ call[1] = "admit" /\ Admit(write[w].deployment, w, "active")
       \/ call[1] = "begin" /\ write[w].admin /\ BeginScript(w, TRUE)
       \/ call[1] = "commit" /\ CommitScript(w)
       \/ call[1] = "unclaim" /\ UnclaimScript(w)
       \/ call[1] = "release"
            /\ Release(write[w].deployment, w, write[w].epoch)
       \/ call[1] = "publish" /\ PublishScript(w)
    /\ late' = late \ {call}
    /\ UNCHANGED <<store, pending, write, read>>

\* Qdrant applies a mutation.
Apply(op) ==
    /\ store' = [store EXCEPT ![op[2]] = op[1]]
    /\ pending' = pending \ {op}
    /\ UNCHANGED <<keyspace, late, write, read>>

\* Qdrant rejects or loses a mutation whose request no longer waits for it.
Lose(op) ==
    /\ ~(AtW(op[1], "sent") /\ write[op[1]].part = op[2])
    /\ pending' = pending \ {op}
    /\ UNCHANGED <<keyspace, store, late, write, read>>

(* The operator follows the documented contract: no writer runs and every  *)
(* backend operation is accounted for.  Calls to Valkey left unanswered    *)
(* cannot be accounted for, and are not.                                   *)
Quiesced ==
    /\ \A w \in Tokens : write[w].pc \in {"idle", "done"}
    /\ pending = {}

ResolveClaim ==
    /\ Quiesced
    /\ claim # None /\ claim' = None
    /\ UNCHANGED <<control, catalog, lineage, tombstones, entries, saved>>

Operator ==
    /\ \/ \E d \in Identities, completes \in BOOLEAN :
            Quiesced /\ Bootstrap(d, completes)
       \/ \E old, new \in Identities :
            Quiesced /\ (Recover(old, new) \/ RecoverStops(old, new))
       \/ ResolveClaim
    /\ UNCHANGED <<store, pending, late, write, read>>

\* "cache maintenance" needs no quiescence: the operator takes a writer token
\* of his own and keeps it.
Maintain(w, d) ==
    /\ AtW(w, "idle")
    /\ Admit(d, w, "maintenance")
    /\ write' = [write EXCEPT ![w].pc = "done", ![w].deployment = d,
                              ![w].lost = TRUE]
    /\ UNCHANGED <<store, pending, late, read>>

\* A stored response is corrupted behind the gateway's back.
Garble(d, k) ==
    /\ entries[d][k] # None
    /\ entries' = [entries EXCEPT ![d][k].response = Garbled]
    /\ UNCHANGED <<control, claim, catalog, lineage, tombstones, saved>>

Server ==
    /\ \/ \E d \in Identities, k \in Keys : Expire(d, k) \/ Garble(d, k)
       \/ RewriteAof
       \/ RestartValkey
       \/ DamageControl
    /\ UNCHANGED <<store, pending, late, write, read>>

----------------------------------------------------------------------------
WriteStep(w) ==
    \/ AdmitRequest(w) \/ BeginRequest(w) \/ BeginFails(w)
    \/ \E p \in Parts : SendMutation(w, p)
    \/ MutationCompletes(w) \/ MutationUncertain(w)
    \/ HandlerSucceeds(w) \/ \E sentPost \in BOOLEAN : HandlerFails(w, sentPost)
    \/ Settle(w) \/ ReleaseRequest(w) \/ AbandonWrite(w)

ReadStep(r) ==
    \/ LoadCatalog(r) \/ \E p \in Parts : ReadPart(r, p)
    \/ Answer(r) \/ PublishAnswer(r) \/ AbandonRead(r)

Arrive ==
    \/ \E w \in Tokens, d \in Identities, isAdmin \in BOOLEAN,
          plan \in SUBSET Parts : ArriveWrite(w, d, isAdmin, plan)
    \/ \E w \in Tokens, d \in Identities : Maintain(w, d)
    \/ \E r \in Readers, d \in Identities, k \in Keys :
            LookupMisses(r, d, k) \/ LookupHitsGarbled(r, d, k)

Next ==
    \/ Arrive
    \/ \E w \in Tokens : WriteStep(w)
    \/ \E r \in Readers : ReadStep(r)
    \/ \E call \in late : Execute(call)
    \/ \E op \in pending : Apply(op) \/ Lose(op)
    \/ Operator
    \/ Server

Spec == Init /\ [][Next]_vars

\* Every wait of a request has a time-out (read_cache.rs and
\* shared_catalog.rs TIMEOUT, the Qdrant client's request timeout), so a
\* request that can step does.  Nothing is assumed of Valkey, of Qdrant or
\* of the operator.
Fairness ==
    /\ \A w \in Tokens : WF_vars(WriteStep(w))
    /\ \A r \in Readers : WF_vars(ReadStep(r))

FairSpec == Spec /\ Fairness

----------------------------------------------------------------------------
(* A response that a lookup would serve is exactly what an atomic read of  *)
(* the catalog and of every part would answer at this instant: neither     *)
(* stale nor torn between two writes, whatever was delayed, lost, crashed, *)
(* restarted or recovered.  (cache_runtime.rs: "Tickets precede catalog    *)
(* snapshots".)                                                            *)
HitsAreCurrent ==
    \A d \in Identities, k \in Keys :
        Hit(d, k) /\ ~Undecodable(d, k) =>
            entries[d][k].response = [catalog |-> catalog, parts |-> store]

(* While an admitted request runs, or a mutation it has given up may still *)
(* be applied, no ticket is issued and nothing is served: "persistent      *)
(* writer tokens outlive cancellation or uncertainty in either backing     *)
(* system" (cache_runtime.rs).                                             *)
UncertaintyFences ==
    \A d \in Identities :
        Quiet(d) => /\ pending = {}
                    /\ \A w \in Tokens : write[w].pc \in {"idle", "admit", "done"}

(* No administration is lost: the catalog only ever changes to the commit  *)
(* of a request that read the catalog it replaces.                         *)
NoLostAdministration ==
    [][catalog' # catalog => /\ catalog' \in Tokens
                             /\ write[catalog'].base = catalog]_vars

(* The fence is not left closed for nothing: a token stays behind a        *)
(* finished request only if something about the request is uncertain - a   *)
(* mutation not completed, a call unanswered or refused, or an             *)
(* administration that failed after it started.  (cache_runtime.rs: the    *)
(* release after dispatch_catalog.)                                        *)
NoNeedlessFence ==
    \A w \in Tokens :
        AtW(w, "done") /\ control.kind = "hash" /\ control.writers[w] # 0 =>
            write[w].uncertain \/ write[w].lost

(* Every token is given back or left to the operator: no interleaving of   *)
(* requests, replies and operator commands leaves a request waiting with   *)
(* the fence closed.                                                       *)
FenceReopens ==
    \A w \in Tokens :
        control.kind = "hash" /\ control.writers[w] # 0 ~>
            \/ control.kind # "hash" \/ control.writers[w] = 0
            \/ write[w].uncertain \/ write[w].lost
============================================================================
