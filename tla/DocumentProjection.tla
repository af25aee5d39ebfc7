------------------------- MODULE DocumentProjection -------------------------
(***************************************************************************)
(* Writes of one document: write_doc, create_doc, update_doc, delete_doc   *)
(* and the items of bulk (main.rs), over the search collection and, with   *)
(* Projection, the document collection.                                    *)
(*                                                                         *)
(* A handler reads the document once and then makes the calls of a plan.   *)
(* Qdrant keeps a log per collection: with wait it answers when the        *)
(* operation is applied, without when it is logged.  Every call on the     *)
(* document collection waits, so its log is not modelled.                  *)
(* A detached or unanswered call is in flight: it is logged at any later   *)
(* time, or lost.                                                          *)
(*                                                                         *)
(* Points of different documents do not interact: there is one document.   *)
(* Bounds: each client makes at most MaxOperations requests or bulk items, *)
(* MaxLost limits the calls that go unanswered.                            *)
(***************************************************************************)
EXTENDS Naturals, Sequences, FiniteSets, TLC

CONSTANTS
    Clients,
    ReplicaOf,          \* the replica each client talks to
    TextFields,         \* mapped with type text
    MetaFields,         \* mapped without
    OtherFields,        \* not mapped
    StringFields,       \* fields whose values are strings
    VectorOf,           \* field -> vector: text_ and the name, `.` as `_`
    FieldOf,            \* vector -> field: without text_, every `_` as `.`
    TextAll,            \* the vector of all strings
    Values,
    Operations,
    Configurations,     \* settings of the processes, the same for all
    AsyncWriteQueue,    \* ASYNC_WRITE_QUEUE
    MaxOperations,
    MaxLost,
    None

VARIABLES
    config,    \* the settings
    docs,      \* the point in the document collection
    search,    \* the point in the search collection
    log,       \* operations the search collection has yet to apply
    flight,    \* calls that may still arrive
    client,
    lost,      \* how many calls went unanswered
    expected,  \* history: the document after the last answered write
    clean,     \* history: no writes overlapped, none is in doubt
    stored,    \* history: what the document collection ever held
    created    \* history: creations answered by each replica

history == <<expected, clean, stored, created>>
vars == <<config, docs, search, log, flight, client, lost, history>>

Projection == config.projection        \* DOCUMENT_PROJECTION
AsyncSearch == config.asyncSearch      \* ASYNC_SEARCH_PROJECTION
AsyncPayload == config.asyncPayload    \* ASYNC_PAYLOAD_WRITES

Fields == TextFields \cup MetaFields \cup OtherFields
Document == [Fields -> Values \cup {None}]

\* mapping_vectors; a document may have a field of a vector's name, too.
Vectors == {VectorOf[f] : f \in TextFields} \cup {TextAll}
OwnVectors == Vectors \ {TextAll}

Replicas == {ReplicaOf[c] : c \in Clients}

Operation ==
    [kind: {"index", "create"}, doc: Document]
        \cup [kind: {"delete"}]
        \cup [kind: {"update"}, doc: Document, upsert: Document \cup {None},
              detectNoop: BOOLEAN]

ASSUME DocumentAssumption ==
    /\ ReplicaOf \in [Clients -> Replicas]
    /\ StringFields \subseteq Fields
    /\ Operations \subseteq Operation
    /\ Operations # {}
    /\ Configurations \subseteq
            [projection: BOOLEAN, asyncSearch: BOOLEAN, asyncPayload: BOOLEAN]
    /\ {AsyncWriteQueue, MaxOperations, MaxLost} \subseteq Nat
    /\ None \notin Values \cup Clients \cup Nat
    /\ None \notin Document
    /\ VectorOf \in [Fields -> {VectorOf[f] : f \in Fields}]
    \* A vector is read back as the field that has no underscore.
    /\ \A f \in TextFields :
            LET back == FieldOf[VectorOf[f]]
            IN  back \in Fields => VectorOf[back] = VectorOf[f]
    /\ None \notin [own: [OwnVectors -> Values \cup {None}],
                    all: [StringFields -> Values \cup {None}],
                    payload: [MetaFields -> Values \cup {None}],
                    source: Document \cup {None}]

----------------------------------------------------------------------------
(* Points.                                                                 *)

Only(doc, fields) == [f \in fields |-> doc[f]]

Point == [own: [OwnVectors -> Values \cup {None}],
          all: [StringFields -> Values \cup {None}],
          payload: [MetaFields -> Values \cup {None}],
          source: IF Projection THEN {None} ELSE Document]

Has(doc, f) == f \in Fields /\ doc[f] # None

\* flatten_text: the string a vector gets, of the field its name stands for
\* or else of one that is called as the vector.  The text of a field with an
\* underscore in its name goes nowhere.
TextOf(doc, v) ==
    LET f == IF Has(doc, FieldOf[v]) THEN FieldOf[v] ELSE v
    IN  IF f \in StringFields THEN doc[f] ELSE None

\* write_docs; text_all has every string of the source.
PointOf(doc) ==
    [own |-> [v \in OwnVectors |-> TextOf(doc, v)],
     all |-> Only(doc, StringFields),
     payload |-> Only(doc, MetaFields),
     source |-> IF Projection THEN None ELSE doc]

\* merge_partial_document, field by field
Merged(doc, patch) ==
    [f \in Fields |-> IF patch[f] # None THEN patch[f] ELSE doc[f]]

Touches(patch, fields) == \E f \in fields : patch[f] # None

\* changed_text: a field, mapped or not, whose name leads to a vector
TouchesText(patch) == \E f \in Fields : patch[f] # None /\ VectorOf[f] \in Vectors

\* Setting a payload overwrites the keys that are given; vectors stay.
SetPayload(point, doc) ==
    [point EXCEPT
        !.payload = [f \in MetaFields |-> IF doc[f] # None THEN doc[f] ELSE @[f]],
        !.source = IF Projection THEN @ ELSE doc]

Mutation == [kind: {"put", "payload"}, doc: Document]
                \cup [kind: {"delete"}, doc: {None}]

Applied(point, m) ==
    CASE m.kind = "put"     -> PointOf(m.doc)
      [] m.kind = "payload" -> IF point = None THEN None
                               ELSE SetPayload(point, m.doc)
      [] m.kind = "delete"  -> None

----------------------------------------------------------------------------
(* The calls of a handler, after it has read the document.                 *)

\* mode: wait for the application, for the log, or for nobody.
Call == [to: {"docs", "search"}, mode: {"wait", "ack", "detached"}, m: Mutation]

Put(to, mode, doc) ==
    [to |-> to, mode |-> mode, m |-> [kind |-> "put", doc |-> doc]]
Payload(mode, doc) ==
    [to |-> "search", mode |-> mode, m |-> [kind |-> "payload", doc |-> doc]]
Delete(to, mode) ==
    [to |-> to, mode |-> mode, m |-> [kind |-> "delete", doc |-> None]]

Mode(async) == IF async THEN "ack" ELSE "wait"

\* Mutant: the search collection comes first.
ProjectedAfterwards(call, rest) ==
    IF Projection THEN rest \o <<call>> ELSE rest

\* The call on the document collection comes first.
Projected(call, rest) == IF Projection THEN <<call>> \o rest ELSE rest

WriteDocs(doc) ==
    Projected(Put("docs", "wait", doc), <<Put("search", Mode(AsyncSearch), doc)>>)

DeleteDoc ==
    Projected(Delete("docs", "wait"),
              <<Delete("search", Mode(AsyncSearch \/ AsyncPayload))>>)

\* Mutant: metadata never reaches the search collection.
UpdateDocSourceOnly(doc, patch) ==
    IF TouchesText(patch) THEN WriteDocs(doc)
    ELSE IF Projection THEN <<Put("docs", "wait", doc)>>
    ELSE <<Payload(IF AsyncPayload THEN "detached" ELSE "wait", doc)>>

\* Mutant: any change is a change of payload.
UpdateDocPayloadOnly(doc, patch) ==
    Projected(Put("docs", "wait", doc),
              <<Payload(IF AsyncPayload THEN "detached" ELSE "wait", doc)>>)

\* update_doc of an existing document
UpdateDoc(doc, patch) ==
    IF TouchesText(patch) THEN WriteDocs(doc)
    ELSE IF Projection
         THEN <<Put("docs", "wait", doc)>>
              \o IF Touches(patch, MetaFields)
                 THEN <<Payload(Mode(AsyncSearch), doc)>> ELSE <<>>
         ELSE <<Payload(IF AsyncPayload THEN "detached" ELSE "wait", doc)>>

\* Mutant: an update of a missing document writes the patch.
TargetOfPatch(op, current) ==
    CASE op.kind \in {"index", "create"} -> op.doc
      [] op.kind = "delete"              -> None
      [] op.kind = "update"              ->
            IF current # None THEN Merged(current, op.doc) ELSE op.doc

\* The document an operation wants to leave behind.
Target(op, current) ==
    CASE op.kind \in {"index", "create"} -> op.doc
      [] op.kind = "delete"              -> None
      [] op.kind = "update"              ->
            IF current # None THEN Merged(current, op.doc) ELSE op.upsert

\* An update that changes nothing, an update or delete of nothing.
Idle(op, current) ==
    CASE op.kind = "delete" -> current = None
      [] op.kind = "update" -> \/ current = None /\ op.upsert = None
                               \/ /\ current # None
                                  /\ op.detectNoop
                                  /\ Merged(current, op.doc) = current
      [] OTHER -> FALSE

Plan(op, current) ==
    CASE Idle(op, current) -> <<>>
      [] ~Idle(op, current) /\ op.kind = "delete" -> DeleteDoc
      [] ~Idle(op, current) /\ op.kind = "update" /\ current # None ->
            UpdateDoc(Target(op, current), op.doc)
      [] OTHER -> WriteDocs(Target(op, current))

----------------------------------------------------------------------------
(* Clients.                                                                *)

ClientState ==
    [pc: {"idle", "lock", "read", "send", "await"},
     op: Operations,
     todo: Seq(Call),
     wrote: BOOLEAN,             \* a call of the request has been executed
     left: 0..MaxOperations]

Entry == [m: Mutation, by: Clients \cup {None}]
Flight == [call: Call, by: Clients, nth: 0..MaxOperations]

(* Every variable keeps its type; in particular the search collection has  *)
(* no source when the document collection has it (the payload kept to the  *)
(* fields that filters need, docs/storage-findings.md).                    *)
TypeOK ==
    /\ config \in Configurations
    /\ docs \in Document \cup {None}
    /\ search \in Point \cup {None}
    /\ log \in Seq(Entry)
    /\ flight \subseteq Flight
    /\ client \in [Clients -> ClientState]
    /\ lost \in 0..MaxLost
    /\ expected \in Document \cup {None}
    /\ clean \in BOOLEAN
    /\ stored \subseteq Fields \X Values
    /\ created \in [Replicas -> 0..2 \cup {None}]

Init ==
    /\ config \in Configurations
    /\ docs = None /\ search = None
    /\ log = <<>> /\ flight = {}
    /\ client = [c \in Clients |->
            [pc |-> "idle", op |-> CHOOSE op \in Operations : TRUE,
             todo |-> <<>>, wrote |-> FALSE, left |-> MaxOperations]]
    /\ lost = 0
    /\ expected = None /\ clean = TRUE
    /\ stored = {} /\ created = [r \in Replicas |-> 0]

At(c, pc) == client[c].pc = pc

\* retrieve_source: the document collection, or _source of the search point
Current == IF Projection THEN docs
           ELSE IF search = None THEN None ELSE search.source

\* No acknowledged write of the document has yet to be applied.
Settled == Projection \/ (log = <<>> /\ flight = {})

Detached == {f \in flight : f.call.mode = "detached"}

\* create_doc holds index_admin of its process until it ends.
Locked(replica) ==
    \E c \in Clients : /\ ReplicaOf[c] = replica
                       /\ client[c].op.kind = "create"
                       /\ client[c].pc \in {"read", "send", "await"}

Start(c, op) ==
    /\ At(c, "idle")
    /\ client[c].left > 0
    /\ client' = [client EXCEPT
            ![c].pc = IF op.kind = "create" THEN "lock" ELSE "read",
            ![c].op = op,
            ![c].left = @ - 1]
    /\ clean' = (clean /\ Settled /\ \A d \in Clients : At(d, "idle"))
    /\ created' = IF op.kind = "delete" THEN [r \in Replicas |-> None]
                  ELSE created
    /\ UNCHANGED <<config, docs, search, log, flight, lost, expected, stored>>

\* Mutant: no creation waits for another.
CanLockAlways(c) == TRUE

CanLock(c) == ~Locked(ReplicaOf[c])

Lock(c) ==
    /\ At(c, "lock")
    /\ CanLock(c)
    /\ client' = [client EXCEPT ![c].pc = "read"]
    /\ UNCHANGED <<config, docs, search, log, flight, lost, history>>

\* A request that is over keeps nothing.
Over(c) ==
    [client[c] EXCEPT !.pc = "idle", !.todo = <<>>, !.wrote = FALSE]

Read(c) ==
    LET op == client[c].op
    IN  /\ At(c, "read")
        /\ client' = [client EXCEPT ![c] =
                IF op.kind = "create" /\ Current # None THEN Over(c)
                ELSE [@ EXCEPT !.pc = "send", !.todo = Plan(op, Current)]]
        /\ UNCHANGED <<config, docs, search, log, flight, lost, history>>

\* The reading fails, or a check of the request (a sparse vector, say).
ReadFails(c) ==
    /\ At(c, "read")
    /\ client' = [client EXCEPT ![c] = Over(c)]
    /\ UNCHANGED <<config, docs, search, log, flight, lost, history>>

NextCall(c) == Head(client[c].todo)

Sends(c, modes) ==
    /\ At(c, "send")
    /\ client[c].todo # <<>>
    /\ NextCall(c).mode \in modes

InFlight(c) == [call |-> NextCall(c), by |-> c, nth |-> client[c].left]

Contents(doc) ==
    IF doc = None THEN {}
    ELSE {fv \in Fields \X Values : doc[fv[1]] = fv[2]}

StoreDocument(m) ==
    /\ docs' = m.doc
    /\ stored' = stored \cup Contents(m.doc)

SendToDocuments(c) ==
    /\ Sends(c, {"wait"})
    /\ NextCall(c).to = "docs"
    /\ StoreDocument(NextCall(c).m)
    /\ client' = [client EXCEPT ![c].todo = Tail(@), ![c].wrote = TRUE]
    /\ UNCHANGED <<config, search, log, flight, lost, expected, clean, created>>

SendToSearch(c) ==
    LET waits == NextCall(c).mode = "wait"
    IN  /\ Sends(c, {"wait", "ack"})
        /\ NextCall(c).to = "search"
        /\ log' = Append(log, [m |-> NextCall(c).m,
                               by |-> IF waits THEN c ELSE None])
        /\ client' = [client EXCEPT
                ![c].todo = Tail(@),
                ![c].pc = IF waits THEN "await" ELSE "send",
                ![c].wrote = TRUE]
        /\ UNCHANGED <<config, docs, search, flight, lost, history>>

\* The permits of async_write_queue
SlotFree == Cardinality(Detached) < AsyncWriteQueue

\* spawn_request; without a free slot the request fails.
Spawn(c) ==
    /\ Sends(c, {"detached"})
    /\ \/ /\ SlotFree
          /\ flight' = flight \cup {InFlight(c)}
          /\ client' = [client EXCEPT ![c].todo = Tail(@), ![c].wrote = TRUE]
       \/ /\ ~SlotFree
          /\ client' = [client EXCEPT ![c] = Over(c)]
          /\ UNCHANGED flight
    /\ UNCHANGED <<config, docs, search, log, lost, history>>

\* An error ends the request, whatever it has written.
CallRefused(c) ==
    /\ Sends(c, {"wait", "ack"})
    /\ client' = [client EXCEPT ![c] = Over(c)]
    /\ clean' = (clean /\ ~client[c].wrote)
    /\ UNCHANGED <<config, docs, search, log, flight, lost, expected, stored, created>>

\* A time-out, a cancelled request or a dead replica.
CallUnanswered(c) ==
    /\ lost < MaxLost
    /\ Sends(c, {"wait", "ack"})
    /\ flight' = flight \cup {InFlight(c)}
    /\ client' = [client EXCEPT ![c] = Over(c)]
    /\ clean' = FALSE
    /\ lost' = lost + 1
    /\ UNCHANGED <<config, docs, search, log, expected, stored, created>>

AwaitUnanswered(c) ==
    /\ lost < MaxLost
    /\ At(c, "await")
    /\ log' = [i \in DOMAIN log |-> IF log[i].by = c
                                    THEN [log[i] EXCEPT !.by = None] ELSE log[i]]
    /\ client' = [client EXCEPT ![c] = Over(c)]
    /\ clean' = FALSE
    /\ lost' = lost + 1
    /\ UNCHANGED <<config, docs, search, flight, expected, stored, created>>

\* Qdrant may report the setting of a payload that found no point.
Apply ==
    LET entry == Head(log)
        found == entry.m.kind = "payload" => search # None
    IN  /\ log # <<>>
        /\ log' = Tail(log)
        /\ search' = Applied(search, entry.m)
        /\ \E ok \in {TRUE, found} :
            /\ client' = [c \in Clients |->
                    IF c # entry.by THEN client[c]
                    ELSE IF ok THEN [client[c] EXCEPT !.pc = "send"]
                    ELSE Over(c)]
            /\ clean' = (clean /\ ok)
        /\ UNCHANGED <<config, docs, flight, lost, expected, stored, created>>

\* What an answered write means, to a client that knows of no collections.
Outcome(op, doc) ==
    CASE op.kind \in {"index", "create"}           -> op.doc
      [] op.kind = "delete"                        -> None
      [] op.kind = "update" /\ doc = None          -> op.upsert
      [] op.kind = "update" /\ doc # None          ->
            [f \in Fields |-> IF op.doc[f] = None THEN doc[f] ELSE op.doc[f]]

Counted(n) == IF n \in {0, 1} THEN n + 1 ELSE n

Finish(c) ==
    /\ At(c, "send")
    /\ client[c].todo = <<>>
    /\ client' = [client EXCEPT ![c] = Over(c)]
    /\ expected' = Outcome(client[c].op, expected)
    /\ created' = IF client[c].op.kind = "create"
                  THEN [created EXCEPT ![ReplicaOf[c]] = Counted(@)]
                  ELSE created
    /\ UNCHANGED <<config, docs, search, log, flight, lost, clean, stored>>

FlightArrives(f) ==
    /\ f \in flight
    /\ flight' = flight \ {f}
    /\ IF f.call.to = "docs"
       THEN StoreDocument(f.call.m) /\ UNCHANGED log
       ELSE /\ log' = Append(log, [m |-> f.call.m, by |-> None])
            /\ UNCHANGED <<docs, stored>>
    /\ UNCHANGED <<config, search, client, lost, expected, clean, created>>

\* Of a detached call only a log line remains.
FlightLost(f) ==
    /\ f \in flight
    /\ flight' = flight \ {f}
    /\ clean' = FALSE
    /\ UNCHANGED <<config, docs, search, log, client, lost, expected, stored, created>>

Next ==
    \/ \E c \in Clients :
        \/ \E op \in Operations : Start(c, op)
        \/ Lock(c) \/ Read(c) \/ ReadFails(c)
        \/ SendToDocuments(c) \/ SendToSearch(c) \/ Spawn(c)
        \/ CallRefused(c) \/ CallUnanswered(c) \/ AwaitUnanswered(c)
        \/ Finish(c)
    \/ Apply
    \/ \E f \in flight : FlightArrives(f) \/ FlightLost(f)

Spec == Init /\ [][Next]_vars

----------------------------------------------------------------------------
(* Properties.                                                             *)

Quiet == /\ \A c \in Clients : At(c, "idle")
         /\ log = <<>> /\ flight = {}

(* Writes that neither overlap nor fail half way leave the document of the *)
(* last answered one, once nothing of them is under way (read, merge and   *)
(* write of update_doc, the order of spawned and logged calls).            *)
LastWriteStays == clean /\ Quiet => Current = expected

\* Text fields that have their vector to themselves: no underscore in the
\* name, not called `all`, and no document has a field called as the vector.
PlainFields ==
    {f \in TextFields \cap StringFields :
        FieldOf[VectorOf[f]] = f /\ VectorOf[f] \notin Fields \cup {TextAll}}

(* ... and leave the search collection with that document's filter fields  *)
(* and the vectors of its plainly named text fields: update_doc may leave  *)
(* out a call on the strength of the fields it was given, but only one     *)
(* that would change none of these.                                        *)
SearchFollows ==
    clean /\ Quiet =>
        IF Current = None THEN search = None
        ELSE /\ search # None
             /\ search.payload = Only(Current, MetaFields)
             /\ \A f \in PlainFields : search.own[VectorOf[f]] = Current[f]

(* The document collection is the durability boundary: whatever requests   *)
(* overlap, fail or arrive late, the search collection has nothing that    *)
(* the document collection has not had before (docs/architecture.md).      *)
DocumentFirst ==
    Projection /\ search # None =>
        /\ \A f \in MetaFields :
            search.payload[f] # None => <<f, search.payload[f]>> \in stored
        /\ \A v \in OwnVectors :
            search.own[v] # None =>
                \E f \in {FieldOf[v], v} : <<f, search.own[v]>> \in stored

(* Creations are serialized within a gateway process and check first, so   *)
(* no two of them create the document, unless it was deleted               *)
(* (docs/compatibility.md:3).                                              *)
CreatesExclude == \A r \in Replicas : created[r] # 2

(* A creation checks first rather than overwriting a document, and a       *)
(* process makes one at a time: where only creations are requested, what   *)
(* one of them has stored stays (docs/compatibility.md:3).                 *)
CreateNeverOverwrites ==
    [][(\A op \in Operations : op.kind = "create") /\ docs # None
            => UNCHANGED docs]_vars

(* A comment of update_doc says that metadata can stay off the sparse      *)
(* index and that fields outside the mapping only need the document        *)
(* collection.  So text_all, which every index has and which is all the    *)
(* text search of an index without a mapping has, would be that of the     *)
(* document.                                                               *)
SparseIndexFollows ==
    clean /\ Quiet /\ search # None => search.all = Only(Current, StringFields)

=============================================================================
