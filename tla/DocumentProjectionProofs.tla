----------------------- MODULE DocumentProjectionProofs ----------------------
(* Theorems about DocumentProjection, for any clients, operations, fields   *)
(* and settings.                                                           *)
EXTENDS DocumentProjection, SequenceTheorems, TLAPS

----------------------------------------------------------------------------
(* Types.                                                                  *)

DocumentOrNone == Document \cup {None}

\* Merging a patch into a document gives a document.
LEMMA MergedIsDocument ==
    ASSUME NEW doc \in Document, NEW patch \in Document
    PROVE  Merged(doc, patch) \in Document
BY DEF Merged, Document

\* What is asked for is a document or nothing.
LEMMA OperationParts ==
    ASSUME NEW op \in Operations
    PROVE  /\ op.kind \in {"index", "create", "delete", "update"}
           /\ op.kind \in {"index", "create", "update"} => op.doc \in Document
           /\ op.kind = "update" => op.upsert \in DocumentOrNone
BY DocumentAssumption DEF Operation, DocumentOrNone

\* ... and so is what it would leave behind,
LEMMA TargetIsDocument ==
    ASSUME NEW op \in Operations, NEW current \in DocumentOrNone
    PROVE  Target(op, current) \in DocumentOrNone
BY OperationParts, MergedIsDocument DEF Target, DocumentOrNone

\* ... and what its answer means.
LEMMA OutcomeIsDocument ==
    ASSUME NEW op \in Operations, NEW doc \in DocumentOrNone
    PROVE  Outcome(op, doc) \in DocumentOrNone
<1>1. CASE op.kind = "update" /\ doc # None
  BY <1>1, OperationParts, DocumentAssumption DEF Outcome, DocumentOrNone, Document
<1>2. CASE ~(op.kind = "update" /\ doc # None)
  BY <1>2, OperationParts DEF Outcome, DocumentOrNone
<1>3. QED
  BY <1>1, <1>2

\* The text of a vector is a value of one of two fields.
LEMMA TextOfField ==
    ASSUME NEW doc \in Document, NEW v
    PROVE  /\ TextOf(doc, v) \in Values \cup {None}
           /\ TextOf(doc, v) # None =>
                \E f \in {FieldOf[v], v} : f \in Fields /\ TextOf(doc, v) = doc[f]
<1> DEFINE f == IF Has(doc, FieldOf[v]) THEN FieldOf[v] ELSE v
<1>1. TextOf(doc, v) = IF f \in StringFields THEN doc[f] ELSE None
  BY DEF TextOf
<1>2. f \in {FieldOf[v], v}
  OBVIOUS
<1> HIDE DEF f
<1>3. QED
  BY <1>1, <1>2, DocumentAssumption DEF Document

\* The point of a document.
LEMMA PointOfIsPoint ==
    ASSUME NEW doc \in Document
    PROVE  PointOf(doc) \in Point
BY TextOfField, DocumentAssumption DEF PointOf, Point, Only, Document, Fields

\* A point stays one under a new payload,
LEMMA SetPayloadIsPoint ==
    ASSUME NEW point \in Point, NEW doc \in Document
    PROVE  SetPayload(point, doc) \in Point
BY DocumentAssumption DEF SetPayload, Point, Document, Fields

\* What a mutation carries.
LEMMA MutationParts ==
    ASSUME NEW m \in Mutation
    PROVE  /\ m.kind \in {"put", "payload", "delete"}
           /\ m.kind \in {"put", "payload"} => m.doc \in Document
           /\ m.kind = "delete" => m.doc = None
BY DEF Mutation

\* ... and under every mutation.
LEMMA AppliedIsPoint ==
    ASSUME NEW point \in Point \cup {None}, NEW m \in Mutation
    PROVE  Applied(point, m) \in Point \cup {None}
BY MutationParts, PointOfIsPoint, SetPayloadIsPoint DEF Applied

\* The calls of a handler.
LEMMA CallsAreCalls ==
    ASSUME NEW mode \in {"wait", "ack", "detached"}, NEW to \in {"docs", "search"}
    PROVE  /\ \A doc \in Document : Put(to, mode, doc) \in Call /\ Payload(mode, doc) \in Call
           /\ Delete(to, mode) \in Call
BY DEF Put, Payload, Delete, Call, Mutation

\* The fields of a document.
LEMMA ContentsAreTyped ==
    ASSUME NEW doc \in DocumentOrNone
    PROVE  Contents(doc) \subseteq Fields \X Values
BY DEF Contents

----------------------------------------------------------------------------
(* The plan of a request.                                                  *)

\* The calls of a plan: at most two, the search collection last.
Plans ==
    {<<>>} \cup {<<a>> : a \in Call} \cup {<<a, b>> : a, b \in Call}

\* Sequences of one and of two.
LEMMA Pair ==
    ASSUME NEW S, NEW a \in S, NEW b \in S
    PROVE  <<a>> \in Seq(S) /\ <<a, b>> \in Seq(S) /\ <<a>> \o <<b>> = <<a, b>>
<1>1. /\ <<a>> \in Seq(S) /\ <<b>> \in Seq(S) /\ <<a, b>> \in Seq(S)
      /\ Len(<<a>>) = 1 /\ Len(<<b>>) = 1 /\ Len(<<a, b>>) = 2
  OBVIOUS
<1> DEFINE joined == <<a>> \o <<b>>
<1>2. /\ joined \in Seq(S) /\ Len(joined) = 2
      /\ \A i \in 1..2 : joined[i] = IF i <= 1 THEN <<a>>[i] ELSE <<b>>[i - 1]
  BY <1>1, ConcatProperties
<1>3. joined[1] = a /\ joined[2] = b
  BY <1>2
<1> HIDE DEF joined
<1>4. \A i \in 1..2 : joined[i] = <<a, b>>[i]
  BY <1>3
<1>5. joined = <<a, b>>
  BY <1>1, <1>2, <1>4, SeqEqual
<1>6. QED
  BY <1>1, <1>5 DEF joined

\* Plans are sequences of calls.
LEMMA PlansAreSequences == Plans \subseteq Seq(Call)
<1>1. <<>> \in Seq(Call)
  BY EmptySeq
<1>2. \A a, b \in Call : <<a>> \in Seq(Call) /\ <<a, b>> \in Seq(Call)
  BY Pair
<1>3. ASSUME NEW plan \in Plans
      PROVE  plan \in Seq(Call)
  <2>1. CASE plan = <<>>
    BY <1>1, <2>1
  <2>2. CASE \E a \in Call : plan = <<a>>
    BY <1>2, <2>2
  <2>3. CASE \E a, b \in Call : plan = <<a, b>>
    BY <1>2, <2>3
  <2>4. QED
    BY <2>1, <2>2, <2>3 DEF Plans
<1>4. QED
  BY <1>3

\* Whatever a plan sends to the search collection under Projection, the call
\* before it has stored.
Led(todo) ==
    \/ todo = <<>>
    \/ \E a \in Call : todo = <<a>> /\ a.to = "docs" /\ a.mode = "wait"
    \/ \E a, b \in Call : /\ todo = <<a, b>>
                          /\ a.to = "docs" /\ a.mode = "wait" /\ b.to = "search"
                          /\ a.m.doc = b.m.doc

\* write_docs sends to the document collection first,
LEMMA WriteDocsIsLed ==
    ASSUME NEW doc \in Document
    PROVE  WriteDocs(doc) \in Plans /\ (Projection => Led(WriteDocs(doc)))
<1>1. /\ Put("docs", "wait", doc) \in Call
      /\ Put("search", Mode(AsyncSearch), doc) \in Call
  BY CallsAreCalls DEF Mode
<1>2. /\ Put("docs", "wait", doc).to = "docs" /\ Put("docs", "wait", doc).mode = "wait"
      /\ Put("docs", "wait", doc).m.doc = doc
      /\ Put("search", Mode(AsyncSearch), doc).to = "search"
      /\ Put("search", Mode(AsyncSearch), doc).m.doc = doc
  BY DEF Put
<1>3. CASE Projection
  <2>1. WriteDocs(doc) = <<Put("docs", "wait", doc), Put("search", Mode(AsyncSearch), doc)>>
    BY <1>1, <1>3, Pair DEF WriteDocs, Projected
  <2>2. QED
    BY <1>1, <1>2, <2>1 DEF Plans, Led
<1>4. CASE ~Projection
  BY <1>1, <1>4 DEF WriteDocs, Projected, Plans
<1>5. QED
  BY <1>3, <1>4

\* ... so does delete_doc,
LEMMA DeleteDocIsLed == DeleteDoc \in Plans /\ (Projection => Led(DeleteDoc))
<1> DEFINE first == Delete("docs", "wait")
           second == Delete("search", Mode(AsyncSearch \/ AsyncPayload))
<1>1. first \in Call /\ second \in Call
  BY CallsAreCalls DEF Mode
<1>2. first.to = "docs" /\ first.mode = "wait" /\ second.to = "search" /\ first.m.doc = second.m.doc
  BY DEF Delete
<1> HIDE DEF first, second
<1>3. DeleteDoc = IF Projection THEN <<first>> \o <<second>> ELSE <<second>>
  BY DEF DeleteDoc, Projected, first, second
<1>4. CASE Projection
  <2>1. DeleteDoc = <<first, second>>
    BY <1>1, <1>3, <1>4, Pair
  <2>2. QED
    BY <1>1, <1>2, <2>1 DEF Plans, Led
<1>5. CASE ~Projection
  BY <1>1, <1>3, <1>5 DEF Plans
<1>6. QED
  BY <1>4, <1>5

\* ... and update_doc, with or without a call on the search collection,
LEMMA UpdateDocIsLed ==
    ASSUME NEW doc \in Document, NEW patch \in Document
    PROVE  UpdateDoc(doc, patch) \in Plans /\ (Projection => Led(UpdateDoc(doc, patch)))
<1>1. CASE TouchesText(patch)
  BY <1>1, WriteDocsIsLed DEF UpdateDoc
<1>2. CASE ~TouchesText(patch) /\ Projection
  <2> DEFINE first == Put("docs", "wait", doc)
             second == Payload(Mode(AsyncSearch), doc)
  <2>1. first \in Call /\ second \in Call
    BY CallsAreCalls DEF Mode
  <2>2. first.to = "docs" /\ first.mode = "wait" /\ second.to = "search" /\ first.m.doc = second.m.doc
    BY DEF Put, Payload
  <2> HIDE DEF first, second
  <2>3. UpdateDoc(doc, patch) =
            <<first>> \o IF Touches(patch, MetaFields) THEN <<second>> ELSE <<>>
    BY <1>2 DEF UpdateDoc, first, second
  <2>4. UpdateDoc(doc, patch) = <<first, second>> \/ UpdateDoc(doc, patch) = <<first>>
    BY <2>1, <2>3, Pair, ConcatEmptySeq
  <2>5. QED
    BY <2>1, <2>2, <2>4 DEF Plans, Led
<1>3. CASE ~TouchesText(patch) /\ ~Projection
  <2> DEFINE only == Payload(IF AsyncPayload THEN "detached" ELSE "wait", doc)
  <2>1. only \in Call
    BY CallsAreCalls
  <2> HIDE DEF only
  <2>2. UpdateDoc(doc, patch) = <<only>>
    BY <1>3 DEF UpdateDoc, only
  <2>3. QED
    BY <1>3, <2>1, <2>2 DEF Plans
<1>4. QED
  BY <1>1, <1>2, <1>3

\* ... so every plan is led.
LEMMA PlanIsLed ==
    ASSUME NEW op \in Operations, NEW current \in DocumentOrNone
    PROVE  Plan(op, current) \in Plans /\ (Projection => Led(Plan(op, current)))
<1>1. CASE Idle(op, current)
  BY <1>1 DEF Plan, Plans, Led
<1>2. CASE ~Idle(op, current) /\ op.kind = "delete"
  BY <1>2, DeleteDocIsLed DEF Plan
<1>3. CASE ~Idle(op, current) /\ op.kind = "update" /\ current # None
  <2>1. Target(op, current) \in Document /\ op.doc \in Document
    BY <1>3, OperationParts, MergedIsDocument DEF Target, DocumentOrNone
  <2>2. Plan(op, current) = UpdateDoc(Target(op, current), op.doc)
    BY <1>3 DEF Plan
  <2>3. QED
    BY <2>1, <2>2, UpdateDocIsLed
<1>4. CASE /\ ~Idle(op, current) /\ op.kind # "delete"
           /\ ~(op.kind = "update" /\ current # None)
  <2>1. Target(op, current) \in Document
    BY <1>4, OperationParts DEF Target, DocumentOrNone, Idle
  <2>2. Plan(op, current) = WriteDocs(Target(op, current))
    BY <1>4 DEF Plan
  <2>3. QED
    BY <2>1, <2>2, WriteDocsIsLed
<1>5. QED
  BY <1>1, <1>2, <1>3, <1>4

----------------------------------------------------------------------------
(* Type correctness.                                                       *)

\* The types of a client's record, part by part.
LEMMA ClientParts ==
    ASSUME TypeOK, NEW c \in Clients
    PROVE  /\ client[c].op \in Operations
           /\ client[c].todo \in Seq(Call)
           /\ client[c].left \in 0..MaxOperations
BY DEF TypeOK, ClientState

\* The next call of a client.
LEMMA NextCallParts ==
    ASSUME TypeOK, NEW c \in Clients, client[c].todo # <<>>
    PROVE  /\ NextCall(c) \in Call
           /\ Tail(client[c].todo) \in Seq(Call)
           /\ NextCall(c).m \in Mutation
           /\ NextCall(c).m.doc \in DocumentOrNone
<1>1. NextCall(c) \in Call /\ Tail(client[c].todo) \in Seq(Call)
  BY ClientParts DEF NextCall
<1>2. NextCall(c).m \in Mutation
  BY <1>1 DEF Call
<1>3. QED
  BY <1>1, <1>2, MutationParts DEF DocumentOrNone

\* A request that ends.
LEMMA OverIsTyped ==
    ASSUME TypeOK, NEW c \in Clients
    PROVE  Over(c) \in ClientState
BY EmptySeq DEF TypeOK, ClientState, Over

\* What a request reads is a document or nothing.
LEMMA CurrentIsDocument ==
    ASSUME TypeOK
    PROVE  Current \in DocumentOrNone
BY DEF TypeOK, Current, Point, DocumentOrNone

\* Every variable but those named keeps its type because it keeps its value.
LEMMA SameIsTyped ==
    ASSUME TypeOK, UNCHANGED config,
           \/ UNCHANGED search
           \/ search' \in Point \cup {None}
    PROVE  /\ config' \in Configurations
           /\ search' \in (Point \cup {None})'
BY DEF TypeOK, Point, Projection

\* The initial state is typed.
LEMMA InitIsTyped == Init => TypeOK
<1> SUFFICES ASSUME Init PROVE TypeOK
  OBVIOUS
<1>1. client \in [Clients -> ClientState]
  <2>1. (CHOOSE op \in Operations : TRUE) \in Operations
    BY DocumentAssumption
  <2>2. MaxOperations \in 0..MaxOperations
    BY DocumentAssumption
  <2>3. QED
    BY <2>1, <2>2, EmptySeq DEF Init, ClientState
<1>2. log \in Seq(Entry) /\ 0 \in 0..MaxLost
  BY EmptySeq, DocumentAssumption DEF Init
<1>3. QED
  BY <1>1, <1>2 DEF Init, TypeOK

\* Every step keeps the types.
LEMMA StepIsTyped == TypeOK /\ [Next]_vars => TypeOK'
<1> SUFFICES ASSUME TypeOK, [Next]_vars
             PROVE  TypeOK'
  OBVIOUS
<1> USE DEF history
<1>1. ASSUME NEW c \in Clients, NEW op \in Operations, Start(c, op)
      PROVE  TypeOK'
  <2>1. client' \in [Clients -> ClientState]
    BY <1>1, DocumentAssumption DEF TypeOK, ClientState, Start, At
  <2>2. created' \in [Replicas -> 0..2 \cup {None}]
    BY <1>1 DEF TypeOK, Start
  <2>3. clean' \in BOOLEAN
    BY <1>1 DEF TypeOK, Start
  <2>4. QED
    BY <1>1, <2>1, <2>2, <2>3, SameIsTyped DEF TypeOK, Start
<1>2. ASSUME NEW c \in Clients, Lock(c)
      PROVE  TypeOK'
  BY <1>2, SameIsTyped DEF TypeOK, ClientState, Lock
<1>3. ASSUME NEW c \in Clients, Read(c)
      PROVE  TypeOK'
  <2>1. Plan(client[c].op, Current) \in Seq(Call)
    BY ClientParts, CurrentIsDocument, PlanIsLed, PlansAreSequences
  <2>2. client' \in [Clients -> ClientState]
    BY <1>3, <2>1, OverIsTyped DEF TypeOK, ClientState, Read
  <2>3. QED
    BY <1>3, <2>2, SameIsTyped DEF TypeOK, Read
<1>4. ASSUME NEW c \in Clients, ReadFails(c)
      PROVE  TypeOK'
  BY <1>4, OverIsTyped, SameIsTyped DEF TypeOK, ReadFails
<1>5. ASSUME NEW c \in Clients, SendToDocuments(c)
      PROVE  TypeOK'
  <2>1. client[c].todo # <<>>
    BY <1>5 DEF SendToDocuments, Sends
  <2>2. client' \in [Clients -> ClientState]
    BY <1>5, <2>1, NextCallParts DEF TypeOK, ClientState, SendToDocuments
  <2>3. docs' \in DocumentOrNone /\ stored' \subseteq Fields \X Values
    BY <1>5, <2>1, NextCallParts, ContentsAreTyped DEF TypeOK, SendToDocuments, StoreDocument
  <2>4. QED
    BY <1>5, <2>2, <2>3, SameIsTyped DEF TypeOK, SendToDocuments, DocumentOrNone
<1>6. ASSUME NEW c \in Clients, SendToSearch(c)
      PROVE  TypeOK'
  <2>1. client[c].todo # <<>>
    BY <1>6 DEF SendToSearch, Sends
  <2>2. \A pc \in {"send", "await"} :
            [client[c] EXCEPT !.todo = Tail(@), !.pc = pc, !.wrote = TRUE] \in ClientState
    BY <2>1, NextCallParts DEF TypeOK, ClientState
  <2>3. PICK pc \in {"send", "await"} :
            client' = [client EXCEPT ![c].todo = Tail(@), ![c].pc = pc, ![c].wrote = TRUE]
    BY <1>6 DEF SendToSearch
  <2>4. client' \in [Clients -> ClientState]
    BY <2>2, <2>3 DEF TypeOK
  <2>5. log' \in Seq(Entry)
    BY <1>6, <2>1, NextCallParts DEF TypeOK, Entry, SendToSearch
  <2>6. QED
    BY <1>6, <2>4, <2>5, SameIsTyped DEF TypeOK, SendToSearch
<1>7. ASSUME NEW c \in Clients, Spawn(c)
      PROVE  TypeOK'
  <2>1. client[c].todo # <<>>
    BY <1>7 DEF Spawn, Sends
  <2>2. InFlight(c) \in Flight
    BY <2>1, NextCallParts, ClientParts DEF InFlight, Flight
  <2>3. flight' \subseteq Flight
    BY <1>7, <2>2 DEF TypeOK, Spawn
  <2>4. client' \in [Clients -> ClientState]
    <3>1. [client[c] EXCEPT !.todo = Tail(@), !.wrote = TRUE] \in ClientState
      BY <2>1, NextCallParts DEF TypeOK, ClientState
    <3>2. QED
      BY <1>7, <3>1, OverIsTyped DEF TypeOK, Spawn
  <2>5. QED
    BY <1>7, <2>3, <2>4, SameIsTyped DEF TypeOK, Spawn
<1>8. ASSUME NEW c \in Clients, CallRefused(c)
      PROVE  TypeOK'
  BY <1>8, OverIsTyped, SameIsTyped DEF TypeOK, CallRefused
<1>9. ASSUME NEW c \in Clients, CallUnanswered(c)
      PROVE  TypeOK'
  <2>1. client[c].todo # <<>>
    BY <1>9 DEF CallUnanswered, Sends
  <2>2. flight' \subseteq Flight
    BY <1>9, <2>1, NextCallParts, ClientParts DEF TypeOK, InFlight, Flight, CallUnanswered
  <2>3. lost' \in 0..MaxLost
    BY <1>9, DocumentAssumption DEF TypeOK, CallUnanswered
  <2>4. client' \in [Clients -> ClientState]
    BY <1>9, OverIsTyped DEF TypeOK, CallUnanswered
  <2>5. QED
    BY <1>9, <2>2, <2>3, <2>4, SameIsTyped DEF TypeOK, CallUnanswered
<1>10. ASSUME NEW c \in Clients, AwaitUnanswered(c)
       PROVE  TypeOK'
  <2>1. log' \in Seq(Entry)
    <3>1. log \in Seq(Entry) /\ DOMAIN log = 1..Len(log) /\ Len(log) \in Nat
      BY LenProperties DEF TypeOK
    <3>2. \A i \in 1..Len(log) : log[i] \in Entry
      BY <3>1, ElementOfSeq
    <3>3. \A e \in Entry : [e EXCEPT !.by = None] \in Entry
      BY DEF Entry
    <3>4. log' \in [1..Len(log) -> Entry]
      BY <1>10, <3>1, <3>2, <3>3 DEF AwaitUnanswered
    <3>5. QED
      BY <3>1, <3>4, SeqDef
  <2>2. lost' \in 0..MaxLost
    BY <1>10, DocumentAssumption DEF TypeOK, AwaitUnanswered
  <2>3. client' \in [Clients -> ClientState]
    BY <1>10, OverIsTyped DEF TypeOK, AwaitUnanswered
  <2>4. QED
    BY <1>10, <2>1, <2>2, <2>3, SameIsTyped DEF TypeOK, AwaitUnanswered
<1>11. ASSUME NEW c \in Clients, Finish(c)
       PROVE  TypeOK'
  <2>1. client' \in [Clients -> ClientState]
    BY <1>11, OverIsTyped DEF TypeOK, Finish
  <2>2. expected' \in DocumentOrNone
    BY <1>11, ClientParts, OutcomeIsDocument DEF TypeOK, Finish, DocumentOrNone
  <2>3. created' \in [Replicas -> 0..2 \cup {None}]
    <3>1. \A n \in 0..2 \cup {None} : Counted(n) \in 0..2 \cup {None}
      BY DEF Counted
    <3>2. QED
      BY <1>11, <3>1 DEF TypeOK, Finish
  <2>4. QED
    BY <1>11, <2>1, <2>2, <2>3, SameIsTyped DEF TypeOK, Finish, DocumentOrNone
<1>12. ASSUME Apply
       PROVE  TypeOK'
  <2>1. Head(log) \in Entry /\ log' \in Seq(Entry)
    BY <1>12 DEF TypeOK, Apply
  <2>2. Head(log).m \in Mutation
    BY <2>1 DEF Entry
  <2>3. search' \in Point \cup {None}
    BY <1>12, <2>2, AppliedIsPoint DEF TypeOK, Apply
  <2>4. client' \in [Clients -> ClientState] /\ clean' \in BOOLEAN
    <3>1. \A c \in Clients : [client[c] EXCEPT !.pc = "send"] \in ClientState
      BY DEF TypeOK, ClientState
    <3>2. PICK next \in [Clients -> ClientState] : client' = next
      BY <1>12, <3>1, OverIsTyped DEF TypeOK, Apply
    <3>3. clean' \in BOOLEAN
      BY <1>12 DEF TypeOK, Apply
    <3>4. QED
      BY <3>2, <3>3
  <2>5. QED
    BY <1>12, <2>1, <2>3, <2>4, SameIsTyped DEF TypeOK, Apply
<1>13. ASSUME NEW f \in flight, FlightArrives(f)
       PROVE  TypeOK'
  <2>1. f.call.m \in Mutation
    BY DEF TypeOK, Flight, Call
  <2>2. f.call.m.doc \in DocumentOrNone
    BY <2>1, MutationParts DEF DocumentOrNone
  <2>3. docs' \in DocumentOrNone /\ stored' \subseteq Fields \X Values
    BY <1>13, <2>2, ContentsAreTyped DEF TypeOK, FlightArrives, StoreDocument, DocumentOrNone
  <2>4. log' \in Seq(Entry)
    <3>1. log' = log \/ log' = Append(log, [m |-> f.call.m, by |-> None])
      BY <1>13 DEF FlightArrives
    <3>2. [m |-> f.call.m, by |-> None] \in Entry
      BY <2>1 DEF Entry
    <3>3. QED
      BY <3>1, <3>2 DEF TypeOK
  <2>5. QED
    BY <1>13, <2>3, <2>4, SameIsTyped DEF TypeOK, FlightArrives, DocumentOrNone
<1>14. ASSUME NEW f \in flight, FlightLost(f)
       PROVE  TypeOK'
  BY <1>14, SameIsTyped DEF TypeOK, FlightLost
<1>15. CASE UNCHANGED vars
  BY <1>15, SameIsTyped DEF TypeOK, vars
<1>16. QED
  BY <1>1, <1>2, <1>3, <1>4, <1>5, <1>6, <1>7, <1>8, <1>9, <1>10, <1>11, <1>12,
     <1>13, <1>14, <1>15 DEF Next

(* Every variable keeps its type (TypeOK): whatever the replicas, the       *)
(* operations and the settings, only points and documents are stored, and  *)
(* under Projection no source in the search collection.                    *)
THEOREM TypesHold == Spec => []TypeOK
BY InitIsTyped, StepIsTyped, PTL DEF Spec

----------------------------------------------------------------------------
(* The document collection comes first.                                    *)

\* A point has only what is in a set of fields and values.
Held(point, pairs) ==
    point # None =>
        /\ \A f \in MetaFields : point.payload[f] # None => <<f, point.payload[f]>> \in pairs
        /\ \A v \in OwnVectors :
            point.own[v] # None =>
                \E f \in {FieldOf[v], v} : <<f, point.own[v]>> \in pairs

\* A call for the search collection has only what has been stored.
Backed(call) == call.to = "search" => Contents(call.m.doc) \subseteq stored

\* What is left of a plan has been stored, or stores before it sends.
Behind(todo) ==
    \/ Led(todo)
    \/ \E a \in Call : todo = <<a>> /\ a.to = "search" /\ Backed(a)

(* The induction: the search collection, its log, the calls in flight and   *)
(* the rest of every plan have nothing that has not been stored.            *)
BoundaryInv ==
    /\ Held(search, stored)
    /\ \A i \in 1..Len(log) : Contents(log[i].m.doc) \subseteq stored
    /\ \A f \in flight : Backed(f.call)
    /\ \A c \in Clients : Behind(client[c].todo)

Boundary == Projection => BoundaryInv

\* A document has exactly its contents.
LEMMA ContentsOfDocument ==
    ASSUME NEW doc \in Document, NEW f \in Fields, doc[f] # None
    PROVE  <<f, doc[f]>> \in Contents(doc)
BY DocumentAssumption DEF Document, Contents

\* A mutation adds no more than its document to a point.
LEMMA AppliedIsHeld ==
    ASSUME NEW point \in Point \cup {None}, NEW m \in Mutation, NEW pairs,
           Held(point, pairs), Contents(m.doc) \subseteq pairs
    PROVE  Held(Applied(point, m), pairs)
<1>1. CASE m.kind = "put"
  <2>1. m.doc \in Document /\ Applied(point, m) = PointOf(m.doc)
    BY <1>1, MutationParts DEF Applied
  <2>2. \A f \in Fields : m.doc[f] # None => <<f, m.doc[f]>> \in pairs
    BY <2>1, ContentsOfDocument
  <2>3. \A v : TextOf(m.doc, v) # None =>
            \E f \in {FieldOf[v], v} : <<f, TextOf(m.doc, v)>> \in pairs
    BY <2>1, <2>2, TextOfField
  <2>4. QED
    BY <2>1, <2>2, <2>3 DEF Held, PointOf, Only, Fields
<1>2. CASE m.kind = "payload" /\ point # None
  <2>1. m.doc \in Document /\ Applied(point, m) = SetPayload(point, m.doc)
    BY <1>2, MutationParts DEF Applied
  <2>2. \A f \in MetaFields : m.doc[f] # None => <<f, m.doc[f]>> \in pairs
    BY <2>1, ContentsOfDocument DEF Fields
  <2>3. /\ SetPayload(point, m.doc).own = point.own
        /\ SetPayload(point, m.doc).payload =
                [f \in MetaFields |-> IF m.doc[f] # None THEN m.doc[f] ELSE point.payload[f]]
    BY <1>2 DEF SetPayload, Point
  <2>4. QED
    BY <1>2, <2>1, <2>2, <2>3 DEF Held
<1>3. CASE m.kind = "delete" \/ (m.kind = "payload" /\ point = None)
  BY <1>3 DEF Applied, Held
<1>4. QED
  BY <1>1, <1>2, <1>3, MutationParts

\* The set of what has been stored only grows.
LEMMA StoredGrows == ASSUME [Next]_vars PROVE stored \subseteq stored'
BY DEF Next, vars, history, Start, Lock, Read, ReadFails, SendToDocuments, SendToSearch,
       Spawn, CallRefused, CallUnanswered, AwaitUnanswered, Finish, Apply,
       FlightArrives, FlightLost, StoreDocument

\* What is backed stays so.
LEMMA BackedStays ==
    ASSUME stored \subseteq stored'
    PROVE  /\ \A point : Held(point, stored) => Held(point, stored')
           /\ \A call : Backed(call) => Backed(call)'
           /\ \A todo : Behind(todo) => Behind(todo)'
<1>1. \A point : Held(point, stored) => Held(point, stored')
  BY DEF Held
<1>2. \A call : Contents(call.m.doc) \subseteq stored => Contents(call.m.doc) \subseteq stored'
  OBVIOUS
<1>3. QED
  BY <1>1, <1>2 DEF Backed, Behind, Led

\* Nothing sent and nothing planned: the boundary stays.
LEMMA BoundaryStays ==
    ASSUME BoundaryInv, [Next]_vars,
           UNCHANGED search, UNCHANGED log, flight' \subseteq flight,
           \A c \in Clients : client[c].todo' \in {client[c].todo, <<>>}
    PROVE  BoundaryInv'
<1>1. stored \subseteq stored'
  BY StoredGrows
<1>2. Held(search, stored)'
  BY <1>1, BackedStays DEF BoundaryInv
<1>3. (\A i \in 1..Len(log) : Contents(log[i].m.doc) \subseteq stored)'
  BY <1>1 DEF BoundaryInv
<1>4. (\A f \in flight : Backed(f.call))'
  BY <1>1, BackedStays DEF BoundaryInv
<1>5. (\A c \in Clients : Behind(client[c].todo))'
  <2>1. ASSUME NEW c \in Clients
        PROVE  Behind(client[c].todo)'
    <3>1. Behind(client[c].todo)
      BY DEF BoundaryInv
    <3>2. CASE client[c].todo' = client[c].todo
      BY <1>1, <3>1, <3>2, BackedStays
    <3>3. CASE client[c].todo' = <<>>
      BY <3>3 DEF Behind, Led
    <3>4. QED
      BY <3>2, <3>3
  <2>2. QED
    BY <2>1
<1>6. QED
  BY <1>2, <1>3, <1>4, <1>5 DEF BoundaryInv

\* A plan that has a call for the document collection next waits for it and
\* is left with what that call stores.
LEMMA NextOfPlan ==
    ASSUME NEW todo \in Seq(Call), todo # <<>>, Behind(todo)
    PROVE  /\ Head(todo).to = "search" => Backed(Head(todo)) /\ Tail(todo) = <<>>
           /\ Head(todo).to = "docs" => Head(todo).mode = "wait"
           /\ Head(todo).to = "docs" =>
                \/ Tail(todo) = <<>>
                \/ \E b \in Call : /\ Tail(todo) = <<b>> /\ b.to = "search"
                                   /\ b.m.doc = Head(todo).m.doc
<1>1. CASE \E a \in Call : todo = <<a>> /\ a.to = "docs" /\ a.mode = "wait"
  BY <1>1
<1>2. CASE \E a, b \in Call : /\ todo = <<a, b>>
                              /\ a.to = "docs" /\ a.mode = "wait" /\ b.to = "search"
                              /\ a.m.doc = b.m.doc
  <2>1. PICK a, b \in Call : /\ todo = <<a, b>>
                            /\ a.to = "docs" /\ a.mode = "wait" /\ b.to = "search"
                            /\ a.m.doc = b.m.doc
    BY <1>2
  <2>2. Head(todo) = a /\ Tail(todo) = <<b>>
    BY <2>1
  <2>3. QED
    BY <2>1, <2>2
<1>3. CASE \E a \in Call : todo = <<a>> /\ a.to = "search" /\ Backed(a)
  <2>1. PICK a \in Call : todo = <<a>> /\ a.to = "search" /\ Backed(a)
    BY <1>3
  <2>2. Head(todo) = a /\ Tail(todo) = <<>>
    BY <2>1
  <2>3. QED
    BY <2>1, <2>2
<1>4. QED
  BY <1>1, <1>2, <1>3 DEF Behind, Led

\* The plan of a client that is about to send.
LEMMA NextOfClient ==
    ASSUME TypeOK, BoundaryInv, NEW c \in Clients, client[c].todo # <<>>
    PROVE  /\ NextCall(c).to = "search" => Backed(NextCall(c)) /\ Tail(client[c].todo) = <<>>
           /\ NextCall(c).to = "docs" => NextCall(c).mode = "wait"
           /\ NextCall(c).to = "docs" =>
                \/ Tail(client[c].todo) = <<>>
                \/ \E b \in Call : /\ Tail(client[c].todo) = <<b>> /\ b.to = "search"
                                   /\ b.m.doc = NextCall(c).m.doc
<1>1. client[c].todo \in Seq(Call) /\ Behind(client[c].todo)
  BY ClientParts DEF BoundaryInv
<1>2. QED
  BY <1>1, NextOfPlan DEF NextCall

\* The initial state has nothing.
LEMMA InitIsBehind == Init => Boundary
BY DEF Init, Boundary, BoundaryInv, Held, Behind, Led

\* Every step keeps the boundary.
LEMMA StepKeepsBoundary == TypeOK /\ Boundary /\ [Next]_vars => Boundary'
<1> SUFFICES ASSUME TypeOK, Boundary, [Next]_vars, Projection'
             PROVE  BoundaryInv'
  BY DEF Boundary
<1> USE DEF history
<1>a. config' = config
  BY DEF Next, vars, Start, Lock, Read, ReadFails, SendToDocuments, SendToSearch,
         Spawn, CallRefused, CallUnanswered, AwaitUnanswered, Finish, Apply,
         FlightArrives, FlightLost
<1>b. Projection /\ BoundaryInv
  BY <1>a DEF Projection, Boundary
<1>c. stored \subseteq stored'
  BY StoredGrows
<1>d. /\ \A c \in Clients : Behind(client[c].todo) => Behind(client[c].todo)'
                          \/ client[c].todo' # client[c].todo
      /\ \A f \in flight : Backed(f.call)'
      /\ \A i \in 1..Len(log) : Contents(log[i].m.doc) \subseteq stored'
      /\ Held(search, stored')
  BY <1>b, <1>c, BackedStays DEF BoundaryInv
<1>1. ASSUME NEW c \in Clients, NEW op \in Operations, Start(c, op)
      PROVE  BoundaryInv'
  BY <1>1, <1>b, BoundaryStays DEF Start, TypeOK, ClientState
<1>2. ASSUME NEW c \in Clients,
             Lock(c) \/ ReadFails(c) \/ CallRefused(c) \/ Finish(c)
      PROVE  BoundaryInv'
  <2>1. ASSUME NEW d \in Clients
        PROVE  client[d].todo' \in {client[d].todo, <<>>}
    <3>1. client[c] \in ClientState /\ client \in [Clients -> ClientState]
      BY DEF TypeOK
    <3>2. CASE Lock(c)
      BY <3>1, <3>2 DEF Lock, ClientState
    <3>3. CASE ReadFails(c) \/ CallRefused(c) \/ Finish(c)
      <4>1. client' = [client EXCEPT ![c] = Over(c)]
        BY <3>3 DEF ReadFails, CallRefused, Finish
      <4>2. QED
        BY <3>1, <4>1 DEF Over, ClientState
    <3>4. QED
      BY <1>2, <3>2, <3>3
  <2>2. UNCHANGED search /\ UNCHANGED log /\ UNCHANGED flight
    BY <1>2 DEF Lock, ReadFails, CallRefused, Finish
  <2>3. QED
    BY <1>b, <2>1, <2>2, BoundaryStays
<1>3. ASSUME NEW c \in Clients, Read(c)
      PROVE  BoundaryInv'
  <2>1. Led(Plan(client[c].op, Current))
    BY <1>b, ClientParts, CurrentIsDocument, PlanIsLed
  <2>2. ASSUME NEW d \in Clients
        PROVE  Behind(client[d].todo)'
    <3>1. \/ client[d].todo' = client[d].todo
          \/ client[d].todo' = <<>>
          \/ client[d].todo' = Plan(client[c].op, Current)
      BY <1>3 DEF Read, Over, TypeOK, ClientState
    <3>2. Led(client[d].todo') \/ client[d].todo' = client[d].todo
      BY <2>1, <3>1 DEF Led
    <3>3. QED
      BY <1>b, <1>d, <3>2 DEF Behind, BoundaryInv, Led
  <2>3. QED
    BY <1>3, <1>b, <2>2 DEF Read, BoundaryInv, Backed, Held
<1>4. ASSUME NEW c \in Clients, SendToDocuments(c)
      PROVE  BoundaryInv'
  <2>1. client[c].todo # <<>> /\ NextCall(c).to = "docs"
    BY <1>4 DEF SendToDocuments, Sends
  <2>2. Contents(NextCall(c).m.doc) \subseteq stored'
    BY <1>4 DEF SendToDocuments, StoreDocument
  <2>3. client[c].todo' = Tail(client[c].todo)
    BY <1>4 DEF SendToDocuments, TypeOK, ClientState
  <2>4. Behind(client[c].todo)'
    <3>1. CASE Tail(client[c].todo) = <<>>
      BY <2>3, <3>1 DEF Behind, Led
    <3>2. CASE \E b \in Call : /\ Tail(client[c].todo) = <<b>> /\ b.to = "search"
                               /\ b.m.doc = NextCall(c).m.doc
      BY <2>2, <2>3, <3>2 DEF Behind, Backed
    <3>3. QED
      BY <1>b, <2>1, <3>1, <3>2, NextOfClient
  <2>5. ASSUME NEW d \in Clients
        PROVE  Behind(client[d].todo)'
    <3>1. CASE d = c
      BY <2>4, <3>1
    <3>2. CASE d # c
      BY <1>4, <1>b, <1>d, <3>2 DEF SendToDocuments, TypeOK, BoundaryInv
    <3>3. QED
      BY <3>1, <3>2
  <2>6. search' = search /\ log' = log /\ flight' = flight
    BY <1>4 DEF SendToDocuments
  <2>7. QED
    BY <1>d, <2>5, <2>6 DEF BoundaryInv
<1>5. ASSUME NEW c \in Clients, SendToSearch(c)
      PROVE  BoundaryInv'
  <2>1. client[c].todo # <<>> /\ NextCall(c).to = "search"
    BY <1>5 DEF SendToSearch, Sends
  <2>2. Contents(NextCall(c).m.doc) \subseteq stored /\ Tail(client[c].todo) = <<>>
    BY <1>b, <2>1, NextOfClient DEF Backed
  <2>3. ASSUME NEW d \in Clients
        PROVE  Behind(client[d].todo)'
    <3>1. client[d].todo' \in {client[d].todo, <<>>}
      BY <1>5, <2>2 DEF SendToSearch, TypeOK, ClientState
    <3>2. QED
      BY <1>b, <1>d, <3>1 DEF Behind, BoundaryInv, Led
  <2>4. PICK by \in Clients \cup {None} : log' = Append(log, [m |-> NextCall(c).m, by |-> by])
    BY <1>5 DEF SendToSearch
  <2>5. (\A i \in 1..Len(log) : Contents(log[i].m.doc) \subseteq stored)'
    BY <1>5, <1>b, <2>2, <2>4 DEF SendToSearch, BoundaryInv, TypeOK
  <2>6. search' = search /\ flight' = flight
    BY <1>5 DEF SendToSearch
  <2>7. QED
    BY <1>d, <2>3, <2>5, <2>6 DEF BoundaryInv
<1>6. ASSUME NEW c \in Clients, Spawn(c) \/ CallUnanswered(c)
      PROVE  BoundaryInv'
  <2>1. client[c].todo # <<>>
    BY <1>6 DEF Spawn, CallUnanswered, Sends
  <2>2. flight' \subseteq flight \cup {InFlight(c)} /\ search' = search /\ log' = log
    BY <1>6 DEF Spawn, CallUnanswered
  <2>3. InFlight(c).call.to = "search" => Contents(InFlight(c).call.m.doc) \subseteq stored'
    BY <1>b, <1>c, <2>1, NextOfClient DEF InFlight, Backed
  <2>4. ASSUME NEW d \in Clients
        PROVE  Behind(client[d].todo)'
    <3>1. CASE client[d].todo' \in {client[d].todo, <<>>}
      BY <1>b, <1>d, <3>1 DEF Behind, BoundaryInv, Led
    <3>2. CASE d = c /\ client[d].todo' = Tail(client[c].todo) /\ NextCall(c).mode = "detached"
      BY <1>b, <2>1, <3>2, NextOfClient, NextCallParts DEF Behind, Led, Call
    <3>3. QED
      BY <1>6, <3>1, <3>2 DEF Spawn, CallUnanswered, Sends, Over, TypeOK, ClientState
  <2>5. QED
    BY <1>d, <2>2, <2>3, <2>4 DEF BoundaryInv, Backed
<1>7. ASSUME NEW c \in Clients, AwaitUnanswered(c)
      PROVE  BoundaryInv'
  <2>1. ASSUME NEW d \in Clients
        PROVE  Behind(client[d].todo)'
    <3>1. client[d].todo' \in {client[d].todo, <<>>}
      BY <1>7 DEF AwaitUnanswered, Over, TypeOK, ClientState
    <3>2. QED
      BY <1>b, <1>d, <3>1 DEF Behind, BoundaryInv, Led
  <2>2. Len(log') = Len(log) /\ \A i \in 1..Len(log) : log'[i].m = log[i].m
    <3>1. DOMAIN log = 1..Len(log) /\ Len(log) \in Nat /\ \A i \in 1..Len(log) : log[i] \in Entry
      BY LenProperties, ElementOfSeq DEF TypeOK
    <3>2. log' = [i \in 1..Len(log) |-> IF log[i].by = c
                                       THEN [log[i] EXCEPT !.by = None] ELSE log[i]]
      BY <1>7, <3>1 DEF AwaitUnanswered
    <3>3. \A i \in 1..Len(log) : log'[i].m = log[i].m
      BY <3>1, <3>2 DEF Entry
    <3>4. log' \in Seq(Entry)
      BY StepIsTyped DEF TypeOK
    <3>5. DOMAIN log' = 1..Len(log') /\ Len(log') \in Nat
      BY <3>4, LenProperties
    <3>6. Len(log') = Len(log)
      BY <3>1, <3>2, <3>5
    <3>7. QED
      BY <3>3, <3>6
  <2>3. search' = search /\ flight' = flight
    BY <1>7 DEF AwaitUnanswered
  <2>4. QED
    BY <1>d, <2>1, <2>2, <2>3 DEF BoundaryInv
<1>8. ASSUME Apply
      PROVE  BoundaryInv'
  <2>1. log # <<>> /\ log' = Tail(log) /\ search' = Applied(search, Head(log).m)
        /\ stored' = stored /\ flight' = flight
    BY <1>8 DEF Apply
  <2>2. log \in Seq(Entry) /\ Head(log) = log[1] /\ 1 \in 1..Len(log) /\ Head(log) \in Entry
    BY <2>1 DEF TypeOK
  <2>3. Held(search, stored)'
    BY <1>b, <2>1, <2>2, AppliedIsHeld DEF BoundaryInv, TypeOK, Entry
  <2>4. (\A i \in 1..Len(log) : Contents(log[i].m.doc) \subseteq stored)'
    BY <1>b, <2>1, <2>2 DEF BoundaryInv
  <2>5. ASSUME NEW d \in Clients
        PROVE  Behind(client[d].todo)'
    <3>1. client[d].todo' \in {client[d].todo, <<>>}
      <4>1. client[d] \in ClientState
        BY DEF TypeOK
      <4>2. \/ client'[d] = client[d]
            \/ client'[d] = [client[d] EXCEPT !.pc = "send"]
            \/ client'[d] = Over(d)
        BY <1>8 DEF Apply
      <4>3. QED
        BY <4>1, <4>2 DEF Over, ClientState
    <3>2. QED
      BY <1>b, <1>d, <3>1 DEF Behind, BoundaryInv, Led
  <2>6. QED
    BY <1>d, <2>1, <2>3, <2>4, <2>5 DEF BoundaryInv
<1>9. ASSUME NEW f \in flight, FlightArrives(f)
      PROVE  BoundaryInv'
  <2>1. Backed(f.call) /\ f.call.to \in {"docs", "search"}
    BY <1>b DEF BoundaryInv, TypeOK, Flight, Call
  <2>2. (\A i \in 1..Len(log) : Contents(log[i].m.doc) \subseteq stored)'
    <3>1. CASE f.call.to = "docs"
      BY <1>9, <1>d, <3>1 DEF FlightArrives
    <3>2. CASE f.call.to = "search"
      BY <1>9, <1>b, <2>1, <3>2 DEF FlightArrives, BoundaryInv, TypeOK, Backed
    <3>3. QED
      BY <2>1, <3>1, <3>2
  <2>3. search' = search /\ flight' \subseteq flight /\ client' = client
    BY <1>9 DEF FlightArrives
  <2>4. QED
    BY <1>b, <1>d, <2>2, <2>3 DEF BoundaryInv
<1>10. ASSUME NEW f \in flight, FlightLost(f)
       PROVE  BoundaryInv'
  BY <1>10, <1>b, BoundaryStays DEF FlightLost
<1>11. CASE UNCHANGED vars
  BY <1>11, <1>b, BoundaryStays DEF vars
<1>12. QED
  BY <1>1, <1>2, <1>3, <1>4, <1>5, <1>6, <1>7, <1>8, <1>9, <1>10, <1>11 DEF Next

(* The document collection is the durability boundary (DocumentFirst): of   *)
(* any clients, operations and settings, with calls refused, unanswered or *)
(* late, no step gives the search collection what was not stored.          *)
THEOREM BoundaryHolds == Spec => []DocumentFirst
<1>1. Boundary => DocumentFirst
  BY DEF Boundary, BoundaryInv, Held, DocumentFirst
<1>2. QED
  BY <1>1, InitIsTyped, StepIsTyped, InitIsBehind, StepKeepsBoundary, PTL DEF Spec

----------------------------------------------------------------------------
(* Who waits in the log.                                                   *)

\* An operation that somebody waits for is in the log once, and it is the one
\* that client waits for.
LogInv ==
    /\ \A i \in 1..Len(log) : log[i].by # None => client[log[i].by].pc = "await"
    /\ \A i, j \in 1..Len(log) : log[i].by # None /\ log[i].by = log[j].by => i = j

\* The log keeps its entries and its waiting clients.
LEMMA LogStays ==
    ASSUME LogInv, UNCHANGED log,
           \A c \in Clients : client[c].pc = "await" => client'[c].pc = "await",
           log \in Seq(Entry)
    PROVE  LogInv'
<1>1. \A i \in 1..Len(log) : log[i] \in Entry
  BY ElementOfSeq
<1>2. \A i \in 1..Len(log) : log[i].by \in Clients \cup {None}
  BY <1>1 DEF Entry
<1>3. QED
  BY <1>2 DEF LogInv

\* One entry more or less.
LEMMA LogAppended ==
    ASSUME log \in Seq(Entry), NEW e \in Entry
    PROVE  /\ Len(Append(log, e)) = Len(log) + 1
           /\ \A i \in 1..Len(log) : Append(log, e)[i] = log[i]
           /\ Append(log, e)[Len(log) + 1] = e
           /\ \A i \in 1..(Len(log) + 1) :
                i \in 1..Len(log) \/ (i = Len(log) + 1 /\ Append(log, e)[i] = e)
<1>1. Len(log) \in Nat
  BY LenProperties
<1>2. /\ Len(Append(log, e)) = Len(log) + 1
      /\ \A i \in 1..Len(log) : Append(log, e)[i] = log[i]
      /\ Append(log, e)[Len(log) + 1] = e
  BY AppendProperties
<1>3. QED
  BY <1>1, <1>2

LEMMA LogShortened ==
    ASSUME log \in Seq(Entry), log # <<>>
    PROVE  /\ Len(log) \in Nat \ {0}
           /\ Len(Tail(log)) = Len(log) - 1
           /\ \A i \in 1..Len(Tail(log)) : i + 1 \in 1..Len(log) /\ Tail(log)[i] = log[i + 1]
           /\ Head(log) = log[1] /\ Head(log) \in Entry /\ 1 \in 1..Len(log)
           /\ Tail(log) \in Seq(Entry)
OBVIOUS

\* A client that is given up no longer waits in the log.
Forsaken(c) ==
    [i \in DOMAIN log |-> IF log[i].by = c THEN [log[i] EXCEPT !.by = None] ELSE log[i]]

LEMMA LogForsaken ==
    ASSUME log \in Seq(Entry), NEW c \in Clients
    PROVE  /\ Len(Forsaken(c)) = Len(log)
           /\ Forsaken(c) \in Seq(Entry)
           /\ \A i \in 1..Len(log) :
                /\ Forsaken(c)[i].m = log[i].m
                /\ Forsaken(c)[i].by = IF log[i].by = c THEN None ELSE log[i].by
<1>1. DOMAIN log = 1..Len(log) /\ Len(log) \in Nat /\ \A i \in 1..Len(log) : log[i] \in Entry
  BY LenProperties, ElementOfSeq
<1>2. \A e \in Entry : /\ [e EXCEPT !.by = None] \in Entry
                       /\ [e EXCEPT !.by = None].m = e.m
                       /\ [e EXCEPT !.by = None].by = None
  BY DEF Entry
<1>3. Forsaken(c) \in [1..Len(log) -> Entry]
  BY <1>1, <1>2 DEF Forsaken
<1>4. Forsaken(c) \in Seq(Entry)
  BY <1>1, <1>3, SeqDef
<1>5. Len(Forsaken(c)) = Len(log)
  <2>1. DOMAIN Forsaken(c) = 1..Len(log)
    BY <1>1 DEF Forsaken
  <2>2. DOMAIN Forsaken(c) = 1..Len(Forsaken(c)) /\ Len(Forsaken(c)) \in Nat
    BY <1>4, LenProperties
  <2>3. QED
    BY <1>1, <2>1, <2>2
<1>6. ASSUME NEW i \in 1..Len(log)
      PROVE  /\ Forsaken(c)[i].m = log[i].m
             /\ Forsaken(c)[i].by = IF log[i].by = c THEN None ELSE log[i].by
  <2>1. Forsaken(c)[i] = IF log[i].by = c THEN [log[i] EXCEPT !.by = None] ELSE log[i]
    BY <1>1 DEF Forsaken
  <2>2. QED
    BY <1>1, <1>2, <2>1
<1>7. QED
  BY <1>4, <1>5, <1>6

LEMMA InitLog == Init => LogInv
BY DEF Init, LogInv

\* Every step keeps it.
LEMMA StepKeepsLog == TypeOK /\ LogInv /\ [Next]_vars => LogInv'
<1> SUFFICES ASSUME TypeOK, LogInv, [Next]_vars
             PROVE  LogInv'
  OBVIOUS
<1> USE DEF history
<1>a. /\ log \in Seq(Entry) /\ client \in [Clients -> ClientState]
      /\ \A i \in 1..Len(log) : log[i] \in Entry
      /\ \A i \in 1..Len(log) : log[i].by \in Clients \cup {None}
  <2>1. log \in Seq(Entry) /\ client \in [Clients -> ClientState]
    BY DEF TypeOK
  <2>2. \A i \in 1..Len(log) : log[i] \in Entry
    BY <2>1, ElementOfSeq
  <2>3. QED
    BY <2>1, <2>2 DEF Entry
<1>b. None \notin Clients
  BY DocumentAssumption
<1>c. \A c \in Clients : client[c].pc \in {"idle", "lock", "read", "send", "await"}
  BY <1>a DEF ClientState
<1>d. ASSUME NEW c \in Clients, NEW v, ~At(c, "await"), client' = [client EXCEPT ![c] = v]
      PROVE  \A d \in Clients : client[d].pc = "await" => client'[d].pc = "await"
  BY <1>a, <1>d DEF At
<1>1. ASSUME NEW c \in Clients, NEW op \in Operations, Start(c, op)
      PROVE  LogInv'
  <2>1. PICK v : client' = [client EXCEPT ![c] = v]
    BY <1>1 DEF Start
  <2>2. ~At(c, "await") /\ UNCHANGED log
    BY <1>1 DEF Start, At
  <2>3. QED
    BY <1>a, <1>d, <2>1, <2>2, LogStays
<1>2. ASSUME NEW c \in Clients,
             Lock(c) \/ Read(c) \/ ReadFails(c) \/ SendToDocuments(c) \/ Spawn(c)
                \/ CallRefused(c) \/ CallUnanswered(c) \/ Finish(c)
      PROVE  LogInv'
  <2>1. ~At(c, "await") /\ UNCHANGED log
    BY <1>2 DEF Lock, Read, ReadFails, SendToDocuments, Spawn, CallRefused,
                CallUnanswered, Finish, Sends, At
  <2>2. PICK v : client' = [client EXCEPT ![c] = v]
    BY <1>2 DEF Lock, Read, ReadFails, SendToDocuments, Spawn, CallRefused,
                CallUnanswered, Finish
  <2>3. QED
    BY <1>a, <1>d, <2>1, <2>2, LogStays
<1>3. ASSUME NEW c \in Clients, SendToSearch(c)
      PROVE  LogInv'
  <2>1. ~At(c, "await") /\ client[c].todo # <<>>
    BY <1>3 DEF SendToSearch, Sends, At
  <2>2. PICK by \in {c, None} :
            /\ log' = Append(log, [m |-> NextCall(c).m, by |-> by])
            /\ by = c => NextCall(c).mode = "wait"
    <3>1. CASE NextCall(c).mode = "wait"
      BY <1>3, <3>1 DEF SendToSearch
    <3>2. CASE NextCall(c).mode # "wait"
      BY <1>3, <1>b, <3>2 DEF SendToSearch
    <3>3. QED
      BY <3>1, <3>2
  <2> DEFINE e == [m |-> NextCall(c).m, by |-> by]
  <2>3. e \in Entry /\ e.by = by
    BY <2>1, NextCallParts DEF Entry
  <2> HIDE DEF e
  <2>4. /\ Len(log') = Len(log) + 1
        /\ \A i \in 1..Len(log) : log'[i] = log[i]
        /\ \A i \in 1..Len(log') : i \in 1..Len(log) \/ (i = Len(log) + 1 /\ log'[i] = e)
    BY <1>a, <2>2, <2>3, LogAppended DEF e
  <2>5. \A i \in 1..Len(log) : log[i].by # c
    BY <1>b, <2>1 DEF LogInv, At
  <2>6. \A d \in Clients : client[d].pc = "await" => client'[d].pc = "await"
    BY <1>3, <1>a, <2>1 DEF SendToSearch, At
  <2>7. by = c => client'[c].pc = "await"
    BY <1>3, <1>a, <2>2 DEF SendToSearch, ClientState
  <2>8. \A i \in 1..Len(log') : log'[i].by # None => client'[log'[i].by].pc = "await"
    BY <1>a, <2>2, <2>3, <2>4, <2>6, <2>7 DEF LogInv
  <2>9. \A i, j \in 1..Len(log') : log'[i].by # None /\ log'[i].by = log'[j].by => i = j
    BY <2>2, <2>3, <2>4, <2>5 DEF LogInv
  <2>10. QED
    BY <2>8, <2>9 DEF LogInv
<1>4. ASSUME NEW c \in Clients, AwaitUnanswered(c)
      PROVE  LogInv'
  <2>1. log' = Forsaken(c) /\ client' = [client EXCEPT ![c] = Over(c)]
    BY <1>4 DEF AwaitUnanswered, Forsaken
  <2>2. QED
    BY <1>a, <2>1, LogForsaken DEF LogInv
<1>5. ASSUME Apply
      PROVE  LogInv'
  <2>1. log # <<>> /\ log' = Tail(log)
    BY <1>5 DEF Apply
  <2>2. /\ \A i \in 1..Len(log') : i + 1 \in 1..Len(log) /\ log'[i] = log[i + 1]
        /\ Head(log) = log[1] /\ 1 \in 1..Len(log) /\ Len(log') = Len(log) - 1
        /\ Len(log) \in Nat
    BY <1>a, <2>1, LogShortened
  <2>3. \A d \in Clients : d # Head(log).by => client'[d] = client[d]
    BY <1>5, <1>a DEF Apply
  <2>4. \A i \in 1..Len(log') : log'[i].by # None => log'[i].by # Head(log).by
    BY <2>2 DEF LogInv
  <2>5. \A i \in 1..Len(log') : log'[i].by # None => client'[log'[i].by].pc = "await"
    BY <1>a, <2>2, <2>3, <2>4 DEF LogInv
  <2>6. ASSUME NEW i \in 1..Len(log'), NEW j \in 1..Len(log'),
               log'[i].by # None, log'[i].by = log'[j].by
        PROVE  i = j
    <3>1. i + 1 = j + 1
      BY <2>2, <2>6 DEF LogInv
    <3>2. QED
      BY <2>2, <3>1
  <2>7. QED
    BY <2>5, <2>6 DEF LogInv
<1>6. ASSUME NEW f \in flight, FlightArrives(f) \/ FlightLost(f)
      PROVE  LogInv'
  <2>1. client' = client
    BY <1>6 DEF FlightArrives, FlightLost
  <2>2. CASE log' = log
    BY <1>a, <2>1, <2>2, LogStays
  <2>3. CASE log' = Append(log, [m |-> f.call.m, by |-> None])
    <3> DEFINE e == [m |-> f.call.m, by |-> None]
    <3>1. e \in Entry /\ e.by = None
      BY DEF TypeOK, Flight, Call, Entry
    <3> HIDE DEF e
    <3>2. /\ Len(log') = Len(log) + 1
          /\ \A i \in 1..Len(log) : log'[i] = log[i]
          /\ \A i \in 1..Len(log') : i \in 1..Len(log) \/ (i = Len(log) + 1 /\ log'[i] = e)
      BY <1>a, <2>3, <3>1, LogAppended DEF e
    <3>3. QED
      BY <2>1, <3>1, <3>2 DEF LogInv
  <2>4. QED
    BY <1>6, <2>2, <2>3 DEF FlightArrives, FlightLost
<1>7. CASE UNCHANGED vars
  BY <1>7, <1>a, LogStays DEF vars
<1>8. QED
  BY <1>1, <1>2, <1>3, <1>4, <1>5, <1>6, <1>7 DEF Next

----------------------------------------------------------------------------
(* What a plan does.                                                       *)

\* A call that leaves a document, or its absence, in the document collection.
Storing(a, doc) ==
    /\ a \in Call
    /\ a.to = "docs" /\ a.mode = "wait" /\ a.m.doc = doc
    /\ doc # None => a.m.kind = "put"

\* A call that makes a point of one document a point of the next.
Projecting(b, op, current) ==
    /\ b \in Call
    /\ b.to = "search"
    /\ Projection => b.mode \in {"wait", "ack"}
    /\ \/ /\ b.m.kind = "put" /\ b.m.doc = Outcome(op, current) /\ b.m.doc \in Document
          /\ ~AsyncSearch => b.mode = "wait"
       \/ b.m.kind = "delete" /\ op.kind = "delete"
       \/ /\ b.m.kind = "payload" /\ op.kind = "update" /\ current # None
          /\ ~TouchesText(op.doc)
          /\ b.m.doc = Outcome(op, current) /\ b.m.doc \in Document

\* The plan of a request that found a document, or none.
Planned(todo, op, current) ==
    \/ todo = <<>> /\ Outcome(op, current) = current /\ op.kind \in {"delete", "update"}
    \/ ~Projection /\ \E b : todo = <<b>> /\ Projecting(b, op, current)
    \/ Projection /\ \E a, b : /\ todo = <<a, b>>
                               /\ Storing(a, Outcome(op, current))
                               /\ Projecting(b, op, current)
    \/ /\ Projection /\ op.kind = "update" /\ current # None
       /\ ~TouchesText(op.doc) /\ ~Touches(op.doc, MetaFields)
       /\ \E a : todo = <<a>> /\ Storing(a, Outcome(op, current))

\* An idle request means what it does, and the others what they aim at.
LEMMA TargetIsOutcome ==
    ASSUME NEW op \in Operations, NEW current \in DocumentOrNone
    PROVE  /\ Idle(op, current) => Outcome(op, current) = current
                                    /\ op.kind \in {"delete", "update"}
           /\ ~Idle(op, current) => Outcome(op, current) = Target(op, current)
<1>1. CASE op.kind \in {"index", "create", "delete"}
  BY <1>1 DEF Idle, Outcome, Target
<1>2. CASE op.kind = "update" /\ current = None
  BY <1>2 DEF Idle, Outcome, Target
<1>3. CASE op.kind = "update" /\ current # None
  <2>1. Outcome(op, current) = Merged(current, op.doc)
    <3>1. Outcome(op, current) =
            [f \in Fields |-> IF op.doc[f] = None THEN current[f] ELSE op.doc[f]]
      BY <1>3 DEF Outcome
    <3>2. \A f \in Fields : (IF op.doc[f] = None THEN current[f] ELSE op.doc[f])
                          = (IF op.doc[f] # None THEN op.doc[f] ELSE current[f])
      OBVIOUS
    <3>3. QED
      BY <3>1, <3>2 DEF Merged
  <2>2. Target(op, current) = Merged(current, op.doc)
    BY <1>3 DEF Target
  <2>3. Idle(op, current) => Merged(current, op.doc) = current
    BY <1>3 DEF Idle
  <2>4. QED
    BY <1>3, <2>1, <2>2, <2>3
<1>4. QED
  BY <1>1, <1>2, <1>3, OperationParts

\* write_docs as the plan of an operation,
LEMMA WriteDocsIsPlanned ==
    ASSUME NEW op \in Operations, NEW current \in DocumentOrNone,
           Outcome(op, current) \in Document
    PROVE  Planned(WriteDocs(Outcome(op, current)), op, current)
<1> DEFINE doc == Outcome(op, current)
           a == Put("docs", "wait", doc)
           b == Put("search", Mode(AsyncSearch), doc)
<1>1. a \in Call /\ b \in Call
  BY CallsAreCalls DEF Mode
<1>2. Storing(a, doc)
  BY <1>1 DEF Storing, Put
<1>3. Projecting(b, op, current)
  BY <1>1 DEF Projecting, Put, Mode
<1>4. WriteDocs(doc) = IF Projection THEN <<a>> \o <<b>> ELSE <<b>>
  BY DEF WriteDocs, Projected
<1> HIDE DEF a, b
<1>5. <<a>> \o <<b>> = <<a, b>>
  BY <1>1, Pair
<1>6. QED
  BY <1>2, <1>3, <1>4, <1>5 DEF Planned

\* ... delete_doc,
LEMMA DeleteDocIsPlanned ==
    ASSUME NEW op \in Operations, NEW current \in DocumentOrNone, op.kind = "delete"
    PROVE  Planned(DeleteDoc, op, current)
<1> DEFINE a == Delete("docs", "wait")
           b == Delete("search", Mode(AsyncSearch \/ AsyncPayload))
<1>1. a \in Call /\ b \in Call
  BY CallsAreCalls DEF Mode
<1>2. Outcome(op, current) = None
  BY DEF Outcome
<1>3. Storing(a, None)
  BY <1>1 DEF Storing, Delete
<1>4. Projecting(b, op, current)
  BY <1>1 DEF Projecting, Delete, Mode
<1>5. DeleteDoc = IF Projection THEN <<a>> \o <<b>> ELSE <<b>>
  BY DEF DeleteDoc, Projected
<1> HIDE DEF a, b
<1>6. <<a>> \o <<b>> = <<a, b>>
  BY <1>1, Pair
<1>7. QED
  BY <1>2, <1>3, <1>4, <1>5, <1>6 DEF Planned

\* ... update_doc, with a text field or without,
LEMMA UpdateDocIsPlanned ==
    ASSUME NEW op \in Operations, NEW current \in Document, op.kind = "update",
           Outcome(op, current) \in Document
    PROVE  Planned(UpdateDoc(Outcome(op, current), op.doc), op, current)
<1> DEFINE doc == Outcome(op, current)
<1>0. current # None /\ current \in DocumentOrNone
  BY DocumentAssumption DEF DocumentOrNone
<1>1. CASE TouchesText(op.doc)
  BY <1>0, <1>1, WriteDocsIsPlanned DEF UpdateDoc
<1>2. CASE ~TouchesText(op.doc) /\ Projection
  <2> DEFINE a == Put("docs", "wait", doc)
             b == Payload(Mode(AsyncSearch), doc)
  <2>1. a \in Call /\ b \in Call
    BY CallsAreCalls DEF Mode
  <2>2. Storing(a, doc)
    BY <2>1 DEF Storing, Put
  <2>3. Projecting(b, op, current)
    BY <1>0, <1>2, <2>1 DEF Projecting, Payload, Mode
  <2>4. UpdateDoc(doc, op.doc) =
            <<a>> \o IF Touches(op.doc, MetaFields) THEN <<b>> ELSE <<>>
    BY <1>2 DEF UpdateDoc
  <2> HIDE DEF a, b
  <2>5. <<a>> \o <<b>> = <<a, b>> /\ <<a>> \o <<>> = <<a>>
    BY <2>1, Pair, ConcatEmptySeq
  <2>6. QED
    BY <1>0, <1>2, <2>2, <2>3, <2>4, <2>5 DEF Planned
<1>3. CASE ~TouchesText(op.doc) /\ ~Projection
  <2> DEFINE b == Payload(IF AsyncPayload THEN "detached" ELSE "wait", doc)
  <2>1. b \in Call
    BY CallsAreCalls
  <2>2. Projecting(b, op, current)
    BY <1>0, <1>3, <2>1 DEF Projecting, Payload
  <2>3. UpdateDoc(doc, op.doc) = <<b>>
    BY <1>3 DEF UpdateDoc
  <2> HIDE DEF b
  <2>4. QED
    BY <1>3, <2>2, <2>3 DEF Planned
<1>4. QED
  BY <1>1, <1>2, <1>3

\* ... so every plan makes of what was found what the operation means.
LEMMA PlanIsPlanned ==
    ASSUME NEW op \in Operations, NEW current \in DocumentOrNone
    PROVE  Planned(Plan(op, current), op, current)
<1>0. Outcome(op, current) \in DocumentOrNone
  BY OutcomeIsDocument
<1>1. CASE Idle(op, current)
  BY <1>1, TargetIsOutcome DEF Plan, Planned
<1>2. CASE ~Idle(op, current) /\ op.kind = "delete"
  BY <1>2, DeleteDocIsPlanned DEF Plan
<1>3. CASE ~Idle(op, current) /\ op.kind = "update" /\ current # None
  <2>1. Plan(op, current) = UpdateDoc(Outcome(op, current), op.doc)
    BY <1>3, TargetIsOutcome DEF Plan
  <2>2. current \in Document /\ Outcome(op, current) \in Document
    BY <1>3, OperationParts, MergedIsDocument, TargetIsOutcome DEF Target, DocumentOrNone
  <2>3. QED
    BY <1>3, <2>1, <2>2, UpdateDocIsPlanned
<1>4. CASE /\ ~Idle(op, current) /\ op.kind # "delete"
           /\ ~(op.kind = "update" /\ current # None)
  <2>1. Plan(op, current) = WriteDocs(Outcome(op, current))
    BY <1>4, TargetIsOutcome DEF Plan
  <2>2. Outcome(op, current) \in Document
    BY <1>4, OperationParts, TargetIsOutcome DEF Target, DocumentOrNone, Idle
  <2>3. QED
    BY <2>1, <2>2, WriteDocsIsPlanned
<1>5. QED
  BY <1>1, <1>2, <1>3, <1>4

----------------------------------------------------------------------------
(* Creations exclude each other.                                           *)

\* The write to the search collection is waited for unless the document
\* collection has the document: what docs/production.md asks of a deployment
\* with asynchronous search projection.
AsyncProjects == \A k \in Configurations : k.asyncSearch => k.projection

Harmless(todo) == \A i \in 1..Len(todo) : todo[i].m.kind # "delete"

\* Nothing under way deletes.
Deletionless ==
    /\ \A c \in Clients : client[c].pc # "idle" => client[c].op.kind # "delete"
    /\ \A c \in Clients : Harmless(client[c].todo)
    /\ Harmless(log)
    /\ \A f \in flight : f.call.m.kind # "delete"

Creating(c) ==
    client[c].op.kind = "create" /\ client[c].pc \in {"read", "send", "await"}

\* The document is there, or it is the next thing to be stored, and waited for.
Begun(c) ==
    \/ Current # None
    \/ /\ client[c].todo # <<>>
       /\ NextCall(c).m.kind = "put" /\ NextCall(c).mode = "wait"
       /\ NextCall(c).to = IF Projection THEN "docs" ELSE "search"

\* The document is there, or what is waited for is its storing.
Entered(c) ==
    \/ Current # None
    \/ /\ ~Projection
       /\ \A i \in 1..Len(log) : log[i].by = c => log[i].m.kind = "put"

\* The lock of a process is held by one creation,
OneCreates ==
    \A c, d \in Clients :
        Creating(c) /\ Creating(d) /\ ReplicaOf[c] = ReplicaOf[d] => c = d

\* ... which has found no document and is about to store one,
CreationProceeds(c) ==
    /\ created[ReplicaOf[c]] = 0
    /\ client[c].pc = "send" => Begun(c)
    /\ client[c].pc = "await" => Entered(c)

\* ... and which, answered, has stored it.
CreatedIsThere ==
    \A r \in Replicas : created[r] \in {0, 1} /\ (created[r] = 1 => Current # None)

CreateInv ==
    \/ \A r \in Replicas : created[r] = None
    \/ /\ Deletionless
       /\ OneCreates
       /\ CreatedIsThere
       /\ \A c \in Clients :
            client[c].op.kind = "create" /\ client[c].pc \in {"send", "await"}
                => CreationProceeds(c)

\* What is read is there when its collection has it.
LEMMA CurrentIsThere ==
    ASSUME TypeOK
    PROVE  Current # None <=> IF Projection THEN docs # None ELSE search # None
<1>1. CASE Projection
  BY <1>1 DEF Current
<1>2. CASE ~Projection
  <2>1. search # None => search.source \in Document
    BY <1>2 DEF TypeOK, Point
  <2>2. QED
    BY <1>2, <2>1, DocumentAssumption DEF Current
<1>3. QED
  BY <1>1, <1>2

\* A point is never mistaken for the absence of one,
LEMMA PointIsSome == \A point \in Point : point # None
BY DocumentAssumption DEF Point

\* ... so only a deletion makes it absent.
LEMMA AppliedIsSome ==
    ASSUME NEW point \in Point \cup {None}, NEW m \in Mutation, m.kind # "delete"
    PROVE  /\ point # None => Applied(point, m) # None
           /\ m.kind = "put" => Applied(point, m) # None
           /\ m.doc \in Document /\ m.doc # None
<1>1. m.kind \in {"put", "payload"} /\ m.doc \in Document
  BY MutationParts
<1>2. PointOf(m.doc) # None
  BY <1>1, PointOfIsPoint, PointIsSome
<1>3. point # None => SetPayload(point, m.doc) # None
  BY <1>1, SetPayloadIsPoint, PointIsSome
<1>4. QED
  BY <1>1, <1>2, <1>3, DocumentAssumption DEF Applied

\* The rest of a harmless plan, and its next call.
LEMMA HarmlessRest ==
    ASSUME NEW S, NEW todo \in Seq(S), todo # <<>>, Harmless(todo)
    PROVE  Harmless(Tail(todo)) /\ Head(todo).m.kind # "delete"
<1>1. /\ Len(todo) \in Nat \ {0} /\ Head(todo) = todo[1]
      /\ Len(Tail(todo)) = Len(todo) - 1
      /\ \A i \in 1..Len(Tail(todo)) : Tail(todo)[i] = todo[i + 1] /\ i + 1 \in 1..Len(todo)
  OBVIOUS
<1>2. 1 \in 1..Len(todo)
  BY <1>1
<1>3. QED
  BY <1>1, <1>2 DEF Harmless

\* Only the plan of a deletion deletes.
LEMMA PlanIsHarmless ==
    ASSUME NEW op \in Operations, NEW current \in DocumentOrNone, op.kind # "delete"
    PROVE  Harmless(Plan(op, current))
<1> DEFINE todo == Plan(op, current)
<1>1. Planned(todo, op, current)
  BY PlanIsPlanned
<1> HIDE DEF todo
<1>2. ASSUME NEW a, Storing(a, Outcome(op, current)), Outcome(op, current) \in Document
      PROVE  a.m.kind # "delete"
  BY <1>2, DocumentAssumption DEF Storing
<1>3. ASSUME NEW b, Projecting(b, op, current)
      PROVE  b.m.kind # "delete"
  BY <1>3 DEF Projecting
<1>4. CASE todo = <<>>
  BY <1>4 DEF Harmless, todo
<1>5. CASE ~Projection /\ \E b : todo = <<b>> /\ Projecting(b, op, current)
  BY <1>3, <1>5 DEF Harmless, todo
<1>6. CASE Projection /\ \E a, b : /\ todo = <<a, b>>
                                   /\ Storing(a, Outcome(op, current))
                                   /\ Projecting(b, op, current)
  <2>1. PICK a, b : /\ todo = <<a, b>>
                    /\ Storing(a, Outcome(op, current))
                    /\ Projecting(b, op, current)
    BY <1>6
  <2>2. Outcome(op, current) \in Document
    BY <2>1 DEF Projecting
  <2>3. a.m.kind # "delete" /\ b.m.kind # "delete"
    BY <1>2, <1>3, <2>1, <2>2
  <2>4. QED
    BY <2>1, <2>3 DEF Harmless, todo
<1>7. CASE /\ op.kind = "update" /\ current # None
           /\ \E a : todo = <<a>> /\ Storing(a, Outcome(op, current))
  <2>1. PICK a : todo = <<a>> /\ Storing(a, Outcome(op, current))
    BY <1>7
  <2>2. Outcome(op, current) \in Document
    <3>1. current \in Document /\ op.doc \in Document
      BY <1>7, OperationParts DEF DocumentOrNone
    <3>2. Outcome(op, current) =
            [f \in Fields |-> IF op.doc[f] = None THEN current[f] ELSE op.doc[f]]
      BY <1>7 DEF Outcome
    <3>3. QED
      BY <3>1, <3>2 DEF Document
  <2>3. QED
    BY <1>2, <2>1, <2>2 DEF Harmless, todo
<1>8. QED
  BY <1>1, <1>4, <1>5, <1>6, <1>7 DEF Planned

\* Until a deletion starts, nothing deletes.
LEMMA StepIsDeletionless ==
    ASSUME TypeOK, LogInv, Deletionless, [Next]_vars,
           \A c \in Clients, op \in Operations : Start(c, op) => op.kind # "delete"
    PROVE  Deletionless'
<1> USE DEF history
<1>a. client \in [Clients -> ClientState] /\ log \in Seq(Entry)
  BY DEF TypeOK
<1>b. \A c \in Clients : client[c] \in ClientState /\ client[c].todo \in Seq(Call)
  BY <1>a DEF ClientState
<1>c. ASSUME NEW c \in Clients, NEW v \in ClientState,
             client' = [client EXCEPT ![c] = v], log' = log, flight' \subseteq flight,
             v.pc # "idle" => v.op.kind # "delete", Harmless(v.todo)
      PROVE  Deletionless'
  BY <1>a, <1>c DEF Deletionless
<1>d. Harmless(<<>>)
  BY DEF Harmless
<1>e. \A c \in Clients : /\ Over(c) \in ClientState
                         /\ Over(c).pc = "idle" /\ Harmless(Over(c).todo)
  BY <1>b, <1>d, OverIsTyped DEF Over, ClientState
<1>1. ASSUME NEW c \in Clients, NEW op \in Operations, Start(c, op)
      PROVE  Deletionless'
  <2>1. op.kind # "delete"
    BY <1>1
  <2>2. client'[c].op = op /\ client'[c].todo = client[c].todo
        /\ \A d \in Clients : d # c => client'[d] = client[d]
    BY <1>1, <1>a, <1>b DEF Start, ClientState
  <2>3. \A d \in Clients : /\ client'[d].pc # "idle" => client'[d].op.kind # "delete"
                           /\ Harmless(client'[d].todo)
    BY <2>1, <2>2 DEF Deletionless
  <2>4. log' = log /\ flight' = flight
    BY <1>1 DEF Start
  <2>5. QED
    BY <2>3, <2>4 DEF Deletionless
<1>2. ASSUME NEW c \in Clients, Lock(c)
      PROVE  Deletionless'
  <2>1. client'[c].op = client[c].op /\ client'[c].todo = client[c].todo
        /\ client[c].pc = "lock"
        /\ \A d \in Clients : d # c => client'[d] = client[d]
    BY <1>2, <1>a, <1>b DEF Lock, ClientState, At
  <2>2. log' = log /\ flight' = flight
    BY <1>2 DEF Lock
  <2>3. \A d \in Clients : /\ client'[d].pc # "idle" => client'[d].op.kind # "delete"
                           /\ Harmless(client'[d].todo)
    BY <2>1 DEF Deletionless
  <2>4. QED
    BY <2>2, <2>3 DEF Deletionless
<1>3. ASSUME NEW c \in Clients, Read(c)
      PROVE  Deletionless'
  <2>1. log' = log /\ flight' = flight /\ client[c].pc = "read"
    BY <1>3 DEF Read, At
  <2>2. CASE client' = [client EXCEPT ![c] = Over(c)]
    BY <1>c, <1>e, <2>1, <2>2
  <2>3. CASE client' = [client EXCEPT ![c] = [@ EXCEPT !.pc = "send",
                                                       !.todo = Plan(client[c].op, Current)]]
    <3>1. client[c].op \in Operations /\ client[c].op.kind # "delete"
      BY <2>1, ClientParts DEF Deletionless
    <3>2. Harmless(Plan(client[c].op, Current))
      BY <3>1, CurrentIsDocument, PlanIsHarmless
    <3>3. client'[c].op = client[c].op /\ client'[c].todo = Plan(client[c].op, Current)
          /\ \A d \in Clients : d # c => client'[d] = client[d]
      BY <1>a, <1>b, <2>3 DEF ClientState
    <3>4. \A d \in Clients : /\ client'[d].pc # "idle" => client'[d].op.kind # "delete"
                             /\ Harmless(client'[d].todo)
      BY <3>1, <3>2, <3>3 DEF Deletionless
    <3>5. QED
      BY <2>1, <3>4 DEF Deletionless
  <2>4. QED
    BY <1>3, <2>2, <2>3 DEF Read
<1>4. ASSUME NEW c \in Clients, ReadFails(c) \/ CallRefused(c) \/ Finish(c)
      PROVE  Deletionless'
  BY <1>4, <1>c, <1>e DEF ReadFails, CallRefused, Finish
<1>5. ASSUME NEW c \in Clients, client[c].todo # <<>>
      PROVE  /\ Harmless(Tail(client[c].todo)) /\ NextCall(c).m.kind # "delete"
             /\ client[c].pc = "send" => client[c].op.kind # "delete"
  BY <1>5, <1>b, HarmlessRest DEF Deletionless, NextCall
<1>6. ASSUME NEW c \in Clients, NEW pc,
             client[c].pc = "send", client[c].todo # <<>>,
             client' = [client EXCEPT ![c].todo = Tail(@), ![c].pc = pc, ![c].wrote = TRUE]
      PROVE  \A d \in Clients : /\ client'[d].pc # "idle" => client'[d].op.kind # "delete"
                                /\ Harmless(client'[d].todo)
  <2>1. client'[c].op = client[c].op /\ client'[c].todo = Tail(client[c].todo)
        /\ \A d \in Clients : d # c => client'[d] = client[d]
    BY <1>6, <1>a, <1>b DEF ClientState
  <2>2. QED
    BY <1>5, <1>6, <2>1 DEF Deletionless
<1>7. ASSUME NEW c \in Clients, SendToDocuments(c)
      PROVE  Deletionless'
  <2>1. client[c].pc = "send" /\ client[c].todo # <<>>
    BY <1>7 DEF SendToDocuments, Sends, At
  <2>2. client' = [client EXCEPT ![c].todo = Tail(@), ![c].pc = "send", ![c].wrote = TRUE]
    BY <1>7, <1>a, <1>b, <2>1 DEF SendToDocuments, ClientState
  <2>3. log' = log /\ flight' = flight
    BY <1>7 DEF SendToDocuments
  <2>4. QED
    BY <1>6, <2>1, <2>2, <2>3 DEF Deletionless
<1>8. ASSUME NEW c \in Clients, SendToSearch(c)
      PROVE  Deletionless'
  <2>1. client[c].pc = "send" /\ client[c].todo # <<>> /\ flight' = flight
    BY <1>8 DEF SendToSearch, Sends, At
  <2>2. PICK pc : client' = [client EXCEPT ![c].todo = Tail(@), ![c].pc = pc,
                                           ![c].wrote = TRUE]
    BY <1>8 DEF SendToSearch
  <2>3. PICK by \in Clients \cup {None} :
            log' = Append(log, [m |-> NextCall(c).m, by |-> by])
    BY <1>8 DEF SendToSearch
  <2>4. [m |-> NextCall(c).m, by |-> by] \in Entry
    BY <2>1, NextCallParts DEF Entry
  <2>5. Harmless(log')
    BY <1>5, <1>a, <2>1, <2>3, <2>4, LogAppended DEF Harmless, Deletionless
  <2>6. QED
    BY <1>6, <2>1, <2>2, <2>5 DEF Deletionless
<1>9. ASSUME NEW c \in Clients, Spawn(c) \/ CallUnanswered(c)
      PROVE  Deletionless'
  <2>1. client[c].pc = "send" /\ client[c].todo # <<>> /\ log' = log
    BY <1>9 DEF Spawn, CallUnanswered, Sends, At
  <2>2. flight' \subseteq flight \cup {InFlight(c)}
    BY <1>9 DEF Spawn, CallUnanswered
  <2>3. \A f \in flight' : f.call.m.kind # "delete"
    BY <1>5, <2>1, <2>2 DEF InFlight, Deletionless
  <2>4. CASE client' = [client EXCEPT ![c] = Over(c)]
    <3>1. \A d \in Clients : /\ client'[d].pc # "idle" => client'[d].op.kind # "delete"
                             /\ Harmless(client'[d].todo)
      BY <1>a, <1>e, <2>4 DEF Deletionless
    <3>2. QED
      BY <2>1, <2>3, <3>1 DEF Deletionless
  <2>5. CASE client' = [client EXCEPT ![c].todo = Tail(@), ![c].wrote = TRUE]
    <3>1. client' = [client EXCEPT ![c].todo = Tail(@), ![c].pc = "send", ![c].wrote = TRUE]
      BY <1>a, <1>b, <2>1, <2>5 DEF ClientState
    <3>2. QED
      BY <1>6, <2>1, <2>3, <3>1 DEF Deletionless
  <2>6. QED
    BY <1>9, <2>4, <2>5 DEF Spawn, CallUnanswered
<1>10. ASSUME NEW c \in Clients, AwaitUnanswered(c)
       PROVE  Deletionless'
  <2>1. log' = Forsaken(c) /\ flight' = flight /\ client' = [client EXCEPT ![c] = Over(c)]
    BY <1>10 DEF AwaitUnanswered, Forsaken
  <2>2. Harmless(log')
    BY <1>a, <2>1, LogForsaken DEF Harmless, Deletionless
  <2>3. \A d \in Clients : /\ client'[d].pc # "idle" => client'[d].op.kind # "delete"
                           /\ Harmless(client'[d].todo)
    BY <1>a, <1>e, <2>1 DEF Deletionless
  <2>4. QED
    BY <2>1, <2>2, <2>3 DEF Deletionless
<1>11. ASSUME Apply
       PROVE  Deletionless'
  <2>1. log # <<>> /\ log' = Tail(log) /\ flight' = flight
    BY <1>11 DEF Apply
  <2>2. Harmless(log')
    BY <1>a, <2>1, HarmlessRest DEF Deletionless
  <2>3. ASSUME NEW d \in Clients
        PROVE  /\ client'[d].pc # "idle" => client'[d].op.kind # "delete"
               /\ Harmless(client'[d].todo)
    <3>1. \/ client'[d] = client[d]
          \/ d = Head(log).by /\ client'[d] = [client[d] EXCEPT !.pc = "send"]
          \/ client'[d] = Over(d)
      BY <1>11 DEF Apply
    <3>2. CASE client'[d] = client[d]
      BY <3>2 DEF Deletionless
    <3>3. CASE client'[d] = Over(d)
      BY <1>e, <3>3
    <3>4. CASE d = Head(log).by /\ client'[d] = [client[d] EXCEPT !.pc = "send"]
      <4>1. client'[d].op = client[d].op /\ client'[d].todo = client[d].todo
        BY <1>b, <3>4 DEF ClientState
      <4>2. client[d].pc = "await"
        <5>1. 1 \in 1..Len(log) /\ Head(log) = log[1]
          BY <1>a, <2>1, LogShortened
        <5>2. d # None
          BY DocumentAssumption
        <5>3. QED
          BY <3>4, <5>1, <5>2 DEF LogInv
      <4>3. QED
        BY <4>1, <4>2 DEF Deletionless
    <3>5. QED
      BY <3>1, <3>2, <3>3, <3>4
  <2>4. QED
    BY <2>1, <2>2, <2>3 DEF Deletionless
<1>12. ASSUME NEW f \in flight, FlightArrives(f) \/ FlightLost(f)
       PROVE  Deletionless'
  <2>1. client' = client /\ flight' \subseteq flight
    BY <1>12 DEF FlightArrives, FlightLost
  <2>2. [m |-> f.call.m, by |-> None] \in Entry /\ f.call.m.kind # "delete"
    BY DEF TypeOK, Flight, Call, Entry, Deletionless
  <2>3. log' = log \/ log' = Append(log, [m |-> f.call.m, by |-> None])
    BY <1>12 DEF FlightArrives, FlightLost
  <2>4. Harmless(log')
    BY <1>a, <2>2, <2>3, LogAppended DEF Harmless, Deletionless
  <2>5. QED
    BY <2>1, <2>4 DEF Deletionless
<1>13. CASE UNCHANGED vars
  BY <1>13 DEF vars, Deletionless
<1>14. QED
  BY <1>1, <1>2, <1>3, <1>4, <1>7, <1>8, <1>9, <1>10, <1>11, <1>12, <1>13 DEF Next

\* ... and what is there stays there.
LEMMA CurrentStays ==
    ASSUME TypeOK, TypeOK', Deletionless, [Next]_vars, Current # None
    PROVE  (Current # None)'
<1> USE DEF history
<1>a. IF Projection THEN docs # None ELSE search # None
  BY CurrentIsThere
<1>b. config' = config
  BY DEF Next, vars, Start, Lock, Read, ReadFails, SendToDocuments, SendToSearch,
         Spawn, CallRefused, CallUnanswered, AwaitUnanswered, Finish, Apply,
         FlightArrives, FlightLost
<1>c. docs # None => docs' # None
  <2>1. CASE docs' = docs
    BY <2>1
  <2>2. ASSUME NEW c \in Clients, SendToDocuments(c)
        PROVE  docs' # None
    <3>1. client[c].todo # <<>> /\ docs' = NextCall(c).m.doc
      BY <2>2 DEF SendToDocuments, Sends, StoreDocument
    <3>2. NextCall(c).m \in Mutation /\ NextCall(c).m.kind # "delete"
      BY <3>1, NextCallParts, ClientParts, HarmlessRest DEF NextCall, Deletionless
    <3>3. QED
      BY <3>1, <3>2, MutationParts, DocumentAssumption
  <2>3. ASSUME NEW f \in flight, FlightArrives(f), docs' = f.call.m.doc
        PROVE  docs' # None
    BY <2>3, MutationParts, DocumentAssumption DEF TypeOK, Flight, Call, Deletionless
  <2>4. QED
    BY <2>1, <2>2, <2>3 DEF Next, vars, Start, Lock, Read, ReadFails, SendToSearch,
         Spawn, CallRefused, CallUnanswered, AwaitUnanswered, Finish, Apply,
         FlightArrives, FlightLost, StoreDocument
<1>d. search # None => search' # None
  <2>1. CASE search' = search
    BY <2>1
  <2>2. CASE Apply
    <3>1. log # <<>> /\ search' = Applied(search, Head(log).m) /\ log \in Seq(Entry)
      BY <2>2 DEF Apply, TypeOK
    <3>2. Head(log) \in Entry
      BY <3>1, LogShortened
    <3>3. Head(log).m \in Mutation /\ Head(log).m.kind # "delete"
      BY <3>1, <3>2, HarmlessRest DEF Deletionless, Entry
    <3>4. QED
      BY <3>1, <3>3, AppliedIsSome DEF TypeOK
  <2>3. QED
    BY <2>1, <2>2 DEF Next, vars, Start, Lock, Read, ReadFails, SendToDocuments, SendToSearch,
         Spawn, CallRefused, CallUnanswered, AwaitUnanswered, Finish,
         FlightArrives, FlightLost
<1>e. Projection' = Projection
  BY <1>b DEF Projection
<1>f. IF Projection' THEN docs' # None ELSE search' # None
  BY <1>a, <1>c, <1>d, <1>e
<1>g. (Current # None <=> IF Projection THEN docs # None ELSE search # None)'
  BY CurrentIsThere, PTL
<1>h. QED
  BY <1>f, <1>g

LEMMA InitCreates == Init => CreateInv
<1> SUFFICES ASSUME Init PROVE CreateInv
  OBVIOUS
<1>1. \A c \in Clients : client[c].pc = "idle" /\ client[c].todo = <<>>
  BY DEF Init
<1>2. Deletionless
  BY <1>1 DEF Init, Deletionless, Harmless
<1>3. OneCreates
  BY <1>1 DEF OneCreates, Creating
<1>4. CreatedIsThere
  BY DEF Init, CreatedIsThere
<1>5. QED
  BY <1>1, <1>2, <1>3, <1>4 DEF CreateInv

\* A creation that finds nothing is about to store its document.
LEMMA CreationBegins ==
    ASSUME AsyncProjects, TypeOK, NEW op \in Operations, op.kind = "create",
           Current = None
    PROVE  /\ Plan(op, Current) # <<>>
           /\ Head(Plan(op, Current)).m.kind = "put"
           /\ Head(Plan(op, Current)).mode = "wait"
           /\ Head(Plan(op, Current)).to = IF Projection THEN "docs" ELSE "search"
<1> DEFINE todo == Plan(op, Current)
<1>1. Planned(todo, op, Current)
  BY CurrentIsDocument, PlanIsPlanned
<1>2. Outcome(op, Current) \in Document /\ Outcome(op, Current) # None
  BY OperationParts, DocumentAssumption DEF Outcome
<1>3. AsyncSearch => Projection
  BY DEF AsyncProjects, TypeOK, AsyncSearch, Projection
<1> HIDE DEF todo
<1>4. CASE ~Projection /\ \E b : todo = <<b>> /\ Projecting(b, op, Current)
  BY <1>3, <1>4 DEF Projecting, todo
<1>5. CASE Projection /\ \E a, b : /\ todo = <<a, b>>
                                   /\ Storing(a, Outcome(op, Current))
                                   /\ Projecting(b, op, Current)
  BY <1>2, <1>5 DEF Storing, todo
<1>6. QED
  BY <1>1, <1>4, <1>5 DEF Planned

\* Every step keeps the exclusion of creations.
LEMMA StepKeepsCreates ==
    ASSUME AsyncProjects, TypeOK, LogInv, CreateInv, [Next]_vars
    PROVE  CreateInv'
<1> USE DEF history
<1>a. TypeOK'
  BY StepIsTyped
<1>b. client \in [Clients -> ClientState] /\ log \in Seq(Entry)
      /\ \A c \in Clients : client[c] \in ClientState /\ client[c].todo \in Seq(Call)
  BY DEF TypeOK, ClientState
<1>c. /\ config' = config
      /\ Projection' = Projection
  BY DEF Next, vars, Start, Lock, Read, ReadFails, SendToDocuments, SendToSearch,
         Spawn, CallRefused, CallUnanswered, AwaitUnanswered, Finish, Apply,
         FlightArrives, FlightLost, Projection
<1>d. None \notin {0, 1} /\ None \notin Clients
      /\ \A c \in Clients : ReplicaOf[c] \in Replicas
  BY DocumentAssumption DEF Replicas
<1>e. created \in [Replicas -> 0..2 \cup {None}]
  BY DEF TypeOK
<1>1. CASE \A r \in Replicas : created[r] = None
  <2>1. \/ created' = created
        \/ \A r \in Replicas : created'[r] = None
        \/ \E c \in Clients : created' = [created EXCEPT ![ReplicaOf[c]] = Counted(@)]
    BY DEF Next, vars, Start, Lock, Read, ReadFails, SendToDocuments, SendToSearch,
           Spawn, CallRefused, CallUnanswered, AwaitUnanswered, Finish, Apply,
           FlightArrives, FlightLost
  <2>2. Counted(None) = None
    BY <1>d DEF Counted
  <2>3. \A r \in Replicas : created'[r] = None
    BY <1>1, <1>d, <1>e, <2>1, <2>2
  <2>4. QED
    BY <2>3 DEF CreateInv
<1>2. CASE \E c \in Clients, op \in Operations : Start(c, op) /\ op.kind = "delete"
  <2>1. \A r \in Replicas : created'[r] = None
    BY <1>2 DEF Start
  <2>2. QED
    BY <2>1 DEF CreateInv
<1> SUFFICES ASSUME ~(\A r \in Replicas : created[r] = None),
                    \A c \in Clients, op \in Operations : Start(c, op) => op.kind # "delete"
             PROVE  CreateInv'
  BY <1>1, <1>2
<1>f. /\ Deletionless /\ OneCreates /\ CreatedIsThere
      /\ \A c \in Clients :
            client[c].op.kind = "create" /\ client[c].pc \in {"send", "await"}
                => CreationProceeds(c)
  BY DEF CreateInv
<1>g. Deletionless'
  BY <1>f, StepIsDeletionless
<1>h. Current # None => (Current # None)'
  BY <1>a, <1>f, CurrentStays
<1>i. ASSUME NEW d \in Clients, client'[d] = client[d],
             created'[ReplicaOf[d]] = created[ReplicaOf[d]],
             \A i \in 1..Len(log') : log'[i].by = d =>
                \E j \in 1..Len(log) : log[j].by = d /\ log[j].m = log'[i].m
      PROVE  CreationProceeds(d) => CreationProceeds(d)'
  <2>1. Begun(d) => Begun(d)'
    BY <1>c, <1>h, <1>i DEF Begun, NextCall
  <2>2. Entered(d) => Entered(d)'
    BY <1>c, <1>h, <1>i DEF Entered
  <2>3. QED
    BY <1>i, <2>1, <2>2 DEF CreationProceeds
<1>j. ASSUME created' = created, \A c \in Clients : Creating(c)' => Creating(c),
             \A c \in Clients :
                client'[c].op.kind = "create" /\ client'[c].pc \in {"send", "await"}
                    => CreationProceeds(c)'
      PROVE  CreateInv'
  <2>1. OneCreates'
    BY <1>f, <1>j DEF OneCreates
  <2>2. CreatedIsThere'
    BY <1>f, <1>h, <1>j DEF CreatedIsThere
  <2>3. QED
    BY <1>g, <1>j, <2>1, <2>2 DEF CreateInv
\* A step of one client that leaves it no creation under way.
<1>k. ASSUME NEW c \in Clients, NEW v, client' = [client EXCEPT ![c] = v],
             created' = created,
             v.op.kind = "create" => v.pc \notin {"read", "send", "await"},
             \A i \in 1..Len(log') : \A d \in Clients :
                log'[i].by = d /\ d # c =>
                    \E j \in 1..Len(log) : log[j].by = d /\ log[j].m = log'[i].m
      PROVE  CreateInv'
  <2>1. client'[c] = v /\ \A d \in Clients : d # c => client'[d] = client[d]
    BY <1>b, <1>k
  <2>2. \A d \in Clients : Creating(d)' => Creating(d)
    BY <1>k, <2>1 DEF Creating
  <2>3. ASSUME NEW d \in Clients, client'[d].op.kind = "create",
               client'[d].pc \in {"send", "await"}
        PROVE  CreationProceeds(d)'
    <3>1. d # c
      BY <1>k, <2>1, <2>3
    <3>2. client'[d] = client[d] /\ CreationProceeds(d)
      BY <1>f, <2>1, <2>3, <3>1
    <3>3. QED
      BY <1>i, <1>k, <3>1, <3>2
  <2>4. QED
    BY <1>j, <1>k, <2>2, <2>3
<1>l. \A c \in Clients : Over(c).pc = "idle" /\ Over(c).op = client[c].op
  BY <1>b DEF Over, ClientState
<1>3. ASSUME NEW c \in Clients, NEW op \in Operations, Start(c, op)
      PROVE  CreateInv'
  <2> DEFINE v == [client[c] EXCEPT !.pc = IF op.kind = "create" THEN "lock" ELSE "read",
                                    !.op = op, !.left = @ - 1]
  <2>1. client' = [client EXCEPT ![c] = v] /\ log' = log
    BY <1>3 DEF Start
  <2>2. v.op = op /\ v.pc = IF op.kind = "create" THEN "lock" ELSE "read"
    BY <1>b DEF ClientState
  <2>3. created' = created
    BY <1>3 DEF Start
  <2> HIDE DEF v
  <2>4. QED
    BY <1>k, <2>1, <2>2, <2>3
<1>4. ASSUME NEW c \in Clients,
             ReadFails(c) \/ CallRefused(c) \/ CallUnanswered(c) \/ AwaitUnanswered(c)
      PROVE  CreateInv'
  <2>1. client' = [client EXCEPT ![c] = Over(c)] /\ created' = created
    BY <1>4 DEF ReadFails, CallRefused, CallUnanswered, AwaitUnanswered
  <2>2. CASE log' = log
    BY <1>k, <1>l, <2>1, <2>2
  <2>3. CASE log' = Forsaken(c)
    <3>1. \A i \in 1..Len(log') : \A d \in Clients :
            log'[i].by = d /\ d # c =>
                i \in 1..Len(log) /\ log[i].by = d /\ log[i].m = log'[i].m
      BY <1>b, <1>d, <2>3, LogForsaken
    <3>2. QED
      BY <1>k, <1>l, <2>1, <3>1
  <2>4. QED
    BY <1>4, <2>2, <2>3 DEF ReadFails, CallRefused, CallUnanswered, AwaitUnanswered, Forsaken
<1>5. ASSUME NEW c \in Clients, Lock(c)
      PROVE  CreateInv'
  <2>1. created' = created /\ log' = log /\ client' = [client EXCEPT ![c].pc = "read"]
        /\ ~Locked(ReplicaOf[c])
    BY <1>5 DEF Lock, CanLock
  <2>2. \A d \in Clients : d # c => client'[d] = client[d]
    BY <1>b, <2>1
  <2>3. \A d \in Clients : Creating(d) => ReplicaOf[d] # ReplicaOf[c]
    BY <2>1 DEF Locked, Creating
  <2>4. OneCreates'
    <3> SUFFICES ASSUME NEW d \in Clients, NEW e \in Clients, Creating(d)', Creating(e)',
                        ReplicaOf[d] = ReplicaOf[e]
                 PROVE  d = e
      BY DEF OneCreates
    <3>1. d # c => Creating(d)
      BY <2>2 DEF Creating
    <3>2. e # c => Creating(e)
      BY <2>2 DEF Creating
    <3>3. QED
      BY <1>f, <2>3, <3>1, <3>2 DEF OneCreates
  <2>5. CreatedIsThere'
    BY <1>f, <1>h, <2>1 DEF CreatedIsThere
  <2>6. ASSUME NEW d \in Clients, client'[d].op.kind = "create",
               client'[d].pc \in {"send", "await"}
        PROVE  CreationProceeds(d)'
    <3>1. client'[c].pc = "read"
      BY <1>b, <2>1 DEF ClientState
    <3>2. d # c
      BY <2>6, <3>1
    <3>3. client'[d] = client[d] /\ CreationProceeds(d)
      BY <1>f, <2>2, <2>6, <3>2
    <3>4. QED
      BY <1>i, <2>1, <3>3
  <2>7. QED
    BY <1>g, <2>4, <2>5, <2>6 DEF CreateInv
<1>6. ASSUME NEW c \in Clients, Read(c)
      PROVE  CreateInv'
  <2>1. created' = created /\ log' = log /\ client[c].pc = "read"
    BY <1>6 DEF Read, At
  <2>2. CASE client' = [client EXCEPT ![c] = Over(c)]
    BY <1>k, <1>l, <2>1, <2>2
  <2>3. CASE /\ client' = [client EXCEPT ![c] = [@ EXCEPT !.pc = "send",
                                                          !.todo = Plan(client[c].op, Current)]]
             /\ ~(client[c].op.kind = "create" /\ Current # None)
    <3>1. /\ client'[c].pc = "send" /\ client'[c].op = client[c].op
          /\ client'[c].todo = Plan(client[c].op, Current)
          /\ \A d \in Clients : d # c => client'[d] = client[d]
      BY <1>b, <2>3 DEF ClientState
    <3>2. CASE client[c].op.kind # "create"
      <4>1. client' = [client EXCEPT ![c] = client'[c]]
        BY <1>b, <2>3
      <4>2. QED
        BY <1>k, <2>1, <3>1, <3>2, <4>1
    <3>3. CASE client[c].op.kind = "create"
      <4>1. Current = None /\ client[c].op \in Operations
        BY <2>3, <3>3, ClientParts
      <4>2. Begun(c)'
        BY <1>c, <3>1, <3>3, <4>1, CreationBegins DEF Begun, NextCall
      <4>3. created'[ReplicaOf[c]] = 0
        BY <1>d, <1>f, <2>1, <4>1 DEF CreatedIsThere
      <4>4. CreationProceeds(c)'
        BY <3>1, <4>2, <4>3 DEF CreationProceeds
      <4>5. \A d \in Clients : Creating(d)' => Creating(d)
        BY <2>1, <3>1 DEF Creating
      <4>6. ASSUME NEW d \in Clients, client'[d].op.kind = "create",
                   client'[d].pc \in {"send", "await"}
            PROVE  CreationProceeds(d)'
        <5>1. CASE d = c
          BY <4>4, <5>1
        <5>2. CASE d # c
          <6>1. client'[d] = client[d] /\ CreationProceeds(d)
            BY <1>f, <3>1, <4>6, <5>2
          <6>2. QED
            BY <1>i, <2>1, <6>1
        <5>3. QED
          BY <5>1, <5>2
      <4>7. QED
        BY <1>j, <2>1, <4>5, <4>6
    <3>4. QED
      BY <3>2, <3>3
  <2>4. QED
    BY <1>6, <2>2, <2>3 DEF Read

\* A step of a client that is sending a call, and goes on.
<1>m. ASSUME NEW c \in Clients, NEW pc \in {"send", "await"}, client[c].pc = "send",
             client' = [client EXCEPT ![c].todo = Tail(@), ![c].pc = pc, ![c].wrote = TRUE],
             created' = created,
             \A i \in 1..Len(log') : \A d \in Clients :
                log'[i].by = d /\ d # c =>
                    \E j \in 1..Len(log) : log[j].by = d /\ log[j].m = log'[i].m,
             client[c].op.kind = "create" /\ Begun(c)
                => (Current # None)' \/ (pc = "await" /\ Entered(c)')
      PROVE  CreateInv'
  <2>1. /\ client'[c].op = client[c].op /\ client'[c].pc = pc
        /\ \A d \in Clients : d # c => client'[d] = client[d]
    BY <1>b, <1>m DEF ClientState
  <2>2. \A d \in Clients : Creating(d)' => Creating(d)
    BY <1>m, <2>1 DEF Creating
  <2>3. ASSUME NEW d \in Clients, client'[d].op.kind = "create",
               client'[d].pc \in {"send", "await"}
        PROVE  CreationProceeds(d)'
    <3>1. CASE d = c
      <4>1. CreationProceeds(c) /\ Begun(c)
        BY <1>f, <1>m, <2>1, <2>3, <3>1 DEF CreationProceeds
      <4>2. (Current # None)' \/ (pc = "await" /\ Entered(c)')
        BY <1>m, <2>1, <2>3, <3>1, <4>1
      <4>3. created'[ReplicaOf[c]] = 0
        BY <1>m, <4>1 DEF CreationProceeds
      <4>4. QED
        BY <2>1, <3>1, <4>2, <4>3 DEF CreationProceeds, Begun, Entered
    <3>2. CASE d # c
      <4>1. client'[d] = client[d] /\ CreationProceeds(d)
        BY <1>f, <2>1, <2>3, <3>2
      <4>2. QED
        BY <1>i, <1>m, <3>2, <4>1
    <3>3. QED
      BY <3>1, <3>2
  <2>4. QED
    BY <1>j, <1>m, <2>2, <2>3
<1>7. ASSUME NEW c \in Clients, SendToDocuments(c)
      PROVE  CreateInv'
  <2>1. /\ client[c].pc = "send" /\ client[c].todo # <<>> /\ NextCall(c).to = "docs"
        /\ docs' = NextCall(c).m.doc /\ created' = created /\ log' = log
    BY <1>7 DEF SendToDocuments, Sends, At, StoreDocument
  <2>2. client' = [client EXCEPT ![c].todo = Tail(@), ![c].pc = "send", ![c].wrote = TRUE]
    BY <1>7, <1>b, <2>1 DEF SendToDocuments, ClientState
  <2>3. Begun(c) => (Current # None)'
    <3>1. CASE Current # None
      BY <1>h, <3>1
    <3>2. CASE Projection /\ NextCall(c).m.kind = "put"
      <4>1. NextCall(c).m.doc # None
        BY <2>1, <3>2, NextCallParts, MutationParts, DocumentAssumption
      <4>2. QED
        BY <1>c, <2>1, <3>2, <4>1 DEF Current
    <3>3. QED
      BY <2>1, <3>1, <3>2 DEF Begun
  <2>4. QED
    BY <1>m, <2>1, <2>2, <2>3
<1>8. ASSUME NEW c \in Clients, SendToSearch(c)
      PROVE  CreateInv'
  <2>1. /\ client[c].pc = "send" /\ client[c].todo # <<>> /\ NextCall(c).to = "search"
        /\ created' = created
    BY <1>8 DEF SendToSearch, Sends, At
  <2>2. PICK by \in {c, None} :
            /\ log' = Append(log, [m |-> NextCall(c).m, by |-> by])
            /\ by = c <=> NextCall(c).mode = "wait"
    <3>1. CASE NextCall(c).mode = "wait"
      BY <1>8, <3>1 DEF SendToSearch
    <3>2. CASE NextCall(c).mode # "wait"
      BY <1>8, <1>d, <3>2 DEF SendToSearch
    <3>3. QED
      BY <3>1, <3>2
  <2>3. PICK pc \in {"send", "await"} :
            /\ client' = [client EXCEPT ![c].todo = Tail(@), ![c].pc = pc, ![c].wrote = TRUE]
            /\ NextCall(c).mode = "wait" => pc = "await"
    BY <1>8 DEF SendToSearch
  <2> DEFINE e == [m |-> NextCall(c).m, by |-> by]
  <2>4. e \in Entry /\ e.by = by /\ e.m = NextCall(c).m
    BY <2>1, NextCallParts DEF Entry
  <2>5. /\ log' = Append(log, e)
        /\ \A i \in 1..Len(log) : log'[i] = log[i]
        /\ \A i \in 1..Len(log') : i \in 1..Len(log) \/ log'[i] = e
    BY <1>b, <2>2, <2>4, LogAppended
  <2> HIDE DEF e
  <2>6. \A i \in 1..Len(log') : \A d \in Clients :
            log'[i].by = d /\ d # c =>
                \E j \in 1..Len(log) : log[j].by = d /\ log[j].m = log'[i].m
    BY <1>d, <2>2, <2>4, <2>5
  <2>7. \A i \in 1..Len(log) : log[i].by # c
    BY <1>d, <2>1 DEF LogInv
  <2>8. Begun(c) => (Current # None)' \/ (pc = "await" /\ Entered(c)')
    <3>1. CASE Current # None
      BY <1>h, <3>1
    <3>2. CASE ~Projection /\ NextCall(c).m.kind = "put" /\ NextCall(c).mode = "wait"
      <4>1. \A i \in 1..Len(log') : log'[i].by = c => log'[i].m.kind = "put"
        BY <2>4, <2>5, <2>7, <3>2
      <4>2. QED
        BY <1>c, <2>3, <3>2, <4>1 DEF Entered
    <3>3. QED
      BY <2>1, <3>1, <3>2 DEF Begun
  <2>9. QED
    BY <1>m, <2>1, <2>3, <2>6, <2>8
<1>9. ASSUME NEW c \in Clients, Spawn(c)
      PROVE  CreateInv'
  <2>1. /\ client[c].pc = "send" /\ client[c].todo # <<>> /\ NextCall(c).mode = "detached"
        /\ created' = created /\ log' = log
    BY <1>9 DEF Spawn, Sends, At
  <2>2. CASE client' = [client EXCEPT ![c] = Over(c)]
    BY <1>k, <1>l, <2>1, <2>2
  <2>3. CASE client' = [client EXCEPT ![c].todo = Tail(@), ![c].wrote = TRUE]
    <3>1. client' = [client EXCEPT ![c].todo = Tail(@), ![c].pc = "send", ![c].wrote = TRUE]
      BY <1>b, <2>1, <2>3 DEF ClientState
    <3>2. Begun(c) => (Current # None)'
      BY <1>h, <2>1 DEF Begun
    <3>3. QED
      BY <1>m, <2>1, <3>1, <3>2
  <2>4. QED
    BY <1>9, <2>2, <2>3 DEF Spawn
<1>10. ASSUME NEW c \in Clients, Finish(c)
       PROVE  CreateInv'
  <2>1. /\ client[c].pc = "send" /\ client[c].todo = <<>> /\ log' = log
        /\ client' = [client EXCEPT ![c] = Over(c)]
        /\ created' = IF client[c].op.kind = "create"
                      THEN [created EXCEPT ![ReplicaOf[c]] = Counted(@)]
                      ELSE created
    BY <1>10 DEF Finish, At
  <2>2. CASE client[c].op.kind # "create"
    BY <1>k, <1>l, <2>1, <2>2
  <2>3. CASE client[c].op.kind = "create"
    <3>1. Current # None /\ created[ReplicaOf[c]] = 0
      BY <1>f, <2>1, <2>3 DEF CreationProceeds, Begun
    <3>2. /\ created'[ReplicaOf[c]] = 1
          /\ \A r \in Replicas : r # ReplicaOf[c] => created'[r] = created[r]
      BY <1>d, <1>e, <2>1, <2>3, <3>1 DEF Counted
    <3>3. CreatedIsThere'
      BY <1>f, <1>h, <3>1, <3>2 DEF CreatedIsThere
    <3>4. client'[c].pc = "idle" /\ \A d \in Clients : d # c => client'[d] = client[d]
      BY <1>b, <1>l, <2>1
    <3>5. \A d \in Clients : Creating(d)' => Creating(d) /\ d # c
      BY <3>4 DEF Creating
    <3>6. OneCreates'
      BY <1>f, <3>5 DEF OneCreates
    <3>7. ASSUME NEW d \in Clients, client'[d].op.kind = "create",
                 client'[d].pc \in {"send", "await"}
          PROVE  CreationProceeds(d)'
      <4>1. Creating(c) /\ Creating(d) /\ d # c
        BY <2>1, <2>3, <3>4, <3>7 DEF Creating
      <4>2. created'[ReplicaOf[d]] = created[ReplicaOf[d]]
        BY <1>d, <1>f, <3>2, <4>1 DEF OneCreates
      <4>3. client'[d] = client[d] /\ CreationProceeds(d)
        BY <1>f, <3>4, <3>7, <4>1
      <4>4. QED
        BY <1>i, <2>1, <4>2, <4>3
    <3>8. QED
      BY <1>g, <3>3, <3>6, <3>7 DEF CreateInv
  <2>4. QED
    BY <2>2, <2>3
<1>11. ASSUME Apply
       PROVE  CreateInv'
  <2>1. log # <<>> /\ log' = Tail(log) /\ search' = Applied(search, Head(log).m)
        /\ created' = created
    BY <1>11 DEF Apply
  <2>2. /\ \A i \in 1..Len(log') : i + 1 \in 1..Len(log) /\ log'[i] = log[i + 1]
        /\ Head(log) = log[1] /\ 1 \in 1..Len(log) /\ Head(log) \in Entry
    BY <1>b, <2>1, LogShortened
  <2>3. ASSUME NEW d \in Clients
        PROVE  \/ client'[d] = client[d]
               \/ client'[d].pc = "idle"
               \/ /\ d = Head(log).by /\ client[d].pc = "await"
                  /\ client'[d].pc = "send" /\ client'[d].op = client[d].op
    <3>1. \/ client'[d] = client[d]
          \/ d = Head(log).by /\ client'[d] = [client[d] EXCEPT !.pc = "send"]
          \/ client'[d] = Over(d)
      BY <1>11 DEF Apply
    <3>2. d = Head(log).by => client[d].pc = "await"
      BY <1>d, <2>2 DEF LogInv
    <3>3. QED
      BY <1>b, <1>l, <3>1, <3>2 DEF ClientState
  <2>4. \A d \in Clients : Creating(d)' => Creating(d)
    BY <2>3 DEF Creating
  <2>5. ASSUME NEW d \in Clients, client'[d].op.kind = "create",
               client'[d].pc \in {"send", "await"}
        PROVE  CreationProceeds(d)'
    <3>1. CASE client'[d] = client[d]
      <4>1. CreationProceeds(d)
        BY <1>f, <2>5, <3>1
      <4>2. \A i \in 1..Len(log') : log'[i].by = d =>
                \E j \in 1..Len(log) : log[j].by = d /\ log[j].m = log'[i].m
        BY <2>2
      <4>3. QED
        BY <1>i, <2>1, <3>1, <4>1, <4>2
    <3>2. CASE /\ d = Head(log).by /\ client[d].pc = "await"
               /\ client'[d].pc = "send" /\ client'[d].op = client[d].op
      <4>1. CreationProceeds(d)
        BY <1>f, <2>5, <3>2
      <4>2. (Current # None)'
        <5>1. CASE Current # None
          BY <1>h, <5>1
        <5>2. CASE ~Projection /\ Head(log).m.kind = "put"
          <6>1. search' # None
            <7>1. Head(log).m \in Mutation
              BY <2>2 DEF Entry
            <7>2. QED
              BY <2>1, <5>2, <7>1, AppliedIsSome DEF TypeOK
          <6>2. search' \in Point' \cup {None}
            BY <1>a DEF TypeOK
          <6>3. search'.source \in Document
            BY <1>c, <5>2, <6>1, <6>2 DEF Point
          <6>4. QED
            BY <1>c, <5>2, <6>1, <6>3, DocumentAssumption DEF Current
        <5>3. QED
          BY <2>2, <3>2, <4>1, <5>1, <5>2 DEF CreationProceeds, Entered
      <4>3. QED
        BY <2>1, <3>2, <4>1, <4>2 DEF CreationProceeds, Begun
    <3>3. QED
      BY <2>3, <2>5, <3>1, <3>2
  <2>6. QED
    BY <1>j, <2>1, <2>4, <2>5
<1>12. ASSUME NEW f \in flight, FlightArrives(f) \/ FlightLost(f)
       PROVE  CreateInv'
  <2>1. client' = client /\ created' = created
    BY <1>12 DEF FlightArrives, FlightLost
  <2>2. [m |-> f.call.m, by |-> None] \in Entry
    BY DEF TypeOK, Flight, Call, Entry
  <2>3. log' = log \/ log' = Append(log, [m |-> f.call.m, by |-> None])
    BY <1>12 DEF FlightArrives, FlightLost
  <2>4. \A i \in 1..Len(log') : \A d \in Clients : log'[i].by = d =>
            \E j \in 1..Len(log) : log[j].by = d /\ log[j].m = log'[i].m
    <3>1. CASE log' = log
      BY <3>1
    <3>2. CASE log' = Append(log, [m |-> f.call.m, by |-> None])
      BY <1>b, <1>d, <2>2, <3>2, LogAppended
    <3>3. QED
      BY <2>3, <3>1, <3>2
  <2>5. \A d \in Clients : Creating(d)' => Creating(d)
    BY <2>1 DEF Creating
  <2>6. ASSUME NEW d \in Clients, client'[d].op.kind = "create",
               client'[d].pc \in {"send", "await"}
        PROVE  CreationProceeds(d)'
    BY <1>f, <1>i, <2>1, <2>4, <2>6
  <2>7. QED
    BY <1>j, <2>1, <2>5, <2>6
<1>13. CASE UNCHANGED vars
  <2>1. client' = client /\ created' = created /\ log' = log
    BY <1>13 DEF vars
  <2>2. \A d \in Clients : Creating(d)' => Creating(d)
    BY <2>1 DEF Creating
  <2>3. \A d \in Clients : CreationProceeds(d) => CreationProceeds(d)'
    BY <1>i, <2>1
  <2>4. QED
    BY <1>f, <1>j, <2>1, <2>2, <2>3
<1>14. QED
  BY <1>3, <1>4, <1>5, <1>6, <1>7, <1>8, <1>9, <1>10, <1>11, <1>12, <1>13 DEF Next

(* A process makes one creation of a document at a time and each looks      *)
(* first: where nothing is deleted, no two of them are answered, whatever   *)
(* is refused, unanswered or late (index_admin in create_doc).  It takes    *)
(* that creations are waited for where they are read (AsyncProjects).       *)
THEOREM CreationsExclude ==
    ASSUME AsyncProjects
    PROVE  Spec => []CreatesExclude
<1>1. CreateInv => CreatesExclude
  <2>1. None # 2
    BY DocumentAssumption
  <2>2. QED
    BY <2>1 DEF CreateInv, CreatedIsThere, CreatesExclude
<1>2. TypeOK /\ LogInv /\ CreateInv /\ [Next]_vars => CreateInv'
  BY StepKeepsCreates
<1>3. QED
  BY <1>1, <1>2, InitIsTyped, StepIsTyped, InitLog, StepKeepsLog, InitCreates, PTL DEF Spec

----------------------------------------------------------------------------
(* The search collection follows.                                          *)

\* Documents that no filter and no vector of a plain field tells apart.
Alike(d, e) ==
    /\ (d = None) <=> (e = None)
    /\ d # None => \A f \in PlainFields \cup MetaFields : d[f] = e[f]

\* A mutation that makes a point of d one of e.
Maps(m, d, e) ==
    \/ m.kind = "put" /\ m.doc = e /\ e \in Document
    \/ m.kind = "delete" /\ e = None
    \/ /\ m.kind = "payload" /\ m.doc = e /\ e \in Document /\ d # None
       /\ \A f \in MetaFields : e[f] = None => d[f] = None
       /\ \A f \in PlainFields : e[f] = d[f]

\* A point that is of a document, under settings k.
Follows(k, point, d) ==
    /\ (point = None) <=> (d = None)
    /\ d # None => /\ point.payload = Only(d, MetaFields)
                   /\ \A f \in PlainFields : point.own[VectorOf[f]] = d[f]
                   /\ ~k.projection => point.source = d

\* The operations in a log take a point through a history of the document
\* that ends with d.
Leads(k, point, ops, d) ==
    \E past \in [0..Len(ops) -> DocumentOrNone] :
        /\ Follows(k, point, past[0])
        /\ \A i \in 1..Len(ops) : Maps(ops[i].m, past[i - 1], past[i])
        /\ Alike(past[Len(ops)], d)
        /\ ~k.projection => past[Len(ops)] = d

\* Alike documents are mapped alike.
LEMMA AlikeMaps ==
    ASSUME NEW m, NEW c, NEW d, NEW e, Alike(c, d), Maps(m, d, e)
    PROVE  Maps(m, c, e)
BY DEF Alike, Maps

LEMMA AlikeOnly ==
    ASSUME NEW c \in DocumentOrNone, NEW d \in DocumentOrNone, Alike(c, d), d # None
    PROVE  /\ Only(c, MetaFields) = Only(d, MetaFields)
           /\ \A f \in PlainFields : c[f] = d[f]
BY DEF Alike, Only

\* The vector of a plain field has the text of the field,
LEMMA PlainFieldIsFound ==
    ASSUME NEW doc \in Document, NEW f \in PlainFields
    PROVE  PointOf(doc).own[VectorOf[f]] = doc[f]
<1> DEFINE v == VectorOf[f]
<1>1. /\ f \in TextFields /\ f \in StringFields /\ f \in Fields
      /\ FieldOf[v] = f /\ v \notin Fields /\ v # TextAll
  BY DEF PlainFields, Fields
<1>2. v \in OwnVectors
  BY <1>1 DEF OwnVectors, Vectors
<1>3. TextOf(doc, v) = doc[f]
  <2>1. CASE doc[f] # None
    BY <1>1, <2>1 DEF TextOf, Has
  <2>2. CASE doc[f] = None
    <3>1. v \notin StringFields
      BY <1>1, DocumentAssumption
    <3>2. QED
      BY <1>1, <2>2, <3>1 DEF TextOf, Has
  <2>3. QED
    BY <2>1, <2>2
<1>4. QED
  BY <1>2, <1>3 DEF PointOf

\* ... and a patch that gives the field is taken to touch a vector.
LEMMA PlainFieldIsText ==
    ASSUME NEW patch, NEW f \in PlainFields, ~TouchesText(patch)
    PROVE  f \in Fields /\ patch[f] = None
BY DEF TouchesText, PlainFields, Vectors, Fields

\* A mutation takes the point of one document to the point of the next.
LEMMA AppliedFollows ==
    ASSUME NEW point \in Point \cup {None}, NEW m \in Mutation,
           NEW d \in DocumentOrNone, NEW e \in DocumentOrNone,
           Follows(config, point, d), Maps(m, d, e)
    PROVE  Follows(config, Applied(point, m), e)
<1>1. CASE m.kind = "put" /\ m.doc = e /\ e \in Document
  <2>1. Applied(point, m) = PointOf(e) /\ PointOf(e) # None /\ e # None
    BY <1>1, PointOfIsPoint, PointIsSome, DocumentAssumption DEF Applied
  <2>2. \A f \in PlainFields : PointOf(e).own[VectorOf[f]] = e[f]
    BY <1>1, PlainFieldIsFound
  <2>3. /\ PointOf(e).payload = Only(e, MetaFields)
        /\ ~Projection => PointOf(e).source = e
    BY DEF PointOf
  <2>4. QED
    BY <2>1, <2>2, <2>3 DEF Follows, Projection
<1>2. CASE m.kind = "delete" /\ e = None
  BY <1>2 DEF Applied, Follows
<1>3. CASE /\ m.kind = "payload" /\ m.doc = e /\ e \in Document /\ d # None
           /\ \A f \in MetaFields : e[f] = None => d[f] = None
           /\ \A f \in PlainFields : e[f] = d[f]
  <2>1. point \in Point /\ point # None /\ e # None
    BY <1>3, DocumentAssumption DEF Follows
  <2>2. Applied(point, m) = SetPayload(point, e) /\ SetPayload(point, e) # None
    BY <1>3, <2>1, SetPayloadIsPoint, PointIsSome DEF Applied
  <2>3. /\ SetPayload(point, e).payload =
                [f \in MetaFields |-> IF e[f] # None THEN e[f] ELSE point.payload[f]]
        /\ SetPayload(point, e).own = point.own
        /\ ~Projection => SetPayload(point, e).source = e
    BY <2>1 DEF SetPayload, Point
  <2>4. /\ point.payload = Only(d, MetaFields)
        /\ \A f \in PlainFields : point.own[VectorOf[f]] = d[f]
    BY <1>3 DEF Follows
  <2>5. SetPayload(point, e).payload = Only(e, MetaFields)
    BY <1>3, <2>3, <2>4 DEF Only
  <2>6. \A f \in PlainFields : SetPayload(point, e).own[VectorOf[f]] = e[f]
    BY <1>3, <2>3, <2>4
  <2>7. QED
    BY <2>1, <2>2, <2>3, <2>5, <2>6 DEF Follows, Projection
<1>4. QED
  BY <1>1, <1>2, <1>3 DEF Maps

\* A call of a plan maps what was found to what the operation means,
LEMMA ProjectingMaps ==
    ASSUME NEW op \in Operations, NEW current \in DocumentOrNone, NEW b,
           Projecting(b, op, current)
    PROVE  Maps(b.m, current, Outcome(op, current))
<1>1. CASE b.m.kind = "put" /\ b.m.doc = Outcome(op, current) /\ b.m.doc \in Document
  BY <1>1 DEF Maps
<1>2. CASE b.m.kind = "delete" /\ op.kind = "delete"
  BY <1>2 DEF Maps, Outcome
<1>3. CASE /\ b.m.kind = "payload" /\ op.kind = "update" /\ current # None
           /\ ~TouchesText(op.doc)
           /\ b.m.doc = Outcome(op, current) /\ b.m.doc \in Document
  <2>1. Outcome(op, current) =
            [f \in Fields |-> IF op.doc[f] = None THEN current[f] ELSE op.doc[f]]
    BY <1>3 DEF Outcome
  <2>2. \A f \in MetaFields : Outcome(op, current)[f] = None => current[f] = None
    BY <2>1 DEF Fields
  <2>3. \A f \in PlainFields : Outcome(op, current)[f] = current[f]
    BY <1>3, <2>1, PlainFieldIsText
  <2>4. QED
    BY <1>3, <2>2, <2>3 DEF Maps
<1>4. QED
  BY <1>1, <1>2, <1>3 DEF Projecting

\* ... and where it leaves out a call, they are alike.
LEMMA UntouchedIsAlike ==
    ASSUME NEW op \in Operations, NEW current \in DocumentOrNone,
           op.kind = "update", current # None,
           ~TouchesText(op.doc), ~Touches(op.doc, MetaFields)
    PROVE  Alike(current, Outcome(op, current))
<1>1. Outcome(op, current) =
            [f \in Fields |-> IF op.doc[f] = None THEN current[f] ELSE op.doc[f]]
  BY DEF Outcome
<1>2. \A f \in PlainFields \cup MetaFields : Outcome(op, current)[f] = current[f]
  <2>1. \A f \in PlainFields : Outcome(op, current)[f] = current[f]
    BY <1>1, PlainFieldIsText
  <2>2. \A f \in MetaFields : Outcome(op, current)[f] = current[f]
    BY <1>1 DEF Fields, Touches
  <2>3. QED
    BY <2>1, <2>2
<1>3. Outcome(op, current) # None
  <2>1. current \in Document /\ op.doc \in Document
    BY OperationParts DEF DocumentOrNone
  <2>2. Outcome(op, current) \in Document
    BY <1>1, <2>1 DEF Document
  <2>3. QED
    BY <2>2, DocumentAssumption
<1>4. QED
  BY <1>2, <1>3 DEF Alike

----------------------------------------------------------------------------
(* Logs that lead to a document.                                           *)

\* With nothing in the log the point is the document's.
LEMMA LeadsNow ==
    ASSUME NEW k, NEW point, NEW d \in DocumentOrNone
    PROVE  Leads(k, point, <<>>, d) <=> Follows(k, point, d)
<1>1. ASSUME Leads(k, point, <<>>, d)
      PROVE  Follows(k, point, d)
  <2>1. PICK past \in [0..Len(<<>>) -> DocumentOrNone] :
            /\ Follows(k, point, past[0])
            /\ Alike(past[Len(<<>>)], d)
            /\ ~k.projection => past[Len(<<>>)] = d
    BY <1>1 DEF Leads
  <2>2. Alike(past[0], d) /\ past[0] \in DocumentOrNone /\ (~k.projection => past[0] = d)
    BY <2>1
  <2>3. QED
    BY <2>1, <2>2, AlikeOnly DEF Follows, Alike
<1>2. ASSUME Follows(k, point, d)
      PROVE  Leads(k, point, <<>>, d)
  <2> DEFINE past == [i \in 0..Len(<<>>) |-> d]
  <2>1. past \in [0..Len(<<>>) -> DocumentOrNone] /\ past[0] = d /\ past[Len(<<>>)] = d
    OBVIOUS
  <2>2. Alike(d, d)
    BY DEF Alike
  <2> HIDE DEF past
  <2>3. QED
    BY <1>2, <2>1, <2>2 DEF Leads
<1>3. QED
  BY <1>1, <1>2

\* One operation more leads on,
LEMMA LeadsOn ==
    ASSUME NEW k, NEW point, NEW ops \in Seq(Entry), NEW e \in Entry,
           NEW d \in DocumentOrNone, NEW out \in DocumentOrNone,
           Leads(k, point, ops, d), Maps(e.m, d, out)
    PROVE  Leads(k, point, Append(ops, e), out)
<1>1. PICK past \in [0..Len(ops) -> DocumentOrNone] :
        /\ Follows(k, point, past[0])
        /\ \A i \in 1..Len(ops) : Maps(ops[i].m, past[i - 1], past[i])
        /\ Alike(past[Len(ops)], d)
  BY DEF Leads
<1>2. /\ Len(ops) \in Nat
      /\ Len(Append(ops, e)) = Len(ops) + 1
      /\ \A i \in 1..Len(ops) : Append(ops, e)[i] = ops[i]
      /\ Append(ops, e)[Len(ops) + 1] = e
  BY LenProperties, AppendProperties
<1> DEFINE n == Len(ops) + 1
           more == [i \in 0..n |-> IF i = n THEN out ELSE past[i]]
<1>3. more \in [0..n -> DocumentOrNone]
  BY <1>2
<1>4. /\ more[n] = out
      /\ \A i \in 0..Len(ops) : more[i] = past[i]
  BY <1>2
<1>5. Maps(e.m, past[Len(ops)], out)
  BY <1>1, AlikeMaps
<1> HIDE DEF more
<1>6. ASSUME NEW i \in 1..n
      PROVE  Maps(Append(ops, e)[i].m, more[i - 1], more[i])
  <2>1. CASE i = n
    BY <1>2, <1>4, <1>5, <2>1
  <2>2. CASE i # n
    <3>1. i \in 1..Len(ops) /\ i \in 0..Len(ops) /\ i - 1 \in 0..Len(ops)
      BY <1>2, <2>2
    <3>2. QED
      BY <1>1, <1>2, <1>4, <3>1
  <2>3. QED
    BY <2>1, <2>2
<1>7. Follows(k, point, more[0])
  BY <1>1, <1>2, <1>4
<1>8. Alike(more[n], out)
  BY <1>4 DEF Alike
<1>9. QED
  BY <1>2, <1>3, <1>4, <1>6, <1>7, <1>8 DEF Leads

\* ... and applying the first leads to the same.
LEMMA LeadsStill ==
    ASSUME NEW point \in Point \cup {None}, NEW ops \in Seq(Entry), ops # <<>>,
           NEW d \in DocumentOrNone, Leads(config, point, ops, d)
    PROVE  Leads(config, Applied(point, Head(ops).m), Tail(ops), d)
<1>1. PICK past \in [0..Len(ops) -> DocumentOrNone] :
        /\ Follows(config, point, past[0])
        /\ \A i \in 1..Len(ops) : Maps(ops[i].m, past[i - 1], past[i])
        /\ Alike(past[Len(ops)], d)
        /\ ~config.projection => past[Len(ops)] = d
  BY DEF Leads
<1>2. /\ Len(ops) \in Nat \ {0}
      /\ Len(Tail(ops)) = Len(ops) - 1
      /\ \A i \in 1..(Len(ops) - 1) : Tail(ops)[i] = ops[i + 1]
      /\ Head(ops) = ops[1] /\ ops[1] \in Entry
  OBVIOUS
<1> DEFINE n == Len(ops) - 1
           rest == [i \in 0..n |-> past[i + 1]]
<1>3. rest \in [0..n -> DocumentOrNone]
  BY <1>2
<1>4. /\ \A i \in 0..n : rest[i] = past[i + 1]
      /\ rest[0] = past[1] /\ rest[n] = past[Len(ops)]
  BY <1>2
<1> HIDE DEF rest
<1>5. Follows(config, Applied(point, Head(ops).m), rest[0])
  <2>1. Maps(Head(ops).m, past[0], past[1]) /\ past[0] \in DocumentOrNone
        /\ past[1] \in DocumentOrNone /\ Head(ops).m \in Mutation
    <3>1. 1 \in 1..Len(ops) /\ 1 - 1 = 0 /\ 0 \in 0..Len(ops) /\ 1 \in 0..Len(ops)
      BY <1>2
    <3>2. Head(ops).m \in Mutation
      BY <1>2 DEF Entry
    <3>3. QED
      BY <1>1, <1>2, <3>1, <3>2
  <2>2. QED
    BY <1>1, <1>4, <2>1, AppliedFollows
<1>6. ASSUME NEW i \in 1..n
      PROVE  Maps(Tail(ops)[i].m, rest[i - 1], rest[i])
  <2>1. i + 1 \in 1..Len(ops) /\ i \in 0..n /\ i - 1 \in 0..n /\ (i + 1) - 1 = i
        /\ (i - 1) + 1 = i /\ i \in 1..(Len(ops) - 1)
    BY <1>2
  <2>2. Maps(ops[i + 1].m, past[i], past[i + 1])
    BY <1>1, <2>1
  <2>3. QED
    BY <1>2, <1>4, <2>1, <2>2
<1>7. QED
  BY <1>1, <1>2, <1>3, <1>4, <1>5, <1>6 DEF Leads

\* Where the source is elsewhere, alike documents are reached alike.
LEMMA LeadsAlike ==
    ASSUME NEW k, k.projection, NEW point, NEW ops \in Seq(Entry),
           NEW d \in DocumentOrNone, NEW e \in DocumentOrNone,
           Leads(k, point, ops, d), Alike(d, e)
    PROVE  Leads(k, point, ops, e)
<1>1. PICK past \in [0..Len(ops) -> DocumentOrNone] :
        /\ Follows(k, point, past[0])
        /\ \A i \in 1..Len(ops) : Maps(ops[i].m, past[i - 1], past[i])
        /\ Alike(past[Len(ops)], d)
  BY DEF Leads
<1>2. Alike(past[Len(ops)], e)
  BY <1>1 DEF Alike
<1>3. QED
  BY <1>1, <1>2 DEF Leads

----------------------------------------------------------------------------
(* What the last answered write has left, or the one under way will leave. *)

\* The document collection has d, and what is on its way to the search
\* collection leads to d; k: the settings.
Reached(k, stores, point, ops, calls, d) ==
    /\ k.projection => stores = d
    /\ \/ calls = {} /\ Leads(k, point, ops, d)
       \/ /\ ~k.projection /\ ops = <<>>
          /\ \E f \in calls, c \in DocumentOrNone :
                /\ calls = {f} /\ f.call.to = "search"
                /\ Follows(k, point, c) /\ Maps(f.call.m, c, d)

ReachedBy(d) == Reached(config, docs, search, log, flight, d)

\* A request reads where everything answered has been applied.
Resting == Settled /\ ReachedBy(expected)

\* What a request means to leave.
Means(c) == Outcome(client[c].op, expected)

\* A request that has yet to make its first call,
Ready(c) ==
    /\ client[c].pc = "send" /\ client[c].todo # <<>>
    /\ Planned(client[c].todo, client[c].op, expected)
    /\ Resting

\* ... one that has stored the document and not yet projected it,
Halfway(c) ==
    /\ Projection
    /\ client[c].pc = "send" /\ client[c].wrote
    /\ docs = Means(c) /\ flight = {} /\ Leads(config, search, log, expected)
    /\ \E b \in Call : /\ client[c].todo = <<b>>
                       /\ b.to = "search" /\ b.mode \in {"wait", "ack"}
                       /\ Maps(b.m, expected, Means(c))

\* ... and one that has made every call.
Through(c) == client[c].todo = <<>> /\ ReachedBy(Means(c))

\* A request knows where it stands.
Stands(c) ==
    /\ client[c].pc = "idle" => ReachedBy(expected)
    /\ client[c].pc \in {"lock", "read"} => Resting
    /\ client[c].pc = "send" => Ready(c) \/ Halfway(c) \/ Through(c)
    /\ client[c].pc = "await" => Through(c)

\* No two requests are under way.
Alone == \A c, d \in Clients : client[c].pc # "idle" /\ client[d].pc # "idle" => c = d

(* The induction: while no writes overlap and none has failed half way, the *)
(* request under way stands before, between or behind its calls, and when   *)
(* there is none, the answered ones are stored or on their way.             *)
WriteInv ==
    clean =>
        /\ Alone
        /\ (\A c \in Clients : client[c].pc = "idle") => ReachedBy(expected)
        /\ \A c \in Clients : client[c].pc # "idle" => Stands(c)

\* Applying an operation changes nothing of what is reached.
LEMMA ReachedStill ==
    ASSUME TypeOK, log # <<>>, NEW d \in DocumentOrNone, ReachedBy(d)
    PROVE  Reached(config, docs, Applied(search, Head(log).m), Tail(log), flight, d)
BY LeadsStill DEF ReachedBy, Reached, TypeOK

\* A request reads what the answered writes have left.
LEMMA RestingReads ==
    ASSUME TypeOK, Resting
    PROVE  Current = expected
<1>1. CASE Projection
  BY <1>1 DEF Resting, ReachedBy, Reached, Projection, Current
<1>2. CASE ~Projection
  <2>1. log = <<>> /\ flight = {} /\ expected \in DocumentOrNone
    BY <1>2 DEF Resting, Settled, TypeOK, DocumentOrNone
  <2>2. Leads(config, search, <<>>, expected)
    BY <2>1 DEF Resting, ReachedBy, Reached
  <2>3. Follows(config, search, expected)
    BY <2>1, <2>2, LeadsNow
  <2>4. QED
    BY <1>2, <2>3 DEF Follows, Projection, Current
<1>3. QED
  BY <1>1, <1>2

\* The first call of a plan, for the document collection or for the search
\* collection, and what is left then.
LEMMA FirstCall ==
    ASSUME TypeOK, NEW c \in Clients, Ready(c)
    PROVE  \/ /\ ~Projection
              /\ NextCall(c).to = "search" /\ NextCall(c) \in Call
              /\ Maps(NextCall(c).m, expected, Means(c))
              /\ Tail(client[c].todo) = <<>>
           \/ /\ Projection
              /\ NextCall(c).to = "docs" /\ NextCall(c).mode = "wait"
              /\ NextCall(c).m.doc = Means(c)
              /\ \/ Tail(client[c].todo) = <<>> /\ Alike(expected, Means(c))
                 \/ \E b \in Call : /\ Tail(client[c].todo) = <<b>>
                                    /\ b.to = "search" /\ b.mode \in {"wait", "ack"}
                                    /\ Maps(b.m, expected, Means(c))
<1> DEFINE todo == client[c].todo
           op == client[c].op
<1>1. todo # <<>> /\ Planned(todo, op, expected) /\ expected \in DocumentOrNone
      /\ op \in Operations
  BY ClientParts DEF Ready, TypeOK, DocumentOrNone
<1>2. NextCall(c) = Head(todo) /\ Means(c) = Outcome(op, expected)
  BY DEF NextCall, Means
<1> HIDE DEF todo, op
<1>3. CASE ~Projection /\ \E b : todo = <<b>> /\ Projecting(b, op, expected)
  <2>1. PICK b : todo = <<b>> /\ Projecting(b, op, expected)
    BY <1>3
  <2>2. Head(todo) = b /\ Tail(todo) = <<>>
    BY <2>1
  <2>3. Maps(b.m, expected, Outcome(op, expected))
    BY <1>1, <2>1, ProjectingMaps
  <2>4. QED
    BY <1>2, <1>3, <2>1, <2>2, <2>3 DEF Projecting, todo
<1>4. CASE Projection /\ \E a, b : /\ todo = <<a, b>>
                                   /\ Storing(a, Outcome(op, expected))
                                   /\ Projecting(b, op, expected)
  <2>1. PICK a, b : /\ todo = <<a, b>>
                    /\ Storing(a, Outcome(op, expected))
                    /\ Projecting(b, op, expected)
    BY <1>4
  <2>2. Head(todo) = a /\ Tail(todo) = <<b>>
    BY <2>1
  <2>3. Maps(b.m, expected, Outcome(op, expected))
    BY <1>1, <2>1, ProjectingMaps
  <2>4. QED
    BY <1>2, <1>4, <2>1, <2>2, <2>3 DEF Projecting, Storing, todo
<1>5. CASE /\ Projection /\ op.kind = "update" /\ expected # None
           /\ ~TouchesText(op.doc) /\ ~Touches(op.doc, MetaFields)
           /\ \E a : todo = <<a>> /\ Storing(a, Outcome(op, expected))
  <2>1. PICK a : todo = <<a>> /\ Storing(a, Outcome(op, expected))
    BY <1>5
  <2>2. Head(todo) = a /\ Tail(todo) = <<>>
    BY <2>1
  <2>3. Alike(expected, Outcome(op, expected))
    BY <1>1, <1>5, UntouchedIsAlike
  <2>4. QED
    BY <1>2, <1>5, <2>1, <2>2, <2>3 DEF Storing, todo
<1>6. QED
  BY <1>1, <1>3, <1>4, <1>5 DEF Planned

LEMMA InitWrites == Init => WriteInv
<1> SUFFICES ASSUME Init PROVE WriteInv
  OBVIOUS
<1>1. \A c \in Clients : client[c].pc = "idle"
  BY DEF Init
<1>2. Leads(config, None, <<>>, None)
  <2>1. Follows(config, None, None)
    BY DEF Follows
  <2>2. QED
    BY <2>1, LeadsNow DEF DocumentOrNone
<1>3. ReachedBy(expected)
  BY <1>2 DEF Init, ReachedBy, Reached
<1>4. QED
  BY <1>1, <1>3 DEF WriteInv, Alone

\* Every step keeps it.
LEMMA StepKeepsWrites == TypeOK /\ LogInv /\ WriteInv /\ [Next]_vars => WriteInv'
<1> SUFFICES ASSUME TypeOK, LogInv, WriteInv, [Next]_vars, clean'
             PROVE  WriteInv'
  BY DEF WriteInv
<1> USE DEF history
<1>a. client \in [Clients -> ClientState] /\ log \in Seq(Entry)
      /\ \A c \in Clients : client[c] \in ClientState /\ client[c].todo \in Seq(Call)
  BY DEF TypeOK, ClientState
<1>b. config' = config /\ Projection' = Projection
  BY DEF Next, vars, Start, Lock, Read, ReadFails, SendToDocuments, SendToSearch,
         Spawn, CallRefused, CallUnanswered, AwaitUnanswered, Finish, Apply,
         FlightArrives, FlightLost, Projection
<1>c. /\ expected \in DocumentOrNone
      /\ \A c \in Clients : Means(c) \in DocumentOrNone
      /\ None \notin Clients
  <2>1. expected \in DocumentOrNone
    BY DEF TypeOK, DocumentOrNone
  <2>2. QED
    BY <2>1, ClientParts, OutcomeIsDocument, DocumentAssumption DEF Means
<1>d. /\ clean \in BOOLEAN /\ \A c \in Clients : client[c].wrote \in BOOLEAN
  BY <1>a DEF TypeOK, ClientState
<1>e. clean
  BY <1>d DEF Next, vars, Start, Lock, Read, ReadFails, SendToDocuments, SendToSearch,
         Spawn, CallRefused, CallUnanswered, AwaitUnanswered, Finish, Apply,
         FlightArrives, FlightLost
<1>f. /\ Alone
      /\ (\A c \in Clients : client[c].pc = "idle") => ReachedBy(expected)
      /\ \A c \in Clients : client[c].pc # "idle" => Stands(c)
  BY <1>e DEF WriteInv
\* It is enough that the client of the step stands.
<1>g. ASSUME NEW c \in Clients, NEW v, client' = [client EXCEPT ![c] = v],
             \A d \in Clients : d # c => client[d].pc = "idle",
             Stands(c)'
      PROVE  WriteInv'
  <2>1. \A d \in Clients : d # c => client'[d].pc = "idle"
    BY <1>a, <1>g
  <2>2. Alone'
    BY <2>1 DEF Alone
  <2>3. (\A d \in Clients : client'[d].pc = "idle") => ReachedBy(expected)'
    BY <1>g DEF Stands
  <2>4. \A d \in Clients : client'[d].pc # "idle" => Stands(d)'
    BY <1>g, <2>1
  <2>5. QED
    BY <2>2, <2>3, <2>4 DEF WriteInv
<1>h. \A c \in Clients : client[c].pc # "idle" =>
        \A d \in Clients : d # c => client[d].pc = "idle"
  BY <1>f DEF Alone
<1>i. \A c \in Clients : /\ Over(c).pc = "idle" /\ Over(c).op = client[c].op
                         /\ Over(c).todo = <<>>
  BY <1>a DEF Over, ClientState
\* A request that ends while what was reached is expected.
<1>j. ASSUME NEW c \in Clients, client' = [client EXCEPT ![c] = Over(c)],
             client[c].pc # "idle", ReachedBy(expected)'
      PROVE  WriteInv'
  <2>1. client'[c].pc = "idle"
    BY <1>a, <1>i, <1>j
  <2>2. Stands(c)'
    BY <1>j, <2>1 DEF Stands
  <2>3. QED
    BY <1>g, <1>h, <1>j, <2>2
<1>k. ASSUME UNCHANGED <<docs, search, log, flight, expected>>
      PROVE  /\ \A d : ReachedBy(d) => ReachedBy(d)'
             /\ ReachedBy(expected) => ReachedBy(expected)'
             /\ Settled => Settled'
             /\ Resting => Resting'
  BY <1>b, <1>k DEF ReachedBy, Resting, Settled
<1>1. ASSUME NEW c \in Clients, NEW op \in Operations, Start(c, op)
      PROVE  WriteInv'
  <2>1. Settled /\ \A d \in Clients : client[d].pc = "idle"
    BY <1>1, <1>d DEF Start, At
  <2>2. Resting
    BY <1>f, <2>1 DEF Resting
  <2>3. UNCHANGED <<docs, search, log, flight, expected>>
    BY <1>1 DEF Start
  <2>4. Resting'
    BY <1>k, <2>2, <2>3
  <2> DEFINE v == [client[c] EXCEPT !.pc = IF op.kind = "create" THEN "lock" ELSE "read",
                                    !.op = op, !.left = @ - 1]
  <2>5. client' = [client EXCEPT ![c] = v]
    BY <1>1 DEF Start
  <2>6. v.pc \in {"lock", "read"}
    BY <1>a DEF ClientState
  <2> HIDE DEF v
  <2>7. Stands(c)'
    BY <1>a, <2>4, <2>5, <2>6 DEF Stands
  <2>8. QED
    BY <1>g, <2>1, <2>5, <2>7
<1>2. ASSUME NEW c \in Clients, Lock(c)
      PROVE  WriteInv'
  <2>1. client[c].pc = "lock" /\ UNCHANGED <<docs, search, log, flight, expected>>
        /\ client' = [client EXCEPT ![c] = [@ EXCEPT !.pc = "read"]]
    BY <1>2 DEF Lock, At
  <2>2. Resting'
    BY <1>f, <1>k, <2>1 DEF Stands
  <2>3. client'[c].pc = "read"
    BY <1>a, <2>1 DEF ClientState
  <2>4. Stands(c)'
    BY <2>2, <2>3 DEF Stands
  <2>5. QED
    BY <1>g, <1>h, <2>1, <2>4
<1>3. ASSUME NEW c \in Clients, Read(c)
      PROVE  WriteInv'
  <2>1. client[c].pc = "read" /\ UNCHANGED <<docs, search, log, flight, expected>>
    BY <1>3 DEF Read, At
  <2>2. Resting /\ Resting' /\ ReachedBy(expected)'
    BY <1>f, <1>k, <2>1 DEF Stands, Resting
  <2>3. Current = expected
    BY <2>2, RestingReads
  <2>4. CASE client' = [client EXCEPT ![c] = Over(c)]
    BY <1>j, <2>1, <2>2, <2>4
  <2>5. CASE client' = [client EXCEPT ![c] = [@ EXCEPT !.pc = "send",
                                                       !.todo = Plan(client[c].op, Current)]]
    <3>1. /\ client'[c].pc = "send" /\ client'[c].op = client[c].op
          /\ client'[c].todo = Plan(client[c].op, expected)
      BY <1>a, <2>3, <2>5 DEF ClientState
    <3>2. Planned(client'[c].todo, client'[c].op, expected)
      <4>1. Planned(Plan(client[c].op, expected), client[c].op, expected)
        BY <1>c, ClientParts, PlanIsPlanned
      <4>2. QED
        BY <3>1, <4>1
    <3>3. Planned(client[c].todo, client[c].op, expected)'
      BY <1>b, <2>1, <3>2 DEF Planned, Projecting, AsyncSearch
    <3>4. CASE client'[c].todo # <<>>
      <4>1. Ready(c)'
        BY <2>1, <2>2, <3>1, <3>3, <3>4 DEF Ready
      <4>2. QED
        BY <1>g, <1>h, <2>1, <2>5, <3>1, <4>1 DEF Stands
    <3>5. CASE client'[c].todo = <<>>
      <4>1. Outcome(client'[c].op, expected) = expected
        BY <3>2, <3>5 DEF Planned
      <4>2. Means(c)' = expected
        BY <2>1, <4>1 DEF Means
      <4>3. Through(c)'
        BY <2>1, <2>2, <3>5, <4>2 DEF Through
      <4>4. QED
        BY <1>g, <1>h, <2>1, <2>5, <3>1, <4>3 DEF Stands
    <3>6. QED
      BY <3>4, <3>5
  <2>6. QED
    BY <1>3, <2>4, <2>5 DEF Read
<1>4. ASSUME NEW c \in Clients, ReadFails(c)
      PROVE  WriteInv'
  <2>1. client[c].pc = "read" /\ UNCHANGED <<docs, search, log, flight, expected>>
        /\ client' = [client EXCEPT ![c] = Over(c)]
    BY <1>4 DEF ReadFails, At
  <2>2. ReachedBy(expected)'
    BY <1>f, <1>k, <2>1 DEF Stands, Resting
  <2>3. QED
    BY <1>j, <2>1, <2>2
\* A client about to make a call stands before it or between its calls.
<1>l. ASSUME NEW c \in Clients, client[c].pc = "send", client[c].todo # <<>>
      PROVE  Ready(c) \/ Halfway(c)
  BY <1>f, <1>l DEF Stands, Through
\* What a call leaves of a request.
<1>m. ASSUME NEW c \in Clients, NEW pc \in {"send", "await"}, client[c].pc = "send",
             client' = [client EXCEPT ![c].todo = Tail(@), ![c].pc = pc, ![c].wrote = TRUE],
             expected' = expected
      PROVE  /\ client'[c].pc = pc /\ client'[c].todo = Tail(client[c].todo)
             /\ client'[c].wrote /\ Means(c)' = Means(c)
             /\ Stands(c)' => WriteInv'
  <2> DEFINE v == [client[c] EXCEPT !.todo = Tail(@), !.pc = pc, !.wrote = TRUE]
  <2>1. client' = [client EXCEPT ![c] = v]
    BY <1>a, <1>m
  <2>2. v.pc = pc /\ v.todo = Tail(client[c].todo) /\ v.wrote = TRUE /\ v.op = client[c].op
    BY <1>a DEF ClientState
  <2> HIDE DEF v
  <2>3. client'[c] = v
    BY <1>a, <2>1
  <2>4. Stands(c)' => WriteInv'
    BY <1>g, <1>h, <1>m, <2>1
  <2>5. QED
    BY <1>m, <2>2, <2>3, <2>4 DEF Means
<1>5. ASSUME NEW c \in Clients, SendToDocuments(c)
      PROVE  WriteInv'
  <2>1. /\ client[c].pc = "send" /\ client[c].todo # <<>> /\ NextCall(c).to = "docs"
        /\ docs' = NextCall(c).m.doc
        /\ UNCHANGED <<search, log, flight, expected>>
    BY <1>5 DEF SendToDocuments, Sends, At, StoreDocument
  <2>2. client' = [client EXCEPT ![c].todo = Tail(@), ![c].pc = "send", ![c].wrote = TRUE]
    BY <1>5, <1>a, <2>1 DEF SendToDocuments, ClientState
  <2>3. /\ client'[c].pc = "send" /\ client'[c].todo = Tail(client[c].todo)
        /\ client'[c].wrote /\ Means(c)' = Means(c)
        /\ Stands(c)' => WriteInv'
    BY <1>m, <2>1, <2>2
  <2>4. ~Halfway(c)
    <3>1. ASSUME Halfway(c)
          PROVE  NextCall(c).to = "search"
      BY <3>1 DEF Halfway, NextCall
    <3>2. QED
      BY <2>1, <3>1
  <2>5. Ready(c)
    BY <1>l, <2>1, <2>4
  <2>6. /\ Projection /\ NextCall(c).m.doc = Means(c)
        /\ \/ Tail(client[c].todo) = <<>> /\ Alike(expected, Means(c))
           \/ \E b \in Call : /\ Tail(client[c].todo) = <<b>>
                              /\ b.to = "search" /\ b.mode \in {"wait", "ack"}
                              /\ Maps(b.m, expected, Means(c))
    BY <2>1, <2>5, FirstCall
  <2>7. flight = {} /\ Leads(config, search, log, expected)
    BY <2>5, <2>6 DEF Ready, Resting, ReachedBy, Reached, Projection
  <2>8. CASE Tail(client[c].todo) = <<>> /\ Alike(expected, Means(c))
    <3>1. Leads(config, search, log, Means(c))
      BY <1>a, <1>c, <2>6, <2>7, <2>8, LeadsAlike DEF Projection
    <3>2. ReachedBy(Means(c))'
      BY <1>b, <2>1, <2>3, <2>6, <2>7, <3>1 DEF ReachedBy, Reached
    <3>3. QED
      BY <2>3, <2>8, <3>2 DEF Stands, Through
  <2>9. CASE \E b \in Call : /\ Tail(client[c].todo) = <<b>>
                             /\ b.to = "search" /\ b.mode \in {"wait", "ack"}
                             /\ Maps(b.m, expected, Means(c))
    <3>1. Halfway(c)'
      BY <1>b, <2>1, <2>3, <2>6, <2>7, <2>9 DEF Halfway
    <3>2. QED
      BY <2>3, <3>1 DEF Stands
  <2>10. QED
    BY <2>6, <2>8, <2>9
\* What is sent to the search collection leads from there.
<1>n. ASSUME NEW c \in Clients, client[c].pc = "send", client[c].todo # <<>>,
             NextCall(c).to = "search"
      PROVE  /\ Projection => docs = Means(c) /\ NextCall(c).mode \in {"wait", "ack"}
             /\ flight = {} /\ Leads(config, search, log, expected)
             /\ ~Projection => log = <<>>
             /\ Maps(NextCall(c).m, expected, Means(c))
             /\ Tail(client[c].todo) = <<>>
  <2>1. CASE Ready(c)
    <3>1. /\ ~Projection /\ Maps(NextCall(c).m, expected, Means(c))
          /\ Tail(client[c].todo) = <<>>
      BY <1>n, <2>1, FirstCall
    <3>2. log = <<>> /\ flight = {}
      BY <2>1, <3>1 DEF Ready, Resting, Settled
    <3>3. Leads(config, search, log, expected)
      BY <2>1, <3>2 DEF Ready, Resting, ReachedBy, Reached
    <3>4. QED
      BY <3>1, <3>2, <3>3
  <2>2. CASE Halfway(c)
    BY <2>2 DEF Halfway, NextCall
  <2>3. QED
    BY <1>l, <1>n, <2>1, <2>2
<1>6. ASSUME NEW c \in Clients, SendToSearch(c)
      PROVE  WriteInv'
  <2>1. /\ client[c].pc = "send" /\ client[c].todo # <<>> /\ NextCall(c).to = "search"
        /\ UNCHANGED <<docs, search, flight, expected>>
    BY <1>6 DEF SendToSearch, Sends, At
  <2>2. PICK by \in Clients \cup {None} :
            log' = Append(log, [m |-> NextCall(c).m, by |-> by])
    BY <1>6 DEF SendToSearch
  <2>3. PICK pc \in {"send", "await"} :
            client' = [client EXCEPT ![c].todo = Tail(@), ![c].pc = pc, ![c].wrote = TRUE]
    BY <1>6 DEF SendToSearch
  <2>4. /\ client'[c].pc = pc /\ client'[c].todo = Tail(client[c].todo)
        /\ Means(c)' = Means(c)
        /\ Stands(c)' => WriteInv'
    BY <1>m, <2>1, <2>3
  <2> DEFINE e == [m |-> NextCall(c).m, by |-> by]
  <2>5. e \in Entry /\ e.m = NextCall(c).m
    BY <2>1, NextCallParts DEF Entry
  <2>6. log' = Append(log, e)
    BY <2>2
  <2> HIDE DEF e
  <2>7. Maps(e.m, expected, Means(c)) /\ Leads(config, search, log, expected)
        /\ flight = {} /\ Tail(client[c].todo) = <<>> /\ (Projection => docs = Means(c))
    BY <1>n, <2>1, <2>5
  <2>8. Leads(config, search, log', Means(c))
    BY <1>a, <1>c, <2>5, <2>6, <2>7, LeadsOn
  <2>9. ReachedBy(Means(c))'
    BY <1>b, <2>1, <2>4, <2>7, <2>8 DEF ReachedBy, Reached, Projection
  <2>10. Through(c)'
    BY <2>4, <2>7, <2>9 DEF Through
  <2>11. QED
    BY <2>4, <2>10 DEF Stands
<1>7. ASSUME NEW c \in Clients, Spawn(c)
      PROVE  WriteInv'
  <2>1. /\ client[c].pc = "send" /\ client[c].todo # <<>> /\ NextCall(c).mode = "detached"
        /\ UNCHANGED <<docs, search, log, expected>>
    BY <1>7 DEF Spawn, Sends, At
  <2>2. NextCall(c).to = "search" /\ ~Projection /\ Ready(c)
    <3>1. CASE Ready(c)
      BY <2>1, <3>1, FirstCall
    <3>2. ~Halfway(c)
      <4>1. ASSUME Halfway(c)
            PROVE  NextCall(c).mode \in {"wait", "ack"}
        BY <4>1 DEF Halfway, NextCall
      <4>2. QED
        BY <2>1, <4>1
    <3>3. QED
      BY <1>l, <2>1, <3>1, <3>2
  <2>3. /\ flight = {} /\ Leads(config, search, log, expected) /\ log = <<>>
        /\ Maps(NextCall(c).m, expected, Means(c)) /\ Tail(client[c].todo) = <<>>
    BY <1>n, <2>1, <2>2
  <2>4. CASE flight' = flight /\ client' = [client EXCEPT ![c] = Over(c)]
    <3>1. ReachedBy(expected)'
      BY <1>k, <2>1, <2>2, <2>4 DEF Ready, Resting
    <3>2. QED
      BY <1>j, <2>1, <2>4, <3>1
  <2>5. CASE /\ flight' = flight \cup {InFlight(c)}
             /\ client' = [client EXCEPT ![c].todo = Tail(@), ![c].wrote = TRUE]
    <3>1. client' = [client EXCEPT ![c].todo = Tail(@), ![c].pc = "send", ![c].wrote = TRUE]
      BY <1>a, <2>1, <2>5 DEF ClientState
    <3>2. /\ client'[c].pc = "send" /\ client'[c].todo = Tail(client[c].todo)
          /\ Means(c)' = Means(c)
          /\ Stands(c)' => WriteInv'
      BY <1>m, <2>1, <3>1
    <3>3. flight' = {InFlight(c)} /\ InFlight(c).call = NextCall(c)
      BY <2>3, <2>5 DEF InFlight
    <3>4. Follows(config, search, expected)
      BY <1>c, <2>3, LeadsNow
    <3>5. \E f \in flight', d \in DocumentOrNone :
                /\ flight' = {f} /\ f.call.to = "search"
                /\ Follows(config, search, d) /\ Maps(f.call.m, d, Means(c))
      BY <1>c, <2>2, <2>3, <3>3, <3>4
    <3>6. ReachedBy(Means(c))'
      BY <1>b, <2>1, <2>2, <2>3, <3>2, <3>5 DEF ReachedBy, Reached, Projection
    <3>7. Through(c)'
      BY <2>3, <3>2, <3>6 DEF Through
    <3>8. QED
      BY <3>2, <3>7 DEF Stands
  <2>6. QED
    BY <1>7, <2>4, <2>5 DEF Spawn
<1>8. ASSUME NEW c \in Clients, CallRefused(c)
      PROVE  WriteInv'
  <2>1. /\ client[c].pc = "send" /\ client[c].todo # <<>>
        /\ UNCHANGED <<docs, search, log, flight, expected>>
        /\ client' = [client EXCEPT ![c] = Over(c)]
    BY <1>8 DEF CallRefused, Sends, At
  <2>2. ~client[c].wrote
    BY <1>8, <1>d DEF CallRefused
  <2>3. Ready(c)
    BY <1>l, <2>1, <2>2 DEF Halfway
  <2>4. ReachedBy(expected)'
    BY <1>k, <2>1, <2>3 DEF Ready, Resting
  <2>5. QED
    BY <1>j, <2>1, <2>4
<1>9. ASSUME NEW c \in Clients, CallUnanswered(c) \/ AwaitUnanswered(c)
      PROVE  WriteInv'
  BY <1>9 DEF CallUnanswered, AwaitUnanswered
<1>10. ASSUME NEW c \in Clients, Finish(c)
       PROVE  WriteInv'
  <2>1. /\ client[c].pc = "send" /\ client[c].todo = <<>>
        /\ UNCHANGED <<docs, search, log, flight>>
        /\ client' = [client EXCEPT ![c] = Over(c)]
        /\ expected' = Means(c)
    BY <1>10 DEF Finish, At, Means
  <2>2. ReachedBy(Means(c))
    <3>1. ~Ready(c)
      BY <2>1 DEF Ready
    <3>2. ~Halfway(c)
      BY <2>1 DEF Halfway
    <3>3. QED
      BY <1>f, <2>1, <3>1, <3>2 DEF Stands, Through
  <2>3. ReachedBy(expected)'
    BY <1>b, <2>1, <2>2 DEF ReachedBy
  <2>4. QED
    BY <1>j, <2>1, <2>3
<1>11. ASSUME Apply
       PROVE  WriteInv'
  <2>1. /\ log # <<>> /\ log' = Tail(log) /\ search' = Applied(search, Head(log).m)
        /\ UNCHANGED <<docs, flight, expected>>
    BY <1>11 DEF Apply
  <2>2. \A d \in DocumentOrNone : ReachedBy(d) => ReachedBy(d)'
    <3>1. ASSUME NEW d \in DocumentOrNone, ReachedBy(d)
          PROVE  ReachedBy(d)'
      <4>1. Reached(config, docs, Applied(search, Head(log).m), Tail(log), flight, d)
        BY <2>1, <3>1, ReachedStill
      <4>2. QED
        BY <1>b, <2>1, <4>1 DEF ReachedBy
    <3>2. QED
      BY <3>1
  <2>3. Leads(config, search, log, expected) => Leads(config', search', log', expected')
    <3>1. ASSUME Leads(config, search, log, expected)
          PROVE  Leads(config, search', log', expected)
      BY <1>a, <1>c, <2>1, <3>1, LeadsStill DEF TypeOK
    <3>2. QED
      BY <1>b, <2>1, <3>1
  <2>4. Resting => Resting'
    BY <1>b, <1>c, <2>1, <2>2 DEF Resting, Settled
  <2>5. \A d \in Clients : client'[d] = client[d]
                        \/ (/\ client[d].pc = "await"
                            /\ client'[d] = [client[d] EXCEPT !.pc = "send"])
    <3>1. 1 \in 1..Len(log) /\ Head(log) = log[1]
      BY <1>a, <2>1, LogShortened
    <3>2. \A d \in Clients : d = Head(log).by => client[d].pc = "await"
      BY <1>c, <3>1 DEF LogInv
    <3>3. QED
      BY <1>11, <1>d, <3>2 DEF Apply
  <2>6. \A d \in Clients : /\ client'[d].pc = "idle" <=> client[d].pc = "idle"
                           /\ Means(d)' = Means(d) /\ client'[d].todo = client[d].todo
    BY <1>a, <2>1, <2>5 DEF ClientState, Means
  <2>7. ASSUME NEW d \in Clients, client'[d].pc # "idle"
        PROVE  Stands(d)'
    <3>1. Through(d) => Through(d)'
      BY <1>c, <2>2, <2>6 DEF Through
    <3>2. Stands(d)
      BY <1>f, <2>6, <2>7
    <3>3. CASE client[d].pc = "await" /\ client'[d] = [client[d] EXCEPT !.pc = "send"]
      <4>1. client'[d].pc = "send"
        BY <1>a, <3>3 DEF ClientState
      <4>2. Through(d)'
        BY <3>1, <3>2, <3>3 DEF Stands
      <4>3. QED
        BY <4>1, <4>2 DEF Stands
    <3>4. CASE client'[d] = client[d]
      <4>1. Ready(d) => Ready(d)'
        <5>1. Planned(client[d].todo, client[d].op, expected)
                => Planned(client[d].todo, client[d].op, expected)'
          BY <1>b, <2>1, <3>4 DEF Planned, Projecting, AsyncSearch
        <5>2. QED
          BY <2>4, <3>4, <5>1 DEF Ready
      <4>2. Halfway(d) => Halfway(d)'
        BY <1>b, <2>1, <2>3, <2>6, <3>4 DEF Halfway
      <4>3. QED
        BY <2>4, <2>7, <3>1, <3>2, <3>4, <4>1, <4>2 DEF Stands
    <3>5. QED
      BY <2>5, <3>3, <3>4
  <2>8. Alone'
    BY <1>f, <2>6 DEF Alone
  <2>9. (\A d \in Clients : client'[d].pc = "idle") => ReachedBy(expected)'
    BY <1>c, <1>f, <2>1, <2>2, <2>6
  <2>10. QED
    BY <2>7, <2>8, <2>9 DEF WriteInv
<1>12. ASSUME NEW f \in flight, FlightArrives(f)
       PROVE  WriteInv'
  <2>1. /\ UNCHANGED <<search, client, expected>> /\ flight' = flight \ {f}
    BY <1>12 DEF FlightArrives
  <2>2. ASSUME NEW d \in DocumentOrNone, ReachedBy(d)
        PROVE  ~Projection /\ ReachedBy(d)'
    <3>1. PICK g \in flight, b \in DocumentOrNone :
                /\ flight = {g} /\ g.call.to = "search"
                /\ Follows(config, search, b) /\ Maps(g.call.m, b, d)
      BY <2>2 DEF ReachedBy, Reached
    <3>2. ~config.projection /\ log = <<>> /\ g = f /\ flight' = {}
      BY <2>1, <2>2, <3>1 DEF ReachedBy, Reached
    <3> DEFINE e == [m |-> f.call.m, by |-> None]
    <3>3. log' = Append(<<>>, e)
      BY <1>12, <3>1, <3>2 DEF FlightArrives
    <3>4. e \in Entry /\ e.m = f.call.m
      BY DEF TypeOK, Flight, Call, Entry
    <3> HIDE DEF e
    <3>5. Leads(config, search, <<>>, b)
      BY <3>1, LeadsNow
    <3>6. Leads(config, search, log', d)
      BY <2>2, <3>1, <3>2, <3>3, <3>4, <3>5, LeadsOn, EmptySeq
    <3>7. QED
      BY <1>b, <2>1, <3>2, <3>6 DEF ReachedBy, Reached, Projection
  <2>3. \A d \in Clients : client'[d] = client[d] /\ Means(d)' = Means(d)
    BY <2>1 DEF Means
  <2>4. ASSUME NEW d \in Clients, client'[d].pc # "idle"
        PROVE  Stands(d)'
    <3>1. Stands(d)
      BY <1>f, <2>3, <2>4
    <3>2. ~Resting
      BY <1>c, <2>2 DEF Resting, Settled
    <3>3. ~Ready(d) /\ ~Halfway(d)
      BY <3>2 DEF Ready, Halfway
    <3>4. client[d].pc \in {"send", "await"} /\ Through(d)
      BY <1>a, <2>3, <2>4, <3>1, <3>2, <3>3 DEF Stands, ClientState
    <3>5. Through(d)'
      BY <1>c, <2>2, <2>3, <3>4 DEF Through
    <3>6. QED
      BY <2>3, <3>4, <3>5 DEF Stands
  <2>5. Alone'
    BY <1>f, <2>3 DEF Alone
  <2>6. (\A d \in Clients : client'[d].pc = "idle") => ReachedBy(expected)'
    BY <1>c, <1>f, <2>1, <2>2, <2>3
  <2>7. QED
    BY <2>4, <2>5, <2>6 DEF WriteInv
<1>13. ASSUME NEW f \in flight, FlightLost(f)
       PROVE  WriteInv'
  BY <1>13 DEF FlightLost
<1>14. CASE UNCHANGED vars
  <2>1. UNCHANGED <<docs, search, log, flight, client, expected>>
    BY <1>14 DEF vars
  <2>2. \A d \in Clients : Stands(d) => Stands(d)'
    <3>1. ASSUME NEW d \in Clients
          PROVE  Stands(d) => Stands(d)'
      <4>1. Means(d)' = Means(d)
        BY <2>1 DEF Means
      <4>2. Ready(d) => Ready(d)'
        <5>1. Planned(client[d].todo, client[d].op, expected)
                => Planned(client[d].todo, client[d].op, expected)'
          BY <1>b, <2>1 DEF Planned, Projecting, AsyncSearch
        <5>2. QED
          BY <1>k, <2>1, <5>1 DEF Ready
      <4>3. Halfway(d) => Halfway(d)'
        BY <1>b, <2>1, <4>1 DEF Halfway
      <4>4. Through(d) => Through(d)'
        BY <1>k, <2>1, <4>1 DEF Through
      <4>5. QED
        BY <1>k, <2>1, <4>2, <4>3, <4>4 DEF Stands
    <3>2. QED
      BY <3>1
  <2>3. QED
    BY <1>f, <1>k, <2>1, <2>2 DEF WriteInv, Alone
<1>15. QED
  BY <1>1, <1>2, <1>3, <1>4, <1>5, <1>6, <1>7, <1>8, <1>9, <1>10, <1>11, <1>12, <1>13, <1>14
     DEF Next

\* When nothing is under way, what was reached is there.
LEMMA QuietIsReached ==
    ASSUME TypeOK, WriteInv, clean, Quiet
    PROVE  Current = expected /\ Follows(config, search, expected)
<1>1. ReachedBy(expected) /\ log = <<>> /\ flight = {}
  BY DEF WriteInv, Quiet, At
<1>2. Current = expected
  BY <1>1, RestingReads DEF Resting, Settled
<1>3. QED
  <2>1. expected \in DocumentOrNone
    BY DEF TypeOK, DocumentOrNone
  <2>2. QED
    BY <1>1, <1>2, <2>1, LeadsNow DEF ReachedBy, Reached

(* Writes that neither overlap nor fail half way leave the document of the  *)
(* last answered one (the read, merge and write of update_doc and the order *)
(* of logged and spawned calls), under every combination of the settings.   *)
THEOREM LastWritesStay == Spec => []LastWriteStays
<1>1. TypeOK /\ WriteInv => LastWriteStays
  BY QuietIsReached DEF LastWriteStays
<1>2. QED
  BY <1>1, InitIsTyped, StepIsTyped, InitLog, StepKeepsLog, InitWrites, StepKeepsWrites,
     PTL DEF Spec

(* ... and the search collection has that document's filter fields and the  *)
(* vectors of the text fields that flatten_text finds by the names of their *)
(* vectors: the calls that update_doc leaves out would have changed none.   *)
THEOREM SearchesFollow == Spec => []SearchFollows
<1>1. TypeOK /\ WriteInv => SearchFollows
  <2> SUFFICES ASSUME TypeOK, WriteInv, clean, Quiet
               PROVE  IF Current = None THEN search = None
                      ELSE /\ search # None
                           /\ search.payload = Only(Current, MetaFields)
                           /\ \A f \in PlainFields :
                                search.own[VectorOf[f]] = Current[f]
    BY DEF SearchFollows
  <2>1. QED
    BY QuietIsReached DEF Follows
<1>2. QED
  BY <1>1, InitIsTyped, StepIsTyped, InitLog, StepKeepsLog, InitWrites, StepKeepsWrites,
     PTL DEF Spec
=============================================================================
