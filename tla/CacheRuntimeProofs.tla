------------------------- MODULE CacheRuntimeProofs -------------------------
(* Theorems about CacheRuntime, for any number of identities, requests,    *)
(* parts and epochs.                                                       *)
EXTENDS CacheRuntime, ReadCacheProofs

----------------------------------------------------------------------------
(* Type correctness.                                                       *)

Responses == View \cup {Garbled}

\* A request's record, part by part.
LEMMA WriteParts ==
    ASSUME TypeOK, NEW w \in Tokens
    PROVE  /\ write[w] \in WriteRequest
           /\ write[w].deployment \in Identities
           /\ write[w].epoch \in 0..MaxEpoch
           /\ write[w].todo \subseteq Parts
           /\ write[w].part \in Parts \cup {None}
BY DEF TypeOK, WriteRequest

\* What a finished attempt leads to is a place of the program.
LEMMA AfterCatalogIsPlace ==
    ASSUME NEW w \in Tokens
    PROVE  AfterCatalog(w) \in {"done", "release"}
BY DEF AfterCatalog

\* The initial state.
LEMMA InitIsTyped == Init => TypeOK
<1> SUFFICES ASSUME Init PROVE TypeOK
  OBVIOUS
<1>1. 0 \in 0..MaxEpoch
  BY MaxEpochAssumption
<1>2. (CHOOSE d \in Identities : TRUE) \in Identities /\ (CHOOSE k \in Keys : TRUE) \in Keys
  BY RequestsAssumption
<1>3. control \in Control
  BY <1>1 DEF Init, KeyspaceInit, Unusable, NoWriters, Control
<1>4. KeyspaceTypeOK(Responses) /\ claim \in Tokens \cup {None} /\ catalog \in Content
  BY <1>3 DEF Init, KeyspaceInit, KeyspaceTypeOK, EntryTable, Content
<1>5. write \in [Tokens -> WriteRequest]
  BY <1>1, <1>2 DEF Init, WriteRequest, Content
<1>6. read \in [Readers -> ReadRequest]
  BY <1>1, <1>2 DEF Init, ReadRequest, Content
<1>7. store \in [Parts -> Content]
  BY DEF Init, Content
<1>8. QED
  BY <1>4, <1>5, <1>6, <1>7 DEF Init, TypeOK, Responses

\* The scripts keep the types of the keyspace.
KeyspaceTyped ==
    /\ KeyspaceTypeOK(Responses)
    /\ claim \in Tokens \cup {None}
    /\ catalog \in Content

\* ADMIT, RELEASE and the claim's scripts.
LEMMA AdmitIsTyped ==
    ASSUME KeyspaceTyped, NEW d, NEW t \in Tokens, NEW s \in {"active", "maintenance"},
           Admit(d, t, s)
    PROVE  KeyspaceTyped' /\ control.epoch + 1 \in 0..MaxEpoch
<1>1. control.epoch + 1 \in 0..MaxEpoch
  BY NextEpoch DEF Admit, KeyspaceTyped, KeyspaceTypeOK, Control
<1>2. control' \in Control
  BY <1>1 DEF Admit, KeyspaceTyped, KeyspaceTypeOK, Control
<1>3. QED
  BY <1>1, <1>2 DEF Admit, KeyspaceTyped, KeyspaceTypeOK

\* RELEASE removes a field.
LEMMA ReleaseIsTyped ==
    ASSUME KeyspaceTyped, NEW d, NEW t \in Tokens, NEW e, Release(d, t, e)
    PROVE  KeyspaceTyped'
<1>1. control' \in Control
  BY MaxEpochAssumption DEF Release, KeyspaceTyped, KeyspaceTypeOK, Control
<1>2. QED
  BY <1>1 DEF Release, KeyspaceTyped, KeyspaceTypeOK

\* The scripts of the claim.
LEMMA ClaimIsTyped ==
    ASSUME KeyspaceTyped, NEW t \in Tokens,
           \/ \E isAdmin \in BOOLEAN : BeginScript(t, isAdmin)
           \/ CommitScript(t) \/ UnclaimScript(t) \/ ResolveClaim
    PROVE  KeyspaceTyped'
BY DEF BeginScript, CommitScript, UnclaimScript, ResolveClaim, KeyspaceTyped,
       KeyspaceTypeOK, Content

\* PUBLISH stores an entry.
LEMMA PublishIsTyped ==
    ASSUME KeyspaceTyped, NEW d \in Identities, NEW e, NEW k \in Keys,
           NEW response \in Responses, Publish(d, e, k, response)
    PROVE  KeyspaceTyped'
<1>1. [epoch |-> control.epoch, response |-> response] \in Entry(Responses)
  BY DEF KeyspaceTyped, KeyspaceTypeOK, Control, Entry
<1>2. entries' \in EntryTable(Responses)
  BY <1>1 DEF Publish, KeyspaceTyped, KeyspaceTypeOK, EntryTable
<1>3. QED
  BY <1>2 DEF Publish, KeyspaceTyped, KeyspaceTypeOK

\* The operator's commands.
LEMMA OperatorIsTyped ==
    ASSUME KeyspaceTyped, Operator
    PROVE  KeyspaceTyped'
<1>1. ASSUME NEW d \in Identities, NEW completes \in BOOLEAN, Bootstrap(d, completes)
      PROVE  KeyspaceTyped'
  BY <1>1, ControlValues DEF Bootstrap, Record, KeyspaceTyped, KeyspaceTypeOK
<1>2. ASSUME NEW old \in Identities, NEW new \in Identities,
             Recover(old, new) \/ RecoverStops(old, new)
      PROVE  KeyspaceTyped'
  <2>1. control' \in Control
    <3>1. CASE Recover(old, new)
      BY <3>1, ControlValues DEF Recover, KeyspaceTyped, KeyspaceTypeOK
    <3>2. CASE RecoverStops(old, new)
      BY <3>2, ControlValues DEF RecoverStops, KeyspaceTyped, KeyspaceTypeOK
    <3>3. QED
      BY <1>2, <3>1, <3>2
  <2>2. /\ lineage' \in Identities \cup {None} /\ tombstones' \subseteq Identities
        /\ UNCHANGED <<claim, catalog, entries, saved>>
    BY <1>2 DEF Recover, RecoverStops, Record, KeyspaceTyped, KeyspaceTypeOK
  <2>3. QED
    BY <2>1, <2>2 DEF KeyspaceTyped, KeyspaceTypeOK
<1>3. CASE ResolveClaim
  BY <1>3 DEF ResolveClaim, KeyspaceTyped, KeyspaceTypeOK
<1>4. QED
  BY <1>1, <1>2, <1>3 DEF Operator

\* The server, and what is done behind the gateway's back.
LEMMA ServerIsTyped ==
    ASSUME KeyspaceTyped, Server
    PROVE  KeyspaceTyped'
<1>1. ASSUME NEW d \in Identities, NEW k \in Keys, Expire(d, k)
      PROVE  KeyspaceTyped'
  <2>1. entries' \in EntryTable(Responses)
    BY <1>1 DEF Expire, KeyspaceTyped, KeyspaceTypeOK, EntryTable
  <2>2. QED
    BY <1>1, <2>1 DEF Expire, KeyspaceTyped, KeyspaceTypeOK
<1>2. ASSUME NEW d \in Identities, NEW k \in Keys, Garble(d, k)
      PROVE  KeyspaceTyped'
  <2>1. entries[d][k] \in Entry(Responses)
    BY <1>2 DEF Garble, KeyspaceTyped, KeyspaceTypeOK, EntryTable
  <2>2. [entries[d][k] EXCEPT !.response = Garbled] \in Entry(Responses)
    BY <2>1 DEF Entry, Responses
  <2>3. entries' = [entries EXCEPT ![d] =
                      [entries[d] EXCEPT ![k] = [entries[d][k] EXCEPT !.response = Garbled]]]
    BY <1>2 DEF Garble
  <2>4. entries' \in EntryTable(Responses)
    BY <2>2, <2>3 DEF KeyspaceTyped, KeyspaceTypeOK, EntryTable
  <2>5. QED
    BY <1>2, <2>4 DEF Garble, KeyspaceTyped, KeyspaceTypeOK
<1>3. CASE RewriteAof \/ RestartValkey
  BY <1>3 DEF RewriteAof, RestartValkey, KeyspaceTyped, KeyspaceTypeOK
<1>4. CASE DamageControl
  <2>1. control' \in Control
    BY <1>4, DamagedControl DEF DamageControl, KeyspaceTyped, KeyspaceTypeOK
  <2>2. QED
    BY <1>4, <2>1 DEF DamageControl, KeyspaceTyped, KeyspaceTypeOK
<1>5. QED
  BY <1>1, <1>2, <1>3, <1>4 DEF Server

----------------------------------------------------------------------------
(* The types are kept by every step.  A published response is a view only  *)
(* because an answer is complete before it is published.                   *)

\* An answer that may be published has every part.
AnswersComplete ==
    \A r \in Readers :
        AtR(r, "publish") \/ <<"publish", r>> \in late =>
            \A p \in Parts : read[r].parts[p] # None

\* The keyspace's share of the type invariant.
RequestsTyped ==
    /\ store \in [Parts -> Content]
    /\ pending \subseteq Tokens \X Parts
    /\ late \subseteq Call
    /\ write \in [Tokens -> WriteRequest]
    /\ read \in [Readers -> ReadRequest]

\* ... before a step and after it.
LEMMA TypesApart ==
    /\ TypeOK <=> KeyspaceTyped /\ RequestsTyped
    /\ TypeOK' <=> KeyspaceTyped' /\ RequestsTyped'
BY DEF TypeOK, KeyspaceTyped, Responses, RequestsTyped

\* A step that leaves the keyspace alone.
LEMMA IdleKeyspaceIsTyped ==
    ASSUME KeyspaceTyped, UNCHANGED keyspace
    PROVE  KeyspaceTyped'
BY DEF keyspace, KeyspaceTyped, KeyspaceTypeOK

\* A complete answer is a view.
LEMMA AnswerIsView ==
    ASSUME TypeOK, NEW r \in Readers, \A p \in Parts : read[r].parts[p] # None
    PROVE  [catalog |-> read[r].catalog, parts |-> read[r].parts] \in Responses
<1>1. read[r].parts \in [Parts -> Content \cup {None}] /\ read[r].catalog \in Content
  BY DEF TypeOK, ReadRequest
<1>2. read[r].parts \in [Parts -> Content]
  BY <1>1
<1>3. QED
  BY <1>1, <1>2 DEF Responses, View

\* A request arrives.
LEMMA ArrivalIsTyped ==
    ASSUME TypeOK, Arrive
    PROVE  TypeOK'
<1>1. ASSUME NEW w \in Tokens, NEW d \in Identities, NEW isAdmin \in BOOLEAN,
             NEW plan \in SUBSET Parts, ArriveWrite(w, d, isAdmin, plan)
      PROVE  TypeOK'
  <2>1. [write[w] EXCEPT !.pc = "admit", !.deployment = d, !.admin = isAdmin,
                         !.todo = plan] \in WriteRequest
    BY DEF TypeOK, WriteRequest
  <2>2. write' \in [Tokens -> WriteRequest]
    BY <1>1, <2>1 DEF ArriveWrite, TypeOK
  <2>3. QED
    BY <1>1, <2>2, TypesApart, IdleKeyspaceIsTyped DEF RequestsTyped, ArriveWrite, OnlyWrite
<1>2. ASSUME NEW w \in Tokens, NEW d \in Identities, Maintain(w, d)
      PROVE  TypeOK'
  <2>1. [write[w] EXCEPT !.pc = "done", !.deployment = d, !.lost = TRUE] \in WriteRequest
    BY DEF TypeOK, WriteRequest
  <2>2. write' \in [Tokens -> WriteRequest]
    BY <1>2, <2>1 DEF Maintain, TypeOK
  <2>3. KeyspaceTyped'
    BY <1>2, AdmitIsTyped, TypesApart DEF RequestsTyped, Maintain
  <2>4. QED
    BY <1>2, <2>2, <2>3, TypesApart DEF RequestsTyped, Maintain
<1>3. ASSUME NEW r \in Readers, NEW d \in Identities, NEW k \in Keys,
             LookupMisses(r, d, k) \/ LookupHitsGarbled(r, d, k)
      PROVE  TypeOK'
  <2>1. control.epoch \in 0..MaxEpoch /\ catalog \in Content
    BY DEF TypeOK, KeyspaceTypeOK, Control
  <2>2. /\ [read[r] EXCEPT !.pc = "parts", !.deployment = d, !.key = k,
                           !.epoch = control.epoch, !.catalog = catalog] \in ReadRequest
        /\ [read[r] EXCEPT !.pc = "load", !.deployment = d, !.key = k,
                           !.epoch = control.epoch] \in ReadRequest
    BY <2>1 DEF TypeOK, ReadRequest
  <2>3. read' \in [Readers -> ReadRequest]
    BY <1>3, <2>2 DEF LookupMisses, LookupHitsGarbled, TypeOK
  <2>4. QED
    BY <1>3, <2>3, TypesApart, IdleKeyspaceIsTyped
       DEF RequestsTyped, LookupMisses, LookupHitsGarbled, OnlyRead
<1>4. QED
  BY <1>1, <1>2, <1>3 DEF Arrive

\* A mutating request steps.
LEMMA WriteStepIsTyped ==
    ASSUME TypeOK, NEW w \in Tokens, WriteStep(w)
    PROVE  TypeOK'
<1> USE DEF TypeOK
<1>1. CASE AdmitRequest(w)
  <2>1. KeyspaceTyped' /\ control.epoch + 1 \in 0..MaxEpoch
    BY <1>1, AdmitIsTyped, TypesApart DEF RequestsTyped, AdmitRequest
  <2>2. [write[w] EXCEPT !.pc = "begin", !.epoch = control.epoch + 1] \in WriteRequest
    BY <2>1 DEF WriteRequest
  <2>3. write' \in [Tokens -> WriteRequest]
    BY <1>1, <2>2 DEF AdmitRequest
  <2>4. QED
    BY <1>1, <2>1, <2>3, TypesApart DEF RequestsTyped, AdmitRequest
<1>2. CASE BeginRequest(w)
  <2>1. KeyspaceTyped'
    <3>1. write[w].admin \in BOOLEAN
      BY DEF WriteRequest
    <3>2. QED
      BY <1>2, <3>1, ClaimIsTyped, TypesApart DEF RequestsTyped, BeginRequest
  <2>2. [write[w] EXCEPT !.pc = "handler", !.base = catalog] \in WriteRequest
    BY DEF WriteRequest
  <2>3. write' \in [Tokens -> WriteRequest]
    BY <1>2, <2>2 DEF BeginRequest
  <2>4. QED
    BY <1>2, <2>1, <2>3, TypesApart DEF RequestsTyped, BeginRequest
<1>3. ASSUME NEW pc \in {"done", "release", "commit"}, OnlyWrite,
             write' = [write EXCEPT ![w].pc = pc]
      PROVE  TypeOK'
  <2>1. [write[w] EXCEPT !.pc = pc] \in WriteRequest
    BY DEF WriteRequest
  <2>2. write' \in [Tokens -> WriteRequest]
    BY <1>3, <2>1
  <2>3. QED
    BY <1>3, <2>2, TypesApart, IdleKeyspaceIsTyped DEF RequestsTyped, OnlyWrite
<1>4. CASE BeginFails(w)
  BY <1>3, <1>4, AfterCatalogIsPlace DEF BeginFails
<1>5. ASSUME NEW p \in Parts, SendMutation(w, p)
      PROVE  TypeOK'
  <2>1. write[w].todo \ {p} \in SUBSET Parts
    BY WriteParts
  <2>2. [write[w] EXCEPT !.pc = "sent", !.part = p, !.todo = write[w].todo \ {p},
                         !.started = TRUE] \in WriteRequest
    BY <2>1 DEF WriteRequest
  <2>3. write' \in [Tokens -> WriteRequest]
    BY <1>5, <2>2 DEF SendMutation
  <2>4. pending' \subseteq Tokens \X Parts
    BY <1>5 DEF SendMutation
  <2>5. QED
    BY <1>5, <2>3, <2>4, TypesApart, IdleKeyspaceIsTyped DEF RequestsTyped, SendMutation
<1>6. CASE MutationCompletes(w) \/ MutationUncertain(w)
  <2>1. /\ [write[w] EXCEPT !.pc = "handler", !.part = None] \in WriteRequest
        /\ [write[w] EXCEPT !.pc = "handler", !.part = None, !.uncertain = TRUE]
             \in WriteRequest
    BY DEF WriteRequest
  <2>2. write' \in [Tokens -> WriteRequest]
    BY <1>6, <2>1 DEF MutationCompletes, MutationUncertain
  <2>3. QED
    BY <1>6, <2>2, TypesApart, IdleKeyspaceIsTyped
       DEF RequestsTyped, MutationCompletes, MutationUncertain, OnlyWrite
<1>7. CASE HandlerSucceeds(w)
  BY <1>3, <1>7, AfterCatalogIsPlace DEF HandlerSucceeds
<1>8. ASSUME NEW sentPost \in BOOLEAN, HandlerFails(w, sentPost)
      PROVE  TypeOK'
  <2>1. PICK pc \in {"done", "release", "unclaim"}, started \in BOOLEAN, lost \in BOOLEAN :
           write' = [write EXCEPT ![w].started = started, ![w].lost = lost, ![w].pc = pc]
    <3>1. write[w].started \in BOOLEAN /\ write[w].admin \in BOOLEAN
      BY DEF WriteRequest
    <3>2. (write[w].started \/ sentPost) \in BOOLEAN
          /\ (write[w].admin /\ (write[w].started \/ sentPost)) \in BOOLEAN
      OBVIOUS
    <3>3. (CASE ~write[w].admin -> AfterCatalog(w)
             [] write[w].admin /\ ~write[w].started /\ ~sentPost -> "unclaim"
             [] OTHER -> "done") \in {"done", "release", "unclaim"}
      BY AfterCatalogIsPlace
    <3>4. QED
      BY <1>8, <3>2, <3>3 DEF HandlerFails
  <2>2. [write[w] EXCEPT !.started = started, !.lost = lost, !.pc = pc] \in WriteRequest
    BY DEF WriteRequest
  <2>3. write' \in [Tokens -> WriteRequest]
    BY <2>1, <2>2
  <2>4. QED
    BY <1>8, <2>3, TypesApart, IdleKeyspaceIsTyped DEF RequestsTyped, HandlerFails, OnlyWrite
<1>9. CASE Settle(w)
  <2>1. KeyspaceTyped'
    BY <1>9, ClaimIsTyped, TypesApart DEF RequestsTyped, Settle
  <2>2. [write[w] EXCEPT !.pc = AfterCatalog(w)] \in WriteRequest
    BY AfterCatalogIsPlace DEF WriteRequest
  <2>3. write' \in [Tokens -> WriteRequest]
    BY <1>9, <2>2 DEF Settle
  <2>4. QED
    BY <1>9, <2>1, <2>3, TypesApart DEF RequestsTyped, Settle
<1>10. CASE ReleaseRequest(w)
  <2>1. KeyspaceTyped'
    BY <1>10, ReleaseIsTyped, TypesApart DEF RequestsTyped, ReleaseRequest
  <2>2. [write[w] EXCEPT !.pc = "done"] \in WriteRequest
    BY DEF WriteRequest
  <2>3. write' \in [Tokens -> WriteRequest]
    BY <1>10, <2>2 DEF ReleaseRequest
  <2>4. QED
    BY <1>10, <2>1, <2>3, TypesApart DEF RequestsTyped, ReleaseRequest
<1>11. CASE AbandonWrite(w)
  <2>1. [write[w] EXCEPT !.pc = "done", !.lost = TRUE] \in WriteRequest
    BY DEF WriteRequest
  <2>2. write' \in [Tokens -> WriteRequest]
    BY <1>11, <2>1 DEF AbandonWrite
  <2>3. late' \subseteq Call
    BY <1>11 DEF AbandonWrite
  <2>4. QED
    BY <1>11, <2>2, <2>3, TypesApart, IdleKeyspaceIsTyped DEF RequestsTyped, AbandonWrite
<1>12. QED
  BY <1>1, <1>2, <1>4, <1>5, <1>6, <1>7, <1>8, <1>9, <1>10, <1>11 DEF WriteStep

\* A read steps.
LEMMA ReadStepIsTyped ==
    ASSUME TypeOK, AnswersComplete, NEW r \in Readers, ReadStep(r)
    PROVE  TypeOK'
<1> USE DEF TypeOK
<1>1. CASE LoadCatalog(r)
  <2>1. [read[r] EXCEPT !.pc = "parts", !.catalog = catalog] \in ReadRequest
    BY DEF ReadRequest
  <2>2. read' \in [Readers -> ReadRequest]
    BY <1>1, <2>1 DEF LoadCatalog
  <2>3. QED
    BY <1>1, <2>2, TypesApart, IdleKeyspaceIsTyped DEF RequestsTyped, LoadCatalog, OnlyRead
<1>2. ASSUME NEW p \in Parts, ReadPart(r, p)
      PROVE  TypeOK'
  <2>1. [read[r].parts EXCEPT ![p] = store[p]] \in [Parts -> Content \cup {None}]
    BY DEF ReadRequest
  <2>2. [read[r] EXCEPT !.parts = [read[r].parts EXCEPT ![p] = store[p]]] \in ReadRequest
    BY <2>1 DEF ReadRequest
  <2>3. read' = [read EXCEPT ![r] =
                   [read[r] EXCEPT !.parts = [read[r].parts EXCEPT ![p] = store[p]]]]
    BY <1>2 DEF ReadPart
  <2>4. read' \in [Readers -> ReadRequest]
    BY <2>2, <2>3
  <2>5. QED
    BY <1>2, <2>4, TypesApart, IdleKeyspaceIsTyped DEF RequestsTyped, ReadPart, OnlyRead
<1>3. ASSUME NEW pc \in {"publish", "done"}
      PROVE  [read EXCEPT ![r].pc = pc] \in [Readers -> ReadRequest]
  <2>1. [read[r] EXCEPT !.pc = pc] \in ReadRequest
    BY DEF ReadRequest
  <2>2. QED
    BY <2>1
<1>4. CASE Answer(r)
  BY <1>3, <1>4, TypesApart, IdleKeyspaceIsTyped DEF RequestsTyped, Answer, OnlyRead
<1>5. CASE PublishAnswer(r)
  <2>1. read[r].deployment \in Identities /\ read[r].key \in Keys
    BY DEF ReadRequest
  <2>2. [catalog |-> read[r].catalog, parts |-> read[r].parts] \in Responses
    BY <1>5, AnswerIsView DEF PublishAnswer, AnswersComplete
  <2>3. KeyspaceTyped'
    BY <1>5, <2>1, <2>2, PublishIsTyped, TypesApart DEF PublishAnswer, PublishScript
  <2>4. QED
    BY <1>3, <1>5, <2>3, TypesApart DEF RequestsTyped, PublishAnswer
<1>6. CASE AbandonRead(r)
  <2>1. late' \subseteq Call
    BY <1>6 DEF AbandonRead
  <2>2. QED
    BY <1>3, <1>6, <2>1, TypesApart, IdleKeyspaceIsTyped DEF RequestsTyped, AbandonRead
<1>7. QED
  BY <1>1, <1>2, <1>4, <1>5, <1>6 DEF ReadStep

\* A late call comes from a request of the right kind.
LEMMA LateCallers ==
    ASSUME TypeOK, NEW call \in late
    PROVE  /\ call = <<call[1], call[2]>>
           /\ call[1] = "publish" => call[2] \in Readers
           /\ call[1] # "publish" => call[2] \in Tokens
BY DEF TypeOK, Call

\* A late call is executed.
LEMMA ExecuteIsTyped ==
    ASSUME TypeOK, AnswersComplete, NEW call \in late, Execute(call)
    PROVE  TypeOK'
<1> DEFINE w == call[2]
<1> HIDE DEF w
<1>1. KeyspaceTyped /\ RequestsTyped
  BY TypesApart
<1>2. KeyspaceTyped'
  <2>1. CASE call[1] = "publish" /\ PublishScript(w)
    <3>1. w \in Readers /\ <<"publish", w>> \in late
      BY <2>1, LateCallers DEF w
    <3>2. read[w].deployment \in Identities /\ read[w].key \in Keys
      BY <3>1 DEF TypeOK, ReadRequest
    <3>3. [catalog |-> read[w].catalog, parts |-> read[w].parts] \in Responses
      BY <3>1, AnswerIsView DEF AnswersComplete
    <3>4. QED
      BY <1>1, <2>1, <3>2, <3>3, PublishIsTyped DEF PublishScript
  <2>2. CASE call[1] # "publish"
    <3>1. w \in Tokens
      BY <2>2, LateCallers DEF w
    <3>2. CASE Admit(write[w].deployment, w, "active")
      BY <1>1, <3>1, <3>2, AdmitIsTyped
    <3>3. CASE BeginScript(w, TRUE) \/ CommitScript(w) \/ UnclaimScript(w)
      BY <1>1, <3>1, <3>3, ClaimIsTyped
    <3>4. CASE Release(write[w].deployment, w, write[w].epoch)
      BY <1>1, <3>1, <3>4, ReleaseIsTyped
    <3>5. QED
      BY <2>2, <3>2, <3>3, <3>4 DEF Execute, w
  <2>3. QED
    BY <2>1, <2>2 DEF Execute, w
<1>3. RequestsTyped'
  BY <1>1 DEF Execute, RequestsTyped
<1>4. QED
  BY <1>2, <1>3, TypesApart

\* Every step keeps the types.
LEMMA StepIsTyped ==
    ASSUME TypeOK, AnswersComplete, [Next]_vars
    PROVE  TypeOK'
<1>1. KeyspaceTyped /\ RequestsTyped
  BY TypesApart
<1>2. ASSUME NEW op \in pending, Apply(op) \/ Lose(op)
      PROVE  TypeOK'
  <2>1. op[1] \in Content /\ op[2] \in Parts
    BY <1>1 DEF RequestsTyped, Content
  <2>2. RequestsTyped'
    BY <1>1, <1>2, <2>1 DEF RequestsTyped, Apply, Lose
  <2>3. KeyspaceTyped'
    BY <1>1, <1>2, IdleKeyspaceIsTyped DEF Apply, Lose
  <2>4. QED
    BY <2>2, <2>3, TypesApart
<1>3. CASE Operator
  BY <1>1, <1>3, OperatorIsTyped, TypesApart DEF Operator, RequestsTyped
<1>4. CASE Server
  BY <1>1, <1>4, ServerIsTyped, TypesApart DEF Server, RequestsTyped
<1>5. CASE UNCHANGED vars
  BY <1>1, <1>5, IdleKeyspaceIsTyped, TypesApart DEF vars, RequestsTyped
<1>6. QED
  BY <1>2, <1>3, <1>4, <1>5, ArrivalIsTyped, WriteStepIsTyped, ReadStepIsTyped,
     ExecuteIsTyped DEF Next

----------------------------------------------------------------------------
(* The inductive invariant.  Epochs decide: an entry or a ticket of the    *)
(* current epoch was made when no token was recorded, and since then no    *)
(* token was; and whoever may still change the catalog or Qdrant has a     *)
(* token recorded.  Only an identity never used before opens a cache       *)
(* again, and only while no writer runs.                                   *)

\* The calls of a mutating request, and whether one is unanswered.
WriteCalls == {"admit", "begin", "commit", "unclaim", "release"}
Late(kind, x) == <<kind, x>> \in late

\* The mutations a request sent that are neither applied nor lost.
Unsettled(w) == {op \in pending : op[1] = w}

Running(w) == write[w].pc \in {"begin", "handler", "sent", "commit", "unclaim", "release"}

\* The catalog may still become this request's.
MayCommit(w) == claim = w /\ (AtW(w, "commit") \/ Late("commit", w))

\* A request gives up on one call at most, its last.
GivesUpOnce(w) ==
    \A kind \in WriteCalls :
        Late(kind, w) =>
            /\ AtW(w, "done") /\ write[w].lost
            /\ \A other \in WriteCalls : Late(other, w) => other = kind

\* Only uncertainty and the mutation it waits for hide behind a request.
MutationsCounted(w) ==
    /\ write[w].pc \in {"idle", "admit", "begin", "release"} \/ Late("release", w)
         => Unsettled(w) = {}
    /\ ~write[w].uncertain /\ write[w].pc \in {"handler", "commit", "unclaim"}
         => Unsettled(w) = {}
    /\ ~write[w].uncertain /\ AtW(w, "sent")
         => Unsettled(w) \subseteq {<<w, write[w].part>>}

\* While the cache is in service, whoever may still change something has its
\* token recorded.
TokenRecorded(w) ==
    \A d \in Identities :
        OpenTo(d) /\ (Running(w) \/ Unsettled(w) # {} \/ MayCommit(w))
            => control.writers[w] # 0

\* The claim's holder works on the current catalog.
BaseIsCatalog(w) ==
    claim = w /\ (write[w].pc \in {"handler", "sent", "commit"} \/ Late("commit", w))
        => write[w].base = catalog

\* A token recorded is that of a request admitted, and stays behind a
\* finished one only for a reason.
TokenExplained(w) ==
    control.writers[w] # 0 =>
        /\ write[w].pc \notin {"idle", "admit"}
        /\ AtW(w, "done") => write[w].uncertain \/ write[w].lost

WriteSafe(w) ==
    /\ GivesUpOnce(w)
    /\ MutationsCounted(w)
    /\ TokenRecorded(w)
    /\ BaseIsCatalog(w)
    /\ TokenExplained(w)

\* A read that may still publish.
Reading(r) == read[r].pc \in {"load", "parts", "publish"} \/ Late("publish", r)

\* No token was recorded since the epoch began, if it is the current one.
Undisturbed(epoch) ==
    /\ epoch <= control.epoch
    /\ epoch = control.epoch => control.writers = NoWriters

\* What a read has seen in the current epoch is what there is.
ReadCurrent(r) ==
    Reading(r) /\ OpenTo(read[r].deployment) =>
        /\ Undisturbed(read[r].epoch)
        /\ read[r].epoch = control.epoch =>
            /\ AtR(r, "load") \/ read[r].catalog = catalog
            /\ \A p \in Parts : read[r].parts[p] \in {None, store[p]}

\* A read starts with nothing, and is over when its publication is late.
ReadInOrder(r) ==
    /\ AtR(r, "idle") => \A p \in Parts : read[r].parts[p] = None
    /\ Late("publish", r) => AtR(r, "done")

\* So is an entry of the current epoch, in memory or in the last rewrite.
EntryCurrent(entry) ==
    /\ Undisturbed(entry.epoch)
    /\ entry.epoch = control.epoch =>
        entry.response \in {Garbled, [catalog |-> catalog, parts |-> store]}

EntriesCurrent(table) ==
    \A d \in Identities, k \in Keys :
        OpenTo(d) /\ table[d][k] # None => EntryCurrent(table[d][k])

\* An identity never used has left nothing behind.
UnusedIsClean(d) ==
    d \notin tombstones =>
        /\ ~OpenTo(d)
        /\ \A k \in Keys : entries[d][k] = None /\ saved[d][k] = None
        /\ \A r \in Readers : Reading(r) => read[r].deployment # d

IInv ==
    /\ TypeOK
    /\ \A w \in Tokens : WriteSafe(w)
    /\ \A r \in Readers : ReadCurrent(r) /\ ReadInOrder(r)
    /\ AnswersComplete
    /\ EntriesCurrent(entries)
    /\ EntriesCurrent(saved)
    /\ \A d \in Identities : UnusedIsClean(d)

----------------------------------------------------------------------------
(* The mutating requests' share.  A step of one leaves the others alone.   *)

\* What a step of someone else may do around a request.
Untouched(w) ==
    /\ write'[w] = write[w]
    /\ \A kind \in WriteCalls : Late(kind, w)' => Late(kind, w)
    /\ Unsettled(w)' \subseteq Unsettled(w)
    /\ claim' = w => claim = w /\ catalog' = catalog
    /\ control'.writers[w] # 0 => control.writers[w] # 0
    /\ \A d \in Identities :
        OpenTo(d)' => OpenTo(d) /\ control'.writers[w] = control.writers[w]

\* ... keeps it safe.
LEMMA UntouchedIsSafe ==
    ASSUME NEW w \in Tokens, WriteSafe(w), Untouched(w)
    PROVE  WriteSafe(w)'
<1>1. /\ write'[w] = write[w]
      /\ \A kind \in WriteCalls : Late(kind, w)' => Late(kind, w)
      /\ "release" \in WriteCalls /\ "commit" \in WriteCalls
  BY DEF Untouched, WriteCalls
<1>2. GivesUpOnce(w)'
  BY <1>1 DEF WriteSafe, GivesUpOnce, AtW
<1>3. MutationsCounted(w)'
  BY <1>1 DEF WriteSafe, Untouched, MutationsCounted, AtW
<1>4. TokenRecorded(w)'
  <2>1. MayCommit(w)' => MayCommit(w)
    BY <1>1 DEF Untouched, MayCommit, AtW
  <2>2. Unsettled(w)' # {} => Unsettled(w) # {}
    BY DEF Untouched
  <2>3. Running(w)' => Running(w)
    BY <1>1 DEF Running
  <2>4. QED
    BY <2>1, <2>2, <2>3 DEF WriteSafe, TokenRecorded, Untouched
<1>5. BaseIsCatalog(w)'
  BY <1>1 DEF WriteSafe, Untouched, BaseIsCatalog, AtW
<1>6. TokenExplained(w)'
  BY <1>1 DEF WriteSafe, Untouched, TokenExplained, AtW
<1>7. QED
  BY <1>2, <1>3, <1>4, <1>5, <1>6 DEF WriteSafe

\* ADMIT and RELEASE touch the token of one request.
LEMMA AdmitEffect ==
    ASSUME TypeOK, NEW d \in Identities, NEW t \in Tokens,
           NEW s \in {"active", "maintenance"}, Admit(d, t, s)
    PROVE  /\ control'.epoch = control.epoch + 1
           /\ control.writers[t] = 0 /\ control'.writers[t] = control.epoch + 1
           /\ control'.writers[t] # 0
           /\ \A v \in Tokens \ {t} : control'.writers[v] = control.writers[v]
           /\ \A i \in Identities : OpenTo(i)' => OpenTo(i)
<1>1. control \in Control /\ control.epoch \in Nat
  BY MaxEpochAssumption DEF TypeOK, KeyspaceTypeOK, Control
<1>2. control' = [control EXCEPT !.epoch = control.epoch + 1,
                                 !.writers[t] = control.epoch + 1, !.state = s]
  BY DEF Admit
<1>3. /\ control'.epoch = control.epoch + 1 /\ control'.writers[t] = control.epoch + 1
      /\ \A v \in Tokens \ {t} : control'.writers[v] = control.writers[v]
      /\ control'.kind = control.kind /\ control'.deployment = control.deployment
  BY <1>1, <1>2 DEF Control
<1>4. control.state = "active" /\ control.writers[t] = 0
  BY DEF Admit, Valid
<1>5. QED
  BY <1>1, <1>3, <1>4 DEF OpenTo

\* RELEASE removes the token.
LEMMA ReleaseEffect ==
    ASSUME TypeOK, NEW d \in Identities, NEW t \in Tokens, NEW e, Release(d, t, e)
    PROVE  /\ control'.epoch = control.epoch
           /\ control.writers[t] # 0 /\ control'.writers[t] = 0
           /\ \A v \in Tokens \ {t} : control'.writers[v] = control.writers[v]
           /\ \A i \in Identities : OpenTo(i)' => OpenTo(i)
<1>1. control \in Control
  BY DEF TypeOK, KeyspaceTypeOK
<1>2. control' = [control EXCEPT !.writers[t] = 0] /\ control.writers[t] # 0
  BY DEF Release
<1>3. QED
  BY <1>1, <1>2 DEF Control, OpenTo

\* While a request steps, its calls are answered or given up.
LEMMA RunningIsNotLate ==
    ASSUME TypeOK, NEW w \in Tokens, WriteSafe(w), ~AtW(w, "done")
    PROVE  \A kind \in WriteCalls : ~Late(kind, w)
BY DEF WriteSafe, GivesUpOnce

\* A mutation in flight is its request's.
LEMMA UnsettledOf ==
    ASSUME TypeOK, NEW w \in Tokens, NEW p \in Parts
    PROVE  /\ Unsettled(w) = {} => <<w, p>> \notin pending
           /\ Unsettled(w) \subseteq pending
           /\ \A op \in Unsettled(w) : op[1] = w /\ op = <<op[1], op[2]>>
BY DEF Unsettled, TypeOK

\* Where a step that needs nothing but the request's own record leads.
OwnRecordMove(w) ==
    /\ write'[w].base = write[w].base
    /\ \/ AtW(w, "idle") /\ write'[w].pc = "admit"
       \/ AtW(w, "begin") /\ write'[w].pc = "release" /\ ~write[w].uncertain
       \/ AtW(w, "begin") /\ write'[w].pc = "done" /\ write'[w].uncertain
       \/ /\ AtW(w, "sent") /\ write'[w].pc = "handler"
          /\ \/ write'[w].uncertain
             \/ /\ write'[w].uncertain = write[w].uncertain
                /\ <<w, write[w].part>> \notin pending
       \/ /\ AtW(w, "handler") /\ write'[w].uncertain = write[w].uncertain
          /\ \/ write'[w].pc \in {"commit", "unclaim"}
             \/ write'[w].pc = "release" /\ ~write[w].uncertain
             \/ write'[w].pc = "done" /\ (write'[w].uncertain \/ write'[w].lost)

\* A step that needs nothing but the request's own record.
OwnRecordStep(w) ==
    \/ \E d \in Identities, isAdmin \in BOOLEAN, plan \in SUBSET Parts :
            ArriveWrite(w, d, isAdmin, plan)
    \/ BeginFails(w) \/ MutationCompletes(w) \/ MutationUncertain(w)
    \/ HandlerSucceeds(w) \/ \E sentPost \in BOOLEAN : HandlerFails(w, sentPost)

\* ... leads there.
LEMMA OwnRecordMoves ==
    ASSUME TypeOK, NEW w \in Tokens, OwnRecordStep(w)
    PROVE  OwnRecordMove(w) /\ OnlyWrite
<1> DEFINE new == write'[w]
<1>1. w \in DOMAIN write /\ write[w] \in WriteRequest
  BY DEF TypeOK
<1>2. ASSUME NEW d \in Identities, NEW isAdmin \in BOOLEAN, NEW plan \in SUBSET Parts,
             ArriveWrite(w, d, isAdmin, plan)
      PROVE  AtW(w, "idle") /\ new.pc = "admit" /\ new.base = write[w].base /\ OnlyWrite
  BY <1>1, <1>2 DEF ArriveWrite, AtW, WriteRequest
<1>3. ASSUME BeginFails(w)
      PROVE  AtW(w, "begin") /\ new.pc = AfterCatalog(w) /\ new.base = write[w].base
             /\ new.uncertain = write[w].uncertain /\ OnlyWrite
  BY <1>1, <1>3 DEF BeginFails, AtW, WriteRequest
<1>4. ASSUME MutationCompletes(w)
      PROVE  AtW(w, "sent") /\ new.pc = "handler" /\ new.base = write[w].base
             /\ new.uncertain = write[w].uncertain
             /\ <<w, write[w].part>> \notin pending /\ OnlyWrite
  BY <1>1, <1>4 DEF MutationCompletes, AtW, WriteRequest
<1>5. ASSUME MutationUncertain(w)
      PROVE  AtW(w, "sent") /\ new.pc = "handler" /\ new.base = write[w].base
             /\ new.uncertain /\ OnlyWrite
  BY <1>1, <1>5 DEF MutationUncertain, AtW, WriteRequest
<1>6. ASSUME HandlerSucceeds(w)
      PROVE  AtW(w, "handler") /\ new.pc \in {"commit", AfterCatalog(w)}
             /\ new.base = write[w].base /\ new.uncertain = write[w].uncertain /\ OnlyWrite
  BY <1>1, <1>6 DEF HandlerSucceeds, AtW, WriteRequest
<1>7. ASSUME NEW sentPost \in BOOLEAN, HandlerFails(w, sentPost)
      PROVE  /\ AtW(w, "handler") /\ new.base = write[w].base
             /\ new.uncertain = write[w].uncertain /\ OnlyWrite
             /\ new.pc \in {"unclaim", AfterCatalog(w)} \/ (new.pc = "done" /\ new.lost)
  <2>1. PICK pc, started, lost :
           /\ write' = [write EXCEPT ![w].started = started, ![w].lost = lost, ![w].pc = pc]
           /\ pc \in {"unclaim", AfterCatalog(w)} \/ (pc = "done" /\ lost)
    <3> DEFINE started == write[w].started \/ sentPost
               lost == write[w].admin /\ (write[w].started \/ sentPost)
               pc == CASE ~write[w].admin -> AfterCatalog(w)
                       [] write[w].admin /\ ~write[w].started /\ ~sentPost -> "unclaim"
                       [] OTHER -> "done"
    <3>1. write' = [write EXCEPT ![w].started = started, ![w].lost = lost, ![w].pc = pc]
      BY <1>7 DEF HandlerFails
    <3>2. pc \in {"unclaim", AfterCatalog(w)} \/ (pc = "done" /\ lost)
      <4>1. CASE ~write[w].admin
        BY <4>1
      <4>2. CASE write[w].admin /\ ~lost
        BY <4>2
      <4>3. CASE lost
        BY <4>3
      <4>4. QED
        BY <4>1, <4>2, <4>3
    <3> HIDE DEF started, lost, pc
    <3>3. QED
      BY <3>1, <3>2
  <2>2. new.base = write[w].base /\ new.uncertain = write[w].uncertain /\ new.pc = pc
        /\ new.lost = lost
    BY <1>1, <2>1 DEF WriteRequest
  <2>3. QED
    BY <1>7, <2>1, <2>2 DEF HandlerFails
<1> HIDE DEF new
<1>8. \/ AfterCatalog(w) = "release" /\ ~write[w].uncertain
      \/ AfterCatalog(w) = "done" /\ write[w].uncertain
  BY DEF AfterCatalog
<1>9. CASE \E d \in Identities, isAdmin \in BOOLEAN, plan \in SUBSET Parts :
              ArriveWrite(w, d, isAdmin, plan)
  BY <1>2, <1>9 DEF OwnRecordMove, new
<1>10. CASE BeginFails(w)
  BY <1>3, <1>8, <1>10 DEF OwnRecordMove, new
<1>11. CASE MutationCompletes(w) \/ MutationUncertain(w)
  BY <1>4, <1>5, <1>11 DEF OwnRecordMove, new
<1>12. CASE HandlerSucceeds(w)
  BY <1>6, <1>8, <1>12 DEF OwnRecordMove, new
<1>13. CASE \E sentPost \in BOOLEAN : HandlerFails(w, sentPost)
  BY <1>7, <1>8, <1>13 DEF OwnRecordMove, new
<1>14. QED
  BY <1>9, <1>10, <1>11, <1>12, <1>13 DEF OwnRecordStep

\* ... and keeps the request safe.
LEMMA OwnRecordIsSafe ==
    ASSUME TypeOK, NEW w \in Tokens, WriteSafe(w), OwnRecordStep(w)
    PROVE  WriteSafe(w)'
<1>1. OwnRecordMove(w) /\ UNCHANGED <<control, claim, catalog, late, pending>>
  BY OwnRecordMoves DEF OnlyWrite, keyspace
<1>2. "commit" \in WriteCalls /\ "release" \in WriteCalls
  BY DEF WriteCalls
<1>3. \A kind \in WriteCalls : ~Late(kind, w) /\ ~Late(kind, w)'
  <2>1. ~AtW(w, "done")
    BY <1>1 DEF AtW, OwnRecordMove
  <2>2. QED
    BY <1>1, <2>1, RunningIsNotLate DEF Late
<1>4. Unsettled(w)' = Unsettled(w)
  BY <1>1 DEF Unsettled
<1>5. GivesUpOnce(w)'
  BY <1>3 DEF GivesUpOnce
<1>6. MutationsCounted(w)'
  <2>1. CASE AtW(w, "sent") /\ write'[w].pc = "handler"
    <3>1. ~write'[w].uncertain => Unsettled(w) = {}
      <4> SUFFICES ASSUME ~write'[w].uncertain PROVE Unsettled(w) = {}
        OBVIOUS
      <4>1. ~write[w].uncertain /\ <<w, write[w].part>> \notin pending
        BY <1>1, <2>1 DEF OwnRecordMove, AtW
      <4>2. Unsettled(w) \subseteq {<<w, write[w].part>>} /\ Unsettled(w) \subseteq pending
        BY <2>1, <4>1 DEF WriteSafe, MutationsCounted, Unsettled
      <4>3. QED
        BY <4>1, <4>2
    <3>2. QED
      BY <1>2, <1>3, <1>4, <2>1, <3>1 DEF MutationsCounted, AtW
  <2>2. CASE ~AtW(w, "sent")
    BY <1>1, <1>2, <1>3, <1>4, <2>2 DEF OwnRecordMove, WriteSafe, MutationsCounted, AtW
  <2>3. QED
    BY <1>1, <2>1, <2>2 DEF OwnRecordMove, AtW
<1>7. TokenRecorded(w)'
  <2>1. (Running(w) \/ Unsettled(w) # {} \/ MayCommit(w))'
          => Running(w) \/ Unsettled(w) # {}
    BY <1>1, <1>2, <1>3, <1>4 DEF OwnRecordMove, Running, MayCommit, AtW
  <2>2. \A d \in Identities : OpenTo(d)' <=> OpenTo(d)
    BY <1>1 DEF OpenTo
  <2>3. QED
    BY <1>1, <2>1, <2>2 DEF WriteSafe, TokenRecorded
<1>8. BaseIsCatalog(w)'
  BY <1>1, <1>2, <1>3 DEF OwnRecordMove, WriteSafe, BaseIsCatalog, AtW
<1>9. TokenExplained(w)'
  BY <1>1 DEF OwnRecordMove, WriteSafe, TokenExplained, AtW
<1>10. QED
  BY <1>5, <1>6, <1>7, <1>8, <1>9 DEF WriteSafe

\* A request is admitted, by itself or by a late call, or the operator is.
LEMMA AdmittedIsSafe ==
    ASSUME TypeOK, NEW w \in Tokens, WriteSafe(w),
           NEW s \in {"active", "maintenance"}, NEW d \in Identities, Admit(d, w, s),
           UNCHANGED pending,
           \A kind \in WriteCalls : Late(kind, w)' => Late(kind, w),
           write'[w].base = write[w].base, write'[w].uncertain = write[w].uncertain,
           \/ AtW(w, "admit") /\ write'[w].pc = "begin"
           \/ AtW(w, "idle") /\ write'[w].pc = "done" /\ write'[w].lost
           \/ write'[w] = write[w] /\ Late("admit", w)
    PROVE  WriteSafe(w)'
<1>1. /\ "commit" \in WriteCalls /\ "release" \in WriteCalls /\ "admit" \in WriteCalls
      /\ w # None /\ claim = None /\ UNCHANGED <<claim, catalog>>
  BY NoneAssumption DEF WriteCalls, Admit
<1>2. CASE write'[w] = write[w] /\ Late("admit", w)
  <2>1. /\ AtW(w, "done") /\ write[w].lost
        /\ \A other \in WriteCalls : Late(other, w) => other = "admit"
    BY <1>1, <1>2 DEF WriteSafe, GivesUpOnce
  <2>2. AtW(w, "done")' /\ write'[w].lost /\ ~Late("commit", w)' /\ ~Late("release", w)'
    BY <1>1, <1>2, <2>1 DEF AtW
  <2>3. GivesUpOnce(w)'
    BY <1>2, <2>1, <2>2 DEF GivesUpOnce
  <2>4. QED
    BY <1>1, <1>2, <2>2, <2>3, AdmitEffect
       DEF WriteSafe, MutationsCounted, TokenRecorded, BaseIsCatalog, TokenExplained, AtW
<1>3. CASE ~(write'[w] = write[w] /\ Late("admit", w))
  <2>1. \A kind \in WriteCalls : ~Late(kind, w) /\ ~Late(kind, w)'
    BY <1>3, RunningIsNotLate DEF AtW
  <2>2. write'[w].pc = "begin" \/ (write'[w].pc = "done" /\ write'[w].lost)
    BY <1>3
  <2>3. GivesUpOnce(w)'
    BY <2>1 DEF GivesUpOnce
  <2>4. MutationsCounted(w)'
    <3>1. Unsettled(w) = {} /\ Unsettled(w)' = Unsettled(w)
      BY <1>3 DEF WriteSafe, MutationsCounted, AtW, Unsettled
    <3>2. QED
      BY <3>1 DEF MutationsCounted
  <2>5. TokenRecorded(w)' /\ BaseIsCatalog(w)' /\ TokenExplained(w)'
    BY <1>1, <2>1, <2>2, AdmitEffect DEF TokenRecorded, BaseIsCatalog, TokenExplained, AtW
  <2>6. QED
    BY <2>3, <2>4, <2>5 DEF WriteSafe
<1>4. QED
  BY <1>2, <1>3

\* A request takes the claim or passes without it.
LEMMA BegunIsSafe ==
    ASSUME TypeOK, NEW w \in Tokens, WriteSafe(w), BeginRequest(w)
    PROVE  WriteSafe(w)'
<1>1. /\ AtW(w, "begin") /\ UNCHANGED <<control, catalog, pending, late>>
      /\ write'[w].pc = "handler" /\ write'[w].base = catalog
      /\ write'[w].uncertain = write[w].uncertain
  BY DEF TypeOK, WriteRequest, BeginRequest, BeginScript
<1>2. "commit" \in WriteCalls /\ "release" \in WriteCalls
  BY DEF WriteCalls
<1>3. \A kind \in WriteCalls : ~Late(kind, w)'
  BY <1>1, RunningIsNotLate DEF AtW, Late
<1>4. Unsettled(w)' = {}
  BY <1>1 DEF WriteSafe, MutationsCounted, AtW, Unsettled
<1>5. GivesUpOnce(w)' /\ MutationsCounted(w)'
  BY <1>3, <1>4 DEF GivesUpOnce, MutationsCounted
<1>6. TokenRecorded(w)'
  <2>1. Running(w)
    BY <1>1 DEF Running, AtW
  <2>2. \A d \in Identities : OpenTo(d)' <=> OpenTo(d)
    BY <1>1 DEF OpenTo
  <2>3. QED
    BY <1>1, <2>1, <2>2 DEF WriteSafe, TokenRecorded
<1>7. BaseIsCatalog(w)' /\ TokenExplained(w)'
  BY <1>1 DEF WriteSafe, BaseIsCatalog, TokenExplained, AtW
<1>8. QED
  BY <1>5, <1>6, <1>7 DEF WriteSafe

\* A mutation is sent.
LEMMA SenderIsSafe ==
    ASSUME TypeOK, NEW w \in Tokens, WriteSafe(w), NEW p \in Parts, SendMutation(w, p)
    PROVE  WriteSafe(w)'
<1>1. /\ AtW(w, "handler") /\ UNCHANGED <<control, claim, catalog, late>>
      /\ write'[w].pc = "sent" /\ write'[w].part = p
      /\ write'[w].base = write[w].base /\ write'[w].uncertain = write[w].uncertain
      /\ pending' = pending \cup {<<w, p>>}
  BY DEF TypeOK, WriteRequest, SendMutation, keyspace
<1>2. "commit" \in WriteCalls /\ "release" \in WriteCalls
  BY DEF WriteCalls
<1>3. \A kind \in WriteCalls : ~Late(kind, w)'
  BY <1>1, RunningIsNotLate DEF AtW, Late
<1>4. GivesUpOnce(w)'
  BY <1>3 DEF GivesUpOnce
<1>5. MutationsCounted(w)'
  <2>1. Unsettled(w)' \subseteq Unsettled(w) \cup {<<w, p>>}
    BY <1>1 DEF Unsettled
  <2>2. ~write[w].uncertain => Unsettled(w) = {}
    BY <1>1 DEF WriteSafe, MutationsCounted, AtW
  <2>3. ~write'[w].uncertain => Unsettled(w)' \subseteq {<<w, write'[w].part>>}
    BY <1>1, <2>1, <2>2
  <2>4. QED
    BY <1>1, <1>2, <1>3, <2>3 DEF MutationsCounted, AtW
<1>6. TokenRecorded(w)'
  <2>1. Running(w)
    BY <1>1 DEF Running, AtW
  <2>2. \A d \in Identities : OpenTo(d)' <=> OpenTo(d)
    BY <1>1 DEF OpenTo
  <2>3. QED
    BY <1>1, <2>1, <2>2 DEF WriteSafe, TokenRecorded
<1>7. BaseIsCatalog(w)' /\ TokenExplained(w)'
  BY <1>1, <1>2, <1>3 DEF WriteSafe, BaseIsCatalog, TokenExplained, AtW
<1>8. QED
  BY <1>4, <1>5, <1>6, <1>7 DEF WriteSafe

\* The administrative attempt ends, with its commit or without.
LEMMA SettledIsSafe ==
    ASSUME TypeOK, NEW w \in Tokens, WriteSafe(w), Settle(w)
    PROVE  WriteSafe(w)'
<1>1. /\ write[w].pc \in {"commit", "unclaim"} /\ UNCHANGED <<control, pending, late>>
      /\ claim' = None /\ w # None
      /\ write'[w].pc = AfterCatalog(w)
      /\ write'[w].uncertain = write[w].uncertain
  BY NoneAssumption DEF TypeOK, WriteRequest, Settle, AtW, CommitScript, UnclaimScript
<1>2. "commit" \in WriteCalls /\ "release" \in WriteCalls
  BY DEF WriteCalls
<1>3. \/ write'[w].pc = "release" /\ ~write[w].uncertain
      \/ write'[w].pc = "done" /\ write[w].uncertain
  BY <1>1 DEF AfterCatalog
<1>4. \A kind \in WriteCalls : ~Late(kind, w)'
  BY <1>1, RunningIsNotLate DEF AtW, Late
<1>5. GivesUpOnce(w)'
  BY <1>4 DEF GivesUpOnce
<1>6. Unsettled(w)' = Unsettled(w) /\ (~write[w].uncertain => Unsettled(w) = {})
  BY <1>1 DEF WriteSafe, MutationsCounted, Unsettled
<1>7. MutationsCounted(w)'
  BY <1>1, <1>2, <1>3, <1>4, <1>6 DEF MutationsCounted, AtW
<1>8. TokenRecorded(w)'
  <2>1. Running(w)
    BY <1>1 DEF Running
  <2>2. \A d \in Identities : OpenTo(d)' <=> OpenTo(d)
    BY <1>1 DEF OpenTo
  <2>3. QED
    BY <1>1, <2>1, <2>2 DEF WriteSafe, TokenRecorded
<1>9. BaseIsCatalog(w)' /\ TokenExplained(w)'
  BY <1>1, <1>3 DEF WriteSafe, BaseIsCatalog, TokenExplained, AtW
<1>10. QED
  BY <1>5, <1>7, <1>8, <1>9 DEF WriteSafe

\* The token is given back.
LEMMA ReleasedIsSafe ==
    ASSUME TypeOK, NEW w \in Tokens, WriteSafe(w), ReleaseRequest(w)
    PROVE  WriteSafe(w)'
<1>1. /\ AtW(w, "release") /\ UNCHANGED <<claim, catalog, pending, late>>
      /\ write'[w].pc = "done" /\ write'[w].base = write[w].base
  BY DEF TypeOK, WriteRequest, ReleaseRequest, Release
<1>2. "commit" \in WriteCalls /\ "release" \in WriteCalls
  BY DEF WriteCalls
<1>3. \A kind \in WriteCalls : ~Late(kind, w)'
  BY <1>1, RunningIsNotLate DEF AtW, Late
<1>4. Unsettled(w)' = {}
  BY <1>1 DEF WriteSafe, MutationsCounted, AtW, Unsettled
<1>5. control'.writers[w] = 0
  <2>1. write[w].deployment \in Identities
    BY WriteParts
  <2>2. QED
    BY <2>1, ReleaseEffect DEF ReleaseRequest
<1>6. GivesUpOnce(w)' /\ MutationsCounted(w)'
  BY <1>3, <1>4 DEF GivesUpOnce, MutationsCounted
<1>7. TokenRecorded(w)'
  BY <1>1, <1>2, <1>3, <1>4 DEF TokenRecorded, Running, MayCommit, AtW
<1>8. BaseIsCatalog(w)' /\ TokenExplained(w)'
  BY <1>1, <1>2, <1>3, <1>5 DEF BaseIsCatalog, TokenExplained
<1>9. QED
  BY <1>6, <1>7, <1>8 DEF WriteSafe

\* A request is given up: the call it waited for may still be executed.
LEMMA AbandonedIsSafe ==
    ASSUME TypeOK, NEW w \in Tokens, WriteSafe(w), AbandonWrite(w)
    PROVE  WriteSafe(w)'
<1>1. /\ ~AtW(w, "done") /\ ~AtW(w, "idle")
      /\ UNCHANGED <<control, claim, catalog, pending>>
      /\ late' = late \cup ({<<write[w].pc, w>>} \cap Call)
      /\ write'[w].pc = "done" /\ write'[w].lost /\ write'[w].base = write[w].base
  BY DEF TypeOK, WriteRequest, AbandonWrite, AtW, keyspace
<1>2. "commit" \in WriteCalls /\ "release" \in WriteCalls
  BY DEF WriteCalls
<1>3. \A kind \in WriteCalls : Late(kind, w)' => AtW(w, kind)
  <2>1. \A kind \in WriteCalls : ~Late(kind, w)
    BY <1>1, RunningIsNotLate
  <2>2. QED
    BY <1>1, <2>1 DEF Late, AtW
<1>4. Unsettled(w)' = Unsettled(w)
  BY <1>1 DEF Unsettled
<1>5. GivesUpOnce(w)'
  BY <1>1, <1>3 DEF GivesUpOnce, AtW
<1>6. MutationsCounted(w)'
  BY <1>1, <1>2, <1>3, <1>4 DEF WriteSafe, MutationsCounted, AtW
<1>7. TokenRecorded(w)'
  <2>1. Running(w)' = FALSE /\ (MayCommit(w)' => Running(w))
    BY <1>1, <1>2, <1>3 DEF Running, MayCommit, AtW
  <2>2. \A d \in Identities : OpenTo(d)' <=> OpenTo(d)
    BY <1>1 DEF OpenTo
  <2>3. QED
    BY <1>1, <1>4, <2>1, <2>2 DEF WriteSafe, TokenRecorded
<1>8. BaseIsCatalog(w)' /\ TokenExplained(w)'
  BY <1>1, <1>2, <1>3 DEF WriteSafe, BaseIsCatalog, TokenExplained, AtW
<1>9. QED
  BY <1>5, <1>6, <1>7, <1>8 DEF WriteSafe

\* A late call of a request is executed.
LEMMA LatecomerIsSafe ==
    ASSUME TypeOK, NEW w \in Tokens, WriteSafe(w), NEW kind \in WriteCalls,
           <<kind, w>> \in late, Execute(<<kind, w>>)
    PROVE  WriteSafe(w)'
<1>1. /\ AtW(w, "done") /\ write[w].lost
      /\ \A other \in WriteCalls : Late(other, w) => other = kind
  BY DEF WriteSafe, GivesUpOnce, Late
<1>2. UNCHANGED <<pending, write>> /\ late' = late \ {<<kind, w>>}
  BY DEF Execute
<1>3. \A other \in WriteCalls : ~Late(other, w)'
  BY <1>1, <1>2 DEF Late
<1>4. "commit" \in WriteCalls /\ "release" \in WriteCalls /\ kind # "publish"
  BY DEF WriteCalls
<1>5. GivesUpOnce(w)' /\ BaseIsCatalog(w)' /\ TokenExplained(w)'
  BY <1>1, <1>2, <1>3, <1>4 DEF GivesUpOnce, BaseIsCatalog, TokenExplained, AtW
<1>6. MutationsCounted(w)'
  BY <1>1, <1>2, <1>3, <1>4 DEF MutationsCounted, AtW
<1>7. TokenRecorded(w)'
  <2>1. ~Running(w)' /\ ~MayCommit(w)' /\ Unsettled(w)' = Unsettled(w)
    BY <1>1, <1>2, <1>3, <1>4 DEF Running, MayCommit, AtW, Unsettled
  <2>2. write[w].deployment \in Identities
    BY WriteParts
  <2>3. CASE Admit(write[w].deployment, w, "active")
    BY <2>1, <2>2, <2>3, AdmitEffect DEF TokenRecorded
  <2>4. CASE Release(write[w].deployment, w, write[w].epoch) /\ kind = "release"
    BY <2>1, <2>4 DEF WriteSafe, MutationsCounted, TokenRecorded, Late
  <2>5. CASE BeginScript(w, TRUE) \/ CommitScript(w) \/ UnclaimScript(w)
    <3>1. UNCHANGED control
      BY <2>5 DEF BeginScript, CommitScript, UnclaimScript
    <3>2. \A d \in Identities : OpenTo(d)' <=> OpenTo(d)
      BY <3>1 DEF OpenTo
    <3>3. QED
      BY <2>1, <3>1, <3>2 DEF WriteSafe, TokenRecorded
  <2>6. QED
    BY <1>4, <2>3, <2>4, <2>5 DEF Execute
<1>8. QED
  BY <1>5, <1>6, <1>7 DEF WriteSafe

\* A step that leaves the keyspace, the requests and their mutations alone.
LEMMA StillIsUntouched ==
    ASSUME NEW v \in Tokens, write'[v] = write[v], Unsettled(v)' \subseteq Unsettled(v),
           \A kind \in WriteCalls : Late(kind, v)' => Late(kind, v),
           UNCHANGED <<control, catalog>>, claim' = v => claim = v
    PROVE  Untouched(v)
BY DEF Untouched, OpenTo

\* ADMIT and RELEASE for another.
LEMMA TokenStepUntouched ==
    ASSUME TypeOK, NEW v \in Tokens, NEW w \in Tokens \ {v}, NEW d \in Identities,
           \/ \E s \in {"active", "maintenance"} : Admit(d, w, s)
           \/ \E e : Release(d, w, e),
           write'[v] = write[v], UNCHANGED pending,
           \A kind \in WriteCalls : Late(kind, v)' => Late(kind, v)
    PROVE  Untouched(v)
<1>1. /\ control'.writers[v] = control.writers[v]
      /\ \A i \in Identities : OpenTo(i)' => OpenTo(i)
  BY AdmitEffect, ReleaseEffect
<1>2. UNCHANGED <<claim, catalog>>
  BY DEF Admit, Release
<1>3. QED
  BY <1>1, <1>2 DEF Untouched, Unsettled

\* A request's step does not touch another request.
LEMMA WriteStepUntouched ==
    ASSUME TypeOK, NEW v \in Tokens, NEW w \in Tokens \ {v}, WriteStep(w)
    PROVE  Untouched(v)
<1>1. v # None /\ write[w].deployment \in Identities
  BY WriteParts, NoneAssumption
<1>2. write'[v] = write[v]
  BY DEF TypeOK, WriteStep, AdmitRequest, BeginRequest, BeginFails, SendMutation,
     MutationCompletes, MutationUncertain, HandlerSucceeds, HandlerFails, Settle,
     ReleaseRequest, AbandonWrite
<1>3. late' \in {late, late \cup ({<<write[w].pc, w>>} \cap Call)}
  BY DEF WriteStep, AdmitRequest, BeginRequest, BeginFails, SendMutation,
     MutationCompletes, MutationUncertain, HandlerSucceeds, HandlerFails, Settle,
     ReleaseRequest, AbandonWrite, OnlyWrite
<1>4. \A kind \in WriteCalls : Late(kind, v)' => Late(kind, v)
  BY <1>3 DEF Late
<1>5. pending' = pending \/ \E p \in Parts : pending' = pending \cup {<<w, p>>}
  BY DEF WriteStep, AdmitRequest, BeginRequest, BeginFails, SendMutation,
     MutationCompletes, MutationUncertain, HandlerSucceeds, HandlerFails, Settle,
     ReleaseRequest, AbandonWrite, OnlyWrite
<1>6. Unsettled(v)' \subseteq Unsettled(v)
  BY <1>5 DEF Unsettled
<1>7. CASE AdmitRequest(w) \/ ReleaseRequest(w)
  BY <1>1, <1>2, <1>4, <1>7, TokenStepUntouched DEF AdmitRequest, ReleaseRequest
<1>8. CASE Settle(w)
  <2>1. UNCHANGED control /\ claim' = None
    BY <1>8 DEF Settle, CommitScript, UnclaimScript
  <2>2. QED
    BY <1>1, <1>2, <1>4, <1>6, <2>1 DEF Untouched, OpenTo
<1>9. CASE ~(AdmitRequest(w) \/ ReleaseRequest(w) \/ Settle(w))
  <2>1. UNCHANGED <<control, catalog>> /\ claim' \in {claim, w, None}
    BY <1>9 DEF WriteStep, BeginRequest, BeginScript, BeginFails, SendMutation,
       MutationCompletes, MutationUncertain, HandlerSucceeds, HandlerFails,
       AbandonWrite, OnlyWrite, keyspace
  <2>2. QED
    BY <1>1, <1>2, <1>4, <1>6, <2>1, StillIsUntouched
<1>10. QED
  BY <1>7, <1>8, <1>9

\* Neither does a late call of another one.
LEMMA LatecomerUntouched ==
    ASSUME TypeOK, NEW v \in Tokens, NEW w \in Tokens \ {v}, NEW kind \in WriteCalls,
           Execute(<<kind, w>>)
    PROVE  Untouched(v)
<1>1. v # None /\ write[w].deployment \in Identities /\ kind # "publish"
  BY WriteParts, NoneAssumption DEF WriteCalls
<1>2. UNCHANGED <<pending, write>> /\ late' \subseteq late
  BY DEF Execute
<1>3. write'[v] = write[v] /\ (\A k \in WriteCalls : Late(k, v)' => Late(k, v))
      /\ Unsettled(v)' = Unsettled(v)
  BY <1>2 DEF Late, Unsettled
<1>4. CASE Admit(write[w].deployment, w, "active")
           \/ Release(write[w].deployment, w, write[w].epoch)
  BY <1>1, <1>2, <1>3, <1>4, TokenStepUntouched
<1>5. CASE BeginScript(w, TRUE) \/ CommitScript(w) \/ UnclaimScript(w)
  <2>1. UNCHANGED control /\ (claim' = None \/ (claim' = w /\ UNCHANGED catalog))
    BY <1>5 DEF BeginScript, CommitScript, UnclaimScript
  <2>2. QED
    BY <1>1, <1>3, <2>1 DEF Untouched, OpenTo
<1>6. QED
  BY <1>1, <1>4, <1>5 DEF Execute

\* What is done by hand to the control key records no token and opens nothing.
LEMMA DamageEffect ==
    ASSUME TypeOK, DamageControl
    PROVE  /\ \A w \in Tokens : control'.writers[w] # 0 => control.writers[w] # 0
           /\ \A d \in Identities :
                OpenTo(d)' => /\ OpenTo(d) /\ control'.epoch = control.epoch
                              /\ control'.writers = control.writers
<1>1. control \in Control
  BY DEF TypeOK, KeyspaceTypeOK
<1>2. CASE control' \in {Unusable("none"), Unusable("other")}
  BY <1>1, <1>2 DEF Unusable, NoWriters, OpenTo
<1>3. CASE control' = [control EXCEPT !.kind = "bad"]
  BY <1>1, <1>3 DEF Control, OpenTo
<1>4. CASE control' = [control EXCEPT !.stray = TRUE]
  BY <1>1, <1>4 DEF Control, OpenTo
<1>5. QED
  BY <1>2, <1>3, <1>4 DEF DamageControl

\* Reads, Qdrant and the server do not touch a request.
LEMMA ElsewhereUntouched ==
    ASSUME TypeOK, NEW v \in Tokens,
           \/ \E r \in Readers, d \in Identities, k \in Keys :
                LookupMisses(r, d, k) \/ LookupHitsGarbled(r, d, k)
           \/ \E r \in Readers : ReadStep(r)
           \/ \E r \in Readers : Execute(<<"publish", r>>)
           \/ \E op \in pending : Apply(op) \/ Lose(op)
           \/ Server
           \/ UNCHANGED vars
    PROVE  Untouched(v)
<1>1. ASSUME UNCHANGED <<control, claim, catalog, pending, write>>,
             \A kind \in WriteCalls : Late(kind, v)' => Late(kind, v)
      PROVE  Untouched(v)
  BY <1>1 DEF Untouched, Unsettled, OpenTo
<1>2. ASSUME NEW r \in Readers, NEW d \in Identities, NEW k \in Keys,
             LookupMisses(r, d, k) \/ LookupHitsGarbled(r, d, k)
      PROVE  Untouched(v)
  BY <1>1, <1>2 DEF LookupMisses, LookupHitsGarbled, OnlyRead, keyspace, Late
<1>3. ASSUME NEW r \in Readers, ReadStep(r)
      PROVE  Untouched(v)
  <2>1. UNCHANGED <<control, claim, catalog, pending, write>>
    BY <1>3 DEF ReadStep, LoadCatalog, ReadPart, Answer, PublishAnswer, AbandonRead,
       PublishScript, Publish, OnlyRead, keyspace
  <2>2. late' \in {late, late \cup ({<<read[r].pc, r>>} \cap Call)}
    BY <1>3 DEF ReadStep, LoadCatalog, ReadPart, Answer, PublishAnswer, AbandonRead,
       OnlyRead
  <2>3. read[r].pc \notin WriteCalls
    BY DEF TypeOK, ReadRequest, WriteCalls
  <2>4. \A kind \in WriteCalls : Late(kind, v)' => Late(kind, v)
    BY <2>2, <2>3 DEF Late
  <2>5. QED
    BY <1>1, <2>1, <2>4
<1>4. ASSUME NEW r \in Readers, Execute(<<"publish", r>>)
      PROVE  Untouched(v)
  BY <1>1, <1>4 DEF Execute, PublishScript, Publish, Late
<1>5. ASSUME NEW op \in pending, Apply(op) \/ Lose(op)
      PROVE  Untouched(v)
  BY <1>5 DEF Apply, Lose, keyspace, Untouched, Unsettled, OpenTo, Late
<1>6. CASE Server
  <2>1. UNCHANGED <<claim, catalog, pending, late, write>>
    BY <1>6 DEF Server, Expire, Garble, RewriteAof, RestartValkey, DamageControl
  <2>2. UNCHANGED control \/ DamageControl
    BY <1>6 DEF Server, Expire, Garble, RewriteAof, RestartValkey
  <2>3. CASE UNCHANGED control
    BY <1>1, <2>1, <2>3 DEF Late
  <2>4. CASE DamageControl
    BY <2>1, <2>4, DamageEffect DEF Untouched, Unsettled, Late
  <2>5. QED
    BY <2>2, <2>3, <2>4
<1>7. CASE UNCHANGED vars
  BY <1>1, <1>7 DEF vars, keyspace, Late
<1>8. QED
  BY <1>2, <1>3, <1>4, <1>5, <1>6, <1>7

\* The operator records no token, and opens the cache only for an identity
\* never used before.
LEMMA OperatorEffect ==
    ASSUME TypeOK, Operator
    PROVE  /\ Quiesced /\ claim' = None
           /\ UNCHANGED <<catalog, entries, saved, store, pending, late, write, read>>
           /\ \A w \in Tokens : control'.writers[w] # 0 => control.writers[w] # 0
           /\ \A d \in Identities :
                OpenTo(d)' => \/ OpenTo(d) /\ UNCHANGED control
                              \/ d \notin tombstones /\ d \in tombstones'
           /\ tombstones \subseteq tombstones'
<1>1. control \in Control
  BY DEF TypeOK, KeyspaceTypeOK
<1>2. /\ Quiesced /\ UNCHANGED <<catalog, entries, saved, store, pending, late, write, read>>
      /\ claim' = None
  BY DEF Operator, Bootstrap, Recover, RecoverStops, RecoverGuard, AdminValid,
     ResolveClaim
<1>3. tombstones \subseteq tombstones'
  BY DEF Operator, Bootstrap, Recover, RecoverStops, Record, ResolveClaim
<1>4. CASE UNCHANGED control
  BY <1>2, <1>3, <1>4 DEF OpenTo
<1>5. ASSUME NEW new \in Identities, control' = FreshControl(new), new \notin tombstones,
             new \in tombstones'
      PROVE  /\ \A w \in Tokens : control'.writers[w] # 0 => control.writers[w] # 0
             /\ \A d \in Identities : OpenTo(d)' => d = new
  BY <1>5 DEF FreshControl, NoWriters, OpenTo
<1>6. ASSUME NEW old \in Identities, NEW new \in Identities, NEW left \in SUBSET Tokens,
             NEW strayLeft \in BOOLEAN, control' = Opened(old, new, left, strayLeft)
      PROVE  /\ \A w \in Tokens : control'.writers[w] # 0 => control.writers[w] # 0
             /\ \A d \in Identities : OpenTo(d)' => d = new
  <2>1. Fenced(old) \in Control
    BY <1>1, ControlValues
  <2>2. control'.deployment = new
    BY <1>6, <2>1 DEF Opened, Control
  <2>3. control'.writers = [t \in Tokens |-> IF t \in left THEN control.writers[t] ELSE 0]
    BY <1>6, <2>1 DEF Opened, Control
  <2>4. QED
    BY <2>2, <2>3 DEF OpenTo
<1>7. ASSUME NEW old \in Identities, control' \in {HalfFenced(old), Fenced(old)}
      PROVE  /\ \A w \in Tokens : control'.writers[w] # 0 => control.writers[w] # 0
             /\ \A d \in Identities : ~OpenTo(d)'
  <2>1. \A d \in Identities : ~OpenTo(d)'
    BY <1>1, <1>7, FencedIsClosed DEF OpenTo
  <2>2. Fenced(old) \in Control /\ Fenced(old).writers = control.writers
    BY <1>1, ControlValues DEF Fenced, Control
  <2>3. HalfFenced(old).writers \in {NoWriters, control.writers}
    BY <2>2 DEF HalfFenced, Unusable, Control
  <2>4. QED
    BY <1>7, <2>1, <2>2, <2>3 DEF NoWriters
<1>8. ASSUME NEW d \in Identities, NEW completes \in BOOLEAN, Bootstrap(d, completes),
             ~UNCHANGED control
      PROVE  control' = FreshControl(d) /\ d \notin tombstones /\ d \in tombstones'
  BY <1>8 DEF Bootstrap, AdminValid, Record
<1>9. ASSUME NEW old \in Identities, NEW new \in Identities,
             Recover(old, new) \/ RecoverStops(old, new)
      PROVE  \/ control' \in {HalfFenced(old), Fenced(old)}
             \/ /\ new \notin tombstones /\ new \in tombstones'
                /\ \E left \in SUBSET Tokens, strayLeft \in BOOLEAN :
                     control' = Opened(old, new, left, strayLeft)
  <2>1. CASE Recover(old, new)
    BY <2>1 DEF Recover, RecoverGuard, AdminValid, Record
  <2>2. CASE RecoverStops(old, new)
    BY <2>2 DEF RecoverStops, RecoverGuard, AdminValid, Record
  <2>3. QED
    BY <1>9, <2>1, <2>2
<1>10. ASSUME NEW d \in Identities, NEW completes \in BOOLEAN, Bootstrap(d, completes),
              ~UNCHANGED control
       PROVE  /\ \A w \in Tokens : control'.writers[w] # 0 => control.writers[w] # 0
              /\ \A i \in Identities : OpenTo(i)' => i \notin tombstones /\ i \in tombstones'
  BY <1>5, <1>8, <1>10
<1>11. ASSUME NEW old \in Identities, NEW new \in Identities,
              Recover(old, new) \/ RecoverStops(old, new)
       PROVE  /\ \A w \in Tokens : control'.writers[w] # 0 => control.writers[w] # 0
              /\ \A i \in Identities : OpenTo(i)' => i \notin tombstones /\ i \in tombstones'
  <2>1. CASE control' \in {HalfFenced(old), Fenced(old)}
    BY <1>7, <2>1
  <2>2. ASSUME new \notin tombstones, new \in tombstones',
               NEW left \in SUBSET Tokens, NEW strayLeft \in BOOLEAN,
               control' = Opened(old, new, left, strayLeft)
        PROVE  /\ \A w \in Tokens : control'.writers[w] # 0 => control.writers[w] # 0
               /\ \A i \in Identities : OpenTo(i)' => i \notin tombstones /\ i \in tombstones'
    <3>1. \A i \in Identities : OpenTo(i)' => i = new
      BY <1>6, <2>2
    <3>2. \A w \in Tokens : control'.writers[w] # 0 => control.writers[w] # 0
      BY <1>6, <2>2
    <3>3. QED
      BY <2>2, <3>1, <3>2
  <2>3. QED
    BY <1>9, <1>11, <2>1, <2>2
<1>12. ResolveClaim => UNCHANGED control
  BY DEF ResolveClaim
<1>13. CASE ~UNCHANGED control
  <2>1. /\ \A w \in Tokens : control'.writers[w] # 0 => control.writers[w] # 0
        /\ \A i \in Identities : OpenTo(i)' => i \notin tombstones /\ i \in tombstones'
    BY <1>10, <1>11, <1>12, <1>13 DEF Operator
  <2>2. QED
    BY <1>2, <1>3, <2>1
<1>14. QED
  BY <1>4, <1>13

\* ... and only while nobody may change anything.
LEMMA OperatorIsSafe ==
    ASSUME TypeOK, Operator, NEW w \in Tokens, WriteSafe(w)
    PROVE  WriteSafe(w)'
<1>1. /\ Quiesced /\ claim' = None /\ w # None
      /\ UNCHANGED <<catalog, pending, late, write>>
      /\ control'.writers[w] # 0 => control.writers[w] # 0
  BY OperatorEffect, NoneAssumption
<1>2. UNCHANGED <<Unsettled(w), AtW(w, "done"), Running(w)>>
      /\ \A kind \in WriteCalls : Late(kind, w)' = Late(kind, w)
  BY <1>1 DEF Unsettled, AtW, Running, Late
<1>3. GivesUpOnce(w)' /\ MutationsCounted(w)'
  BY <1>1 DEF WriteSafe, GivesUpOnce, MutationsCounted, AtW, Late, Unsettled
<1>4. TokenRecorded(w)'
  <2>1. Unsettled(w)' = {} /\ ~Running(w)'
    BY <1>1 DEF Quiesced, Unsettled, Running
  <2>2. QED
    BY <1>1, <2>1 DEF TokenRecorded, MayCommit
<1>5. BaseIsCatalog(w)' /\ TokenExplained(w)'
  BY <1>1 DEF WriteSafe, BaseIsCatalog, TokenExplained, AtW
<1>6. QED
  BY <1>3, <1>4, <1>5 DEF WriteSafe

\* Every step keeps every mutating request safe.
LEMMA StepIsSafe ==
    ASSUME TypeOK, \A w \in Tokens : WriteSafe(w), [Next]_vars
    PROVE  \A v \in Tokens : WriteSafe(v)'
<1> SUFFICES ASSUME NEW v \in Tokens PROVE WriteSafe(v)'
  OBVIOUS
<1>1. WriteSafe(v) /\ (Untouched(v) => WriteSafe(v)')
  BY UntouchedIsSafe
<1>2. ASSUME NEW w \in Tokens, NEW d \in Identities, NEW isAdmin \in BOOLEAN,
             NEW plan \in SUBSET Parts, ArriveWrite(w, d, isAdmin, plan)
      PROVE  WriteSafe(v)'
  <2>1. CASE v = w
    BY <1>1, <1>2, <2>1, OwnRecordIsSafe DEF OwnRecordStep
  <2>2. CASE v # w
    <3>1. Untouched(v)
      BY <1>2, <2>2 DEF ArriveWrite, OnlyWrite, keyspace, TypeOK, Untouched, Late,
         Unsettled, OpenTo
    <3>2. QED
      BY <1>1, <3>1
  <2>3. QED
    BY <2>1, <2>2
<1>3. ASSUME NEW w \in Tokens, NEW d \in Identities, Maintain(w, d)
      PROVE  WriteSafe(v)'
  <2>1. /\ Admit(d, w, "maintenance") /\ UNCHANGED <<pending, late>>
        /\ \A kind \in WriteCalls : Late(kind, v)' => Late(kind, v)
    BY <1>3 DEF Maintain, Late
  <2>2. CASE v = w
    <3>1. /\ AtW(w, "idle") /\ write'[w].pc = "done" /\ write'[w].lost
          /\ write'[w].base = write[w].base /\ write'[w].uncertain = write[w].uncertain
      BY <1>3 DEF Maintain, TypeOK, WriteRequest
    <3>2. QED
      BY <1>1, <2>1, <2>2, <3>1, AdmittedIsSafe
  <2>3. CASE v # w
    <3>1. write'[v] = write[v]
      BY <1>3, <2>3 DEF Maintain, TypeOK
    <3>2. QED
      BY <1>1, <2>1, <2>3, <3>1, TokenStepUntouched
  <2>4. QED
    BY <2>2, <2>3
<1>4. ASSUME NEW w \in Tokens, WriteStep(w)
      PROVE  WriteSafe(v)'
  <2>1. CASE v = w
    <3>1. CASE AdmitRequest(w)
      <4>1. /\ Admit(write[w].deployment, w, "active") /\ write[w].deployment \in Identities
            /\ \A kind \in WriteCalls : Late(kind, w)' => Late(kind, w)
            /\ UNCHANGED pending
        BY <3>1, WriteParts DEF AdmitRequest, Late
      <4>2. /\ AtW(w, "admit") /\ write'[w].pc = "begin"
            /\ write'[w].base = write[w].base /\ write'[w].uncertain = write[w].uncertain
        BY <3>1 DEF AdmitRequest, TypeOK, WriteRequest
      <4>3. QED
        BY <1>1, <2>1, <4>1, <4>2, AdmittedIsSafe
    <3>2. CASE OwnRecordStep(w)
      BY <1>1, <2>1, <3>2, OwnRecordIsSafe
    <3>3. QED
      BY <1>1, <1>4, <2>1, <3>1, <3>2, BegunIsSafe, SenderIsSafe, SettledIsSafe,
         ReleasedIsSafe, AbandonedIsSafe DEF WriteStep, OwnRecordStep
  <2>2. CASE v # w
    BY <1>1, <1>4, <2>2, WriteStepUntouched
  <2>3. QED
    BY <2>1, <2>2
<1>5. ASSUME NEW call \in late, Execute(call)
      PROVE  WriteSafe(v)'
  <2>1. CASE \E r \in Readers : call = <<"publish", r>>
    BY <1>1, <1>5, <2>1, ElsewhereUntouched
  <2>2. ASSUME NEW kind \in WriteCalls, NEW w \in Tokens, call = <<kind, w>>
        PROVE  WriteSafe(v)'
    <3>1. CASE v = w
      BY <1>1, <1>5, <2>2, <3>1, LatecomerIsSafe
    <3>2. CASE v # w
      BY <1>1, <1>5, <2>2, <3>2, LatecomerUntouched
    <3>3. QED
      BY <3>1, <3>2
  <2>3. (\E r \in Readers : call = <<"publish", r>>)
          \/ \E kind \in WriteCalls, w \in Tokens : call = <<kind, w>>
    BY DEF TypeOK, Call, WriteCalls
  <2>4. QED
    BY <2>1, <2>2, <2>3
<1>6. CASE Operator
  BY <1>1, <1>6, OperatorIsSafe
<1>7. QED
  BY <1>1, <1>2, <1>3, <1>4, <1>5, <1>6, ElsewhereUntouched DEF Next, Arrive

----------------------------------------------------------------------------
(* The reads' share.  While the cache stays in service for an identity, a  *)
(* step may change the catalog or Qdrant, or record a token, only if one   *)
(* is recorded already or the epoch advances.                              *)

\* What a step does to the epoch that an identity is served in.
EpochKept(d) ==
    OpenTo(d)' =>
        \/ d \notin tombstones /\ d \in tombstones'
        \/ OpenTo(d) /\ control'.epoch > control.epoch
        \/ /\ OpenTo(d) /\ control'.epoch = control.epoch
           /\ control.writers = NoWriters =>
                control'.writers = NoWriters /\ UNCHANGED <<catalog, store>>

\* A token recorded is a further field.
LEMMA RecordedIsNoted ==
    ASSUME NEW w \in Tokens, control.writers[w] # 0
    PROVE  control.writers # NoWriters
BY DEF NoWriters

\* A mutation in flight and a commit that may still happen have a token
\* behind them.
LEMMA ChangesAreFenced ==
    ASSUME TypeOK, \A w \in Tokens : WriteSafe(w), NEW d \in Identities, OpenTo(d),
           NEW w \in Tokens, Unsettled(w) # {} \/ MayCommit(w)
    PROVE  control.writers # NoWriters
BY RecordedIsNoted DEF WriteSafe, TokenRecorded

\* No step serves a token's change in the epoch before it.
LEMMA StepKeepsEpoch ==
    ASSUME TypeOK, \A w \in Tokens : WriteSafe(w), [Next]_vars, NEW d \in Identities
    PROVE  EpochKept(d)
<1>1. control.epoch \in Int /\ control.epoch + 1 > control.epoch
  BY MaxEpochAssumption DEF TypeOK, KeyspaceTypeOK, Control
<1>2. ASSUME UNCHANGED <<control, catalog, store>>
      PROVE  EpochKept(d)
  BY <1>2 DEF EpochKept, OpenTo
<1>3. ASSUME NEW i \in Identities, NEW t \in Tokens,
             NEW s \in {"active", "maintenance"}, Admit(i, t, s)
      PROVE  EpochKept(d)
  BY <1>1, <1>3, AdmitEffect DEF EpochKept
<1>4. ASSUME NEW i \in Identities, NEW t \in Tokens, NEW e, Release(i, t, e)
      PROVE  EpochKept(d)
  <2>1. /\ control'.epoch = control.epoch /\ control.writers[t] # 0
        /\ OpenTo(d)' => OpenTo(d)
    BY <1>4, ReleaseEffect
  <2>2. QED
    BY <2>1, RecordedIsNoted DEF EpochKept
<1>5. ASSUME NEW w \in Tokens, MayCommit(w), UNCHANGED control
      PROVE  EpochKept(d)
  <2>1. OpenTo(d)' => OpenTo(d)
    BY <1>5 DEF OpenTo
  <2>2. QED
    BY <1>5, <2>1, ChangesAreFenced DEF EpochKept
<1>6. ASSUME NEW w \in Tokens, WriteStep(w)
      PROVE  EpochKept(d)
  <2>1. write[w].deployment \in Identities
    BY WriteParts
  <2>2. CASE AdmitRequest(w) \/ ReleaseRequest(w)
    BY <1>3, <1>4, <2>1, <2>2 DEF AdmitRequest, ReleaseRequest
  <2>3. CASE Settle(w)
    <3>1. CASE AtW(w, "commit") /\ CommitScript(w)
      BY <1>5, <3>1 DEF MayCommit, CommitScript
    <3>2. CASE AtW(w, "unclaim") /\ UnclaimScript(w)
      BY <1>2, <2>3, <3>2 DEF UnclaimScript, Settle
    <3>3. QED
      BY <2>3, <3>1, <3>2 DEF Settle
  <2>4. CASE ~(AdmitRequest(w) \/ ReleaseRequest(w) \/ Settle(w))
    <3>1. UNCHANGED <<control, catalog, store>>
      BY <1>6, <2>4 DEF WriteStep, BeginRequest, BeginScript, BeginFails, SendMutation,
         MutationCompletes, MutationUncertain, HandlerSucceeds, HandlerFails,
         AbandonWrite, OnlyWrite, keyspace
    <3>2. QED
      BY <1>2, <3>1
  <2>5. QED
    BY <2>2, <2>3, <2>4
<1>7. ASSUME NEW call \in late, Execute(call)
      PROVE  EpochKept(d)
  <2>1. CASE call[1] = "publish"
    <3>1. UNCHANGED <<control, catalog, store>>
      BY <1>7, <2>1 DEF Execute, PublishScript, Publish
    <3>2. QED
      BY <1>2, <3>1
  <2>2. CASE call[1] # "publish"
    <3> DEFINE w == call[2]
    <3>1. w \in Tokens /\ write[w].deployment \in Identities /\ call = <<call[1], w>>
      BY <2>2, LateCallers, WriteParts
    <3> HIDE DEF w
    <3>2. CASE Admit(write[w].deployment, w, "active")
               \/ Release(write[w].deployment, w, write[w].epoch)
      BY <1>3, <1>4, <3>1, <3>2
    <3>3. CASE call[1] = "commit" /\ CommitScript(w)
      BY <1>5, <3>1, <3>3 DEF MayCommit, CommitScript, Late
    <3>4. CASE BeginScript(w, TRUE) \/ UnclaimScript(w)
      <4>1. UNCHANGED <<control, catalog, store>>
        BY <1>7, <3>4 DEF BeginScript, UnclaimScript, Execute
      <4>2. QED
        BY <1>2, <4>1
    <3>5. QED
      BY <1>7, <2>2, <3>2, <3>3, <3>4 DEF Execute, w
  <2>3. QED
    BY <2>1, <2>2
<1>8. ASSUME NEW op \in pending, Apply(op) \/ Lose(op)
      PROVE  EpochKept(d)
  <2>1. op[1] \in Tokens /\ op \in Unsettled(op[1]) /\ UNCHANGED control
    BY <1>8 DEF TypeOK, Unsettled, Apply, Lose, keyspace
  <2>2. OpenTo(d)' => OpenTo(d)
    BY <2>1 DEF OpenTo
  <2>3. QED
    BY <2>1, <2>2, ChangesAreFenced DEF EpochKept
<1>9. CASE Operator
  <2>1. /\ UNCHANGED <<catalog, store>>
        /\ OpenTo(d)' => \/ OpenTo(d) /\ UNCHANGED control
                         \/ d \notin tombstones /\ d \in tombstones'
    BY <1>9, OperatorEffect
  <2>2. QED
    BY <2>1 DEF EpochKept
<1>10. CASE Server
  <2>1. UNCHANGED <<catalog, store>> /\ (UNCHANGED control \/ DamageControl)
    BY <1>10 DEF Server, Expire, Garble, RewriteAof, RestartValkey, DamageControl
  <2>2. DamageControl => EpochKept(d)
    BY <2>1, DamageEffect DEF EpochKept
  <2>3. UNCHANGED control => EpochKept(d)
    <3>1. UNCHANGED control => UNCHANGED <<control, catalog, store>>
      BY <2>1
    <3>2. QED
      BY <1>2, <3>1
  <2>4. QED
    BY <2>1, <2>2, <2>3
<1>11. CASE Arrive
  <2>1. ASSUME NEW w \in Tokens, NEW i \in Identities, Maintain(w, i)
        PROVE  EpochKept(d)
    BY <1>3, <2>1 DEF Maintain
  <2>2. OnlyWrite \/ OnlyRead => UNCHANGED <<control, catalog, store>>
    BY DEF OnlyWrite, OnlyRead, keyspace
  <2>3. (\E w \in Tokens, i \in Identities : Maintain(w, i)) \/ OnlyWrite \/ OnlyRead
    <3>1. ASSUME NEW w \in Tokens, NEW i \in Identities, NEW isAdmin \in BOOLEAN,
                 NEW plan \in SUBSET Parts, ArriveWrite(w, i, isAdmin, plan)
          PROVE  OnlyWrite
      BY <3>1 DEF ArriveWrite
    <3>2. ASSUME NEW r \in Readers, NEW i \in Identities, NEW k \in Keys,
                 LookupMisses(r, i, k) \/ LookupHitsGarbled(r, i, k)
          PROVE  OnlyRead
      BY <3>2 DEF LookupMisses, LookupHitsGarbled
    <3>3. QED
      BY <1>11, <3>1, <3>2 DEF Arrive
  <2>4. QED
    BY <1>2, <2>1, <2>2, <2>3
<1>12. CASE \E r \in Readers : ReadStep(r)
  <2>1. UNCHANGED <<control, catalog, store>>
    BY <1>12 DEF ReadStep, LoadCatalog, ReadPart, Answer, PublishAnswer, AbandonRead,
       PublishScript, Publish, OnlyRead, keyspace
  <2>2. QED
    BY <1>2, <2>1
<1>13. CASE UNCHANGED vars
  BY <1>2, <1>13 DEF vars, keyspace
<1>14. QED
  BY <1>6, <1>7, <1>8, <1>9, <1>10, <1>11, <1>12, <1>13 DEF Next

\* What was current in an epoch stays so, as long as the epoch lasts.
LEMMA EntryStaysCurrent ==
    ASSUME TypeOK, TypeOK', NEW d \in Identities, EpochKept(d), d \in tombstones,
           OpenTo(d)', NEW entry \in Entry(Responses), OpenTo(d) => EntryCurrent(entry)
    PROVE  /\ entry.epoch <= control'.epoch
           /\ entry.epoch = control'.epoch =>
                /\ control'.writers = NoWriters
                /\ entry.response \in {Garbled, [catalog |-> catalog', parts |-> store']}
<1>1. entry.epoch \in Int /\ control.epoch \in Int /\ control'.epoch \in Int
  BY MaxEpochAssumption DEF TypeOK, KeyspaceTypeOK, Control, Entry
<1>2. EntryCurrent(entry) /\ OpenTo(d)
  BY DEF EpochKept
<1>3. CASE control'.epoch > control.epoch
  BY <1>1, <1>2, <1>3 DEF EntryCurrent, Undisturbed
<1>4. CASE /\ control'.epoch = control.epoch
           /\ control.writers = NoWriters =>
                control'.writers = NoWriters /\ UNCHANGED <<catalog, store>>
  BY <1>1, <1>2, <1>4 DEF EntryCurrent, Undisturbed
<1>5. QED
  BY <1>3, <1>4 DEF EpochKept

\* ... a table of entries with it.
LEMMA TableStaysCurrent ==
    ASSUME IInv, TypeOK', NEW d \in Identities, EpochKept(d), OpenTo(d)', NEW k \in Keys,
           NEW entry \in {entries[d][k], saved[d][k]}, entry # None
    PROVE  /\ entry \in Entry(Responses)
           /\ entry.epoch <= control'.epoch
           /\ entry.epoch = control'.epoch =>
                /\ control'.writers = NoWriters
                /\ entry.response \in {Garbled, [catalog |-> catalog', parts |-> store']}
<1>1. d \in tombstones
  BY DEF IInv, UnusedIsClean
<1>2. entry \in Entry(Responses)
  <2>1. entries \in EntryTable(Responses) /\ saved \in EntryTable(Responses)
    BY TypesApart DEF IInv, KeyspaceTyped, KeyspaceTypeOK
  <2>2. /\ entries[d][k] \in Entry(Responses) \cup {None}
        /\ saved[d][k] \in Entry(Responses) \cup {None}
    BY <2>1 DEF EntryTable
  <2>3. QED
    BY <2>2
<1>3. OpenTo(d) => EntryCurrent(entry)
  BY DEF IInv, EntriesCurrent
<1>4. QED
  BY <1>1, <1>2, <1>3, EntryStaysCurrent DEF IInv

\* A publication stores what there is.
LEMMA PublicationIsCurrent ==
    ASSUME IInv, NEW r \in Readers, AtR(r, "publish") \/ Late("publish", r),
           Publish(read[r].deployment, read[r].epoch, read[r].key,
                   [catalog |-> read[r].catalog, parts |-> read[r].parts])
    PROVE  /\ OpenTo(read[r].deployment) /\ control.writers = NoWriters
           /\ [catalog |-> read[r].catalog, parts |-> read[r].parts]
                = [catalog |-> catalog, parts |-> store]
           /\ UNCHANGED <<control, catalog, saved, tombstones>>
<1>1. OpenTo(read[r].deployment) /\ control.writers = NoWriters
      /\ control.epoch = read[r].epoch
  BY DEF Publish, Quiet, Valid, OpenTo, NoOtherField
<1>2. read[r].deployment \in Identities /\ read[r].parts \in [Parts -> Content \cup {None}]
      /\ store \in [Parts -> Content]
  BY DEF IInv, TypeOK, ReadRequest
<1>3. Reading(r) /\ ~AtR(r, "load")
  BY DEF IInv, ReadInOrder, Reading, AtR
<1>4. read[r].catalog = catalog /\ \A p \in Parts : read[r].parts[p] \in {None, store[p]}
  BY <1>1, <1>3 DEF IInv, ReadCurrent
<1>5. \A p \in Parts : read[r].parts[p] # None
  BY DEF IInv, AnswersComplete, Late
<1>6. read[r].parts = store
  BY <1>2, <1>4, <1>5
<1>7. QED
  BY <1>1, <1>4, <1>6 DEF Publish

\* A read publishes, in time or late.
Publishes(r) ==
    /\ AtR(r, "publish") \/ Late("publish", r)
    /\ PublishScript(r)
    /\ UNCHANGED store

\* Only publications and the server change the responses.
LEMMA WhoChangesEntries ==
    ASSUME TypeOK, [Next]_vars
    PROVE  \/ UNCHANGED <<entries, saved>>
           \/ \E r \in Readers : Publishes(r)
           \/ Server
<1>1. ASSUME NEW w \in Tokens, WriteStep(w)
      PROVE  UNCHANGED <<entries, saved>>
  BY <1>1 DEF WriteStep, AdmitRequest, Admit, BeginRequest, BeginScript, BeginFails,
     SendMutation, MutationCompletes, MutationUncertain, HandlerSucceeds, HandlerFails,
     Settle, CommitScript, UnclaimScript, ReleaseRequest, Release, AbandonWrite,
     OnlyWrite, keyspace
<1>2. ASSUME NEW r \in Readers, ReadStep(r)
      PROVE  UNCHANGED <<entries, saved>> \/ Publishes(r)
  BY <1>2 DEF ReadStep, LoadCatalog, ReadPart, Answer, PublishAnswer, AbandonRead,
     OnlyRead, keyspace, Publishes
<1>3. ASSUME NEW call \in late, Execute(call)
      PROVE  UNCHANGED <<entries, saved>> \/ \E r \in Readers : Publishes(r)
  <2>1. CASE call[1] = "publish"
    <3>1. call[2] \in Readers /\ Late("publish", call[2])
      BY <2>1, LateCallers DEF Late
    <3>2. PublishScript(call[2]) /\ UNCHANGED store
      BY <1>3, <2>1 DEF Execute
    <3>3. QED
      BY <3>1, <3>2 DEF Publishes
  <2>2. CASE call[1] # "publish"
    BY <1>3, <2>2 DEF Execute, Admit, BeginScript, CommitScript, UnclaimScript, Release
  <2>3. QED
    BY <2>1, <2>2
<1>4. ASSUME NEW op \in pending, Apply(op) \/ Lose(op)
      PROVE  UNCHANGED <<entries, saved>>
  BY <1>4 DEF Apply, Lose, keyspace
<1>5. Operator => UNCHANGED <<entries, saved>>
  BY OperatorEffect
<1>6. ASSUME Arrive
      PROVE  UNCHANGED <<entries, saved>>
  <2>1. ASSUME NEW w \in Tokens, NEW d \in Identities, NEW isAdmin \in BOOLEAN,
               NEW plan \in SUBSET Parts, ArriveWrite(w, d, isAdmin, plan)
        PROVE  UNCHANGED <<entries, saved>>
    BY <2>1 DEF ArriveWrite, OnlyWrite, keyspace
  <2>2. ASSUME NEW w \in Tokens, NEW d \in Identities, Maintain(w, d)
        PROVE  UNCHANGED <<entries, saved>>
    BY <2>2 DEF Maintain, Admit
  <2>3. ASSUME NEW r \in Readers, NEW d \in Identities, NEW k \in Keys,
               LookupMisses(r, d, k) \/ LookupHitsGarbled(r, d, k)
        PROVE  UNCHANGED <<entries, saved>>
    BY <2>3 DEF LookupMisses, LookupHitsGarbled, OnlyRead, keyspace
  <2>4. QED
    BY <1>6, <2>1, <2>2, <2>3 DEF Arrive
<1>7. UNCHANGED vars => UNCHANGED <<entries, saved>>
  BY DEF vars, keyspace
<1>8. QED
  BY <1>1, <1>2, <1>3, <1>4, <1>5, <1>6, <1>7 DEF Next

\* The response under a key is an old one, spoilt or not, or a publication.
LEMMA EntryChanges ==
    ASSUME TypeOK, [Next]_vars, NEW d \in Identities, NEW k \in Keys
    PROVE  /\ saved'[d][k] \in {entries[d][k], saved[d][k]}
           /\ \/ entries'[d][k] \in {entries[d][k], saved[d][k], None}
              \/ /\ entries[d][k] # None /\ UNCHANGED <<control, catalog, store>>
                 /\ entries'[d][k] = [entries[d][k] EXCEPT !.response = Garbled]
              \/ \E r \in Readers :
                    /\ Publishes(r) /\ d = read[r].deployment
                    /\ entries'[d][k] =
                         [epoch |-> control.epoch,
                          response |-> [catalog |-> read[r].catalog,
                                        parts |-> read[r].parts]]
<1>1. entries \in EntryTable(Responses) /\ DOMAIN entries = Identities
      /\ DOMAIN entries[d] = Keys
  <2>1. entries \in EntryTable(Responses)
    BY TypesApart DEF KeyspaceTyped, KeyspaceTypeOK
  <2>2. QED
    BY <2>1 DEF EntryTable
<1>2. ASSUME NEW i \in Identities, NEW j \in Keys, NEW e,
             entries' = [entries EXCEPT ![i][j] = e]
      PROVE  entries'[d][k] = IF i = d /\ j = k THEN e ELSE entries[d][k]
  <2>1. entries' = [entries EXCEPT ![i] = [entries[i] EXCEPT ![j] = e]]
    BY <1>2
  <2>2. entries[i] \in [Keys -> Entry(Responses) \cup {None}]
    BY <1>1 DEF EntryTable
  <2>3. QED
    BY <1>1, <2>1, <2>2
<1>3. CASE UNCHANGED <<entries, saved>>
  BY <1>3
<1>4. ASSUME NEW r \in Readers, Publishes(r)
      PROVE  /\ UNCHANGED saved
             /\ \/ entries'[d][k] = entries[d][k]
                \/ /\ d = read[r].deployment
                   /\ entries'[d][k] =
                        [epoch |-> control.epoch,
                         response |-> [catalog |-> read[r].catalog,
                                       parts |-> read[r].parts]]
  <2>1. read[r].deployment \in Identities /\ read[r].key \in Keys
    BY DEF TypeOK, ReadRequest
  <2>2. QED
    BY <1>2, <1>4, <2>1 DEF Publishes, PublishScript, Publish
<1>5. ASSUME NEW i \in Identities, NEW j \in Keys, Expire(i, j)
      PROVE  UNCHANGED saved /\ entries'[d][k] \in {entries[d][k], None}
  BY <1>2, <1>5 DEF Expire
<1>6. ASSUME NEW i \in Identities, NEW j \in Keys, Garble(i, j), UNCHANGED store
      PROVE  /\ UNCHANGED saved
             /\ \/ entries'[d][k] = entries[d][k]
                \/ /\ entries[d][k] # None /\ UNCHANGED <<control, catalog, store>>
                   /\ entries'[d][k] = [entries[d][k] EXCEPT !.response = Garbled]
  <2>1. entries' = [entries EXCEPT ![i][j] = [entries[i][j] EXCEPT !.response = Garbled]]
    BY <1>6 DEF Garble
  <2>2. QED
    BY <1>2, <1>6, <2>1 DEF Garble
<1>7. CASE RewriteAof \/ RestartValkey \/ DamageControl
  BY <1>7 DEF RewriteAof, RestartValkey, DamageControl
<1>8. CASE Server
  BY <1>5, <1>6, <1>7, <1>8 DEF Server
<1>9. QED
  BY <1>3, <1>4, <1>8, WhoChangesEntries

\* The responses stay current.
LEMMA EntriesStayCurrent ==
    ASSUME IInv, TypeOK', [Next]_vars
    PROVE  EntriesCurrent(entries)' /\ EntriesCurrent(saved)'
<1>1. \A d \in Identities : EpochKept(d)
  BY StepKeepsEpoch DEF IInv
<1>2. ASSUME NEW d \in Identities, OpenTo(d)', NEW k \in Keys, NEW entry, entry # None,
             \/ entry \in {entries[d][k], saved[d][k]}
             \/ entry = entries'[d][k]
      PROVE  /\ entry.epoch <= control'.epoch
             /\ entry.epoch = control'.epoch =>
                 /\ control'.writers = NoWriters
                 /\ entry.response \in {Garbled, [catalog |-> catalog', parts |-> store']}
  <2>1. CASE entry \in {entries[d][k], saved[d][k]}
    BY <1>1, <1>2, <2>1, TableStaysCurrent
  <2>2. ASSUME entries[d][k] # None, UNCHANGED <<control, catalog, store>>,
               entry = [entries[d][k] EXCEPT !.response = Garbled]
        PROVE  /\ entry.epoch <= control'.epoch
               /\ entry.epoch = control'.epoch =>
                   /\ control'.writers = NoWriters
                   /\ entry.response \in {Garbled, [catalog |-> catalog', parts |-> store']}
    <3>1. PICK old : old = entries[d][k]
      OBVIOUS
    <3>2. /\ old \in Entry(Responses) /\ old.epoch <= control'.epoch
          /\ old.epoch = control'.epoch => control'.writers = NoWriters
      BY <1>1, <1>2, <2>2, <3>1, TableStaysCurrent
    <3>3. entry.epoch = old.epoch /\ entry.response = Garbled
      BY <2>2, <3>1, <3>2 DEF Entry
    <3>4. QED
      BY <3>2, <3>3
  <2>3. ASSUME NEW r \in Readers, Publishes(r), d = read[r].deployment,
               entry = [epoch |-> control.epoch,
                        response |-> [catalog |-> read[r].catalog, parts |-> read[r].parts]]
        PROVE  /\ entry.epoch <= control'.epoch
               /\ entry.epoch = control'.epoch =>
                   /\ control'.writers = NoWriters
                   /\ entry.response \in {Garbled, [catalog |-> catalog', parts |-> store']}
    <3>1. /\ control.writers = NoWriters /\ UNCHANGED <<control, catalog, store>>
          /\ [catalog |-> read[r].catalog, parts |-> read[r].parts]
               = [catalog |-> catalog, parts |-> store]
      BY <2>3, PublicationIsCurrent DEF Publishes, PublishScript
    <3>2. control.epoch <= control.epoch
      BY MaxEpochAssumption DEF IInv, TypeOK, KeyspaceTypeOK, Control
    <3>3. QED
      BY <2>3, <3>1, <3>2
  <2>4. ASSUME entry = entries'[d][k], entry \notin {entries[d][k], saved[d][k]}
        PROVE  /\ entry.epoch <= control'.epoch
               /\ entry.epoch = control'.epoch =>
                   /\ control'.writers = NoWriters
                   /\ entry.response \in {Garbled, [catalog |-> catalog', parts |-> store']}
    <3>1. \/ /\ entries[d][k] # None /\ UNCHANGED <<control, catalog, store>>
             /\ entry = [entries[d][k] EXCEPT !.response = Garbled]
          \/ \E r \in Readers :
                /\ Publishes(r) /\ d = read[r].deployment
                /\ entry = [epoch |-> control.epoch,
                            response |-> [catalog |-> read[r].catalog,
                                          parts |-> read[r].parts]]
      BY <1>2, <2>4, EntryChanges DEF IInv
    <3>2. QED
      BY <2>2, <2>3, <3>1
  <2>5. QED
    BY <1>2, <2>1, <2>4
<1>3. ASSUME NEW d \in Identities, OpenTo(d)', NEW k \in Keys, entries'[d][k] # None
      PROVE  EntryCurrent(entries[d][k])'
  BY <1>2, <1>3 DEF EntryCurrent, Undisturbed
<1>4. ASSUME NEW d \in Identities, OpenTo(d)', NEW k \in Keys, saved'[d][k] # None
      PROVE  EntryCurrent(saved[d][k])'
  <2>1. saved'[d][k] \in {entries[d][k], saved[d][k]}
    BY EntryChanges DEF IInv
  <2>2. QED
    BY <1>2, <1>4, <2>1 DEF EntryCurrent, Undisturbed
<1>5. QED
  BY <1>3, <1>4 DEF EntriesCurrent

\* What a step does to a read.
ReadMove(r) ==
    \/ /\ read'[r] = read[r] /\ (Late("publish", r)' => Late("publish", r))
    \/ /\ AtR(r, "idle") /\ Quiet(read'[r].deployment)
       /\ read'[r].deployment \in Identities
       /\ UNCHANGED <<control, catalog, store, late>>
       /\ read'[r].epoch = control.epoch /\ read'[r].parts = read[r].parts
       /\ \/ read'[r].pc = "load"
          \/ read'[r].pc = "parts" /\ read'[r].catalog = catalog
    \/ /\ AtR(r, "load") /\ read'[r].pc = "parts" /\ read'[r].catalog = catalog
       /\ UNCHANGED <<control, catalog, store, late>>
       /\ read'[r].deployment = read[r].deployment
       /\ read'[r].epoch = read[r].epoch /\ read'[r].parts = read[r].parts
    \/ /\ AtR(r, "parts") /\ read'[r].pc \in {"parts", "publish"}
       /\ UNCHANGED <<control, catalog, store, late>>
       /\ read'[r].deployment = read[r].deployment
       /\ read'[r].epoch = read[r].epoch /\ read'[r].catalog = read[r].catalog
       /\ \A p \in Parts : read'[r].parts[p] \in {read[r].parts[p], store[p]}
       /\ read'[r].pc = "publish" => \A p \in Parts : read'[r].parts[p] # None
    \/ /\ ~AtR(r, "idle") /\ ~AtR(r, "done") /\ read'[r].pc = "done"
       /\ read'[r].deployment = read[r].deployment
       /\ read'[r].epoch = read[r].epoch /\ read'[r].catalog = read[r].catalog
       /\ read'[r].parts = read[r].parts
       /\ UNCHANGED <<control, catalog, store>>
       /\ Late("publish", r)' => AtR(r, "publish") \/ Late("publish", r)

\* A read's own step.
LEMMA ReadStepMoves ==
    ASSUME TypeOK, NEW r \in Readers, ReadStep(r)
    PROVE  ReadMove(r)
<1>1. r \in DOMAIN read /\ read[r] \in ReadRequest
  BY DEF TypeOK
<1>2. CASE LoadCatalog(r)
  <2>1. /\ read'[r].pc = "parts" /\ read'[r].catalog = catalog
        /\ read'[r].deployment = read[r].deployment
        /\ read'[r].epoch = read[r].epoch /\ read'[r].parts = read[r].parts
    BY <1>1, <1>2 DEF LoadCatalog, ReadRequest
  <2>2. QED
    BY <1>2, <2>1 DEF LoadCatalog, OnlyRead, keyspace, ReadMove
<1>3. ASSUME NEW p \in Parts, ReadPart(r, p)
      PROVE  ReadMove(r)
  <2>1. read' = [read EXCEPT ![r] =
                   [read[r] EXCEPT !.parts = [read[r].parts EXCEPT ![p] = store[p]]]]
    BY <1>3 DEF ReadPart
  <2>2. /\ read'[r].pc = "parts" /\ read'[r].catalog = read[r].catalog
        /\ read'[r].deployment = read[r].deployment /\ read'[r].epoch = read[r].epoch
        /\ read'[r].parts = [read[r].parts EXCEPT ![p] = store[p]]
    BY <1>1, <1>3, <2>1 DEF ReadPart, AtR, ReadRequest
  <2>3. \A q \in Parts : read'[r].parts[q] \in {read[r].parts[q], store[q]}
    BY <1>1, <2>2 DEF ReadRequest
  <2>4. QED
    BY <1>3, <2>2, <2>3 DEF ReadPart, OnlyRead, keyspace, ReadMove
<1>4. CASE Answer(r)
  <2>1. /\ read'[r].pc = "publish" /\ read'[r].catalog = read[r].catalog
        /\ read'[r].deployment = read[r].deployment
        /\ read'[r].epoch = read[r].epoch /\ read'[r].parts = read[r].parts
    BY <1>1, <1>4 DEF Answer, ReadRequest
  <2>2. QED
    BY <1>4, <2>1 DEF Answer, OnlyRead, keyspace, ReadMove
<1>5. CASE PublishAnswer(r) \/ AbandonRead(r)
  <2>1. /\ read'[r].pc = "done" /\ read'[r].catalog = read[r].catalog
        /\ read'[r].deployment = read[r].deployment
        /\ read'[r].epoch = read[r].epoch /\ read'[r].parts = read[r].parts
    BY <1>1, <1>5 DEF PublishAnswer, AbandonRead, ReadRequest
  <2>2. UNCHANGED <<control, catalog, store>>
    BY <1>5 DEF PublishAnswer, PublishScript, Publish, AbandonRead, keyspace
  <2>3. Late("publish", r)' => AtR(r, "publish") \/ Late("publish", r)
    BY <1>5 DEF PublishAnswer, AbandonRead, Late, AtR
  <2>4. ~AtR(r, "idle") /\ ~AtR(r, "done")
    BY <1>5 DEF PublishAnswer, AbandonRead, AtR
  <2>5. QED
    BY <2>1, <2>2, <2>3, <2>4 DEF ReadMove
<1>6. QED
  BY <1>2, <1>3, <1>4, <1>5 DEF ReadStep

\* Every step.
LEMMA StepReadMoves ==
    ASSUME TypeOK, [Next]_vars, NEW r \in Readers
    PROVE  ReadMove(r)
<1>1. ASSUME UNCHANGED read, late' \subseteq late
      PROVE  ReadMove(r)
  BY <1>1 DEF ReadMove, Late
<1>2. ASSUME NEW q \in Readers, NEW d \in Identities, NEW k \in Keys,
             LookupMisses(q, d, k) \/ LookupHitsGarbled(q, d, k)
      PROVE  ReadMove(r)
  <2>1. CASE q # r
    BY <1>2, <2>1 DEF LookupMisses, LookupHitsGarbled, TypeOK, ReadMove, OnlyRead, Late
  <2>2. CASE q = r
    <3>1. read[r] \in ReadRequest /\ r \in DOMAIN read
      BY DEF TypeOK
    <3>2. /\ AtR(r, "idle") /\ Quiet(d) /\ UNCHANGED <<control, catalog, store, late>>
      BY <1>2, <2>2 DEF LookupMisses, LookupHitsGarbled, Undecodable, Hit, OnlyRead, keyspace
    <3>3. /\ read'[r].deployment = d /\ read'[r].epoch = control.epoch
          /\ read'[r].parts = read[r].parts
          /\ \/ read'[r].pc = "load"
             \/ read'[r].pc = "parts" /\ read'[r].catalog = catalog
      <4>1. CASE LookupMisses(q, d, k)
        BY <2>2, <3>1, <4>1 DEF LookupMisses, ReadRequest
      <4>2. CASE LookupHitsGarbled(q, d, k)
        BY <2>2, <3>1, <4>2 DEF LookupHitsGarbled, ReadRequest
      <4>3. QED
        BY <1>2, <4>1, <4>2
    <3>4. QED
      BY <3>2, <3>3 DEF ReadMove
  <2>3. QED
    BY <2>1, <2>2
<1>3. ASSUME NEW q \in Readers, ReadStep(q)
      PROVE  ReadMove(r)
  <2>1. CASE q # r
    <3>1. read'[r] = read[r]
      BY <1>3, <2>1 DEF TypeOK, ReadStep, LoadCatalog, ReadPart, Answer, PublishAnswer,
         AbandonRead
    <3>2. late' \in {late, late \cup ({<<read[q].pc, q>>} \cap Call)}
      BY <1>3 DEF ReadStep, LoadCatalog, ReadPart, Answer, PublishAnswer, AbandonRead,
         OnlyRead
    <3>3. QED
      BY <2>1, <3>1, <3>2 DEF ReadMove, Late
  <2>2. CASE q = r
    BY <1>3, <2>2, ReadStepMoves
  <2>3. QED
    BY <2>1, <2>2
<1>4. ASSUME NEW w \in Tokens, WriteStep(w)
      PROVE  ReadMove(r)
  <2>1. late' \in {late, late \cup ({<<write[w].pc, w>>} \cap Call)} /\ UNCHANGED read
    BY <1>4 DEF WriteStep, AdmitRequest, BeginRequest, BeginFails, SendMutation,
       MutationCompletes, MutationUncertain, HandlerSucceeds, HandlerFails, Settle,
       ReleaseRequest, AbandonWrite, OnlyWrite
  <2>2. write[w].pc # "publish"
    BY DEF TypeOK, WriteRequest
  <2>3. QED
    BY <2>1, <2>2 DEF ReadMove, Late
<1>5. ASSUME NEW w \in Tokens, NEW d \in Identities,
             \/ Maintain(w, d)
             \/ \E isAdmin \in BOOLEAN, plan \in SUBSET Parts : ArriveWrite(w, d, isAdmin, plan)
      PROVE  ReadMove(r)
  BY <1>1, <1>5 DEF Maintain, ArriveWrite, OnlyWrite
<1>6. ASSUME \/ \E call \in late : Execute(call)
             \/ \E op \in pending : Apply(op) \/ Lose(op)
             \/ Operator \/ Server \/ UNCHANGED vars
      PROVE  ReadMove(r)
  BY <1>1, <1>6 DEF Execute, Apply, Lose, Operator, Server, vars
<1>7. QED
  BY <1>2, <1>3, <1>4, <1>5, <1>6 DEF Next, Arrive

\* A read stays in order, and its answer complete.
LEMMA ReadsStayInOrder ==
    ASSUME IInv, [Next]_vars
    PROVE  AnswersComplete' /\ \A r \in Readers : ReadInOrder(r)'
<1>1. ASSUME NEW r \in Readers
      PROVE  ReadInOrder(r)' /\ ((AtR(r, "publish") \/ Late("publish", r))'
                                   => \A p \in Parts : read'[r].parts[p] # None)
  <2>1. ReadMove(r) /\ ReadInOrder(r)
    BY StepReadMoves DEF IInv
  <2>2. AtR(r, "publish") \/ Late("publish", r) => \A p \in Parts : read[r].parts[p] # None
    BY DEF IInv, AnswersComplete, Late
  <2>3. Late("publish", r)' => AtR(r, "done") \/ AtR(r, "publish")
    BY <2>1 DEF ReadMove, ReadInOrder, Late
  <2>4. QED
    BY <2>1, <2>2, <2>3 DEF ReadMove, ReadInOrder, AtR, Late
<1>2. QED
  BY <1>1 DEF AnswersComplete, Late

\* What a read has seen stays current.
LEMMA ReadsStayCurrent ==
    ASSUME IInv, TypeOK', [Next]_vars, NEW r \in Readers
    PROVE  ReadCurrent(r)'
<1> SUFFICES ASSUME NEW d \in Identities, d = read'[r].deployment, Reading(r)', OpenTo(d)'
             PROVE  /\ read'[r].epoch <= control'.epoch
                    /\ read'[r].epoch = control'.epoch =>
                         /\ control'.writers = NoWriters
                         /\ read'[r].pc = "load" \/ read'[r].catalog = catalog'
                         /\ \A p \in Parts : read'[r].parts[p] \in {None, store'[p]}
  <2>1. read'[r].deployment \in Identities
    BY DEF TypeOK, ReadRequest
  <2>2. QED
    BY <2>1 DEF ReadCurrent, Undisturbed, OpenTo, AtR
<1>1. ReadMove(r) /\ ReadInOrder(r)
  BY StepReadMoves DEF IInv
<1>2. ASSUME Reading(r), OpenTo(d), read[r].deployment = d
      PROVE  /\ read[r].epoch <= control.epoch
             /\ read[r].epoch = control.epoch =>
                  /\ control.writers = NoWriters
                  /\ read[r].pc = "load" \/ read[r].catalog = catalog
                  /\ \A p \in Parts : read[r].parts[p] \in {None, store[p]}
  BY <1>2 DEF IInv, ReadCurrent, Undisturbed, OpenTo, AtR
<1>3. /\ read[r].deployment \in Identities /\ read[r].epoch \in Int
      /\ control.epoch \in Int /\ control'.epoch \in Int
  BY MaxEpochAssumption DEF IInv, TypeOK, KeyspaceTypeOK, Control, ReadRequest
<1>4. CASE read'[r] = read[r] /\ (Late("publish", r)' => Late("publish", r))
  <2>1. Reading(r) /\ read[r].deployment = d
    BY <1>4 DEF Reading
  <2>2. d \in tombstones
    BY <2>1 DEF IInv, UnusedIsClean
  <2>3. EpochKept(d)
    BY StepKeepsEpoch DEF IInv
  <2>4. CASE OpenTo(d) /\ control'.epoch > control.epoch
    BY <1>2, <1>3, <1>4, <2>1, <2>4
  <2>5. CASE /\ OpenTo(d) /\ control'.epoch = control.epoch
             /\ control.writers = NoWriters =>
                  control'.writers = NoWriters /\ UNCHANGED <<catalog, store>>
    BY <1>2, <1>4, <2>1, <2>5
  <2>6. QED
    BY <2>2, <2>3, <2>4, <2>5 DEF EpochKept
<1>5. CASE AtR(r, "idle") /\ ~(read'[r] = read[r])
  <2>1. /\ Quiet(read'[r].deployment) /\ UNCHANGED <<control, catalog, store>>
        /\ read'[r].epoch = control.epoch /\ read'[r].parts = read[r].parts
        /\ read'[r].pc = "load" \/ read'[r].catalog = catalog
    BY <1>1, <1>5 DEF ReadMove, AtR
  <2>2. control.writers = NoWriters /\ control.epoch <= control.epoch
    BY <1>3, <2>1 DEF Quiet, NoOtherField
  <2>3. \A p \in Parts : read[r].parts[p] = None
    BY <1>1, <1>5 DEF ReadInOrder
  <2>4. QED
    BY <2>1, <2>2, <2>3
<1>6. CASE /\ ~AtR(r, "idle")
           /\ ~(read'[r] = read[r] /\ (Late("publish", r)' => Late("publish", r)))
  <2>1. /\ UNCHANGED <<control, catalog, store>>
        /\ read'[r].deployment = read[r].deployment /\ read'[r].epoch = read[r].epoch
        /\ \A p \in Parts : read'[r].parts[p] \in {read[r].parts[p], store[p]}
    BY <1>1, <1>6 DEF ReadMove, AtR
  <2>2. Reading(r)
    BY <1>1, <1>6 DEF ReadMove, Reading, AtR
  <2>3. \/ read'[r].catalog = catalog
        \/ read'[r].catalog = read[r].catalog /\ ~AtR(r, "load")
    BY <1>1, <1>6 DEF ReadMove, ReadInOrder, Reading, AtR
  <2>4. OpenTo(d)
    BY <2>1 DEF OpenTo
  <2>5. QED
    BY <1>2, <2>1, <2>2, <2>3, <2>4 DEF AtR
<1>7. QED
  <2>1. \/ read'[r] = read[r] /\ (Late("publish", r)' => Late("publish", r))
        \/ AtR(r, "idle") /\ ~(read'[r] = read[r])
        \/ /\ ~AtR(r, "idle")
           /\ ~(read'[r] = read[r] /\ (Late("publish", r)' => Late("publish", r)))
    BY <1>1 DEF ReadMove, AtR
  <2>2. QED
    BY <1>4, <1>5, <1>6, <2>1

\* Identities are only ever used up.
LEMMA TombstonesGrow ==
    ASSUME TypeOK, [Next]_vars
    PROVE  tombstones \subseteq tombstones'
<1>1. ASSUME NEW w \in Tokens, WriteStep(w)
      PROVE  UNCHANGED tombstones
  BY <1>1 DEF WriteStep, AdmitRequest, Admit, BeginRequest, BeginScript, BeginFails,
     SendMutation, MutationCompletes, MutationUncertain, HandlerSucceeds, HandlerFails,
     Settle, CommitScript, UnclaimScript, ReleaseRequest, Release, AbandonWrite,
     OnlyWrite, keyspace
<1>2. ASSUME NEW r \in Readers, ReadStep(r)
      PROVE  UNCHANGED tombstones
  BY <1>2 DEF ReadStep, LoadCatalog, ReadPart, Answer, PublishAnswer, AbandonRead,
     PublishScript, Publish, OnlyRead, keyspace
<1>3. ASSUME NEW call \in late, Execute(call)
      PROVE  UNCHANGED tombstones
  BY <1>3 DEF Execute, Admit, BeginScript, CommitScript, UnclaimScript, Release,
     PublishScript, Publish
<1>4. ASSUME NEW op \in pending, Apply(op) \/ Lose(op)
      PROVE  UNCHANGED tombstones
  BY <1>4 DEF Apply, Lose, keyspace
<1>5. ASSUME NEW w \in Tokens, NEW d \in Identities,
             \/ Maintain(w, d)
             \/ \E isAdmin \in BOOLEAN, plan \in SUBSET Parts : ArriveWrite(w, d, isAdmin, plan)
      PROVE  UNCHANGED tombstones
  BY <1>5 DEF Maintain, Admit, ArriveWrite, OnlyWrite, keyspace
<1>6. ASSUME NEW r \in Readers, NEW d \in Identities, NEW k \in Keys,
             LookupMisses(r, d, k) \/ LookupHitsGarbled(r, d, k)
      PROVE  UNCHANGED tombstones
  BY <1>6 DEF LookupMisses, LookupHitsGarbled, OnlyRead, keyspace
<1>7. Server => UNCHANGED tombstones
  BY DEF Server, Expire, Garble, RewriteAof, RestartValkey, DamageControl
<1>8. UNCHANGED vars => UNCHANGED tombstones
  BY DEF vars, keyspace
<1>9. Arrive => UNCHANGED tombstones
  BY <1>5, <1>6 DEF Arrive
<1>10. QED
  BY <1>1, <1>2, <1>3, <1>4, <1>7, <1>8, <1>9, OperatorEffect DEF Next

\* An identity never used stays so, and leaves nothing behind.
LEMMA UnusedStaysClean ==
    ASSUME IInv, [Next]_vars, NEW d \in Identities
    PROVE  UnusedIsClean(d)'
<1> SUFFICES ASSUME d \notin tombstones'
             PROVE  /\ ~OpenTo(d)'
                    /\ \A k \in Keys : entries'[d][k] = None /\ saved'[d][k] = None
                    /\ \A r \in Readers : Reading(r)' => read'[r].deployment # d
  BY DEF UnusedIsClean
<1>1. d \notin tombstones
  BY TombstonesGrow DEF IInv
<1>2. /\ ~OpenTo(d)
      /\ \A k \in Keys : entries[d][k] = None /\ saved[d][k] = None
      /\ \A r \in Readers : Reading(r) => read[r].deployment # d
  BY <1>1 DEF IInv, UnusedIsClean
<1>3. ~OpenTo(d)'
  BY <1>2, StepKeepsEpoch DEF EpochKept, IInv
<1>4. ASSUME NEW k \in Keys
      PROVE  entries'[d][k] = None /\ saved'[d][k] = None
  <2>1. ASSUME NEW r \in Readers, Publishes(r), d = read[r].deployment
        PROVE  FALSE
    BY <1>2, <2>1 DEF Publishes, PublishScript, Publish, Quiet, Valid, OpenTo
  <2>2. QED
    BY <1>2, <2>1, EntryChanges DEF IInv
<1>5. ASSUME NEW r \in Readers, Reading(r)', read'[r].deployment = d
      PROVE  FALSE
  <2>1. ReadMove(r)
    BY StepReadMoves DEF IInv
  <2>2. ~Quiet(d)
    BY <1>2 DEF Quiet, Valid, OpenTo
  <2>3. Reading(r) /\ read[r].deployment = d
    BY <1>5, <2>1, <2>2 DEF ReadMove, Reading, AtR
  <2>4. QED
    BY <1>2, <2>3
<1>6. QED
  BY <1>3, <1>4, <1>5

----------------------------------------------------------------------------
(* The theorems.                                                           *)

\* The invariant holds at first ...
LEMMA InitIsSafe == Init => IInv
<1> SUFFICES ASSUME Init PROVE IInv
  OBVIOUS
<1>1. TypeOK
  BY InitIsTyped
<1>2. /\ control = Unusable("none") /\ claim = None /\ late = {} /\ pending = {}
      /\ entries = [d \in Identities |-> [k \in Keys |-> None]] /\ saved = entries
  BY DEF Init, KeyspaceInit
<1>3. /\ \A w \in Tokens : write[w].pc = "idle"
      /\ \A r \in Readers : read[r].pc = "idle" /\ \A p \in Parts : read[r].parts[p] = None
  BY DEF Init
<1>4. /\ \A d \in Identities : ~OpenTo(d)
      /\ \A w \in Tokens : control.writers[w] = 0 /\ w # None
  BY <1>2, NoneAssumption DEF OpenTo, Unusable, NoWriters
<1>5. ASSUME NEW w \in Tokens
      PROVE  WriteSafe(w)
  BY <1>2, <1>3, <1>4 DEF WriteSafe, GivesUpOnce, MutationsCounted, TokenRecorded,
     BaseIsCatalog, TokenExplained, Late, Unsettled, AtW
<1>6. ASSUME NEW r \in Readers
      PROVE  ReadCurrent(r) /\ ReadInOrder(r) /\ ~Reading(r)
  BY <1>2, <1>3 DEF ReadCurrent, ReadInOrder, Reading, Late
<1>7. AnswersComplete
  BY <1>2, <1>3 DEF AnswersComplete, AtR
<1>8. EntriesCurrent(entries) /\ EntriesCurrent(saved)
  BY <1>4 DEF EntriesCurrent
<1>9. \A d \in Identities : UnusedIsClean(d)
  BY <1>2, <1>4, <1>6 DEF UnusedIsClean
<1>10. QED
  BY <1>1, <1>5, <1>6, <1>7, <1>8, <1>9 DEF IInv

\* ... and is kept by every step.
LEMMA StepKeepsIInv == IInv /\ [Next]_vars => IInv'
<1> SUFFICES ASSUME IInv, [Next]_vars PROVE IInv'
  OBVIOUS
<1>1. TypeOK'
  BY StepIsTyped DEF IInv
<1>2. \A w \in Tokens : WriteSafe(w)'
  BY StepIsSafe DEF IInv
<1>3. \A r \in Readers : ReadCurrent(r)'
  BY <1>1, ReadsStayCurrent
<1>4. AnswersComplete' /\ \A r \in Readers : ReadInOrder(r)'
  BY ReadsStayInOrder
<1>5. EntriesCurrent(entries)' /\ EntriesCurrent(saved)'
  BY <1>1, EntriesStayCurrent
<1>6. \A d \in Identities : UnusedIsClean(d)'
  BY UnusedStaysClean
<1>7. QED
  BY <1>1, <1>2, <1>3, <1>4, <1>5, <1>6 DEF IInv

(* The inductive invariant holds in every reachable state.                 *)
THEOREM RuntimeIsSafe == Spec => []IInv
BY InitIsSafe, StepKeepsIInv, PTL DEF Spec

(* Every variable keeps its type: in particular no script stores an        *)
(* incomplete response or an epoch beyond the last (ADMIT's overflow       *)
(* check), whichever calls are executed late.                              *)
THEOREM TypesHold == Spec => []TypeOK
<1>1. IInv => TypeOK
  BY DEF IInv
<1>2. QED
  BY <1>1, RuntimeIsSafe, PTL

(* What LOOKUP serves is what an atomic read of the catalog and of every   *)
(* part would answer: "Tickets precede catalog snapshots".                 *)
THEOREM HitsStayCurrent == Spec => []HitsAreCurrent
<1>1. IInv => HitsAreCurrent
  <2> SUFFICES ASSUME IInv, NEW d \in Identities, NEW k \in Keys, Hit(d, k),
                      ~Undecodable(d, k)
               PROVE  entries[d][k].response = [catalog |-> catalog, parts |-> store]
    BY DEF HitsAreCurrent
  <2>1. OpenTo(d) /\ entries[d][k] # None /\ entries[d][k].epoch = control.epoch
        /\ entries[d][k].response # Garbled
    BY DEF Hit, Undecodable, Quiet, Valid, OpenTo
  <2>2. QED
    BY <2>1 DEF IInv, EntriesCurrent, EntryCurrent
<1>2. QED
  BY <1>1, RuntimeIsSafe, PTL

(* No ticket and no hit while a request runs or a mutation it gave up on   *)
(* may still be applied: its token is still recorded.                      *)
THEOREM UncertaintyIsFenced == Spec => []UncertaintyFences
<1>1. IInv => UncertaintyFences
  <2> SUFFICES ASSUME IInv, NEW d \in Identities, Quiet(d)
               PROVE  /\ pending = {}
                      /\ \A w \in Tokens : write[w].pc \in {"idle", "admit", "done"}
    BY DEF UncertaintyFences
  <2>1. OpenTo(d) /\ control.writers = NoWriters
    BY DEF Quiet, Valid, OpenTo, NoOtherField
  <2>2. ASSUME NEW w \in Tokens
        PROVE  ~Running(w) /\ Unsettled(w) = {}
    BY <2>1 DEF IInv, WriteSafe, TokenRecorded, NoWriters
  <2>3. pending = {}
    BY <2>2 DEF IInv, TypeOK, Unsettled
  <2>4. \A w \in Tokens : write[w].pc \in {"idle", "admit", "done"}
    BY <2>2 DEF IInv, TypeOK, WriteRequest, Running
  <2>5. QED
    BY <2>3, <2>4
<1>2. QED
  BY <1>1, RuntimeIsSafe, PTL

(* A token stays behind a finished request only if something about it is   *)
(* uncertain or left to the operator.                                      *)
THEOREM FencesAreNeeded == Spec => []NoNeedlessFence
<1>1. IInv => NoNeedlessFence
  BY DEF IInv, WriteSafe, TokenExplained, NoNeedlessFence
<1>2. QED
  BY <1>1, RuntimeIsSafe, PTL

(* The catalog only ever changes to the commit of a request that read the  *)
(* catalog it replaces, late commits included.                             *)
THEOREM AdministrationsAreKept == Spec => NoLostAdministration
<1>1. IInv /\ [Next]_vars =>
        [catalog' # catalog => catalog' \in Tokens /\ write[catalog'].base = catalog]_vars
  <2> SUFFICES ASSUME IInv, Next, catalog' # catalog
               PROVE  catalog' \in Tokens /\ write[catalog'].base = catalog
    BY DEF vars, keyspace
  <2>1. ASSUME NEW w \in Tokens, CommitScript(w), AtW(w, "commit") \/ Late("commit", w)
        PROVE  catalog' \in Tokens /\ write[catalog'].base = catalog
    BY <2>1 DEF IInv, WriteSafe, BaseIsCatalog, CommitScript, AtW
  <2>2. ASSUME NEW w \in Tokens, WriteStep(w)
        PROVE  Settle(w) /\ AtW(w, "commit") /\ CommitScript(w)
    BY <2>2 DEF WriteStep, AdmitRequest, Admit, BeginRequest, BeginScript, BeginFails,
       SendMutation, MutationCompletes, MutationUncertain, HandlerSucceeds, HandlerFails,
       Settle, UnclaimScript, ReleaseRequest, Release, AbandonWrite, OnlyWrite, keyspace
  <2>3. ASSUME NEW call \in late, Execute(call)
        PROVE  call[2] \in Tokens /\ Late("commit", call[2]) /\ CommitScript(call[2])
    <3>1. call[1] = "commit" /\ CommitScript(call[2])
      BY <2>3 DEF Execute, Admit, BeginScript, UnclaimScript, Release, PublishScript,
         Publish
    <3>2. QED
      BY <3>1, LateCallers DEF IInv, Late
  <2>4. ASSUME NEW r \in Readers, ReadStep(r)
        PROVE  FALSE
    BY <2>4 DEF ReadStep, LoadCatalog, ReadPart, Answer, PublishAnswer, AbandonRead,
       PublishScript, Publish, OnlyRead, keyspace
  <2>5. ~Server /\ ~Operator
    BY OperatorEffect DEF IInv, Server, Expire, Garble, RewriteAof, RestartValkey,
       DamageControl
  <2>6. ASSUME NEW op \in pending, Apply(op) \/ Lose(op)
        PROVE  FALSE
    BY <2>6 DEF Apply, Lose, keyspace
  <2>7. ~Arrive
    <3>1. ASSUME NEW w \in Tokens, NEW d \in Identities,
                 \/ Maintain(w, d)
                 \/ \E isAdmin \in BOOLEAN, plan \in SUBSET Parts :
                      ArriveWrite(w, d, isAdmin, plan)
          PROVE  FALSE
      BY <3>1 DEF Maintain, Admit, ArriveWrite, OnlyWrite, keyspace
    <3>2. ASSUME NEW r \in Readers, NEW d \in Identities, NEW k \in Keys,
                 LookupMisses(r, d, k) \/ LookupHitsGarbled(r, d, k)
          PROVE  FALSE
      BY <3>2 DEF LookupMisses, LookupHitsGarbled, OnlyRead, keyspace
    <3>3. QED
      BY <3>1, <3>2 DEF Arrive
  <2>8. QED
    BY <2>1, <2>2, <2>3, <2>4, <2>5, <2>6, <2>7 DEF Next
<1>2. QED
  BY <1>1, RuntimeIsSafe, PTL DEF Spec, NoLostAdministration
============================================================================
