------------------------ MODULE IndexLifecycleProofs ------------------------
(***************************************************************************)
(* What holds of the administration of indices for any set of names,       *)
(* requests and operations, in both deployments.                           *)
(***************************************************************************)
EXTENDS IndexLifecycle, TLAPS

(* An accepted operation is still acceptable, on the tables the request    *)
(* works on, when it updates them; those tables are well formed.           *)
TablesAccepted ==
    \A r \in Requests :
        /\ WellFormed(request[r].base)
        /\ request[r].pc = "handler" => Accepted(request[r].base, request[r].op)

(* Only create_index makes collections, so only it cleans up, and none has *)
(* been made before the claim is taken.                                    *)
MakesOnlyIfCreate(op, made, todo) ==
    op.kind # "create" => made = {} /\ \A c \in todo : c.kind # "put"

OnlyCreateMakes ==
    \A r \in Requests :
        /\ MakesOnlyIfCreate(request[r].op, request[r].made, request[r].todo)
        /\ request[r].pc \in {"idle", "begin"} =>
                request[r].made = {} /\ request[r].todo = {}

IInv == TypeOK /\ CatalogWellFormed /\ TablesAccepted /\ OnlyCreateMakes

----------------------------------------------------------------------------
(* The catalog's operators.                                                *)

(* The row of an index says so, whatever its mapping.                      *)
LEMMA MappingsAreNotNone == \A m \in Mappings : m # None
BY NoneAssumption DEF Mappings

(* A name resolves to a listed index or to nothing.                        *)
LEMMA ResolveFindsAnIndex ==
    ASSUME NEW cat \in Catalog, NEW n \in Names
    PROVE  /\ Resolve(cat, n) \in Names \cup {None}
           /\ Resolve(cat, n) # None =>
                /\ Resolve(cat, n) \in Names
                /\ IsIndex(cat, Resolve(cat, n))
BY NoneAssumption DEF Resolve, Catalog, IsIndex

(* The mapping of a listed index is a set of fields.                       *)
LEMMA RowsAreMappings ==
    ASSUME NEW cat \in Catalog, NEW n \in Names, IsIndex(cat, n)
    PROVE  cat.rows[n] \in Mappings
BY DEF Catalog, IsIndex

(* A batch of alias actions leaves every alias with one target or none.    *)
LEMMA AliasesAppliedType ==
    ASSUME NEW cat \in Catalog, NEW actions \in Seq(AliasAction)
    PROVE  /\ AliasesApplied(cat, actions) \in Catalog
           /\ AliasesApplied(cat, actions).rows = cat.rows
           /\ \A a \in Names :
                LET target == AliasesApplied(cat, actions).aliases[a]
                IN  target # None => target \in Final(cat, actions, a)
<1>1. \A a \in Names : Final(cat, actions, a) \subseteq Names
  BY DEF Final, Targets
<1>2. \A a \in Names :
        Final(cat, actions, a) # {} =>
            (CHOOSE i \in Final(cat, actions, a) : TRUE)
                \in Final(cat, actions, a)
  OBVIOUS
<1>3. cat.aliases \in [Names -> Names \cup {None}]
  BY DEF Catalog
<1> DEFINE new == [a \in Names |->
                    IF Final(cat, actions, a) = {} THEN None
                    ELSE CHOOSE i \in Final(cat, actions, a) : TRUE]
<1>4. new \in [Names -> Names \cup {None}]
  BY <1>1, <1>2
<1>5. AliasesApplied(cat, actions) = [cat EXCEPT !.aliases = new]
  BY DEF AliasesApplied
<1>6. /\ AliasesApplied(cat, actions) \in Catalog
      /\ AliasesApplied(cat, actions).rows = cat.rows
      /\ AliasesApplied(cat, actions).aliases = new
  <2> HIDE DEF new
  <2> QED  BY <1>4, <1>5 DEF Catalog
<1>7. \A a \in Names : new[a] # None => new[a] \in Final(cat, actions, a)
  BY <1>2
<1> HIDE DEF new
<1> QED  BY <1>6, <1>7

(* An accepted batch keeps the catalog well formed: a new target is what   *)
(* an add resolved, and no add is accepted for the name of an index.       *)
LEMMA AliasesKeepWellFormed ==
    ASSUME NEW cat \in Catalog, NEW actions \in Seq(AliasAction),
           WellFormed(cat), AliasesAccepted(cat, actions)
    PROVE  WellFormed(AliasesApplied(cat, actions))
<1> DEFINE new == AliasesApplied(cat, actions)
<1>1. new.rows = cat.rows /\ new \in Catalog
  BY AliasesAppliedType
<1>2. ASSUME NEW a \in Names, new.aliases[a] # None
      PROVE  IsIndex(new, new.aliases[a]) /\ ~IsIndex(new, a)
  <2>1. new.aliases[a] \in Final(cat, actions, a)
    BY <1>2, AliasesAppliedType
  <2>2. CASE cat.aliases[a] = new.aliases[a]
    BY <2>2, <1>1, <1>2 DEF WellFormed, IsIndex
  <2>3. CASE \E k \in 1..Len(actions) :
                /\ Concerns(cat, actions, k, a, new.aliases[a])
                /\ actions[k].kind = "add"
    <3>1. PICK k \in 1..Len(actions) :
                /\ Concerns(cat, actions, k, a, new.aliases[a])
                /\ actions[k].kind = "add"
      BY <2>3
    <3>2. actions[k] \in AliasAction
      BY <3>1
    <3>3. actions[k].alias = a /\ actions[k].index \in Names
      BY <3>1, <3>2 DEF Concerns, AliasAction
    <3>4. Resolve(cat, actions[k].index) = new.aliases[a]
      BY <3>1 DEF Concerns
    <3>5. IsIndex(cat, new.aliases[a])
      BY <3>3, <3>4, <1>2, ResolveFindsAnIndex
    <3>6. ~IsIndex(cat, a)
      BY <3>1, <3>3 DEF AliasesAccepted
    <3> QED  BY <3>5, <3>6, <1>1 DEF IsIndex
  <2> QED  BY <2>1, <2>2, <2>3 DEF Final, Targets
<1>3. \A m, n \in Names : IsIndex(new, m) /\ IsIndex(new, n) /\ m # n
        => Reserved(m) \cap Reserved(n) = {}
  BY <1>1 DEF WellFormed, IsIndex
<1> QED  BY <1>2, <1>3 DEF WellFormed

(* Every accepted operation turns a well formed catalog into another.      *)
LEMMA UpdatedKeepsWellFormed ==
    ASSUME NEW cat \in Catalog, NEW op \in Operation,
           WellFormed(cat), Accepted(cat, op)
    PROVE  Updated(cat, op) \in Catalog /\ WellFormed(Updated(cat, op))
<1>0. /\ cat.rows \in [Names -> Mappings \cup {None}]
      /\ cat.aliases \in [Names -> Names \cup {None}]
      /\ cat = [rows |-> cat.rows, aliases |-> cat.aliases]
  BY DEF Catalog
<1>1. CASE op.kind = "create"
  <2>1. op.name \in Names /\ op.fields \in Mappings
    BY <1>1 DEF Operation
  <2>2. NamespaceAvailable(cat, op.name)
    BY <1>1 DEF Accepted
  <2> DEFINE rows == [cat.rows EXCEPT ![op.name] = op.fields]
  <2>3. Updated(cat, op) = [rows |-> rows, aliases |-> cat.aliases]
    BY <1>1, <1>0 DEF Updated
  <2>4. rows \in [Names -> Mappings \cup {None}]
    BY <2>1, <1>0
  <2>5. \A n \in Names : rows[n] # None <=> n = op.name \/ IsIndex(cat, n)
    BY <2>1, <1>0, MappingsAreNotNone DEF IsIndex
  <2> HIDE DEF rows
  <2>6. Updated(cat, op) \in Catalog
    BY <2>3, <2>4, <1>0 DEF Catalog
  <2>7. \A n \in Names :
            IsIndex(Updated(cat, op), n) <=> n = op.name \/ IsIndex(cat, n)
    BY <2>3, <2>5 DEF IsIndex
  <2>8. \A a \in Names : cat.aliases[a] # None =>
            a # op.name /\ cat.aliases[a] \in Names
                /\ IsIndex(cat, cat.aliases[a]) /\ ~IsIndex(cat, a)
    BY <2>2, <1>0 DEF NamespaceAvailable, WellFormed
  <2>9. \A m, n \in Names : (m = op.name \/ IsIndex(cat, m))
                /\ (n = op.name \/ IsIndex(cat, n)) /\ m # n
            => Reserved(m) \cap Reserved(n) = {}
    <3>1. \A n \in Names : IsIndex(cat, n) =>
                Reserved(op.name) \cap Reserved(n) = {}
      BY <2>2 DEF NamespaceAvailable
    <3> QED  BY <3>1 DEF WellFormed
  <2>10. Updated(cat, op).aliases = cat.aliases
    BY <2>3
  <2> QED  BY <2>6, <2>7, <2>8, <2>9, <2>10 DEF WellFormed
<1>2. CASE op.kind = "delete"
  <2>1. op.name \in Names
    BY <1>2 DEF Operation
  <2> DEFINE rows == [cat.rows EXCEPT ![op.name] = None]
             aliases == [a \in Names |-> IF cat.aliases[a] = op.name
                                         THEN None ELSE cat.aliases[a]]
  <2>2. Updated(cat, op) = [rows |-> rows, aliases |-> aliases]
    BY <1>2 DEF Updated
  <2>3. /\ rows \in [Names -> Mappings \cup {None}]
        /\ aliases \in [Names -> Names \cup {None}]
    BY <2>1, <1>0
  <2>4. \A n \in Names : rows[n] # None <=> n # op.name /\ IsIndex(cat, n)
    BY <2>1, <1>0 DEF IsIndex
  <2>5. \A a \in Names : aliases[a] # None =>
            aliases[a] = cat.aliases[a] /\ aliases[a] # op.name
                /\ aliases[a] \in Names
    BY <1>0
  <2> HIDE DEF rows, aliases
  <2>6. Updated(cat, op) \in Catalog
    BY <2>2, <2>3 DEF Catalog
  <2>7. \A n \in Names :
            IsIndex(Updated(cat, op), n) <=> n # op.name /\ IsIndex(cat, n)
    BY <2>2, <2>4 DEF IsIndex
  <2>8. Updated(cat, op).aliases = aliases
    BY <2>2
  <2> QED  BY <2>5, <2>6, <2>7, <2>8 DEF WellFormed
<1>3. CASE op.kind = "mapping"
  <2>1. op.name \in Names /\ op.fields \in Mappings
    BY <1>3 DEF Operation
  <2> DEFINE i == Resolve(cat, op.name)
             rows == [cat.rows EXCEPT ![i] = @ \cup op.fields]
  <2>2. i \in Names /\ IsIndex(cat, i)
    BY <1>3, <2>1, ResolveFindsAnIndex DEF Accepted
  <2>3. Updated(cat, op) = [rows |-> rows, aliases |-> cat.aliases]
    BY <1>3, <1>0 DEF Updated
  <2>4. cat.rows[i] \in Mappings
    BY <2>2, RowsAreMappings
  <2> HIDE DEF i
  <2>5. cat.rows[i] \cup op.fields \in Mappings
    BY <2>1, <2>4 DEF Mappings
  <2>6. rows \in [Names -> Mappings \cup {None}]
    BY <2>2, <2>5, <1>0
  <2>7. \A n \in Names : rows[n] # None <=> IsIndex(cat, n)
    BY <2>2, <2>5, <1>0, MappingsAreNotNone DEF IsIndex
  <2> HIDE DEF rows
  <2>8. Updated(cat, op) \in Catalog
    BY <2>3, <2>6, <1>0 DEF Catalog
  <2>9. /\ \A n \in Names : IsIndex(Updated(cat, op), n) <=> IsIndex(cat, n)
        /\ Updated(cat, op).aliases = cat.aliases
    BY <2>3, <2>7 DEF IsIndex
  <2> QED  BY <2>8, <2>9, <1>0 DEF WellFormed
<1>4. CASE op.kind = "aliases"
  <2>1. op.actions \in Seq(AliasAction)
    BY <1>4 DEF Operation
  <2>2. Updated(cat, op) = AliasesApplied(cat, op.actions)
    BY <1>4 DEF Updated
  <2>3. AliasesAccepted(cat, op.actions)
    BY <1>4 DEF Accepted
  <2> QED  BY <2>1, <2>2, <2>3, AliasesAppliedType, AliasesKeepWellFormed
<1> QED  BY <1>1, <1>2, <1>3, <1>4 DEF Operation

----------------------------------------------------------------------------
(* Types of what the actions compute.                                      *)

(* The calls an operation asks for.                                        *)
LEMMA CallsType ==
    ASSUME NEW cat \in Catalog, NEW op \in Operation, Accepted(cat, op)
    PROVE  /\ Calls(cat, op) \subseteq Call
           /\ op.kind # "create" =>
                \A c \in Calls(cat, op) : c.kind # "put"
<1>1. \A n \in Names : PutCalls(n) \subseteq Call /\ DeleteCalls(n) \subseteq Call
  BY NamesAssumption DEF PutCalls, DeleteCalls, Call
<1>2. \A n \in Names, fields \in Mappings : IndexCalls(n, fields) \subseteq Call
  BY NamesAssumption DEF IndexCalls, Call, Mappings
<1>3. CASE op.kind = "create"
  <2>1. op.name \in Names /\ op.fields \in Mappings
    BY <1>3 DEF Operation
  <2>2. Calls(cat, op) = PutCalls(op.name) \cup IndexCalls(op.name, op.fields)
    BY <1>3 DEF Calls
  <2> QED  BY <2>1, <2>2, <1>1, <1>2, <1>3
<1>4. CASE op.kind = "delete"
  <2>1. op.name \in Names
    BY <1>4 DEF Operation
  <2>2. Calls(cat, op) = DeleteCalls(op.name)
    BY <1>4 DEF Calls
  <2> QED  BY <2>1, <2>2, <1>1 DEF DeleteCalls
<1>5. CASE op.kind = "mapping"
  <2> DEFINE i == Resolve(cat, op.name)
  <2>1. op.name \in Names /\ op.fields \in Mappings
    BY <1>5 DEF Operation
  <2>2. i \in Names
    BY <1>5, <2>1, ResolveFindsAnIndex DEF Accepted
  <2>3. Calls(cat, op) = IndexCalls(i, op.fields \ cat.rows[i])
    BY <1>5 DEF Calls
  <2>4. op.fields \ cat.rows[i] \in Mappings
    BY <2>1 DEF Mappings
  <2> HIDE DEF i
  <2> QED  BY <2>2, <2>3, <2>4, <1>2 DEF IndexCalls
<1>6. CASE op.kind = "aliases"
  BY <1>6 DEF Calls
<1> QED  BY <1>3, <1>4, <1>5, <1>6 DEF Operation

(* What Qdrant holds after a call.                                         *)
LEMMA ExecutedType ==
    ASSUME collections \in CollectionState, NEW c \in Call, CanExecute(c)
    PROVE  Executed(c) \in CollectionState
<1>1. c.collection \in Collections
  BY DEF Call
<1>2. CASE c.kind = "put"
  <2>1. Executed(c) = [collections EXCEPT ![c.collection] = {}]
    BY <1>2 DEF Executed
  <2>2. {} \in Indexed
    BY DEF Indexed
  <2> QED  BY <1>1, <2>1, <2>2 DEF CollectionState
<1>3. CASE c.kind = "delete"
  <2>1. Executed(c) = [collections EXCEPT ![c.collection] = None]
    BY <1>3 DEF Executed
  <2> QED  BY <1>1, <2>1 DEF CollectionState
<1>4. CASE c.kind = "index"
  <2>1. collections[c.collection] # None
    BY <1>4 DEF CanExecute
  <2>2. collections[c.collection] \in Indexed
    BY <2>1, <1>1 DEF CollectionState
  <2>3. Executed(c) =
            [collections EXCEPT ![c.collection] = @ \cup {c.field}]
    BY <1>4 DEF Executed
  <2>4. c.field \in Fields \cup {FastFields}
    BY <1>4 DEF Call
  <2>5. collections[c.collection] \cup {c.field} \in Indexed
    BY <2>2, <2>4 DEF Indexed
  <2> QED  BY <1>1, <2>3, <2>5 DEF CollectionState
<1> QED  BY <1>2, <1>3, <1>4 DEF Call

(* A request that has ended is one.                                        *)
LEMMA EndedType ==
    ASSUME TypeOK, NEW r \in Requests
    PROVE  /\ Ended(r) \in RequestState
           /\ Ended(r).pc = "done"
           /\ Ended(r).base = request[r].base
           /\ Ended(r).made = {} /\ Ended(r).todo = {}
BY DEF Ended, TypeOK, RequestState, CollectionState

(* The calls of a clean-up delete what the request has made.               *)
LEMMA CleanupCallsType ==
    ASSUME IInv, NEW r \in Requests, request[r].made # {}
    PROVE  CleanupCalls(r) \subseteq Call
<1>1. request[r].op.kind = "create"
  BY DEF IInv, OnlyCreateMakes, MakesOnlyIfCreate
<1>2. request[r].op \in Operation
  BY NamesAssumption DEF IInv, TypeOK, RequestState
<1>3. request[r].op.name \in Names
  BY <1>1, <1>2 DEF Operation
<1>4. DeleteCalls(request[r].op.name) \subseteq Call
  BY <1>3, NamesAssumption DEF DeleteCalls, Call
<1> QED  BY <1>4 DEF CleanupCalls

(* A request that met an error keeps its tables, its operation and what it *)
(* has made.                                                               *)
LEMMA AfterErrorType ==
    ASSUME IInv, NEW r \in Requests, NEW c, At(r, "handler") \/ At(r, "cleanup")
    PROVE  /\ AfterError(r, c) \in RequestState
           /\ AfterError(r, c).base = request[r].base
           /\ AfterError(r, c).op = request[r].op
           /\ AfterError(r, c).made = request[r].made
           /\ AfterError(r, c).pc \in {"cleanup", "failing"}
           /\ request[r].made = {} =>
                AfterError(r, c).todo \subseteq request[r].todo
<1>1. request[r] \in RequestState
  BY DEF IInv, TypeOK
<1>2. CASE At(r, "cleanup")
  <2>1. AfterError(r, c) = [request[r] EXCEPT !.todo = request[r].todo \ {c}]
    BY <1>2 DEF AfterError
  <2>2. request[r].todo \ {c} \in SUBSET Call
    BY <1>1 DEF RequestState
  <2>3. request[r].pc = "cleanup"
    BY <1>2 DEF At
  <2> QED  BY <2>1, <2>2, <2>3, <1>1 DEF RequestState
<1>3. CASE ~At(r, "cleanup") /\ request[r].made = {}
  <2>1. AfterError(r, c) = [request[r] EXCEPT !.started = TRUE,
                                !.pc = "failing", !.todo = {}]
    BY <1>3 DEF AfterError
  <2> QED  BY <2>1, <1>1 DEF RequestState
<1>4. CASE ~At(r, "cleanup") /\ request[r].made # {}
  <2>1. AfterError(r, c) = [request[r] EXCEPT !.started = TRUE,
                                !.pc = "cleanup", !.todo = CleanupCalls(r)]
    BY <1>4 DEF AfterError
  <2>2. CleanupCalls(r) \in SUBSET Call
    BY <1>4, CleanupCallsType
  <2> QED  BY <2>1, <2>2, <1>1, <1>4 DEF RequestState
<1> QED  BY <1>2, <1>3, <1>4

----------------------------------------------------------------------------
(* The invariant.                                                          *)

(* Nothing is there before the first request.                              *)
LEMMA InitEstablishes == Init => IInv
<1> SUFFICES ASSUME Init PROVE IInv
  OBVIOUS
<1>1. EmptyCatalog \in Catalog /\ WellFormed(EmptyCatalog)
  BY DEF EmptyCatalog, Catalog, WellFormed, IsIndex
<1>2. (CHOOSE op \in Operations : TRUE) \in Operations
  BY NamesAssumption
<1>3. [c \in Collections |-> None] \in CollectionState
  BY DEF CollectionState
<1>4. TypeOK
  BY <1>1, <1>2, <1>3, NamesAssumption DEF Init, TypeOK, RequestState
<1> QED  BY <1>1, <1>4 DEF Init, IInv, CatalogWellFormed, TablesAccepted,
                           OnlyCreateMakes, MakesOnlyIfCreate

(* A step that replaces the record of one request by one that is as good.  *)
LEMMA OneRequestStep ==
    ASSUME IInv, NEW r \in Requests, NEW q \in RequestState,
           request' = [request EXCEPT ![r] = q],
           catalog' = catalog,
           claim' \in Requests \cup {None},
           collections' \in CollectionState,
           pending' \subseteq Requests \X Call,
           late' \subseteq {"begin", "commit", "unclaim"} \X Requests,
           lost' \in 0..MaxLost,
           WellFormed(q.base),
           q.pc = "handler" => Accepted(q.base, q.op),
           MakesOnlyIfCreate(q.op, q.made, q.todo),
           q.pc \in {"idle", "begin"} => q.made = {} /\ q.todo = {}
    PROVE  IInv'
<1>1. TypeOK'
  BY DEF IInv, TypeOK
<1>2. \A s \in Requests : request'[s] = IF s = r THEN q ELSE request[s]
  BY DEF IInv, TypeOK
<1>3. TablesAccepted'
  BY <1>2 DEF IInv, TablesAccepted
<1>4. OnlyCreateMakes'
  BY <1>2 DEF IInv, OnlyCreateMakes
<1>5. CatalogWellFormed'
  BY DEF IInv, CatalogWellFormed
<1> QED  BY <1>1, <1>3, <1>4, <1>5 DEF IInv

(* A request that ends, while at most the claim, the unanswered calls and  *)
(* the count of them change.                                               *)
LEMMA EndStep ==
    ASSUME IInv, NEW r \in Requests,
           request' = [request EXCEPT ![r] = Ended(r)],
           catalog' = catalog,
           claim' \in Requests \cup {None},
           UNCHANGED <<collections, pending>>,
           late' \subseteq {"begin", "commit", "unclaim"} \X Requests,
           lost' \in 0..MaxLost
    PROVE  IInv'
<1>1. /\ Ended(r) \in RequestState
      /\ Ended(r).pc = "done"
      /\ Ended(r).base = request[r].base
      /\ Ended(r).made = {} /\ Ended(r).todo = {}
  BY EndedType DEF IInv
<1>2. WellFormed(Ended(r).base)
  BY <1>1 DEF IInv, TablesAccepted
<1>3. MakesOnlyIfCreate(Ended(r).op, Ended(r).made, Ended(r).todo)
  BY <1>1 DEF MakesOnlyIfCreate
<1> QED  BY <1>1, <1>2, <1>3, OneRequestStep DEF IInv, TypeOK

(* A request that ends with its tables published.                          *)
LEMMA EndWithCatalog ==
    ASSUME IInv, NEW r \in Requests,
           request' = [request EXCEPT ![r] = Ended(r)],
           catalog' \in Catalog, WellFormed(catalog'),
           claim' = None,
           UNCHANGED <<collections, pending, late, lost>>
    PROVE  IInv'
<1>1. /\ Ended(r) \in RequestState
      /\ Ended(r).pc = "done"
      /\ Ended(r).base = request[r].base
      /\ Ended(r).made = {} /\ Ended(r).todo = {}
  BY EndedType DEF IInv
<1>2. \A s \in Requests : request'[s] = IF s = r THEN Ended(r) ELSE request[s]
  BY DEF IInv, TypeOK
<1>3. TypeOK'
  BY <1>1 DEF IInv, TypeOK
<1>4. TablesAccepted'
  BY <1>1, <1>2 DEF IInv, TablesAccepted
<1>5. OnlyCreateMakes'
  BY <1>1, <1>2 DEF IInv, OnlyCreateMakes, MakesOnlyIfCreate
<1> QED  BY <1>3, <1>4, <1>5 DEF IInv, CatalogWellFormed

(* What the operator leaves in Qdrant.                                     *)
LEMMA ReconciledType ==
    ASSUME TypeOK, Reconcile
    PROVE  collections' \in CollectionState
<1> DEFINE Indices(c) == {i \in Names : IsIndex(catalog, i) /\ SearchOf[i] = c}
           Wanted(c) == {FastFields} \cup UNION {catalog.rows[n] : n \in Indices(c)}
<1>1. \A c : Wanted(c) \in Indexed
  BY RowsAreMappings DEF TypeOK, Indexed, Mappings
<1>2. {} \in Indexed
  BY DEF Indexed
<1>3. collections' = [c \in Collections |->
            IF c \notin Owned(catalog) THEN None
            ELSE IF \E n \in Names : IsIndex(catalog, n) /\ SearchOf[n] = c
                 THEN Wanted(c) ELSE {}]
  BY DEF Reconcile
<1> HIDE DEF Wanted
<1> QED  BY <1>1, <1>2, <1>3 DEF CollectionState

(* A step that leaves the requests alone keeps what is said of them.       *)
LEMMA NoRequestStep ==
    ASSUME IInv, request' = request, TypeOK', WellFormed(catalog')
    PROVE  IInv'
BY DEF IInv, TablesAccepted, OnlyCreateMakes, CatalogWellFormed

(* Every step keeps the invariant.                                         *)
LEMMA NextKeeps == IInv /\ [Next]_vars => IInv'
<1> SUFFICES ASSUME IInv, [Next]_vars PROVE IInv'
  OBVIOUS
<1>0. /\ TypeOK
      /\ \A r \in Requests : request[r] \in RequestState
      /\ \A r \in Requests : WellFormed(request[r].base)
      /\ WellFormed(catalog)
  BY DEF IInv, TypeOK, TablesAccepted, CatalogWellFormed
<1>00. \A r \in Requests :
        MakesOnlyIfCreate(request[r].op, request[r].made, request[r].todo)
  BY DEF IInv, OnlyCreateMakes
<1>1. ASSUME NEW r \in Requests, NEW op \in Operations, Arrive(r, op)
      PROVE  IInv'
  <2> DEFINE q == [request[r] EXCEPT !.pc = "begin", !.op = op]
  <2>1. request[r].made = {} /\ request[r].todo = {}
    BY <1>1 DEF IInv, OnlyCreateMakes, Arrive, At
  <2>2. q \in RequestState /\ q.base = request[r].base /\ q.pc = "begin"
            /\ q.made = {} /\ q.todo = {}
    BY <1>0, <2>1 DEF RequestState
  <2>3. request' = [request EXCEPT ![r] = q]
    BY <1>1 DEF Arrive
  <2> HIDE DEF q
  <2>4. MakesOnlyIfCreate(q.op, q.made, q.todo)
    BY <2>2 DEF MakesOnlyIfCreate
  <2> QED  BY <2>2, <2>3, <2>4, <1>0, <1>1, OneRequestStep
           DEF Arrive, TypeOK
<1>2. ASSUME NEW r \in Requests, Begin(r) PROVE IInv'
  <2> DEFINE op == request[r].op
             plan == IF Accepted(catalog, op) THEN Calls(catalog, op) ELSE {}
             next == IF Accepted(catalog, op) THEN "handler" ELSE "failing"
             q == [request[r] EXCEPT !.pc = next, !.base = catalog,
                                     !.todo = plan, !.before = collections]
  <2>1. op \in Operation /\ catalog \in Catalog
    BY <1>0, NamesAssumption DEF TypeOK, RequestState
  <2>2. request[r].made = {}
    BY <1>2 DEF IInv, OnlyCreateMakes, Begin, At
  <2>3. /\ plan \subseteq Call
        /\ op.kind # "create" => \A c \in plan : c.kind # "put"
    BY <2>1, CallsType
  <2>4. next \in {"handler", "failing"}
            /\ (next = "handler" => Accepted(catalog, op))
    OBVIOUS
  <2>5. request' = [request EXCEPT ![r] = q]
    BY <1>2 DEF Begin
  <2> HIDE DEF plan, next
  <2>6. /\ q \in RequestState
        /\ q.base = catalog /\ q.op = op /\ q.pc = next
        /\ q.made = {} /\ q.todo = plan
    BY <1>0, <2>1, <2>2, <2>3, <2>4 DEF RequestState, TypeOK
  <2>7. /\ claim' \in Requests \cup {None}
        /\ UNCHANGED <<catalog, collections, pending, late, lost>>
    BY <1>2 DEF Begin
  <2>8. /\ collections' \in CollectionState /\ pending' \subseteq Requests \X Call
        /\ late' \subseteq {"begin", "commit", "unclaim"} \X Requests
        /\ lost' \in 0..MaxLost
    BY <2>7, <1>0 DEF TypeOK
  <2> HIDE DEF q, op
  <2>9. /\ WellFormed(q.base)
        /\ q.pc = "handler" => Accepted(q.base, q.op)
        /\ MakesOnlyIfCreate(q.op, q.made, q.todo)
        /\ q.pc \notin {"idle", "begin"}
    BY <2>3, <2>4, <2>6, <1>0 DEF MakesOnlyIfCreate
  <2> QED
    <3>1. catalog' = catalog
      BY <2>7
    <3> QED  BY <3>1, <2>5, <2>6, <2>7, <2>8, <2>9, OneRequestStep
<1>3. ASSUME NEW r \in Requests, BeginRejected(r) PROVE IInv'
  BY <1>0, <1>3, EndStep DEF BeginRejected, TypeOK
<1>4. ASSUME NEW r \in Requests, Invalid(r) PROVE IInv'
  <2> DEFINE q == [request[r] EXCEPT !.pc = "failing", !.todo = {}]
  <2>1. /\ q \in RequestState /\ q.base = request[r].base
        /\ q.pc = "failing" /\ q.op = request[r].op
        /\ q.made = request[r].made /\ q.todo = {}
    BY <1>0 DEF RequestState
  <2>2. request' = [request EXCEPT ![r] = q]
    BY <1>4 DEF Invalid
  <2>3. MakesOnlyIfCreate(q.op, q.made, q.todo)
    BY <2>1 DEF IInv, OnlyCreateMakes, MakesOnlyIfCreate
  <2> HIDE DEF q
  <2> QED  BY <2>1, <2>2, <2>3, <1>0, <1>4, OneRequestStep
           DEF Invalid, TypeOK
<1>5. ASSUME NEW r \in Requests, NEW c \in request[r].todo,
             CallCompletes(r, c)
      PROVE  IInv'
  <2> DEFINE made == IF c.kind = "put"
                     THEN request[r].made \cup {c.collection}
                     ELSE request[r].made
             q == [request[r] EXCEPT !.todo = request[r].todo \ {c},
                                     !.made = made, !.started = TRUE]
  <2>1. c \in Call /\ c.collection \in Collections
    BY <1>0 DEF RequestState, Call
  <2>2. made \in SUBSET Collections
    BY <1>0, <2>1 DEF RequestState
  <2>3. request[r].pc \notin {"idle", "begin"}
    BY <1>5 DEF CallCompletes, NextCall, At
  <2>4. MakesOnlyIfCreate(request[r].op, made, request[r].todo \ {c})
    <3>1. MakesOnlyIfCreate(request[r].op, request[r].made, request[r].todo)
      BY <1>00
    <3>2. CASE c.kind = "put"
      BY <3>1, <3>2 DEF MakesOnlyIfCreate
    <3>3. CASE c.kind # "put"
      BY <3>1, <3>3 DEF MakesOnlyIfCreate
    <3> QED  BY <3>2, <3>3
  <2>5. request' = [request EXCEPT ![r] = q]
    BY <1>5 DEF CallCompletes
  <2> HIDE DEF made
  <2>6. /\ q \in RequestState
        /\ q.base = request[r].base /\ q.op = request[r].op
        /\ q.pc = request[r].pc
        /\ q.made = made /\ q.todo = request[r].todo \ {c}
    BY <1>0, <2>2 DEF RequestState
  <2>7. collections' \in CollectionState
    BY <1>0, <1>5, <2>1, ExecutedType DEF CallCompletes, TypeOK
  <2> HIDE DEF q
  <2>8. /\ WellFormed(q.base)
        /\ q.pc = "handler" => Accepted(q.base, q.op)
        /\ MakesOnlyIfCreate(q.op, q.made, q.todo)
        /\ q.pc \notin {"idle", "begin"}
    BY <2>3, <2>4, <2>6, <1>0 DEF IInv, TablesAccepted
  <2>9. UNCHANGED <<catalog, claim, pending, late, lost>>
    BY <1>5 DEF CallCompletes
  <2> QED  BY <2>5, <2>6, <2>7, <2>8, <2>9, <1>0, OneRequestStep DEF TypeOK
<1>6. ASSUME NEW r \in Requests, NEW c \in request[r].todo,
             CallRefused(r, c) \/ CallUnanswered(r, c)
      PROVE  IInv'
  <2>1. PICK tidy \in BOOLEAN : request' =
            [request EXCEPT ![r] = [AfterError(r, c) EXCEPT !.tidy = tidy]]
    BY <1>6, <1>0 DEF CallRefused, CallUnanswered, At, RequestState
  <2> DEFINE q == [AfterError(r, c) EXCEPT !.tidy = tidy]
  <2>2. At(r, "handler") \/ At(r, "cleanup")
    BY <1>6 DEF CallRefused, CallUnanswered, NextCall
  <2>3. /\ AfterError(r, c) \in RequestState
        /\ AfterError(r, c).base = request[r].base
        /\ AfterError(r, c).op = request[r].op
        /\ AfterError(r, c).made = request[r].made
        /\ AfterError(r, c).pc \in {"cleanup", "failing"}
        /\ request[r].made = {} =>
                AfterError(r, c).todo \subseteq request[r].todo
    BY <2>2, AfterErrorType
  <2>4. /\ q \in RequestState
        /\ q.base = request[r].base /\ q.op = request[r].op
        /\ q.made = request[r].made
        /\ q.pc \in {"cleanup", "failing"}
        /\ q.todo = AfterError(r, c).todo
    BY <2>3 DEF RequestState
  <2> HIDE DEF q
  <2>5. /\ WellFormed(q.base)
        /\ q.pc \notin {"idle", "begin", "handler"}
        /\ MakesOnlyIfCreate(q.op, q.made, q.todo)
    BY <2>3, <2>4, <1>0, <1>00 DEF MakesOnlyIfCreate
  <2>6. c \in Call
    BY <1>0 DEF RequestState
  <2>7. UNCHANGED <<catalog, claim, collections, late>>
    BY <1>6 DEF CallRefused, CallUnanswered
  <2>8. pending' \subseteq Requests \X Call /\ lost' \in 0..MaxLost
    BY <1>6, <1>0, <2>6, NamesAssumption
    DEF CallRefused, CallUnanswered, TypeOK
  <2>9. request' = [request EXCEPT ![r] = q]
    BY <2>1 DEF q
  <2> QED  BY <2>4, <2>5, <2>7, <2>8, <2>9, <1>0, OneRequestStep DEF TypeOK
<1>7. ASSUME NEW r \in Requests, CleanupEnds(r) PROVE IInv'
  <2> DEFINE q == [request[r] EXCEPT !.pc = "failing"]
  <2>1. /\ q \in RequestState /\ q.base = request[r].base
        /\ q.pc = "failing" /\ q.op = request[r].op
        /\ q.made = request[r].made /\ q.todo = request[r].todo
    BY <1>0 DEF RequestState
  <2>2. request' = [request EXCEPT ![r] = q]
    BY <1>7 DEF CleanupEnds
  <2> HIDE DEF q
  <2>3. MakesOnlyIfCreate(q.op, q.made, q.todo)
    BY <2>1, <1>00
  <2> QED  BY <2>1, <2>2, <2>3, <1>0, <1>7, OneRequestStep
           DEF CleanupEnds, TypeOK
<1>8. ASSUME NEW r \in Requests, HandlerSucceeds(r) PROVE IInv'
  <2> DEFINE updated == Updated(request[r].base, request[r].op)
  <2>1. /\ request[r].op \in Operation /\ request[r].base \in Catalog
        /\ Accepted(request[r].base, request[r].op)
    BY <1>0, <1>8, NamesAssumption
    DEF IInv, TablesAccepted, HandlerSucceeds, At, RequestState
  <2>2. updated \in Catalog /\ WellFormed(updated)
    BY <2>1, <1>0, UpdatedKeepsWellFormed
  <2>3. CASE Shared
    <3> DEFINE q == [request[r] EXCEPT !.pc = "commit", !.base = updated]
    <3>1. request' = [request EXCEPT ![r] = q]
      BY <1>8, <2>3 DEF HandlerSucceeds
    <3>2. UNCHANGED <<catalog, claim, collections, pending, late, lost>>
      BY <1>8, <2>3 DEF HandlerSucceeds
    <3> HIDE DEF updated
    <3>3. /\ q \in RequestState /\ q.base = updated
          /\ q.pc = "commit" /\ q.op = request[r].op
          /\ q.made = request[r].made /\ q.todo = request[r].todo
      BY <1>0, <2>2 DEF RequestState
    <3>4. MakesOnlyIfCreate(q.op, q.made, q.todo)
      <4> HIDE DEF q
      <4> QED  BY <3>3, <1>00
    <3> HIDE DEF q
    <3> QED  BY <3>1, <3>2, <3>3, <3>4, <2>2, <1>0, OneRequestStep
             DEF TypeOK
  <2>4. CASE ~Shared
    <3>1. /\ request' = [request EXCEPT ![r] = Ended(r)]
          /\ catalog' = updated /\ claim' = None
          /\ UNCHANGED <<collections, pending, late, lost>>
      BY <1>8, <2>4 DEF HandlerSucceeds
    <3> HIDE DEF updated
    <3> QED  BY <3>1, <2>2, <1>0, EndWithCatalog DEF TypeOK
  <2> QED  BY <2>3, <2>4
<1>9. ASSUME NEW r \in Requests, HandlerFails(r) PROVE IInv'
  <2>1. CASE Shared /\ ~request[r].started
    <3> DEFINE q == [request[r] EXCEPT !.pc = "unclaim"]
    <3>1. request' = [request EXCEPT ![r] = q]
      BY <1>9, <2>1 DEF HandlerFails, AfterFailure
    <3>2. /\ q \in RequestState /\ q.base = request[r].base
          /\ q.pc = "unclaim" /\ q.op = request[r].op
          /\ q.made = request[r].made /\ q.todo = request[r].todo
      BY <1>0 DEF RequestState
    <3>3. MakesOnlyIfCreate(q.op, q.made, q.todo)
      <4> HIDE DEF q
      <4> QED  BY <3>2, <1>00
    <3>4. UNCHANGED <<catalog, claim, collections, pending, late, lost>>
      BY <1>9, <2>1 DEF HandlerFails
    <3> HIDE DEF q
    <3> QED  BY <3>1, <3>2, <3>3, <3>4, <1>0, OneRequestStep DEF TypeOK
  <2>2. CASE ~Shared \/ request[r].started
    BY <1>0, <1>9, <2>2, EndStep DEF HandlerFails, AfterFailure, TypeOK
  <2> QED  BY <2>1, <2>2
<1>10. ASSUME NEW r \in Requests, Commit(r) PROVE IInv'
  <2>1. request[r].base \in Catalog /\ WellFormed(request[r].base)
    BY <1>0 DEF RequestState
  <2> QED  BY <2>1, <1>0, <1>10, EndWithCatalog
           DEF Commit, CommitScript, TypeOK
<1>11. ASSUME NEW r \in Requests, Unclaim(r) PROVE IInv'
  BY <1>0, <1>11, EndStep DEF Unclaim, UnclaimScript, TypeOK
<1>12. ASSUME NEW r \in Requests, ScriptUnanswered(r) PROVE IInv'
  <2>1. lost' \in 0..MaxLost
    BY <1>0, <1>12, NamesAssumption DEF ScriptUnanswered, TypeOK
  <2>2. late' \subseteq {"begin", "commit", "unclaim"} \X Requests
    BY <1>0, <1>12 DEF ScriptUnanswered, TypeOK
  <2> QED  BY <2>1, <2>2, <1>0, <1>12, EndStep DEF ScriptUnanswered, TypeOK
<1>13. ASSUME NEW r \in Requests, Abandon(r) PROVE IInv'
  BY <1>0, <1>13, EndStep DEF Abandon, TypeOK
<1>14. ASSUME NEW p \in pending, ExecutePending(p[1], p[2]) PROVE IInv'
  <2>1. p[2] \in Call
    BY <1>0 DEF TypeOK
  <2>2. collections' \in CollectionState
    BY <2>1, <1>0, <1>14, ExecutedType DEF ExecutePending, TypeOK
  <2>3. pending' \subseteq Requests \X Call
    BY <1>0, <1>14 DEF ExecutePending, TypeOK
  <2>4. UNCHANGED <<catalog, claim, request, late, lost>>
    BY <1>14 DEF ExecutePending
  <2> QED  BY <2>2, <2>3, <2>4, <1>0, NoRequestStep DEF TypeOK
<1>15. ASSUME NEW p \in pending, LosePending(p[1], p[2]) PROVE IInv'
  <2>1. pending' \subseteq Requests \X Call
    BY <1>0, <1>15 DEF LosePending, TypeOK
  <2>2. UNCHANGED <<catalog, claim, collections, request, late, lost>>
    BY <1>15 DEF LosePending
  <2> QED  BY <2>1, <2>2, <1>0, NoRequestStep DEF TypeOK
<1>16. ASSUME NEW l \in late, ExecuteLate(l[2], l[1]) PROVE IInv'
  <2>1. l[2] \in Requests /\ l[1] \in {"begin", "commit", "unclaim"}
    BY <1>0 DEF TypeOK
  <2>2. /\ late' \subseteq {"begin", "commit", "unclaim"} \X Requests
        /\ UNCHANGED <<collections, request, pending, lost>>
    BY <1>0, <1>16 DEF ExecuteLate, TypeOK
  <2>3. /\ catalog' = catalog \/ catalog' = request[l[2]].base
        /\ claim' \in Requests \cup {None}
    BY <2>1, <1>16 DEF ExecuteLate, CommitScript, UnclaimScript
  <2>4. catalog' \in Catalog /\ WellFormed(catalog')
    BY <2>1, <2>3, <1>0 DEF TypeOK, RequestState
  <2> QED  BY <2>2, <2>3, <2>4, <1>0, NoRequestStep DEF TypeOK
<1>17. ASSUME Reconcile PROVE IInv'
  <2>1. collections' \in CollectionState
    BY <1>0, <1>17, ReconciledType DEF Reconcile, TypeOK
  <2>2. claim' = None /\ UNCHANGED <<catalog, request, pending, late, lost>>
    BY <1>17 DEF Reconcile
  <2> QED  BY <2>1, <2>2, <1>0, NoRequestStep DEF TypeOK
<1>18. CASE UNCHANGED vars
  <2>1. TypeOK'
    BY <1>0, <1>18 DEF TypeOK, vars
  <2> QED  BY <2>1, <1>0, <1>18, NoRequestStep DEF vars
<1> QED  BY <1>1, <1>2, <1>3, <1>4, <1>5, <1>6, <1>7, <1>8, <1>9, <1>10,
            <1>11, <1>12, <1>13, <1>14, <1>15, <1>16, <1>17, <1>18
         DEF Next

(* IInv holds in every behaviour.                                          *)
THEOREM InvariantHolds == Spec => []IInv
<1>1. Init => IInv
  BY InitEstablishes
<1>2. IInv /\ [Next]_vars => IInv'
  BY NextKeeps
<1> QED  BY <1>1, <1>2, PTL DEF Spec

(* Every variable keeps its type, in both deployments.                     *)
THEOREM TypesHold == Spec => []TypeOK
<1>1. IInv => TypeOK
  BY DEF IInv
<1> QED  BY <1>1, InvariantHolds, PTL

(* No interleaving of administrations, lost answers, late scripts and dead *)
(* replicas leaves a dangling alias, an alias that hides an index, or two  *)
(* indices in one collection.                                              *)
THEOREM CatalogIsWellFormed == Spec => []CatalogWellFormed
<1>1. IInv => CatalogWellFormed
  BY DEF IInv
<1> QED  BY <1>1, InvariantHolds, PTL

----------------------------------------------------------------------------
(* With a shared catalog the claim stands for every disagreement.  Only    *)
(* the request that holds it calls Qdrant or commits, so catalog and       *)
(* Qdrant agree whenever nobody holds it; while a handler runs, Qdrant is  *)
(* what the tables say except for the calls made so far.                   *)

Holding == {"handler", "cleanup", "failing", "commit", "unclaim"}
Scripts == {"begin", "commit", "unclaim"}
Late(script, r) == <<script, r>> \in late

\* An index has its collections, with its payload indexes (cols is Qdrant).
Present(cols, cat, n) ==
    /\ cols[SearchOf[n]] # None
    /\ cat.rows[n] \subseteq cols[SearchOf[n]]
    /\ Projection => cols[DocumentsOf[n]] # None

AgreesIn(cols, cat) ==
    /\ \A n \in Names : IsIndex(cat, n) => Present(cols, cat, n)
    /\ \A x \in Collections : cols[x] # None => x \in Owned(cat)

\* A call has been executed, and nothing has undone it.
Effective(cols, c) ==
    /\ c.kind = "delete" <=> cols[c.collection] = None
    /\ c.kind = "index" => c.field \in cols[c.collection]

\* What a handler has done so far.
Underway(cols, cat, op, todo) ==
    /\ todo \subseteq Calls(cat, op)
    /\ \A c \in Calls(cat, op) \ todo : Effective(cols, c)
    /\ \A n \in Names :
        IsIndex(cat, n) /\ ~(op.kind = "delete" /\ op.name = n)
            => Present(cols, cat, n)
    /\ \A x \in Collections :
        cols[x] # None =>
            x \in Owned(cat) \/ (op.kind = "create" /\ x \in Own(op.name))

\* A collection that a creation has not made is as it found it; what it has
\* made was not there.
OnlyMade(cols, q) ==
    /\ q.made \subseteq Own(q.op.name)
    /\ ~q.started => q.made = {}
    /\ \A c \in Calls(q.base, q.op) \ q.todo :
            c.kind = "put" => c.collection \in q.made
    /\ \A x \in Collections : cols[x] = q.before[x] \/ x \in q.made
    /\ \A x \in q.made : q.before[x] = None

\* The clean-up takes back what was made.
OnlyToDelete(cols, q) ==
    /\ \A c \in q.todo : c.kind = "delete" /\ q.before[c.collection] = None
    /\ q.tidy => \A x \in Collections :
            cols[x] = q.before[x] \/ \E c \in q.todo : c.collection = x

\* Calls of a clean-up, or unanswered, that may still be executed.
MayCall(r, c) ==
    (At(r, "cleanup") /\ c \in request[r].todo) \/ <<r, c>> \in pending

\* Who holds the claim, and who may still end it.
ClaimHeld(r) ==
    /\ request[r].pc \in Holding => claim = r
    /\ \A s \in Scripts : Late(s, r) =>
            /\ At(r, "done")
            /\ \A other \in Scripts : Late(other, r) => other = s
    /\ At(r, "cleanup") => request[r].started /\ request[r].op.kind = "create"
    /\ \A c \in Call : <<r, c>> \in pending =>
            /\ claim = r
            /\ \/ At(r, "done")
               \/ /\ request[r].pc \in {"cleanup", "failing"}
                  /\ request[r].started /\ ~request[r].tidy
            /\ \A s \in Scripts : ~Late(s, r)

\* A request that has called nothing finds the catalog true of Qdrant.
CalledNothing(r) ==
    \/ At(r, "unclaim") \/ Late("unclaim", r)
    \/ request[r].pc \in {"handler", "failing"} /\ ~request[r].started

SeesAgreement(r) == CalledNothing(r) => AgreesIn(collections, catalog)

\* The tables to publish are true of Qdrant.
PublishesAgreement(r) ==
    At(r, "commit") \/ Late("commit", r) => AgreesIn(collections, request[r].base)

\* Whoever may still call has been accepted on the published catalog ...
WorksOnCatalog(r) ==
    At(r, "handler") \/ At(r, "cleanup") \/ (\E c \in Call : MayCall(r, c))
        => /\ request[r].base = catalog
           /\ Accepted(request[r].base, request[r].op)

\* ... and calls only what it was accepted for.
CallsItsOwn(r) ==
    \A c \in Call : MayCall(r, c) =>
        \/ c \in Calls(request[r].base, request[r].op)
        \/ /\ request[r].op.kind = "create"
           /\ c \in DeleteCalls(request[r].op.name)

IsUnderway(r) ==
    At(r, "handler") =>
        Underway(collections, request[r].base, request[r].op, request[r].todo)

\* A creation can take back what it has done.
IsUndoable(r) ==
    request[r].op.kind = "create" =>
        /\ At(r, "handler") => OnlyMade(collections, request[r])
        /\ At(r, "cleanup") => OnlyToDelete(collections, request[r])
        /\ At(r, "failing") /\ request[r].tidy =>
                collections = request[r].before

\* What the holder of the claim may rely on.
HolderKnows(r) ==
    /\ SeesAgreement(r) /\ PublishesAgreement(r)
    /\ WorksOnCatalog(r) /\ CallsItsOwn(r)
    /\ IsUnderway(r) /\ IsUndoable(r)

ClaimInv ==
    /\ \A r \in Requests : ClaimHeld(r) /\ (claim = r => HolderKnows(r))
    /\ claim = None => AgreesIn(collections, catalog)

----------------------------------------------------------------------------
(* What calls do to the collections.                                       *)

\* Qdrant after a call.
After(cols, c) ==
    [cols EXCEPT ![c.collection] =
        CASE c.kind = "put"    -> {}
          [] c.kind = "index"  -> @ \cup {c.field}
          [] c.kind = "delete" -> None]

\* Qdrant does not refuse it.
Executable(cols, c) ==
    /\ c.kind = "put"   => cols[c.collection] = None
    /\ c.kind = "index" => cols[c.collection] # None

(* The collections an index owns are reserved for it.                      *)
LEMMA OwnIsReserved ==
    ASSUME NEW n \in Names
    PROVE  /\ Own(n) \subseteq Reserved(n)
           /\ SearchOf[n] \in Own(n)
           /\ Projection => DocumentsOf[n] \in Own(n)
           /\ Own(n) \subseteq Collections
BY NamesAssumption DEF Own, Reserved

(* A collection is owned by a listed index.                                *)
LEMMA OwnedBy ==
    ASSUME NEW cat, NEW x
    PROVE  x \in Owned(cat) <=> \E n \in Names : IsIndex(cat, n) /\ x \in Own(n)
BY DEF Owned

(* The calls of each operation: a creation makes and indexes its own       *)
(* collections, a deletion deletes its own, a mapping indexes the search   *)
(* collection of the index it resolves to.                                 *)
LEMMA CallsOfOperation ==
    ASSUME NEW cat \in Catalog, NEW op \in Operation, Accepted(cat, op),
           NEW c \in Calls(cat, op)
    PROVE  /\ c \in Call
           /\ \/ /\ op.kind = "create" /\ op.name \in Names
                 /\ c.kind \in {"put", "index"} /\ c.collection \in Own(op.name)
                 /\ c.kind = "index" => c.collection = SearchOf[op.name]
              \/ /\ op.kind = "delete" /\ op.name \in Names
                 /\ c.kind = "delete" /\ c.collection \in Own(op.name)
              \/ /\ op.kind = "mapping" /\ op.name \in Names
                 /\ Resolve(cat, op.name) \in Names
                 /\ IsIndex(cat, Resolve(cat, op.name))
                 /\ c.kind = "index"
                 /\ c.collection = SearchOf[Resolve(cat, op.name)]
<1>1. c \in Call
  BY CallsType
<1>2. CASE op.kind = "create"
  BY <1>1, <1>2 DEF Operation, Calls, PutCalls, IndexCalls, Own
<1>3. CASE op.kind = "delete"
  BY <1>1, <1>3 DEF Operation, Calls, DeleteCalls, Own
<1>4. CASE op.kind = "mapping"
  <2> DEFINE i == Resolve(cat, op.name)
  <2>1. op.name \in Names
    BY <1>4 DEF Operation
  <2>2. i # None
    BY <1>4 DEF Accepted
  <2>3. i \in Names /\ IsIndex(cat, i)
    BY <2>1, <2>2, ResolveFindsAnIndex
  <2>4. c \in IndexCalls(i, op.fields \ cat.rows[i])
    BY <1>4 DEF Calls
  <2> HIDE DEF i
  <2>5. c.kind = "index" /\ c.collection = SearchOf[i]
    BY <2>4 DEF IndexCalls
  <2> QED  BY <1>1, <1>4, <2>1, <2>3, <2>5 DEF i
<1>5. CASE op.kind = "aliases"
  BY <1>5 DEF Calls
<1> QED  BY <1>2, <1>3, <1>4, <1>5 DEF Operation

(* A call that makes or indexes takes nothing away.                        *)
LEMMA CollectionsGrow ==
    ASSUME NEW cols \in CollectionState, NEW c \in Call,
           Executable(cols, c), c.kind # "delete"
    PROVE  /\ After(cols, c)[c.collection] # None
           /\ c.kind = "index" => c.field \in After(cols, c)[c.collection]
           /\ \A x \in Collections :
                /\ x # c.collection => After(cols, c)[x] = cols[x]
                /\ cols[x] # None => /\ After(cols, c)[x] # None
                                     /\ cols[x] \subseteq After(cols, c)[x]
<1>1. c.collection \in Collections
  BY DEF Call
<1>2. CASE c.kind = "put"
  <2>1. After(cols, c) = [cols EXCEPT ![c.collection] = {}]
    BY <1>2 DEF After
  <2>2. {} # None
    BY NoneAssumption
  <2> QED  BY <1>1, <1>2, <2>1, <2>2 DEF CollectionState, Executable
<1>3. CASE c.kind = "index"
  <2>1. After(cols, c) = [cols EXCEPT ![c.collection] = @ \cup {c.field}]
    BY <1>3 DEF After
  <2>2. cols[c.collection] \in Indexed
    BY <1>1, <1>3 DEF CollectionState, Executable
  <2>3. c.field \in Fields \cup {FastFields}
    BY <1>3 DEF Call
  <2>4. cols[c.collection] \cup {c.field} # None
    BY <2>2, <2>3, NoneAssumption DEF Indexed
  <2> QED  BY <1>1, <2>1, <2>4 DEF CollectionState
<1> QED  BY <1>2, <1>3 DEF Call

(* A deletion takes its collection away and nothing else.                  *)
LEMMA CollectionVanishes ==
    ASSUME NEW cols \in CollectionState, NEW c \in Call, c.kind = "delete"
    PROVE  \A x \in Collections :
                After(cols, c)[x] = IF x = c.collection THEN None ELSE cols[x]
<1>1. After(cols, c) = [cols EXCEPT ![c.collection] = None]
  BY DEF After
<1> QED  BY <1>1 DEF CollectionState

(* While collections only grow, an index stays present and a call          *)
(* that makes or indexes stays effective.                                  *)
LEMMA PresentStays ==
    ASSUME NEW cols, NEW new, NEW cat, NEW n \in Names, Present(cols, cat, n),
           \A x \in Collections : cols[x] # None =>
                new[x] # None /\ cols[x] \subseteq new[x]
    PROVE  Present(new, cat, n)
BY NamesAssumption DEF Present

(* Owned collections of other indices are out of reach of an operation on  *)
(* the collections reserved for one.                                       *)
LEMMA ReservedApart ==
    ASSUME NEW cat, NEW m \in Names, NEW n \in Names, IsIndex(cat, n),
           Reserved(m) \cap Reserved(n) = {}
    PROVE  Own(m) \cap Own(n) = {}
BY OwnIsReserved

(* A call of a handler takes it one step further.                          *)
LEMMA CallMakesProgress ==
    ASSUME NEW cols \in CollectionState, NEW cat \in Catalog,
           NEW op \in Operation, NEW todo,
           WellFormed(cat), Accepted(cat, op),
           Underway(cols, cat, op, todo),
           NEW c \in todo, Executable(cols, c)
    PROVE  Underway(After(cols, c), cat, op, todo \ {c})
<1> DEFINE new == After(cols, c)
<1>1. c \in Calls(cat, op) /\ c \in Call /\ c.collection \in Collections
  BY CallsOfOperation DEF Underway, Call
<1>2. todo \ {c} \subseteq Calls(cat, op)
  BY DEF Underway
<1>3. CASE c.kind # "delete"
  <2>1. /\ new[c.collection] # None
        /\ c.kind = "index" => c.field \in new[c.collection]
        /\ \A x \in Collections :
             /\ x # c.collection => new[x] = cols[x]
             /\ cols[x] # None => new[x] # None /\ cols[x] \subseteq new[x]
    BY <1>1, <1>3, CollectionsGrow
  <2> HIDE DEF new
  <2>2. ASSUME NEW d \in Calls(cat, op) \ (todo \ {c})
        PROVE  Effective(new, d)
    <3>1. d.collection \in Collections /\ d.kind # "delete"
      BY <1>1, <1>3, CallsOfOperation DEF Call
    <3>2. CASE d = c
      BY <3>1, <3>2, <2>1 DEF Effective
    <3>3. CASE d # c
      <4>1. Effective(cols, d)
        BY <3>3 DEF Underway
      <4> QED  BY <4>1, <3>1, <2>1 DEF Effective
    <3> QED  BY <3>2, <3>3
  <2>3. ASSUME NEW n \in Names, IsIndex(cat, n),
               ~(op.kind = "delete" /\ op.name = n)
        PROVE  Present(new, cat, n)
    BY <2>1, <2>3, PresentStays DEF Underway
  <2>4. ASSUME NEW x \in Collections, new[x] # None
        PROVE  x \in Owned(cat) \/ (op.kind = "create" /\ x \in Own(op.name))
    <3>1. CASE cols[x] # None
      BY <3>1 DEF Underway
    <3>2. CASE x = c.collection
      <4>1. CASE op.kind = "create"
        BY <3>2, <4>1, <1>1, CallsOfOperation
      <4>2. CASE op.kind # "create"
        BY <3>2, <4>2, <1>1, <1>3, CallsOfOperation, OwnIsReserved, OwnedBy
      <4> QED  BY <4>1, <4>2
    <3> QED  BY <3>1, <3>2, <2>1, <2>4
  <2> QED  BY <1>2, <2>2, <2>3, <2>4 DEF Underway, new
<1>4. CASE c.kind = "delete"
  <2>1. \A x \in Collections :
            new[x] = IF x = c.collection THEN None ELSE cols[x]
    BY <1>1, <1>4, CollectionVanishes
  <2>2. /\ op.kind = "delete" /\ op.name \in Names
        /\ c.collection \in Own(op.name)
        /\ \A d \in Calls(cat, op) : d.kind = "delete" /\ d \in Call
    BY <1>1, <1>4, CallsOfOperation
  <2>3. IsIndex(cat, op.name)
    BY <2>2, ResolveFindsAnIndex, NoneAssumption DEF Accepted
  <2> HIDE DEF new
  <2>4. ASSUME NEW d \in Calls(cat, op) \ (todo \ {c})
        PROVE  Effective(new, d)
    <3>1. d.collection \in Collections /\ d.kind = "delete"
      BY <2>2 DEF Call
    <3>2. d = c \/ Effective(cols, d)
      BY DEF Underway
    <3> QED  BY <3>1, <3>2, <2>1 DEF Effective
  <2>5. ASSUME NEW n \in Names, IsIndex(cat, n),
               ~(op.kind = "delete" /\ op.name = n)
        PROVE  Present(new, cat, n)
    <3>1. Reserved(op.name) \cap Reserved(n) = {}
      BY <2>2, <2>3, <2>5 DEF WellFormed
    <3>2. Own(op.name) \cap Own(n) = {}
      BY <3>1, <2>2, <2>5, ReservedApart
    <3>3. /\ SearchOf[n] # c.collection /\ SearchOf[n] \in Collections
          /\ Projection => /\ DocumentsOf[n] # c.collection
                           /\ DocumentsOf[n] \in Collections
      BY <3>2, <2>2, OwnIsReserved
    <3>4. Present(cols, cat, n)
      BY <2>5 DEF Underway
    <3> QED  BY <3>3, <3>4, <2>1 DEF Present
  <2>6. \A x \in Collections : new[x] # None => cols[x] # None
    BY <2>1
  <2> QED  BY <1>2, <2>4, <2>5, <2>6 DEF Underway, new
<1> QED  BY <1>3, <1>4

(* Calls that are effective say what they say of the collections.          *)
LEMMA EffectiveCalls ==
    ASSUME NEW cols, NEW n
    PROVE  /\ (\A c \in PutCalls(n) : Effective(cols, c)) =>
                /\ cols[SearchOf[n]] # None
                /\ Projection => cols[DocumentsOf[n]] # None
           /\ (\A c \in DeleteCalls(n) : Effective(cols, c)) =>
                \A x \in Own(n) : cols[x] = None
           /\ \A fields :
                (\A c \in IndexCalls(n, fields) : Effective(cols, c)) =>
                    \A f \in fields : f \in cols[SearchOf[n]]
<1> DEFINE Made(i, kind, x) ==
                [stage |-> i, kind |-> kind, collection |-> x, field |-> None]
           Indexes(f) == [stage |-> 3, kind |-> "index",
                          collection |-> SearchOf[n], field |-> f]
<1>1. /\ \A i, kind, x : /\ Made(i, kind, x).kind = kind
                        /\ Made(i, kind, x).collection = x
      /\ \A f : /\ Indexes(f).kind = "index" /\ Indexes(f).field = f
                /\ Indexes(f).collection = SearchOf[n]
  OBVIOUS
<1>2. /\ Made(1, "put", SearchOf[n]) \in PutCalls(n)
      /\ Projection => Made(2, "put", DocumentsOf[n]) \in PutCalls(n)
  BY DEF PutCalls
<1>3. /\ Made(1, "delete", SearchOf[n]) \in DeleteCalls(n)
      /\ Projection => Made(2, "delete", DocumentsOf[n]) \in DeleteCalls(n)
  BY DEF DeleteCalls
<1>4. \A fields : \A f \in fields : Indexes(f) \in IndexCalls(n, fields)
  BY DEF IndexCalls
<1> HIDE DEF Made, Indexes
<1>5. ASSUME \A c \in PutCalls(n) : Effective(cols, c)
      PROVE  /\ cols[SearchOf[n]] # None
             /\ Projection => cols[DocumentsOf[n]] # None
  BY <1>1, <1>2, <1>5 DEF Effective
<1>6. ASSUME \A c \in DeleteCalls(n) : Effective(cols, c)
      PROVE  \A x \in Own(n) : cols[x] = None
  <2>1. cols[SearchOf[n]] = None
    BY <1>1, <1>3, <1>6 DEF Effective
  <2>2. Projection => cols[DocumentsOf[n]] = None
    BY <1>1, <1>3, <1>6 DEF Effective
  <2> QED  BY <2>1, <2>2 DEF Own
<1>7. ASSUME NEW fields, \A c \in IndexCalls(n, fields) : Effective(cols, c)
      PROVE  \A f \in fields : f \in cols[SearchOf[n]]
  BY <1>1, <1>4, <1>7 DEF Effective
<1> QED  BY <1>5, <1>6, <1>7

(* A handler that has made all its calls leaves Qdrant as the tables it    *)
(* is about to publish say.                                                *)
LEMMA DoneAgrees ==
    ASSUME NEW cols \in CollectionState, NEW cat \in Catalog,
           NEW op \in Operation,
           WellFormed(cat), Accepted(cat, op),
           Underway(cols, cat, op, {})
    PROVE  AgreesIn(cols, Updated(cat, op))
<1> DEFINE new == Updated(cat, op)
<1>1. \A c \in Calls(cat, op) : Effective(cols, c)
  BY DEF Underway
<1>2. cat.rows \in [Names -> Mappings \cup {None}]
  BY DEF Catalog
<1>3. CASE op.kind = "create"
  <2>1. op.name \in Names /\ op.fields \in Mappings
    BY <1>3 DEF Operation
  <2>2. new = [cat EXCEPT !.rows[op.name] = op.fields]
    BY <1>3 DEF Updated
  <2>3. \A n \in Names : new.rows[n] = IF n = op.name THEN op.fields
                                       ELSE cat.rows[n]
    BY <2>1, <2>2, <1>2 DEF Catalog
  <2> HIDE DEF new
  <2>4. \A n \in Names : IsIndex(new, n) <=> n = op.name \/ IsIndex(cat, n)
    BY <2>1, <2>3, MappingsAreNotNone DEF IsIndex
  <2>5. Present(cols, new, op.name)
    <3>1. Calls(cat, op) = PutCalls(op.name) \cup IndexCalls(op.name, op.fields)
      BY <1>3 DEF Calls
    <3>2. /\ cols[SearchOf[op.name]] # None
          /\ Projection => cols[DocumentsOf[op.name]] # None
      BY <3>1, <1>1, EffectiveCalls
    <3>3. \A f \in op.fields : f \in cols[SearchOf[op.name]]
      BY <3>1, <1>1, EffectiveCalls
    <3> QED  BY <3>2, <3>3, <2>1, <2>3 DEF Present
  <2>6. ASSUME NEW n \in Names, IsIndex(cat, n), n # op.name
        PROVE  Present(cols, new, n)
    BY <2>6, <2>3, <1>3 DEF Underway, Present
  <2>7. \A x \in Collections :
            cols[x] # None => x \in Owned(cat) \/ x \in Own(op.name)
    BY DEF Underway
  <2>8. \A x \in Collections : cols[x] # None => x \in Owned(new)
    BY <2>1, <2>4, <2>7, OwnedBy
  <2> QED  BY <2>4, <2>5, <2>6, <2>8 DEF AgreesIn, new
<1>4. CASE op.kind = "delete"
  <2>1. op.name \in Names
    BY <1>4 DEF Operation
  <2>2. new.rows = [cat.rows EXCEPT ![op.name] = None]
    BY <1>4 DEF Updated
  <2>3. \A n \in Names : new.rows[n] = IF n = op.name THEN None
                                       ELSE cat.rows[n]
    BY <2>1, <2>2, <1>2
  <2> HIDE DEF new
  <2>4. \A n \in Names : IsIndex(new, n) <=> n # op.name /\ IsIndex(cat, n)
    BY <2>1, <2>3 DEF IsIndex
  <2>5. ASSUME NEW n \in Names, IsIndex(new, n)
        PROVE  Present(cols, new, n)
    BY <2>3, <2>4, <2>5 DEF Underway, Present
  <2>6. \A x \in Own(op.name) : cols[x] = None
    <3>1. Calls(cat, op) = DeleteCalls(op.name)
      BY <1>4 DEF Calls
    <3>2. \A c \in DeleteCalls(op.name) : Effective(cols, c)
      BY <3>1, <1>1
    <3> QED  BY <3>2, EffectiveCalls
  <2>7. \A x \in Collections : cols[x] # None => x \in Owned(cat)
    BY <1>4 DEF Underway
  <2>8. \A x \in Collections : cols[x] # None => x \in Owned(new)
    BY <2>1, <2>4, <2>6, <2>7, OwnedBy
  <2> QED  BY <2>5, <2>8 DEF AgreesIn, new
<1>5. CASE op.kind = "mapping"
  <2> DEFINE i == Resolve(cat, op.name)
             rows == cat.rows[i] \cup op.fields
  <2>1. op.name \in Names /\ op.fields \in Mappings
    BY <1>5 DEF Operation
  <2>2. i \in Names /\ IsIndex(cat, i)
    BY <1>5, <2>1, ResolveFindsAnIndex DEF Accepted
  <2>3. cat.rows[i] \in Mappings
    BY <2>2, RowsAreMappings
  <2>4. new = [cat EXCEPT !.rows[i] = rows]
    BY <1>5 DEF Updated
  <2>5. Calls(cat, op) = IndexCalls(i, op.fields \ cat.rows[i])
    BY <1>5 DEF Calls
  <2> HIDE DEF i
  <2>6. rows \in Mappings
    BY <2>1, <2>3 DEF Mappings
  <2>7. \A n \in Names : new.rows[n] = IF n = i THEN rows ELSE cat.rows[n]
    BY <2>2, <2>4, <1>2 DEF Catalog
  <2> HIDE DEF new
  <2>8. \A n \in Names : IsIndex(new, n) <=> IsIndex(cat, n)
    BY <2>2, <2>6, <2>7, MappingsAreNotNone DEF IsIndex
  <2>9. Present(cols, cat, i)
    BY <2>2, <1>5 DEF Underway
  <2>10. \A f \in op.fields \ cat.rows[i] : f \in cols[SearchOf[i]]
    <3> DEFINE fields == op.fields \ cat.rows[i]
    <3>1. \A c \in IndexCalls(i, fields) : Effective(cols, c)
      BY <2>5, <1>1
    <3> HIDE DEF fields
    <3>2. \A f \in fields : f \in cols[SearchOf[i]]
      BY <3>1, EffectiveCalls
    <3> QED  BY <3>2 DEF fields
  <2>11. Present(cols, new, i)
    BY <2>2, <2>7, <2>9, <2>10 DEF Present
  <2>12. ASSUME NEW n \in Names, IsIndex(cat, n), n # i
         PROVE  Present(cols, new, n)
    BY <2>12, <2>7, <1>5 DEF Underway, Present
  <2>13. \A x \in Collections : cols[x] # None => x \in Owned(new)
    BY <2>8, <1>5, OwnedBy DEF Underway
  <2> QED  BY <2>8, <2>11, <2>12, <2>13 DEF AgreesIn, new
<1>6. CASE op.kind = "aliases"
  <2>1. op.actions \in Seq(AliasAction)
    BY <1>6 DEF Operation
  <2>2. new.rows = cat.rows
    BY <1>6, <2>1, AliasesAppliedType DEF Updated
  <2> HIDE DEF new
  <2>3. \A n \in Names : IsIndex(new, n) <=> IsIndex(cat, n)
    BY <2>2 DEF IsIndex
  <2>4. \A n \in Names : IsIndex(cat, n) => Present(cols, new, n)
    BY <2>2, <1>6 DEF Underway, Present
  <2>5. \A x \in Collections : cols[x] # None => x \in Owned(new)
    BY <2>3, <1>6, OwnedBy DEF Underway
  <2> QED  BY <2>3, <2>4, <2>5 DEF AgreesIn, new
<1> QED  BY <1>3, <1>4, <1>5, <1>6 DEF Operation

(* A handler that has made none finds Qdrant as the tables it read say.    *)
LEMMA BeginsUnderway ==
    ASSUME NEW cols, NEW cat, NEW op, AgreesIn(cols, cat)
    PROVE  Underway(cols, cat, op, Calls(cat, op))
BY DEF AgreesIn, Underway

(* The operator's repair makes Qdrant what the catalog says.               *)
LEMMA RepairAgrees ==
    ASSUME TypeOK, Reconcile
    PROVE  AgreesIn(collections', catalog)
<1> DEFINE Wanted(x) == {FastFields} \cup
                UNION {catalog.rows[n] : n \in
                       {i \in Names : IsIndex(catalog, i) /\ SearchOf[i] = x}}
           new == collections'
<1>1. \A x \in Collections : new[x] =
            IF x \notin Owned(catalog) THEN None
            ELSE IF \E n \in Names : IsIndex(catalog, n) /\ SearchOf[n] = x
                 THEN Wanted(x) ELSE {}
  BY DEF Reconcile
<1>2. \A x : Wanted(x) \in SUBSET (Fields \cup {FastFields})
  BY RowsAreMappings DEF TypeOK, Mappings
<1>3. \A n \in Names : IsIndex(catalog, n) =>
            catalog.rows[n] \subseteq Wanted(SearchOf[n])
  OBVIOUS
<1>4. {} \in SUBSET (Fields \cup {FastFields})
  OBVIOUS
<1> HIDE DEF Wanted, new
<1>5. ASSUME NEW n \in Names, IsIndex(catalog, n)
      PROVE  Present(new, catalog, n)
  <2>1. /\ SearchOf[n] \in Collections /\ SearchOf[n] \in Owned(catalog)
        /\ Projection => /\ DocumentsOf[n] \in Collections
                         /\ DocumentsOf[n] \in Owned(catalog)
    BY <1>5, OwnIsReserved, OwnedBy
  <2>2. new[SearchOf[n]] = Wanted(SearchOf[n])
    BY <1>1, <1>5, <2>1
  <2>3. \A x \in Collections : x \in Owned(catalog) => new[x] # None
    BY <1>1, <1>2, <1>4, NoneAssumption
  <2> QED  BY <2>1, <2>2, <2>3, <1>3, <1>5 DEF Present
<1>6. \A x \in Collections : new[x] # None => x \in Owned(catalog)
  BY <1>1
<1> QED  BY <1>5, <1>6 DEF AgreesIn, new

(* A creation makes only what was not there, its payload indexes only on   *)
(* what it has made (the stages of its calls see to that).                 *)
LEMMA CallKeepsMade ==
    ASSUME NEW cols \in CollectionState, NEW q \in RequestState, NEW p,
           q.op.kind = "create", Accepted(q.base, q.op),
           Underway(cols, q.base, q.op, q.todo), OnlyMade(cols, q),
           NEW c \in q.todo, Executable(cols, c),
           \A other \in q.todo : c.stage <= other.stage,
           p.op = q.op, p.base = q.base, p.before = q.before,
           p.started = TRUE, p.todo = q.todo \ {c},
           p.made = IF c.kind = "put" THEN q.made \cup {c.collection}
                    ELSE q.made
    PROVE  OnlyMade(After(cols, c), p)
<1> DEFINE new == After(cols, c)
<1>1. q.base \in Catalog /\ q.op \in Operation /\ q.made \subseteq Collections
  BY NamesAssumption DEF RequestState
<1>2. c \in Calls(q.base, q.op)
  BY DEF Underway
<1>3. /\ c \in Call /\ c.collection \in Collections
      /\ q.op.name \in Names /\ c.kind \in {"put", "index"}
      /\ c.collection \in Own(q.op.name)
      /\ c.kind = "index" => c.collection = SearchOf[q.op.name]
  BY <1>1, <1>2, CallsOfOperation DEF Call
<1>4. \A x \in Collections : x # c.collection => new[x] = cols[x]
  BY <1>3, CollectionsGrow
<1>5. c.kind = "index" => c.collection \in q.made
  <2> SUFFICES ASSUME c.kind = "index" PROVE c.collection \in q.made
    OBVIOUS
  <2> DEFINE d == [stage |-> 1, kind |-> "put",
                   collection |-> SearchOf[q.op.name], field |-> None]
  <2>1. d \in Calls(q.base, q.op)
    BY DEF Calls, PutCalls
  <2>2. c.stage \in 3..4
    BY <1>3 DEF Call
  <2>3. d \notin q.todo
    BY <2>2
  <2> QED  BY <2>1, <2>3, <1>3 DEF OnlyMade
<1>6. c.kind = "put" => cols[c.collection] = None
  BY DEF Executable
<1> HIDE DEF new
<1>7. p.made \subseteq Own(p.op.name)
  BY <1>3 DEF OnlyMade
<1>8. \A d \in Calls(p.base, p.op) \ p.todo :
            d.kind = "put" => d.collection \in p.made
  BY DEF OnlyMade
<1>9. \A x \in Collections : new[x] = p.before[x] \/ x \in p.made
  BY <1>3, <1>4, <1>5 DEF OnlyMade
<1>10. \A x \in p.made : p.before[x] = None
  BY <1>3, <1>6 DEF OnlyMade
<1> QED  BY <1>7, <1>8, <1>9, <1>10 DEF OnlyMade, new

(* The clean-up of a creation deletes all it has made.                     *)
LEMMA CleanupUndoes ==
    ASSUME NEW cols, NEW q, NEW p, OnlyMade(cols, q),
           p.todo = {c \in DeleteCalls(q.op.name) : c.collection \in q.made},
           p.before = q.before
    PROVE  OnlyToDelete(cols, p)
<1> DEFINE Delete(i, x) == [stage |-> i, kind |-> "delete",
                            collection |-> x, field |-> None]
<1>1. \A i, x : Delete(i, x).collection = x
  OBVIOUS
<1>2. /\ Delete(1, SearchOf[q.op.name]) \in DeleteCalls(q.op.name)
      /\ Projection =>
            Delete(2, DocumentsOf[q.op.name]) \in DeleteCalls(q.op.name)
  BY DEF DeleteCalls
<1> HIDE DEF Delete
<1>3. \A x \in q.made : \E c \in DeleteCalls(q.op.name) : c.collection = x
  BY <1>1, <1>2 DEF OnlyMade, Own
<1>4. \A c \in DeleteCalls(q.op.name) : c.kind = "delete"
  BY DEF DeleteCalls
<1> QED  BY <1>3, <1>4 DEF OnlyMade, OnlyToDelete

(* A deletion of the clean-up leaves the others to be made.                *)
LEMMA CleanupProceeds ==
    ASSUME NEW cols \in CollectionState, NEW q, NEW p, OnlyToDelete(cols, q),
           NEW c \in q.todo, c \in Call,
           p.todo = q.todo \ {c}, p.before = q.before, p.tidy = q.tidy
    PROVE  OnlyToDelete(After(cols, c), p)
<1>1. c.kind = "delete" /\ q.before[c.collection] = None
  BY DEF OnlyToDelete
<1>2. \A x \in Collections :
        After(cols, c)[x] = IF x = c.collection THEN None ELSE cols[x]
  BY <1>1, CollectionVanishes
<1> QED  BY <1>1, <1>2 DEF OnlyToDelete

----------------------------------------------------------------------------
(* The claim is kept.                                                      *)

(* A step of one request says nothing of the others: they do not hold the  *)
(* claim, or Qdrant and the catalog stay as they are.                      *)
LEMMA BystandersStand ==
    ASSUME ClaimInv, NEW r \in Requests,
           \A q \in Requests \ {r} :
                /\ request'[q] = request[q]
                /\ \A s \in Scripts : <<s, q>> \in late' => <<s, q>> \in late
                /\ \A c \in Call : <<q, c>> \in pending' => <<q, c>> \in pending
                /\ claim' = q <=> claim = q
                /\ claim = q => catalog' = catalog /\ collections' = collections,
           ClaimHeld(r)',
           claim' = r => HolderKnows(r)',
           claim' = None => AgreesIn(collections', catalog')
    PROVE  ClaimInv'
<1>1. ASSUME NEW q \in Requests \ {r}
      PROVE  ClaimHeld(q)'
  BY DEF ClaimInv, ClaimHeld, At, Late
<1>2. ASSUME NEW q \in Requests \ {r}, claim' = q
      PROVE  HolderKnows(q)'
  <2>1. /\ request'[q] = request[q]
        /\ \A s \in Scripts : <<s, q>> \in late' => <<s, q>> \in late
        /\ \A c \in Call : <<q, c>> \in pending' => <<q, c>> \in pending
        /\ catalog' = catalog /\ collections' = collections
    BY <1>2
  <2>2. HolderKnows(q)
    BY <1>2 DEF ClaimInv
  <2>3. "unclaim" \in Scripts /\ "commit" \in Scripts
    BY DEF Scripts
  <2>4. \A c \in Call : MayCall(q, c)' => MayCall(q, c)
    BY <2>1 DEF MayCall, At
  <2>5. SeesAgreement(q)' /\ PublishesAgreement(q)'
    <3>1. AgreesIn(collections, catalog)' <=> AgreesIn(collections, catalog)
      BY <2>1
    <3>2. AgreesIn(collections, request[q].base)'
            <=> AgreesIn(collections, request[q].base)
      BY <2>1
    <3>3. SeesAgreement(q) /\ PublishesAgreement(q)
      BY <2>2 DEF HolderKnows
    <3>4. SeesAgreement(q)'
      BY <2>1, <2>3, <3>1, <3>3 DEF SeesAgreement, CalledNothing, At, Late
    <3>5. PublishesAgreement(q)'
      BY <2>1, <2>3, <3>2, <3>3 DEF PublishesAgreement, At, Late
    <3> QED  BY <3>4, <3>5
  <2>6. WorksOnCatalog(q)' /\ CallsItsOwn(q)'
    <3>1. WorksOnCatalog(q) /\ CallsItsOwn(q)
      BY <2>2 DEF HolderKnows
    <3>2. CallsItsOwn(q)'
      BY <2>1, <2>4, <3>1 DEF CallsItsOwn
    <3>3. (\E c \in Call : MayCall(q, c)') => \E c \in Call : MayCall(q, c)
      BY <2>4
    <3>4. WorksOnCatalog(q)'
      BY <2>1, <3>1, <3>3 DEF WorksOnCatalog, At
    <3> QED  BY <3>2, <3>4
  <2>7. IsUnderway(q)' /\ IsUndoable(q)'
    BY <2>1, <2>2 DEF HolderKnows, IsUnderway, IsUndoable, At
  <2> QED  BY <2>5, <2>6, <2>7 DEF HolderKnows
<1> QED  BY <1>1, <1>2 DEF ClaimInv

(* Only a request that has ended has an unanswered call to Redis, and none *)
(* that runs without an error has one to Qdrant.                           *)
LEMMA NothingLate ==
    ASSUME ClaimInv, NEW r \in Requests, request[r].pc # "done"
    PROVE  /\ \A s \in Scripts : <<s, r>> \notin late
           /\ request[r].pc \notin {"cleanup", "failing"} =>
                \A c \in Call : <<r, c>> \notin pending
BY DEF ClaimInv, ClaimHeld, At, Late

(* A request that ends leaves the claim to what it has left unanswered.    *)
LEMMA EndedKeepsClaim ==
    ASSUME TypeOK, ClaimInv, NEW r \in Requests, request[r].pc # "done",
           request' = [request EXCEPT ![r] = Ended(r)],
           UNCHANGED <<catalog, claim, collections, pending>>,
           \/ late' = late
           \/ /\ request[r].pc \in Scripts
              /\ late' = late \cup {<<request[r].pc, r>>}
    PROVE  ClaimInv'
<1>1. \A q \in Requests :
        request'[q] = IF q = r THEN Ended(r) ELSE request[q]
  BY DEF TypeOK
<1>2. /\ Ended(r).pc = "done" /\ Ended(r).base = request[r].base
      /\ Ended(r).op = request[r].op
  BY DEF Ended, TypeOK, RequestState
<1>3. /\ request'[r].pc = "done" /\ request'[r].base = request[r].base
      /\ request'[r].op = request[r].op
  BY <1>1, <1>2
<1>4. /\ \A s \in Scripts : <<s, r>> \notin late
      /\ request[r].pc \notin {"cleanup", "failing"} =>
            \A c \in Call : <<r, c>> \notin pending
  BY NothingLate
<1>5. \A s \in Scripts : <<s, r>> \in late' => s = request[r].pc
  BY <1>4
<1>6. /\ request[r].pc \in Scripts =>
            request[r].pc \notin {"cleanup", "failing"}
      /\ "done" \notin Holding
  BY DEF Scripts, Holding
<1>7. ClaimHeld(r)
  BY DEF ClaimInv
<1>8. ClaimHeld(r)'
  <2>1. \A s \in Scripts : <<s, r>> \in late' => request[r].pc = s
    BY <1>5
  <2>2. \A c \in Call : <<r, c>> \in pending =>
            claim = r /\ \A s \in Scripts : <<s, r>> \notin late'
    BY <1>4, <1>5, <1>6, <1>7 DEF ClaimHeld
  <2> QED  BY <2>1, <2>2, <1>3, <1>6 DEF ClaimHeld, At, Late
<1>9. ASSUME claim = r PROVE HolderKnows(r)'
  <2>1. HolderKnows(r)
    BY <1>9 DEF ClaimInv
  <2>2. \A c \in Call : MayCall(r, c)' => MayCall(r, c)
    BY <1>3 DEF MayCall, At
  <2>3. SeesAgreement(r)'
    <3>1. Late("unclaim", r)' => At(r, "unclaim")
      BY <1>5 DEF Scripts, Late, At
    <3> QED  BY <3>1, <2>1, <1>3
             DEF HolderKnows, SeesAgreement, CalledNothing, At
  <2>4. PublishesAgreement(r)'
    <3>1. Late("commit", r)' => At(r, "commit")
      BY <1>5 DEF Scripts, Late, At
    <3> QED  BY <3>1, <2>1, <1>3 DEF HolderKnows, PublishesAgreement, At
  <2>5. CallsItsOwn(r)'
    <3>1. CallsItsOwn(r)
      BY <2>1 DEF HolderKnows
    <3> QED  BY <3>1, <2>2, <1>3 DEF CallsItsOwn
  <2>6. WorksOnCatalog(r)'
    <3>1. (\E c \in Call : MayCall(r, c)') => \E c \in Call : MayCall(r, c)
      BY <2>2
    <3>2. WorksOnCatalog(r)
      BY <2>1 DEF HolderKnows
    <3> QED  BY <3>1, <3>2, <1>3 DEF WorksOnCatalog, At
  <2>7. IsUnderway(r)' /\ IsUndoable(r)'
    BY <1>3 DEF IsUnderway, IsUndoable, At
  <2> QED  BY <2>3, <2>4, <2>5, <2>6, <2>7 DEF HolderKnows
<1>10. claim = None => AgreesIn(collections, catalog)
  BY DEF ClaimInv
<1> QED  BY <1>1, <1>8, <1>9, <1>10, BystandersStand

(* A request that ends with a script gives the claim back, the catalog     *)
(* being true of Qdrant.                                                   *)
LEMMA EndedGivesBack ==
    ASSUME TypeOK, ClaimInv, NEW r \in Requests,
           request[r].pc \in {"commit", "unclaim"},
           claim = r, claim' = None,
           request' = [request EXCEPT ![r] = Ended(r)],
           UNCHANGED <<collections, pending, late>>,
           AgreesIn(collections, catalog')
    PROVE  ClaimInv'
<1>1. \A q \in Requests :
        request'[q] = IF q = r THEN Ended(r) ELSE request[q]
  BY DEF TypeOK
<1>2. request'[r].pc = "done"
  BY <1>1 DEF Ended, TypeOK, RequestState
<1>3. /\ \A s \in Scripts : <<s, r>> \notin late'
      /\ \A c \in Call : <<r, c>> \notin pending'
  BY NothingLate
<1>4. ClaimHeld(r)'
  BY <1>2, <1>3 DEF ClaimHeld, Holding, At, Late
<1>5. None \notin Requests
  BY NoneAssumption
<1> QED  BY <1>1, <1>4, <1>5, BystandersStand

(* A request that runs on under the claim.                                 *)
LEMMA HolderMoves ==
    ASSUME TypeOK, ClaimInv, NEW r \in Requests, NEW q \in RequestState,
           request' = [request EXCEPT ![r] = q],
           claim \in {r, None}, claim' = r,
           UNCHANGED <<catalog, late>>,
           request[r].pc # "done", q.pc \in Holding,
           q.pc = "cleanup" => q.started /\ q.op.kind = "create",
           \A p \in Requests \ {r} : \A c \in Call :
                <<p, c>> \in pending' => <<p, c>> \in pending,
           \A c \in Call : <<r, c>> \in pending' =>
                q.pc \in {"cleanup", "failing"} /\ q.started /\ ~q.tidy,
           q.pc = "unclaim" \/ (q.pc \in {"handler", "failing"} /\ ~q.started)
                => AgreesIn(collections', catalog),
           q.pc = "commit" => AgreesIn(collections', q.base),
           q.pc \in {"handler", "cleanup"}
                \/ (\E c \in Call : <<r, c>> \in pending')
                => q.base = catalog /\ Accepted(q.base, q.op),
           \A c \in Call :
                (q.pc = "cleanup" /\ c \in q.todo) \/ <<r, c>> \in pending'
                => \/ c \in Calls(q.base, q.op)
                   \/ q.op.kind = "create" /\ c \in DeleteCalls(q.op.name),
           q.pc = "handler" => Underway(collections', q.base, q.op, q.todo),
           q.op.kind = "create" =>
                /\ q.pc = "handler" => OnlyMade(collections', q)
                /\ q.pc = "cleanup" => OnlyToDelete(collections', q)
                /\ q.pc = "failing" /\ q.tidy => collections' = q.before
    PROVE  ClaimInv'
<1>1. \A p \in Requests : request'[p] = IF p = r THEN q ELSE request[p]
  BY DEF TypeOK
<1>2. request'[r] = q
  BY <1>1
<1>3. \A s \in Scripts : <<s, r>> \notin late'
  BY NothingLate
<1>4. "unclaim" \in Scripts /\ "commit" \in Scripts
  BY DEF Scripts
<1>5. ClaimHeld(r)'
  <2>1. q.pc = "cleanup" => q.started /\ q.op.kind = "create"
    OBVIOUS
  <2> QED  BY <2>1, <1>2, <1>3 DEF ClaimHeld, At, Late
<1>6. SeesAgreement(r)' /\ PublishesAgreement(r)'
  BY <1>2, <1>3, <1>4
  DEF SeesAgreement, CalledNothing, PublishesAgreement, At, Late
<1>7. \A c \in Call : MayCall(r, c)' =>
            (q.pc = "cleanup" /\ c \in q.todo) \/ <<r, c>> \in pending'
  BY <1>2 DEF MayCall, At
<1>8. CallsItsOwn(r)'
  BY <1>2, <1>7 DEF CallsItsOwn
<1>9. WorksOnCatalog(r)'
  <2>1. (\E c \in Call : MayCall(r, c)') =>
            q.pc = "cleanup" \/ \E c \in Call : <<r, c>> \in pending'
    BY <1>7
  <2> QED  BY <2>1, <1>2 DEF WorksOnCatalog, At
<1>10. IsUnderway(r)'
  BY <1>2 DEF IsUnderway, At
<1>11. IsUndoable(r)'
  BY <1>2 DEF IsUndoable, At
<1>12. HolderKnows(r)'
  BY <1>6, <1>8, <1>9, <1>10, <1>11 DEF HolderKnows
<1>13. None \notin Requests
  BY NoneAssumption
<1>14. \A p \in Requests \ {r} :
        /\ request'[p] = request[p]
        /\ \A s \in Scripts : <<s, p>> \in late' => <<s, p>> \in late
        /\ \A c \in Call : <<p, c>> \in pending' => <<p, c>> \in pending
        /\ claim' = p <=> claim = p
        /\ claim = p => catalog' = catalog /\ collections' = collections
  BY <1>1, <1>13
<1> QED  BY <1>5, <1>12, <1>13, <1>14, BystandersStand

(* A request that has arrived holds nothing yet.                           *)
LEMMA ArriveKeepsClaim ==
    ASSUME IInv, ClaimInv, NEW r \in Requests, NEW op \in Operations,
           Arrive(r, op)
    PROVE  ClaimInv'
<1>1. \A p \in Requests \ {r} : request'[p] = request[p]
  BY DEF Arrive, IInv, TypeOK
<1>2. request'[r].pc = "begin"
  BY DEF Arrive, IInv, TypeOK, RequestState
<1>3. UNCHANGED <<catalog, claim, collections, pending, late>>
  BY DEF Arrive
<1>4. /\ \A s \in Scripts : <<s, r>> \notin late
      /\ \A c \in Call : <<r, c>> \notin pending
  BY NothingLate DEF Arrive, At
<1>5. ClaimHeld(r)'
  BY <1>2, <1>3, <1>4 DEF ClaimHeld, Holding, At, Late
<1>6. \A c \in Call : ~MayCall(r, c)'
  BY <1>2, <1>3, <1>4 DEF MayCall, At
<1>7. HolderKnows(r)'
  <2>1. SeesAgreement(r)' /\ PublishesAgreement(r)'
    BY <1>2, <1>3, <1>4 DEF SeesAgreement, CalledNothing,
       PublishesAgreement, Scripts, At, Late
  <2>2. CallsItsOwn(r)'
    BY <1>6 DEF CallsItsOwn
  <2>3. WorksOnCatalog(r)'
    <3>1. ~\E c \in Call : MayCall(r, c)'
      BY <1>6
    <3> QED  BY <3>1, <1>2 DEF WorksOnCatalog, At
  <2>4. IsUnderway(r)' /\ IsUndoable(r)'
    BY <1>2 DEF IsUnderway, IsUndoable, At
  <2> QED  BY <2>1, <2>2, <2>3, <2>4 DEF HolderKnows
<1>8. claim = None => AgreesIn(collections, catalog)
  BY DEF ClaimInv
<1> QED  BY <1>1, <1>3, <1>5, <1>7, <1>8, BystandersStand

(* The claim is taken when catalog and Qdrant agree.                       *)
LEMMA BeginKeepsClaim ==
    ASSUME IInv, ClaimInv, NEW r \in Requests, Begin(r)
    PROVE  ClaimInv'
<1> DEFINE op == request[r].op
           plan == IF Accepted(catalog, op) THEN Calls(catalog, op) ELSE {}
           next == IF Accepted(catalog, op) THEN "handler" ELSE "failing"
           q == [request[r] EXCEPT !.pc = next, !.base = catalog,
                                   !.todo = plan, !.before = collections]
<1>1. /\ request[r] \in RequestState /\ op \in Operation
      /\ catalog \in Catalog /\ collections \in CollectionState
      /\ request[r].made = {} /\ request[r].pc = "begin" /\ TypeOK
  BY NamesAssumption
  DEF IInv, TypeOK, RequestState, OnlyCreateMakes, Begin, At
<1>2. plan \subseteq Call
  BY <1>1, CallsType
<1>3. /\ next \in {"handler", "failing"}
      /\ next = "handler" => Accepted(catalog, op) /\ plan = Calls(catalog, op)
  OBVIOUS
<1>4. AgreesIn(collections, catalog)
  BY DEF Begin, ClaimInv
<1>5. next = "handler" => Underway(collections, catalog, op, plan)
  BY <1>3, <1>4, BeginsUnderway
<1>6. /\ request' = [request EXCEPT ![r] = q]
      /\ claim = None /\ claim' = r
      /\ UNCHANGED <<catalog, collections, pending, late>>
  BY DEF Begin
<1> HIDE DEF plan, next
<1>7. /\ q \in RequestState /\ q.pc = next /\ q.base = catalog
      /\ q.todo = plan /\ q.before = collections /\ q.made = {}
      /\ q.op = op
  BY <1>1, <1>2, <1>3 DEF RequestState
<1> HIDE DEF q, op
<1>8. next = "handler" => OnlyMade(collections, q)
  BY <1>3, <1>7 DEF OnlyMade
<1>9. \A c \in Call : <<r, c>> \notin pending'
  BY <1>1, <1>6, NothingLate
<1>10. q.pc \in Holding /\ q.pc \notin {"cleanup", "unclaim", "commit"}
  BY <1>3, <1>7 DEF Holding
<1>11. /\ q.pc \in {"handler", "cleanup"}
            \/ (\E c \in Call : <<r, c>> \in pending')
            => q.base = catalog /\ Accepted(q.base, q.op)
       /\ q.pc = "handler" => Underway(collections', q.base, q.op, q.todo)
  BY <1>3, <1>5, <1>6, <1>7, <1>9, <1>10
<1>12. q.op.kind = "create" =>
            /\ q.pc = "handler" => OnlyMade(collections', q)
            /\ q.pc = "cleanup" => OnlyToDelete(collections', q)
            /\ q.pc = "failing" /\ q.tidy => collections' = q.before
  BY <1>6, <1>7, <1>8, <1>10
<1> QED  BY <1>1, <1>4, <1>6, <1>7, <1>9, <1>10, <1>11, <1>12, HolderMoves

(* What a handler and a clean-up know of themselves.                       *)
LEMMA HolderFacts ==
    ASSUME IInv, ClaimInv, NEW r \in Requests, request[r].pc \in Holding
    PROVE  /\ TypeOK /\ request[r] \in RequestState
           /\ collections \in CollectionState
           /\ request[r].base \in Catalog /\ request[r].op \in Operation
           /\ WellFormed(request[r].base) /\ WellFormed(catalog)
           /\ claim = r /\ HolderKnows(r) /\ request[r].pc # "done"
           /\ \A c \in Call : <<r, c>> \in pending =>
                /\ request[r].pc \in {"cleanup", "failing"}
                /\ request[r].started /\ ~request[r].tidy
<1>1. /\ TypeOK /\ request[r] \in RequestState
      /\ collections \in CollectionState
      /\ WellFormed(request[r].base) /\ WellFormed(catalog)
  BY DEF IInv, TypeOK, TablesAccepted, CatalogWellFormed
<1>2. request[r].base \in Catalog /\ request[r].op \in Operation
  BY <1>1, NamesAssumption DEF RequestState
<1>3. claim = r /\ HolderKnows(r)
  BY DEF ClaimInv, ClaimHeld
<1>4. request[r].pc # "done"
  BY DEF Holding
<1>5. \A c \in Call : <<r, c>> \in pending =>
        /\ request[r].pc \in {"cleanup", "failing"}
        /\ request[r].started /\ ~request[r].tidy
  BY <1>4 DEF ClaimInv, ClaimHeld, At
<1> QED  BY <1>1, <1>2, <1>3, <1>4, <1>5

(* A creation that has made nothing finds the collections as they were.    *)
LEMMA NothingMade ==
    ASSUME NEW cols \in CollectionState, NEW q \in RequestState,
           OnlyMade(cols, q), q.made = {}
    PROVE  cols = q.before
<1>1. cols \in [Collections -> Indexed \cup {None}]
      /\ q.before \in [Collections -> Indexed \cup {None}]
  BY DEF CollectionState, RequestState
<1>2. \A x \in Collections : cols[x] = q.before[x]
  BY DEF OnlyMade
<1> QED  BY <1>1, <1>2

(* A handler that refuses the request before its first call.               *)
LEMMA InvalidKeepsClaim ==
    ASSUME IInv, ClaimInv, NEW r \in Requests, Invalid(r)
    PROVE  ClaimInv'
<1> DEFINE q == [request[r] EXCEPT !.pc = "failing", !.todo = {}]
<1>1. request[r].pc = "handler" /\ ~request[r].started
        /\ request[r].pc \in Holding /\ "failing" \in Holding
  BY DEF Invalid, At, Holding
<1>2. /\ TypeOK /\ request[r] \in RequestState
      /\ collections \in CollectionState
      /\ claim = r /\ HolderKnows(r)
      /\ \A c \in Call : <<r, c>> \notin pending
  BY <1>1, HolderFacts
<1>3. AgreesIn(collections, catalog)
  BY <1>1, <1>2 DEF HolderKnows, SeesAgreement, CalledNothing
<1>4. request[r].op.kind = "create" => collections = request[r].before
  <2> SUFFICES ASSUME request[r].op.kind = "create"
               PROVE  collections = request[r].before
    OBVIOUS
  <2>1. OnlyMade(collections, request[r])
    BY <1>1, <1>2 DEF HolderKnows, IsUndoable, At
  <2> QED  BY <2>1, <1>1, <1>2, NothingMade DEF OnlyMade
<1>5. /\ q \in RequestState /\ q.pc = "failing" /\ q.todo = {}
      /\ q.op = request[r].op /\ q.before = request[r].before
  BY <1>2 DEF RequestState
<1>6. /\ request' = [request EXCEPT ![r] = q]
      /\ UNCHANGED <<catalog, claim, collections, pending, late>>
  BY DEF Invalid
<1> HIDE DEF q
<1>7. q.op.kind = "create" =>
        /\ q.pc = "handler" => OnlyMade(collections', q)
        /\ q.pc = "cleanup" => OnlyToDelete(collections', q)
        /\ q.pc = "failing" /\ q.tidy => collections' = q.before
  BY <1>4, <1>5, <1>6
<1> QED  BY <1>1, <1>2, <1>3, <1>5, <1>6, <1>7, HolderMoves

(* An answered call of a handler.                                          *)
LEMMA HandlerCallKeepsClaim ==
    ASSUME IInv, ClaimInv, NEW r \in Requests, NEW c \in request[r].todo,
           CallCompletes(r, c), At(r, "handler")
    PROVE  ClaimInv'
<1> DEFINE made == IF c.kind = "put"
                   THEN request[r].made \cup {c.collection}
                   ELSE request[r].made
           q == [request[r] EXCEPT !.todo = request[r].todo \ {c},
                                   !.made = made, !.started = TRUE]
<1>1. request[r].pc = "handler" /\ request[r].pc \in Holding
  BY DEF At, Holding
<1>2. /\ TypeOK /\ request[r] \in RequestState
      /\ collections \in CollectionState
      /\ request[r].base \in Catalog /\ request[r].op \in Operation
      /\ WellFormed(request[r].base)
      /\ claim = r /\ HolderKnows(r)
      /\ \A d \in Call : <<r, d>> \notin pending
  BY <1>1, HolderFacts
<1>3. /\ request[r].base = catalog
      /\ Accepted(request[r].base, request[r].op)
      /\ Underway(collections, request[r].base, request[r].op, request[r].todo)
      /\ request[r].op.kind = "create" => OnlyMade(collections, request[r])
  BY <1>2 DEF HolderKnows, WorksOnCatalog, IsUnderway, IsUndoable
<1>4. /\ request' = [request EXCEPT ![r] = q]
      /\ collections' = After(collections, c)
      /\ UNCHANGED <<catalog, claim, pending, late>>
      /\ Executable(collections, c)
      /\ \A other \in request[r].todo : c.stage <= other.stage
  BY DEF CallCompletes, NextCall, CanExecute, Executed, After, Executable
<1>5. made \subseteq Collections
  BY <1>2 DEF RequestState, Call
<1> HIDE DEF made
<1>6. /\ q \in RequestState /\ q.pc = "handler" /\ q.started = TRUE
      /\ q.op = request[r].op /\ q.base = request[r].base
      /\ q.before = request[r].before /\ q.made = made
      /\ q.todo = request[r].todo \ {c}
  BY <1>1, <1>2, <1>5 DEF RequestState
<1> HIDE DEF q
<1>7. Underway(collections', q.base, q.op, q.todo)
  BY <1>2, <1>3, <1>4, <1>6, CallMakesProgress
<1>8. q.op.kind = "create" => OnlyMade(collections', q)
  BY <1>2, <1>3, <1>4, <1>6, CallKeepsMade DEF made
<1>9. /\ q.pc \in Holding
      /\ q.pc = "handler" => Underway(collections', q.base, q.op, q.todo)
      /\ q.op.kind = "create" =>
            /\ q.pc = "handler" => OnlyMade(collections', q)
            /\ q.pc = "cleanup" => OnlyToDelete(collections', q)
            /\ q.pc = "failing" /\ q.tidy => collections' = q.before
  BY <1>1, <1>6, <1>7, <1>8
<1>10. q.pc \in {"handler", "cleanup"}
            \/ (\E d \in Call : <<r, d>> \in pending')
            => q.base = catalog /\ Accepted(q.base, q.op)
  BY <1>3, <1>6
<1> QED  BY <1>1, <1>2, <1>4, <1>6, <1>9, <1>10, HolderMoves

(* An answered deletion of a clean-up.                                     *)
LEMMA CleanupCallKeepsClaim ==
    ASSUME IInv, ClaimInv, NEW r \in Requests, NEW c \in request[r].todo,
           CallCompletes(r, c), At(r, "cleanup")
    PROVE  ClaimInv'
<1> DEFINE q == [request[r] EXCEPT !.todo = request[r].todo \ {c},
                                   !.started = TRUE]
<1>1. request[r].pc = "cleanup" /\ request[r].pc \in Holding
  BY DEF At, Holding
<1>2. /\ TypeOK /\ request[r] \in RequestState
      /\ collections \in CollectionState
      /\ claim = r /\ HolderKnows(r)
      /\ \A d \in Call : <<r, d>> \in pending => ~request[r].tidy
  BY <1>1, HolderFacts
<1>3. request[r].op.kind = "create"
  BY DEF ClaimInv, ClaimHeld
<1>4. OnlyToDelete(collections, request[r])
  BY <1>2, <1>3 DEF HolderKnows, IsUndoable
<1>5. c.kind = "delete" /\ c \in Call
  BY <1>2, <1>4 DEF OnlyToDelete, RequestState
<1>6. /\ request' = [request EXCEPT ![r].todo = @ \ {c}, ![r].started = TRUE,
                                    ![r].made = request[r].made]
      /\ collections' = After(collections, c)
      /\ UNCHANGED <<catalog, claim, pending, late>>
  BY <1>5 DEF CallCompletes, Executed, After
<1>7. request' = [request EXCEPT ![r] = q]
  BY <1>2, <1>6 DEF TypeOK, RequestState
<1>8. /\ q \in RequestState /\ q.pc = "cleanup" /\ q.started = TRUE
      /\ q.op = request[r].op /\ q.base = request[r].base
      /\ q.before = request[r].before /\ q.tidy = request[r].tidy
      /\ q.todo = request[r].todo \ {c}
  BY <1>1, <1>2 DEF RequestState
<1> HIDE DEF q
<1>9. OnlyToDelete(collections', q)
  BY <1>2, <1>4, <1>5, <1>6, <1>8, CleanupProceeds
<1>10. /\ request[r].base = catalog
       /\ Accepted(request[r].base, request[r].op)
  BY <1>2 DEF HolderKnows, WorksOnCatalog
<1>11. \A d \in Call :
            (q.pc = "cleanup" /\ d \in q.todo) \/ <<r, d>> \in pending'
            => \/ d \in Calls(q.base, q.op)
               \/ q.op.kind = "create" /\ d \in DeleteCalls(q.op.name)
  <2>1. CallsItsOwn(r)
    BY <1>2 DEF HolderKnows
  <2> QED  BY <2>1, <1>6, <1>8 DEF CallsItsOwn, MayCall
<1>12. q.op.kind = "create" =>
            /\ q.pc = "handler" => OnlyMade(collections', q)
            /\ q.pc = "cleanup" => OnlyToDelete(collections', q)
            /\ q.pc = "failing" /\ q.tidy => collections' = q.before
  BY <1>8, <1>9
<1>13. q.pc = "cleanup" => q.started /\ q.op.kind = "create"
  BY <1>3, <1>8
<1>14. \A d \in Call : <<r, d>> \in pending' =>
            q.pc \in {"cleanup", "failing"} /\ q.started /\ ~q.tidy
  BY <1>2, <1>6, <1>8
<1> QED  BY <1>1, <1>2, <1>6, <1>7, <1>8, <1>10, <1>11, <1>12, <1>13, <1>14,
            HolderMoves

(* An error of the clean-up is logged, and the next deletion made.         *)
LEMMA CleanupErrorKeepsClaim ==
    ASSUME IInv, ClaimInv, NEW r \in Requests, NEW c \in request[r].todo,
           CallRefused(r, c) \/ CallUnanswered(r, c), At(r, "cleanup")
    PROVE  ClaimInv'
<1> DEFINE q == [request[r] EXCEPT !.todo = request[r].todo \ {c},
                                   !.tidy = FALSE]
<1>1. request[r].pc = "cleanup" /\ request[r].pc \in Holding
  BY DEF At, Holding
<1>2. /\ TypeOK /\ request[r] \in RequestState
      /\ claim = r /\ HolderKnows(r)
  BY <1>1, HolderFacts
<1>3. request[r].op.kind = "create" /\ request[r].started
  BY DEF ClaimInv, ClaimHeld
<1>4. AfterError(r, c) = [request[r] EXCEPT !.todo = request[r].todo \ {c}]
  BY DEF AfterError
<1>5. request' = [request EXCEPT ![r] = q]
  <2>1. [AfterError(r, c) EXCEPT !.tidy = FALSE] = q
    BY <1>2, <1>4 DEF RequestState
  <2>2. CASE CallRefused(r, c)
    <3>1. (request[r].tidy /\ ~At(r, "cleanup")) = FALSE
      OBVIOUS
    <3>2. request' = [request EXCEPT ![r] =
                        [AfterError(r, c) EXCEPT !.tidy = FALSE]]
      BY <2>2, <3>1 DEF CallRefused
    <3> QED  BY <3>2, <2>1
  <2>3. CASE CallUnanswered(r, c)
    BY <2>1, <2>3 DEF CallUnanswered
  <2> QED  BY <2>2, <2>3
<1>6. /\ UNCHANGED <<catalog, claim, collections, late>>
      /\ pending' \subseteq pending \cup {<<r, c>>}
  BY DEF CallRefused, CallUnanswered
<1>7. /\ q \in RequestState /\ q.pc = "cleanup" /\ q.tidy = FALSE
      /\ q.op = request[r].op /\ q.base = request[r].base
      /\ q.before = request[r].before /\ q.started = request[r].started
      /\ q.todo = request[r].todo \ {c}
  BY <1>1, <1>2 DEF RequestState
<1> HIDE DEF q
<1>8. /\ request[r].base = catalog
      /\ Accepted(request[r].base, request[r].op)
      /\ CallsItsOwn(r)
      /\ OnlyToDelete(collections, request[r])
  BY <1>2, <1>3 DEF HolderKnows, WorksOnCatalog, IsUndoable
<1>9. \A d \in Call :
            (q.pc = "cleanup" /\ d \in q.todo) \/ <<r, d>> \in pending'
            => \/ d \in Calls(q.base, q.op)
               \/ q.op.kind = "create" /\ d \in DeleteCalls(q.op.name)
  <2>1. \A d \in Call :
            (q.pc = "cleanup" /\ d \in q.todo) \/ <<r, d>> \in pending'
            => MayCall(r, d)
    BY <1>6, <1>7 DEF MayCall
  <2> QED  BY <2>1, <1>7, <1>8 DEF CallsItsOwn
<1>10. OnlyToDelete(collections', q)
  BY <1>6, <1>7, <1>8 DEF OnlyToDelete
<1>11. q.op.kind = "create" =>
            /\ q.pc = "handler" => OnlyMade(collections', q)
            /\ q.pc = "cleanup" => OnlyToDelete(collections', q)
            /\ q.pc = "failing" /\ q.tidy => collections' = q.before
  BY <1>7, <1>10
<1>12. \A p \in Requests \ {r} : \A d \in Call :
            <<p, d>> \in pending' => <<p, d>> \in pending
  BY <1>6
<1> QED  BY <1>1, <1>2, <1>3, <1>5, <1>6, <1>7, <1>8, <1>9, <1>11, <1>12,
            HolderMoves

(* The first error of a handler ends it, and a creation cleans up.         *)
LEMMA HandlerErrorKeepsClaim ==
    ASSUME IInv, ClaimInv, NEW r \in Requests, NEW c \in request[r].todo,
           CallRefused(r, c) \/ CallUnanswered(r, c), At(r, "handler")
    PROVE  ClaimInv'
<1>1. /\ request[r].pc = "handler" /\ request[r].pc \in Holding
      /\ "failing" \in Holding /\ "cleanup" \in Holding
      /\ ~At(r, "cleanup")
  BY DEF At, Holding
<1>2. /\ TypeOK /\ request[r] \in RequestState
      /\ collections \in CollectionState
      /\ request[r].base \in Catalog /\ request[r].op \in Operation
      /\ claim = r /\ HolderKnows(r)
      /\ \A d \in Call : <<r, d>> \notin pending
  BY <1>1, HolderFacts
<1>3. /\ request[r].base = catalog
      /\ Accepted(request[r].base, request[r].op)
      /\ c \in Calls(request[r].base, request[r].op)
      /\ request[r].op.kind = "create" => OnlyMade(collections, request[r])
  BY <1>2 DEF HolderKnows, WorksOnCatalog, IsUnderway, Underway, IsUndoable
<1>4. PICK tidy \in BOOLEAN :
        /\ request' = [request EXCEPT ![r] =
                            [AfterError(r, c) EXCEPT !.tidy = tidy]]
        /\ pending' \subseteq pending \cup {<<r, c>>}
        /\ tidy => pending' = pending
  <2>1. CASE CallRefused(r, c)
    <3>1. (request[r].tidy /\ ~At(r, "cleanup")) \in BOOLEAN
      OBVIOUS
    <3> QED  BY <2>1, <3>1 DEF CallRefused
  <2>2. CASE CallUnanswered(r, c)
    <3>1. FALSE \in BOOLEAN
      OBVIOUS
    <3> QED  BY <2>2, <3>1 DEF CallUnanswered
  <2> QED  BY <2>1, <2>2
<1>5. UNCHANGED <<catalog, claim, collections, late>>
  BY DEF CallRefused, CallUnanswered
<1>6. /\ \A p \in Requests \ {r} : \A d \in Call :
            <<p, d>> \in pending' => <<p, d>> \in pending
      /\ \A d \in Call : <<r, d>> \in pending' => d = c /\ ~tidy
  BY <1>2, <1>4
<1>7. CASE request[r].made = {}
  <2> DEFINE q == [request[r] EXCEPT !.started = TRUE, !.pc = "failing",
                                     !.todo = {}, !.tidy = tidy]
  <2>1. request' = [request EXCEPT ![r] = q]
    <3>1. AfterError(r, c) = [request[r] EXCEPT !.started = TRUE,
                                !.pc = "failing", !.todo = {}]
      BY <1>1, <1>7 DEF AfterError
    <3>2. [AfterError(r, c) EXCEPT !.tidy = tidy] = q
      BY <3>1, <1>2 DEF RequestState
    <3> QED  BY <3>2, <1>4
  <2>2. /\ q \in RequestState /\ q.pc = "failing" /\ q.started = TRUE
        /\ q.op = request[r].op /\ q.base = request[r].base
        /\ q.before = request[r].before /\ q.tidy = tidy
    BY <1>2 DEF RequestState
  <2> HIDE DEF q
  <2>3. q.op.kind = "create" => collections = request[r].before
    BY <1>2, <1>3, <1>7, <2>2, NothingMade
  <2>4. \A d \in Call : <<r, d>> \in pending' =>
            q.pc \in {"cleanup", "failing"} /\ q.started /\ ~q.tidy
    BY <1>6, <2>2
  <2>5. \A d \in Call :
            (q.pc = "cleanup" /\ d \in q.todo) \/ <<r, d>> \in pending'
            => \/ d \in Calls(q.base, q.op)
               \/ q.op.kind = "create" /\ d \in DeleteCalls(q.op.name)
    BY <1>3, <1>6, <2>2
  <2>6. q.op.kind = "create" =>
            /\ q.pc = "handler" => OnlyMade(collections', q)
            /\ q.pc = "cleanup" => OnlyToDelete(collections', q)
            /\ q.pc = "failing" /\ q.tidy => collections' = q.before
    BY <1>5, <2>2, <2>3
  <2> QED  BY <1>1, <1>2, <1>3, <1>5, <1>6, <2>1, <2>2, <2>4, <2>5, <2>6,
              HolderMoves
<1>8. CASE request[r].made # {}
  <2> DEFINE q == [request[r] EXCEPT !.started = TRUE, !.pc = "cleanup",
                            !.todo = CleanupCalls(r), !.tidy = tidy]
  <2>1. request' = [request EXCEPT ![r] = q]
    <3>1. AfterError(r, c) = [request[r] EXCEPT !.started = TRUE,
                                !.pc = "cleanup", !.todo = CleanupCalls(r)]
      BY <1>1, <1>8 DEF AfterError
    <3>2. [AfterError(r, c) EXCEPT !.tidy = tidy] = q
      BY <3>1, <1>2 DEF RequestState
    <3> QED  BY <3>2, <1>4
  <2>2. CleanupCalls(r) \subseteq Call
    BY <1>8, CleanupCallsType
  <2>3. /\ q \in RequestState /\ q.pc = "cleanup" /\ q.started = TRUE
        /\ q.op = request[r].op /\ q.base = request[r].base
        /\ q.before = request[r].before /\ q.tidy = tidy
        /\ q.todo = CleanupCalls(r)
    BY <1>2, <2>2 DEF RequestState
  <2> HIDE DEF q
  <2>4. q.op.kind = "create"
    BY <1>8, <2>3 DEF IInv, OnlyCreateMakes, MakesOnlyIfCreate
  <2>5. OnlyToDelete(collections', q)
    <3>1. q.todo = {d \in DeleteCalls(request[r].op.name) :
                        d.collection \in request[r].made}
      BY <2>3 DEF CleanupCalls
    <3> QED  BY <3>1, <1>3, <1>5, <2>3, <2>4, CleanupUndoes
  <2>6. \A d \in Call : <<r, d>> \in pending' =>
            q.pc \in {"cleanup", "failing"} /\ q.started /\ ~q.tidy
    BY <1>6, <2>3
  <2>7. \A d \in Call :
            (q.pc = "cleanup" /\ d \in q.todo) \/ <<r, d>> \in pending'
            => \/ d \in Calls(q.base, q.op)
               \/ q.op.kind = "create" /\ d \in DeleteCalls(q.op.name)
    BY <1>3, <1>6, <2>3, <2>4 DEF CleanupCalls
  <2>8. q.op.kind = "create" =>
            /\ q.pc = "handler" => OnlyMade(collections', q)
            /\ q.pc = "cleanup" => OnlyToDelete(collections', q)
            /\ q.pc = "failing" /\ q.tidy => collections' = q.before
    BY <2>3, <2>5
  <2> QED  BY <1>1, <1>2, <1>3, <1>5, <1>6, <2>1, <2>3, <2>4, <2>6, <2>7,
              <2>8, HolderMoves
<1> QED  BY <1>7, <1>8

(* A clean-up that has made its deletions.                                 *)
LEMMA CleanupEndKeepsClaim ==
    ASSUME IInv, ClaimInv, NEW r \in Requests, CleanupEnds(r)
    PROVE  ClaimInv'
<1> DEFINE q == [request[r] EXCEPT !.pc = "failing"]
<1>1. /\ request[r].pc = "cleanup" /\ request[r].pc \in Holding
      /\ "failing" \in Holding /\ request[r].todo = {}
  BY DEF CleanupEnds, At, Holding
<1>2. /\ TypeOK /\ request[r] \in RequestState
      /\ collections \in CollectionState
      /\ claim = r /\ HolderKnows(r)
      /\ \A c \in Call : <<r, c>> \in pending => ~request[r].tidy
  BY <1>1, HolderFacts
<1>3. request[r].op.kind = "create" /\ request[r].started
  BY <1>1 DEF ClaimInv, ClaimHeld, At
<1>4. /\ request[r].base = catalog
      /\ Accepted(request[r].base, request[r].op)
      /\ CallsItsOwn(r)
      /\ OnlyToDelete(collections, request[r])
  BY <1>1, <1>2, <1>3 DEF HolderKnows, WorksOnCatalog, IsUndoable, At
<1>5. request[r].tidy => collections = request[r].before
  <2> SUFFICES ASSUME request[r].tidy PROVE collections = request[r].before
    OBVIOUS
  <2>1. \A x \in Collections : collections[x] = request[r].before[x]
    BY <1>1, <1>4 DEF OnlyToDelete
  <2>2. /\ collections \in [Collections -> Indexed \cup {None}]
        /\ request[r].before \in [Collections -> Indexed \cup {None}]
    BY <1>2 DEF CollectionState, RequestState
  <2> QED  BY <2>1, <2>2
<1>6. /\ request' = [request EXCEPT ![r] = q]
      /\ UNCHANGED <<catalog, claim, collections, pending, late>>
  BY DEF CleanupEnds
<1>7. /\ q \in RequestState /\ q.pc = "failing" /\ q.tidy = request[r].tidy
      /\ q.op = request[r].op /\ q.base = request[r].base
      /\ q.before = request[r].before /\ q.started = request[r].started
  BY <1>2 DEF RequestState
<1> HIDE DEF q
<1>8. \A c \in Call :
            (q.pc = "cleanup" /\ c \in q.todo) \/ <<r, c>> \in pending'
            => \/ c \in Calls(q.base, q.op)
               \/ q.op.kind = "create" /\ c \in DeleteCalls(q.op.name)
  <2>1. \A c \in Call :
            (q.pc = "cleanup" /\ c \in q.todo) \/ <<r, c>> \in pending'
            => MayCall(r, c)
    BY <1>6, <1>7 DEF MayCall
  <2> QED  BY <2>1, <1>4, <1>7 DEF CallsItsOwn
<1>9. q.op.kind = "create" =>
            /\ q.pc = "handler" => OnlyMade(collections', q)
            /\ q.pc = "cleanup" => OnlyToDelete(collections', q)
            /\ q.pc = "failing" /\ q.tidy => collections' = q.before
  BY <1>5, <1>6, <1>7
<1>10. \A c \in Call : <<r, c>> \in pending' =>
            q.pc \in {"cleanup", "failing"} /\ q.started /\ ~q.tidy
  BY <1>2, <1>3, <1>6, <1>7
<1> QED  BY <1>1, <1>2, <1>3, <1>4, <1>6, <1>7, <1>8, <1>9, <1>10,
            HolderMoves

(* A handler that has made its calls may publish its tables.               *)
LEMMA SuccessKeepsClaim ==
    ASSUME Shared, IInv, ClaimInv, NEW r \in Requests, HandlerSucceeds(r)
    PROVE  ClaimInv'
<1> DEFINE updated == Updated(request[r].base, request[r].op)
           q == [request[r] EXCEPT !.pc = "commit", !.base = updated]
<1>1. /\ request[r].pc = "handler" /\ request[r].pc \in Holding
      /\ "commit" \in Holding /\ request[r].todo = {}
  BY DEF HandlerSucceeds, At, Holding
<1>2. /\ TypeOK /\ request[r] \in RequestState
      /\ collections \in CollectionState
      /\ request[r].base \in Catalog /\ request[r].op \in Operation
      /\ WellFormed(request[r].base)
      /\ claim = r /\ HolderKnows(r)
      /\ \A c \in Call : <<r, c>> \notin pending
  BY <1>1, HolderFacts
<1>3. /\ Accepted(request[r].base, request[r].op)
      /\ Underway(collections, request[r].base, request[r].op, {})
  BY <1>1, <1>2 DEF HolderKnows, WorksOnCatalog, IsUnderway, At
<1>4. AgreesIn(collections, updated) /\ updated \in Catalog
  BY <1>2, <1>3, DoneAgrees, UpdatedKeepsWellFormed
<1>5. /\ request' = [request EXCEPT ![r] = q]
      /\ UNCHANGED <<catalog, claim, collections, pending, late>>
  BY DEF HandlerSucceeds
<1> HIDE DEF updated
<1>6. /\ q \in RequestState /\ q.pc = "commit" /\ q.base = updated
  BY <1>2, <1>4 DEF RequestState
<1> HIDE DEF q
<1> QED  BY <1>1, <1>2, <1>4, <1>5, <1>6, HolderMoves

(* A failed administration gives the claim back only if it called nothing. *)
LEMMA FailureKeepsClaim ==
    ASSUME Shared, IInv, ClaimInv, NEW r \in Requests, HandlerFails(r)
    PROVE  ClaimInv'
<1>1. /\ request[r].pc = "failing" /\ request[r].pc \in Holding
      /\ "unclaim" \in Holding
  BY DEF HandlerFails, At, Holding
<1>2. /\ TypeOK /\ request[r] \in RequestState
      /\ claim = r /\ HolderKnows(r) /\ request[r].pc # "done"
      /\ \A c \in Call : <<r, c>> \in pending => request[r].started
  BY <1>1, HolderFacts
<1>3. UNCHANGED <<catalog, claim, collections, pending, late>>
  BY DEF HandlerFails
<1>4. CASE request[r].started
  <2>1. request' = [request EXCEPT ![r] = Ended(r)]
    BY <1>4 DEF HandlerFails, AfterFailure
  <2> QED  BY <2>1, <1>2, <1>3, EndedKeepsClaim
<1>5. CASE ~request[r].started
  <2> DEFINE q == [request[r] EXCEPT !.pc = "unclaim"]
  <2>1. request' = [request EXCEPT ![r] = q]
    BY <1>5 DEF HandlerFails, AfterFailure
  <2>2. q \in RequestState /\ q.pc = "unclaim"
    BY <1>2 DEF RequestState
  <2> HIDE DEF q
  <2>3. AgreesIn(collections, catalog)
    BY <1>1, <1>2, <1>5 DEF HolderKnows, SeesAgreement, CalledNothing
  <2>4. \A c \in Call : <<r, c>> \notin pending
    BY <1>2, <1>5
  <2> QED  BY <1>1, <1>2, <1>3, <2>1, <2>2, <2>3, <2>4, HolderMoves
<1> QED  BY <1>4, <1>5

(* A call that Qdrant executes late finds the claim still held.            *)
LEMMA PendingKeepsClaim ==
    ASSUME IInv, ClaimInv, NEW r \in Requests, NEW c \in Call,
           <<r, c>> \in pending,
           pending' \subseteq pending,
           UNCHANGED <<catalog, claim, request, late>>
    PROVE  ClaimInv'
<1>1. /\ claim = r /\ ClaimHeld(r) /\ HolderKnows(r)
      /\ \/ At(r, "done")
         \/ /\ request[r].pc \in {"cleanup", "failing"}
            /\ request[r].started /\ ~request[r].tidy
      /\ \A s \in Scripts : ~Late(s, r)
  BY DEF ClaimInv, ClaimHeld
<1>2. ClaimHeld(r)'
  BY <1>1 DEF ClaimHeld, At, Late
<1>3. ~CalledNothing(r) /\ ~At(r, "commit") /\ ~Late("commit", r)
  BY <1>1 DEF CalledNothing, At, Scripts
<1>4. SeesAgreement(r)' /\ PublishesAgreement(r)'
  <2>1. ~CalledNothing(r)' /\ ~At(r, "commit")' /\ ~Late("commit", r)'
    BY <1>3 DEF CalledNothing, At, Late
  <2> QED  BY <2>1 DEF SeesAgreement, PublishesAgreement
<1>5. \A d \in Call : MayCall(r, d)' => MayCall(r, d)
  BY DEF MayCall, At
<1>6. WorksOnCatalog(r) /\ CallsItsOwn(r) /\ IsUndoable(r)
  BY <1>1 DEF HolderKnows
<1>7. CallsItsOwn(r)'
  BY <1>5, <1>6 DEF CallsItsOwn
<1>8. WorksOnCatalog(r)'
  <2>1. (\E d \in Call : MayCall(r, d)') => \E d \in Call : MayCall(r, d)
    BY <1>5
  <2> QED  BY <2>1, <1>6 DEF WorksOnCatalog, At
<1>9. IsUnderway(r)'
  BY <1>1 DEF IsUnderway, At
<1>10. IsUndoable(r)'
  <2>1. At(r, "cleanup") \/ At(r, "failing") => ~request[r].tidy
    BY <1>1 DEF At
  <2>2. ~At(r, "handler")
    BY <1>1 DEF At
  <2>3. /\ At(r, "cleanup")' => At(r, "cleanup")
        /\ At(r, "failing")' => At(r, "failing")
        /\ At(r, "handler")' => At(r, "handler")
    BY DEF At
  <2>4. At(r, "cleanup") /\ request[r].op.kind = "create" =>
            OnlyToDelete(collections', request'[r])
    BY <1>6, <2>1 DEF IsUndoable, OnlyToDelete
  <2> QED  BY <2>1, <2>2, <2>3, <2>4 DEF IsUndoable
<1>11. HolderKnows(r)'
  BY <1>4, <1>7, <1>8, <1>9, <1>10 DEF HolderKnows
<1>12. claim' # None
  BY <1>1, NoneAssumption
<1> QED  BY <1>1, <1>2, <1>11, <1>12, BystandersStand

(* A script that Redis executes late takes the claim or gives it back for  *)
(* a request that has ended, and does nothing else.                        *)
LEMMA LateKeepsClaim ==
    ASSUME IInv, ClaimInv, NEW r \in Requests, NEW script \in Scripts,
           <<script, r>> \in late, ExecuteLate(r, script)
    PROVE  ClaimInv'
<1>1. /\ UNCHANGED <<collections, request, pending>>
      /\ late' = late \ {<<script, r>>}
  BY DEF ExecuteLate
<1>2. /\ request[r].pc = "done"
      /\ \A s \in Scripts : <<s, r>> \in late => s = script
      /\ \A c \in Call : <<r, c>> \notin pending
  BY DEF ClaimInv, ClaimHeld, At, Late
<1>3. \A s \in Scripts : <<s, r>> \notin late'
  BY <1>1, <1>2
<1>4. ClaimHeld(r)'
  BY <1>1, <1>2, <1>3 DEF ClaimHeld, Holding, At, Late
<1>5. \A p \in Requests \ {r} : \A s \in Scripts :
            <<s, p>> \in late' => <<s, p>> \in late
  BY <1>1
<1>6. None \notin Requests
  BY NoneAssumption
<1>7. CASE script = "begin"
  <2>1. claim = None /\ claim' = r /\ catalog' = catalog
    BY <1>7 DEF ExecuteLate
  <2>2. \A c \in Call : ~MayCall(r, c)'
    BY <1>1, <1>2 DEF MayCall, At
  <2>3. SeesAgreement(r)' /\ PublishesAgreement(r)'
    <3>1. "unclaim" \in Scripts /\ "commit" \in Scripts
      BY DEF Scripts
    <3> QED  BY <3>1, <1>1, <1>2, <1>3
             DEF SeesAgreement, CalledNothing, PublishesAgreement, At, Late
  <2>4. CallsItsOwn(r)' /\ WorksOnCatalog(r)'
    <3>1. ~\E c \in Call : MayCall(r, c)'
      BY <2>2
    <3>2. WorksOnCatalog(r)'
      BY <3>1, <1>1, <1>2 DEF WorksOnCatalog, At
    <3>3. CallsItsOwn(r)'
      BY <2>2 DEF CallsItsOwn
    <3> QED  BY <3>2, <3>3
  <2>5. IsUnderway(r)' /\ IsUndoable(r)'
    BY <1>1, <1>2 DEF IsUnderway, IsUndoable, At
  <2>6. HolderKnows(r)'
    BY <2>3, <2>4, <2>5 DEF HolderKnows
  <2> QED  BY <1>1, <1>4, <1>5, <1>6, <2>1, <2>6, BystandersStand
<1>8. CASE script = "commit"
  <2>1. claim = r /\ claim' = None /\ catalog' = request[r].base
    BY <1>8 DEF ExecuteLate, CommitScript
  <2>2. AgreesIn(collections, request[r].base)
    BY <1>8, <2>1 DEF ClaimInv, HolderKnows, PublishesAgreement, Late
  <2> QED  BY <1>1, <1>4, <1>5, <1>6, <2>1, <2>2, BystandersStand
<1>9. CASE script = "unclaim"
  <2>1. claim = r /\ claim' = None /\ catalog' = catalog
    BY <1>9 DEF ExecuteLate, UnclaimScript
  <2>2. AgreesIn(collections, catalog)
    BY <1>9, <2>1 DEF ClaimInv, HolderKnows, SeesAgreement, CalledNothing, Late
  <2> QED  BY <1>1, <1>4, <1>5, <1>6, <2>1, <2>2, BystandersStand
<1> QED  BY <1>7, <1>8, <1>9 DEF Scripts

(* The operator gives the claim back when Qdrant has been repaired.        *)
LEMMA ReconcileKeepsClaim ==
    ASSUME IInv, ClaimInv, Reconcile
    PROVE  ClaimInv'
<1>1. /\ \A r \in Requests : request[r].pc \in {"idle", "done"}
      /\ pending = {} /\ claim' = None
      /\ UNCHANGED <<catalog, request, pending, late>>
  BY DEF Reconcile
<1>2. AgreesIn(collections', catalog')
  BY <1>1, RepairAgrees DEF IInv
<1>3. \A r \in Requests : ClaimHeld(r)'
  BY <1>1 DEF ClaimInv, ClaimHeld, Holding, At, Late
<1> QED  BY <1>1, <1>2, <1>3, NoneAssumption DEF ClaimInv

(* Nothing is there before the first request.                              *)
LEMMA InitClaims == Init => ClaimInv
<1> SUFFICES ASSUME Init PROVE ClaimInv
  OBVIOUS
<1>1. \A n \in Names : ~IsIndex(catalog, n)
  BY DEF Init, EmptyCatalog, IsIndex
<1>2. \A x \in Collections : collections[x] = None
  BY DEF Init
<1>3. AgreesIn(collections, catalog)
  BY <1>1, <1>2 DEF AgreesIn
<1>4. ASSUME NEW r \in Requests
      PROVE  ClaimHeld(r)
  BY DEF Init, ClaimHeld, Holding, At, Late
<1>5. claim = None /\ None \notin Requests
  BY NoneAssumption DEF Init
<1> QED  BY <1>3, <1>4, <1>5 DEF ClaimInv

(* A step that changes nothing.                                            *)
LEMMA StutterKeepsClaim ==
    ASSUME ClaimInv, UNCHANGED vars
    PROVE  ClaimInv'
<1>1. UNCHANGED <<catalog, claim, collections, request, pending, late>>
  BY DEF vars
<1>2. \A r \in Requests : ClaimHeld(r)'
  BY <1>1 DEF ClaimInv, ClaimHeld, At, Late
<1>3. ASSUME NEW r \in Requests, claim = r PROVE HolderKnows(r)'
  <2>1. HolderKnows(r)
    BY <1>3 DEF ClaimInv
  <2>2. \A c \in Call : MayCall(r, c)' <=> MayCall(r, c)
    BY <1>1 DEF MayCall, At
  <2>3. SeesAgreement(r)' /\ PublishesAgreement(r)'
    BY <1>1, <2>1 DEF HolderKnows, SeesAgreement, CalledNothing,
       PublishesAgreement, At, Late
  <2>4. WorksOnCatalog(r)'
    <3>1. (\E c \in Call : MayCall(r, c)') => \E c \in Call : MayCall(r, c)
      BY <2>2
    <3>2. WorksOnCatalog(r)
      BY <2>1 DEF HolderKnows
    <3> QED  BY <3>1, <3>2, <1>1 DEF WorksOnCatalog, At
  <2>5. CallsItsOwn(r)'
    <3>1. CallsItsOwn(r)
      BY <2>1 DEF HolderKnows
    <3> QED  BY <3>1, <1>1, <2>2 DEF CallsItsOwn
  <2>6. IsUnderway(r)' /\ IsUndoable(r)'
    BY <1>1, <2>1 DEF HolderKnows, IsUnderway, IsUndoable, At
  <2> QED  BY <2>3, <2>4, <2>5, <2>6 DEF HolderKnows
<1> QED  BY <1>1, <1>2, <1>3 DEF ClaimInv

(* Every step keeps the claim.                                             *)
LEMMA NextKeepsClaim ==
    ASSUME Shared
    PROVE  IInv /\ ClaimInv /\ [Next]_vars => ClaimInv'
<1> SUFFICES ASSUME IInv, ClaimInv, [Next]_vars PROVE ClaimInv'
  OBVIOUS
<1>0. TypeOK
  BY DEF IInv
<1>1. ASSUME NEW r \in Requests, NEW op \in Operations, Arrive(r, op)
      PROVE  ClaimInv'
  BY <1>1, ArriveKeepsClaim
<1>2. ASSUME NEW r \in Requests, Begin(r) PROVE ClaimInv'
  BY <1>2, BeginKeepsClaim
<1>3. ASSUME NEW r \in Requests, BeginRejected(r) PROVE ClaimInv'
  BY <1>0, <1>3, EndedKeepsClaim DEF BeginRejected, At
<1>4. ASSUME NEW r \in Requests, Invalid(r) PROVE ClaimInv'
  BY <1>4, InvalidKeepsClaim
<1>5. ASSUME NEW r \in Requests, NEW c \in request[r].todo,
             CallCompletes(r, c)
      PROVE  ClaimInv'
  <2>1. At(r, "handler") \/ At(r, "cleanup")
    BY <1>5 DEF CallCompletes, NextCall
  <2> QED  BY <2>1, <1>5, HandlerCallKeepsClaim, CleanupCallKeepsClaim
<1>6. ASSUME NEW r \in Requests, NEW c \in request[r].todo,
             CallRefused(r, c) \/ CallUnanswered(r, c)
      PROVE  ClaimInv'
  <2>1. At(r, "handler") \/ At(r, "cleanup")
    BY <1>6 DEF CallRefused, CallUnanswered, NextCall
  <2> QED  BY <2>1, <1>6, HandlerErrorKeepsClaim, CleanupErrorKeepsClaim
<1>7. ASSUME NEW r \in Requests, CleanupEnds(r) PROVE ClaimInv'
  BY <1>7, CleanupEndKeepsClaim
<1>8. ASSUME NEW r \in Requests, HandlerSucceeds(r) PROVE ClaimInv'
  BY <1>8, SuccessKeepsClaim
<1>9. ASSUME NEW r \in Requests, HandlerFails(r) PROVE ClaimInv'
  BY <1>9, FailureKeepsClaim
<1>10. ASSUME NEW r \in Requests, Commit(r) PROVE ClaimInv'
  <2>1. /\ request[r].pc = "commit" /\ claim = r /\ claim' = None
        /\ catalog' = request[r].base
        /\ request' = [request EXCEPT ![r] = Ended(r)]
        /\ UNCHANGED <<collections, pending, late>>
    BY <1>10 DEF Commit, CommitScript, At
  <2>2. AgreesIn(collections, request[r].base)
    BY <2>1 DEF ClaimInv, HolderKnows, PublishesAgreement, At
  <2> QED  BY <1>0, <2>1, <2>2, EndedGivesBack
<1>11. ASSUME NEW r \in Requests, Unclaim(r) PROVE ClaimInv'
  <2>1. /\ request[r].pc = "unclaim" /\ claim = r /\ claim' = None
        /\ catalog' = catalog
        /\ request' = [request EXCEPT ![r] = Ended(r)]
        /\ UNCHANGED <<collections, pending, late>>
    BY <1>11 DEF Unclaim, UnclaimScript, At
  <2>2. AgreesIn(collections, catalog)
    BY <2>1 DEF ClaimInv, HolderKnows, SeesAgreement, CalledNothing, At
  <2> QED  BY <1>0, <2>1, <2>2, EndedGivesBack
<1>12. ASSUME NEW r \in Requests, ScriptUnanswered(r) PROVE ClaimInv'
  <2>1. /\ request[r].pc \in Scripts /\ request[r].pc # "done"
        /\ late' = late \cup {<<request[r].pc, r>>}
        /\ request' = [request EXCEPT ![r] = Ended(r)]
        /\ UNCHANGED <<catalog, claim, collections, pending>>
    BY <1>12 DEF ScriptUnanswered, Scripts
  <2> QED  BY <1>0, <2>1, EndedKeepsClaim
<1>13. ASSUME NEW r \in Requests, Abandon(r) PROVE ClaimInv'
  <2>1. /\ request[r].pc # "done"
        /\ request' = [request EXCEPT ![r] = Ended(r)]
        /\ UNCHANGED <<catalog, claim, collections, pending, late>>
    BY <1>13 DEF Abandon
  <2> QED  BY <1>0, <2>1, EndedKeepsClaim
<1>14. ASSUME NEW p \in pending,
              ExecutePending(p[1], p[2]) \/ LosePending(p[1], p[2])
       PROVE  ClaimInv'
  <2>1. p[1] \in Requests /\ p[2] \in Call
    BY <1>0 DEF TypeOK
  <2>2. /\ <<p[1], p[2]>> \in pending /\ pending' \subseteq pending
        /\ UNCHANGED <<catalog, claim, request, late>>
    BY <1>14 DEF ExecutePending, LosePending
  <2> QED  BY <2>1, <2>2, PendingKeepsClaim
<1>15. ASSUME NEW l \in late, ExecuteLate(l[2], l[1]) PROVE ClaimInv'
  <2>1. l[2] \in Requests /\ l[1] \in Scripts /\ <<l[1], l[2]>> \in late
    BY <1>0 DEF TypeOK, Scripts
  <2> QED  BY <2>1, <1>15, LateKeepsClaim
<1>16. ASSUME Reconcile PROVE ClaimInv'
  BY <1>16, ReconcileKeepsClaim
<1>17. CASE UNCHANGED vars
  BY <1>17, StutterKeepsClaim
<1> QED  BY <1>1, <1>2, <1>3, <1>4, <1>5, <1>6, <1>7, <1>8, <1>9, <1>10,
            <1>11, <1>12, <1>13, <1>14, <1>15, <1>16, <1>17
         DEF Next

(* With a shared catalog ClaimInv holds in every behaviour.                *)
THEOREM ClaimIsKept ==
    ASSUME Shared
    PROVE  Spec => []ClaimInv
<1>1. Init => ClaimInv
  BY InitClaims
<1>2. IInv /\ ClaimInv /\ [Next]_vars => ClaimInv'
  BY NextKeepsClaim
<1> QED  BY <1>1, <1>2, InvariantHolds, PTL DEF Spec

(* With a shared catalog, a catalog that Qdrant does not match, or a call  *)
(* to Qdrant that may still be executed, is never unclaimed: whatever      *)
(* fails, is lost or comes late, no administration starts from it.         *)
THEOREM DisagreementsAreClaimed ==
    ASSUME Shared
    PROVE  Spec => []DisagreementIsClaimed
<1>1. IInv /\ ClaimInv => DisagreementIsClaimed
  <2> SUFFICES ASSUME IInv, ClaimInv, claim = None
               PROVE  Agree /\ pending = {}
    BY DEF DisagreementIsClaimed
  <2>1. Agree
    BY DEF ClaimInv, Agree, AgreesIn, Present
  <2>2. \A p \in pending : p[1] \in Requests /\ p[2] \in Call
            /\ <<p[1], p[2]>> \in pending
    BY DEF IInv, TypeOK
  <2>3. \A p \in pending : claim = p[1]
    BY <2>2 DEF ClaimInv, ClaimHeld
  <2>4. pending = {}
    BY <2>2, <2>3, NoneAssumption
  <2> QED  BY <2>1, <2>4
<1> QED  BY <1>1, InvariantHolds, ClaimIsKept, PTL

(* With a shared catalog, a creation that fails with every call answered   *)
(* leaves Qdrant as it found it.                                           *)
THEOREM FailedCreationsAreUndone ==
    ASSUME Shared
    PROVE  Spec => []FailedCreateLeavesNothing
<1>1. ClaimInv => FailedCreateLeavesNothing
  <2> SUFFICES ASSUME ClaimInv, NEW r \in Requests, At(r, "failing"),
                      request[r].op.kind = "create", request[r].tidy
               PROVE  collections = request[r].before
    BY DEF FailedCreateLeavesNothing
  <2>1. claim = r
    BY DEF ClaimInv, ClaimHeld, Holding, At
  <2> QED  BY <2>1 DEF ClaimInv, HolderKnows, IsUndoable
<1> QED  BY <1>1, ClaimIsKept, PTL

(* A deletion that hits a listed index is a delete_index of that name: the *)
(* clean-up of a creation only reaches what no index has reserved.         *)
LEMMA DeletesItsOwn ==
    ASSUME NEW cat \in Catalog, NEW op \in Operation, WellFormed(cat),
           Accepted(cat, op), NEW c \in Call, c.kind = "delete",
           c \in Calls(cat, op)
                \/ (op.kind = "create" /\ c \in DeleteCalls(op.name)),
           NEW n \in Names, IsIndex(cat, n), c.collection \in Own(n)
    PROVE  op.kind = "delete" /\ op.name = n
<1>1. CASE op.kind = "create" /\ c \in DeleteCalls(op.name)
  <2>1. op.name \in Names
    BY <1>1 DEF Operation
  <2>2. c.collection \in Own(op.name)
    BY <1>1 DEF DeleteCalls, Own
  <2>3. Reserved(op.name) \cap Reserved(n) = {}
    BY <1>1 DEF Accepted, NamespaceAvailable
  <2>4. Own(op.name) \cap Own(n) = {}
    BY <2>1, <2>3, ReservedApart
  <2> QED  BY <2>2, <2>4
<1>2. CASE c \in Calls(cat, op)
  <2>1. op.kind = "delete" /\ op.name \in Names /\ c.collection \in Own(op.name)
    BY <1>2, CallsOfOperation
  <2>2. IsIndex(cat, op.name)
    BY <2>1, ResolveFindsAnIndex, NoneAssumption DEF Accepted
  <2>3. op.name # n => Reserved(op.name) \cap Reserved(n) = {}
    BY <2>1, <2>2 DEF WellFormed
  <2>4. op.name # n => Own(op.name) \cap Own(n) = {}
    BY <2>1, <2>3, ReservedApart
  <2> QED  BY <2>1, <2>4
<1> QED  BY <1>1, <1>2

(* A call that takes a collection away is a deletion of that collection.   *)
LEMMA OnlyDeletesVanish ==
    ASSUME collections \in CollectionState, NEW c \in Call, CanExecute(c),
           NEW x \in Collections, collections[x] # None, Executed(c)[x] = None
    PROVE  c.kind = "delete" /\ c.collection = x
<1>1. Executable(collections, c) /\ Executed(c) = After(collections, c)
  BY DEF CanExecute, Executable, Executed, After
<1>2. c.kind = "delete"
  BY <1>1, CollectionsGrow
<1> QED  BY <1>1, <1>2, CollectionVanishes

(* A call that takes a collection of a listed index away belongs to a      *)
(* delete_index of that name, which holds the claim.                       *)
LEMMA VanishesUnderDelete ==
    ASSUME IInv, ClaimInv, NEW r \in Requests, NEW c \in Call,
           claim = r, CanExecute(c), collections' = Executed(c),
           \/ At(r, "handler") /\ c \in request[r].todo
           \/ MayCall(r, c),
           NEW n \in Names, NEW x \in Own(n), IsIndex(catalog, n),
           collections[x] # None, collections'[x] = None
    PROVE  /\ claim \in Requests
           /\ request[claim].op.kind = "delete"
           /\ request[claim].op.name = n
<1>1. /\ collections \in CollectionState /\ catalog \in Catalog
      /\ request[r].op \in Operation /\ WellFormed(catalog)
      /\ x \in Collections
  BY NamesAssumption, OwnIsReserved
  DEF IInv, TypeOK, RequestState, CatalogWellFormed
<1>2. c.kind = "delete" /\ c.collection = x
  BY <1>1, OnlyDeletesVanish
<1>3. HolderKnows(r)
  BY DEF ClaimInv
<1>4. request[r].base = catalog /\ Accepted(request[r].base, request[r].op)
  BY <1>3 DEF HolderKnows, WorksOnCatalog
<1>5. \/ c \in Calls(catalog, request[r].op)
      \/ /\ request[r].op.kind = "create"
         /\ c \in DeleteCalls(request[r].op.name)
  <2>1. CASE At(r, "handler") /\ c \in request[r].todo
    BY <2>1, <1>3, <1>4 DEF HolderKnows, IsUnderway, Underway
  <2>2. CASE MayCall(r, c)
    BY <2>2, <1>3, <1>4 DEF HolderKnows, CallsItsOwn
  <2> QED  BY <2>1, <2>2
<1> QED  BY <1>1, <1>2, <1>4, <1>5, DeletesItsOwn

(* With a shared catalog no step takes a collection of a listed index away *)
(* but a call of a delete_index of that very name, which holds the claim:  *)
(* not a late answer, a clean-up or the operator's repair.                 *)
THEOREM LiveIndicesSurvive ==
    ASSUME Shared
    PROVE  Spec => LiveIndexSurvives
<1> DEFINE Survives ==
        \A n \in Names : \A c \in Own(n) :
            IsIndex(catalog, n) /\ collections[c] # None /\ collections'[c] = None
                => /\ claim \in Requests
                   /\ request[claim].op.kind = "delete"
                   /\ request[claim].op.name = n
<1>1. IInv /\ ClaimInv /\ [Next]_vars => [Survives]_vars
  <2> SUFFICES ASSUME IInv, ClaimInv, Next,
                      NEW n \in Names, NEW x \in Own(n), IsIndex(catalog, n),
                      collections[x] # None, collections'[x] = None
               PROVE  /\ claim \in Requests
                      /\ request[claim].op.kind = "delete"
                      /\ request[claim].op.name = n
    OBVIOUS
  <2>1. x \in Collections
    BY OwnIsReserved
  <2>2. collections' # collections
    OBVIOUS
  <2>3. ASSUME NEW r \in Requests, NEW c \in request[r].todo,
               CallCompletes(r, c)
        PROVE  /\ claim \in Requests
               /\ request[claim].op.kind = "delete"
               /\ request[claim].op.name = n
    <3>1. /\ CanExecute(c) /\ collections' = Executed(c)
          /\ At(r, "handler") \/ At(r, "cleanup")
      BY <2>3 DEF CallCompletes, NextCall
    <3>2. c \in Call
      BY DEF IInv, TypeOK, RequestState
    <3>3. claim = r
      BY <3>1 DEF ClaimInv, ClaimHeld, Holding, At
    <3>4. (At(r, "handler") /\ c \in request[r].todo) \/ MayCall(r, c)
      BY <3>1 DEF MayCall
    <3> QED  BY <3>1, <3>2, <3>3, <3>4, VanishesUnderDelete
  <2>4. ASSUME NEW p \in pending, ExecutePending(p[1], p[2])
        PROVE  /\ claim \in Requests
               /\ request[claim].op.kind = "delete"
               /\ request[claim].op.name = n
    <3>1. /\ CanExecute(p[2]) /\ collections' = Executed(p[2])
          /\ <<p[1], p[2]>> \in pending
      BY <2>4 DEF ExecutePending
    <3>2. p[1] \in Requests /\ p[2] \in Call
      BY DEF IInv, TypeOK
    <3>3. claim = p[1] /\ MayCall(p[1], p[2])
      BY <3>1, <3>2 DEF ClaimInv, ClaimHeld, MayCall
    <3> QED  BY <3>1, <3>2, <3>3, VanishesUnderDelete
  <2>5. ~Reconcile
    <3> SUFFICES ASSUME Reconcile PROVE FALSE
      OBVIOUS
    <3>1. AgreesIn(collections', catalog)
      BY RepairAgrees DEF IInv
    <3>2. Present(collections', catalog, n)
      BY <3>1 DEF AgreesIn
    <3> QED  BY <3>2 DEF Present, Own
  <2>6. \A r \in Requests :
            /\ \A op \in Operations : ~Arrive(r, op)
            /\ ~Begin(r) /\ ~BeginRejected(r) /\ ~Invalid(r)
            /\ \A c \in request[r].todo :
                    ~CallRefused(r, c) /\ ~CallUnanswered(r, c)
            /\ ~CleanupEnds(r) /\ ~HandlerSucceeds(r) /\ ~HandlerFails(r)
            /\ ~Commit(r) /\ ~Unclaim(r) /\ ~ScriptUnanswered(r)
            /\ ~Abandon(r)
    BY <2>2 DEF Arrive, Begin, BeginRejected, Invalid, CallRefused,
       CallUnanswered, CleanupEnds, HandlerSucceeds, HandlerFails, Commit,
       Unclaim, ScriptUnanswered, Abandon
  <2>7. /\ \A p \in pending : ~LosePending(p[1], p[2])
        /\ \A l \in late : ~ExecuteLate(l[2], l[1])
    BY <2>2 DEF LosePending, ExecuteLate
  <2> QED  BY <2>3, <2>4, <2>5, <2>6, <2>7 DEF Next
<1>2. (Spec => []IInv) /\ (Spec => []ClaimInv)
  BY InvariantHolds, ClaimIsKept
<1> HIDE DEF Survives
<1>3. Spec => [][Survives]_vars
  BY <1>1, <1>2, PTL DEF Spec
<1> QED  BY <1>3 DEF LiveIndexSurvives, Survives
=============================================================================
