------------------------ MODULE MCDocumentProjection ------------------------
(* Instances of DocumentProjection for TLC: one field of each class, `snake` *)
(* a text field as body_text is, `dotted` what flatten_text takes it for.    *)
EXTENDS DocumentProjection

CONSTANTS a, b, text, snake, dotted, meta, other,
          vText, vSnake, vMeta, vOther

MCReplicaOf == [c \in Clients |-> "replica"]

MCVectorOf == (text :> vText) @@ (snake :> vSnake) @@ (dotted :> vSnake)
                  @@ (meta :> vMeta) @@ (other :> vOther)
MCFieldOf == (vText :> text) @@ (vSnake :> dotted)

Doc(t, m, o) == (text :> t) @@ (snake :> t) @@ (dotted :> None)
                    @@ (meta :> m) @@ (other :> o)

Update(doc, upsert, detect) ==
    [kind |-> "update", doc |-> doc, upsert |-> upsert, detectNoop |-> detect]

Writes == {[kind |-> "index", doc |-> Doc(a, a, None)],
           [kind |-> "create", doc |-> [Doc(b, None, b) EXCEPT ![dotted] = a]]}

Updates == {Update(Doc(b, None, None), Doc(b, None, None), TRUE),
            Update(Doc(None, b, None), None, TRUE),
            Update([Doc(None, b, None) EXCEPT ![dotted] = a], Doc(a, None, None), FALSE),
            Update(Doc(None, None, b), None, TRUE)}

MCOperations == Writes \cup Updates \cup {[kind |-> "delete"]}
MCCreates == [kind: {"create"}, doc: {Doc(a, a, None), Doc(b, None, b)}]

Config(projection, asyncSearch, asyncPayload) ==
    [projection |-> projection, asyncSearch |-> asyncSearch,
     asyncPayload |-> asyncPayload]

MCConfigurations == {Config(TRUE, TRUE, FALSE), Config(FALSE, FALSE, TRUE),
                     Config(FALSE, FALSE, FALSE)}
MCProjected == {Config(TRUE, FALSE, FALSE)}

Symmetric == Permutations(Clients)
=============================================================================
