----------------------------- MODULE MCRequests -----------------------------
(* Requests on small instances.  Every keyword stands at every place, as it *)
(* is and written with %XX, between and behind surplus slashes.             *)
EXTENDS Requests, MCQueryFilter

seg(name) == [name |-> name, encoded |-> FALSE, valid |-> TRUE]
coded(name) == [seg(name) EXCEPT !.encoded = TRUE]
broken == [name |-> "x", encoded |-> TRUE, valid |-> FALSE]

Keywords == {"_bulk", "_msearch", "_search", "_count", "_doc", "_mapping", "_alias",
             "_aliases"}
Others == {"x", "_update", "_create", "_settings", "_refresh"}
Special == {<<"">>, <<"healthz">>, <<"readyz">>, <<"_cluster", "health">>,
            <<"_qdrant_gateway", "compatibility">>}

\* Each of the segments may be encoded, or one of them.
Spellings1(p) == {[i \in DOMAIN p |-> IF i = j THEN coded(p[i]) ELSE seg(p[i])] :
                    j \in 0..Len(p)}

MCPaths ==
    UNION {Spellings1(p) :
            p \in Special \cup {<<k>> : k \in Keywords \cup Others}
                 \cup (({"x"} \cup Keywords) \X (Keywords \cup Others))
                 \cup ({"x", "_alias"} \X (Keywords \cup Others)
                            \X {"x", "_bulk", "_msearch", "_search"})}
        \cup {<<broken, seg("_bulk")>>, <<broken, seg("_msearch")>>,
              <<broken, seg("_search")>>, <<seg("x"), seg("_doc"), broken>>, <<broken>>}
        \cup {<<seg("x"), seg("x"), seg("x"), seg("_bulk")>>,
              <<seg("x"), seg("x"), seg("_search"), seg("x")>>}

plainBody == [fits |-> {"MAX_BODY_BYTES", "MAX_BULK_BYTES"}, utf8 |-> TRUE, json |-> TRUE,
              object |-> TRUE, empty |-> TRUE, cacheable |-> TRUE]

Line(m, p, leading, trailing) ==
    [method |-> m, path |-> p, leading |-> leading, trailing |-> trailing,
     parameters |-> {}, body |-> plainBody]

MCLines ==
    {Line(m, p, FALSE, trailing) :
        m \in Methods, p \in MCPaths, trailing \in BOOLEAN}
    \cup {Line(m, p, TRUE, FALSE) :
        m \in Methods, p \in {q \in MCPaths : Len(q) = 1}}

\* Bodies and parameters, on a line for each table.
MCBodies ==
    {[[line EXCEPT !.body = [w EXCEPT !.empty = w.empty /\ w.object, !.object = w.object /\ w.json]]
            EXCEPT !.parameters = ps] :
        line \in {Line("POST", <<seg("x"), seg("_bulk")>>, FALSE, FALSE),
                  Line("POST", <<seg("x"), seg("_bulk")>>, FALSE, TRUE),
                  Line("GET", <<seg("x"), seg("_doc"), seg("x")>>, FALSE, FALSE),
                  Line("GET", <<seg("healthz")>>, FALSE, FALSE),
                  Line("PUT", <<seg("x")>>, FALSE, FALSE)},
        w \in [fits : SUBSET {"MAX_BODY_BYTES", "MAX_BULK_BYTES"}, utf8 : BOOLEAN, json : BOOLEAN,
               object : BOOLEAN, empty : BOOLEAN, cacheable : {TRUE}],
        ps \in SUBSET Parameters}

MCSearchLines ==
    {[Line("POST", <<seg("x"), seg("_search")>>, FALSE, FALSE)
        EXCEPT !.body.cacheable = FALSE, !.body.empty = FALSE]}

MCRequests ==
    MCLines \cup MCBodies \cup MCSearchLines
        \cup {[r EXCEPT !.body.cacheable = TRUE] : r \in MCSearchLines}
=============================================================================
