-------------------------- MODULE MCIndexLifecycle --------------------------
(* Instances of IndexLifecycle for TLC: three names, of which the second   *)
(* collides with the first one's documents and the third with its          *)
(* searches.                                                               *)
EXTENDS IndexLifecycle, TLC

CONSTANTS n1, n2, n3, c1, c2, c3, f

MCSearchOf == (n1 :> c1) @@ (n2 :> c2) @@ (n3 :> c1)
MCDocumentsOf == (n1 :> c2) @@ (n2 :> c3) @@ (n3 :> c2)

Add(a, i) == [kind |-> "add", alias |-> a, index |-> i]
Remove(a, i) == [kind |-> "remove", alias |-> a, index |-> i]

AliasBatches == {<<Add(n3, n1)>>, <<Add(n2, n1)>>, <<Add(n3, n2)>>,
                 <<Add(n3, n2), Remove(n3, n1)>>, <<Remove(n3, n1)>>}

MCOperations ==
    [kind: {"create"}, name: {n1, n2, n3}, fields: {{f}}]
        \cup [kind: {"mapping"}, name: {n1, n3}, fields: {{f}}]
        \cup [kind: {"create"}, name: {n1}, fields: {{}}]
        \cup [kind: {"delete"}, name: {n1, n2, n3}]
        \cup [kind: {"aliases"}, actions: AliasBatches]

Symmetric == Permutations(Requests)
=============================================================================
