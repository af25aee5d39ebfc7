----------------------------- MODULE WriteFence ----------------------------
(***************************************************************************)
(* What the coordination of the shared read cache promises, with none of   *)
(* its means (no epochs, no identities, no hash fields): admitting a       *)
(* writer takes back, at once, every cached response and every permission  *)
(* to cache one, and nothing is cached while a writer is admitted.         *)
(***************************************************************************)
CONSTANTS Tokens, Keys

VARIABLES
    writers,      \* the writers admitted and not yet released
    ticketed,     \* a read may fill the cache in the current generation
    filled,       \* the requests answered into the cache in this generation
    cached        \* the requests that a lookup would answer from the cache

fence == <<writers, ticketed, filled, cached>>

Init ==
    /\ writers = {}
    /\ ticketed = FALSE
    /\ filled = {}
    /\ cached = {}

NewGeneration ==
    /\ ticketed' = FALSE
    /\ filled' = {}
    /\ cached' = {}

Admit(t) ==
    /\ t \notin writers
    /\ writers' = writers \cup {t}
    /\ NewGeneration

\* Responses of this generation may disappear and, with a restart of the
\* store or the end of a suspension, come back; no other ever does.
Recall(readable) == cached' \subseteq readable /\ (writers' # {} => cached' = {})

Release(t) ==
    /\ t \in writers
    /\ writers' = writers \ {t}
    /\ UNCHANGED <<ticketed, filled>>
    /\ Recall(filled)

IssueTicket ==
    /\ writers = {}
    /\ ticketed' = TRUE
    /\ UNCHANGED <<writers, filled, cached>>

Fill(k) ==
    /\ writers = {} /\ ticketed
    /\ filled' = filled \cup {k}
    /\ cached' = cached \cup {k}
    /\ UNCHANGED <<writers, ticketed>>

Suspend ==
    /\ filled' \subseteq filled
    /\ Recall(filled)
    /\ UNCHANGED <<writers, ticketed>>

\* The operator has reconciled the backend: whoever wrote is finished.
Reopen ==
    /\ writers' = {}
    /\ NewGeneration

Next ==
    \/ \E t \in Tokens : Admit(t) \/ Release(t)
    \/ \E k \in Keys : Fill(k)
    \/ IssueTicket
    \/ Suspend
    \/ Reopen

Spec == Init /\ [][Next]_fence
============================================================================
