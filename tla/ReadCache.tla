----------------------------- MODULE ReadCache -----------------------------
(***************************************************************************)
(* The Valkey keyspace behind the shared read cache and the Lua scripts    *)
(* of src/src/read_cache.rs that read and change it.  Valkey runs a script *)
(* atomically, so each script is one action; a script whose guard does not *)
(* hold replies with an error (or "busy", "skip") and changes nothing.     *)
(* Who calls the scripts, and in which order, is left to the modules that  *)
(* extend this one: CacheFence (any caller, at any time) and CacheRuntime  *)
(* (the gateway's request handlers).                                       *)
(***************************************************************************)
EXTENDS Integers, FiniteSets

CONSTANTS
    Identities,   \* READ_CACHE_DEPLOYMENT identities that may ever be chosen
    Tokens,       \* writer token ids, one fresh UUID per admitted writer
    Keys,         \* request digests; a digest covers the semantic identity too
    MaxEpoch,     \* the epoch ADMIT refuses to advance (2^63 - 1 in the code)
    None          \* an absent key, claim, entry or identity

ASSUME MaxEpochAssumption == MaxEpoch \in Nat \ {0}
ASSUME NoneAssumption == None \notin Identities \cup Tokens

VARIABLES
    control,      \* hash  <catalog>:read-cache:control
    claim,        \* string <catalog>:admin, the administrative claim
    catalog,      \* string <catalog>, the authoritative catalog
    lineage,      \* string <catalog>:read-cache:initialized
    tombstones,   \* the identities with a <catalog>:read-cache:identity:<id> key
    entries,      \* the cached responses, by identity and request digest
    saved         \* the entries held by the last AOF rewrite (or snapshot)

keyspace == <<control, claim, catalog, lineage, tombstones, entries, saved>>

----------------------------------------------------------------------------
(* A control key is absent, of another type, a hash that VALIDATE rejects  *)
(* whoever asks (schema, TTL, malformed epoch: "bad"), or a usable hash.   *)
(* writers[t] is the epoch stored under writer:<t>, 0 when the field is    *)
(* absent (ADMIT only stores epochs from 1 on); stray says that the hash   *)
(* has a further field that is no well-formed token.                       *)

NoWriters == [t \in Tokens |-> 0]

Control == [kind: {"none", "other", "bad", "hash"},
            deployment: Identities \cup {None},
            epoch: 0..MaxEpoch,
            state: {"active", "maintenance"},
            writers: [Tokens -> 0..MaxEpoch],
            stray: BOOLEAN]

\* A control key that is absent or not a hash has none of the fields.
Unusable(kind) == [kind |-> kind, deployment |-> None, epoch |-> 0,
                   state |-> "maintenance", writers |-> NoWriters,
                   stray |-> FALSE]

Entry(Responses) == [epoch: 0..MaxEpoch, response: Responses]

EntryTable(Responses) ==
    [Identities -> [Keys -> Entry(Responses) \cup {None}]]

KeyspaceTypeOK(Responses) ==
    /\ control \in Control
    /\ lineage \in Identities \cup {None}
    /\ tombstones \subseteq Identities
    /\ entries \in EntryTable(Responses)
    /\ saved \in EntryTable(Responses)

\* A provisioned catalog on a server the cache was never enabled on.
KeyspaceInit(initialCatalog) ==
    /\ control = Unusable("none")
    /\ claim = None
    /\ catalog = initialCatalog
    /\ lineage = None
    /\ tombstones = {}
    /\ entries = [d \in Identities |-> [k \in Keys |-> None]]
    /\ saved = entries

----------------------------------------------------------------------------
(* VALIDATE, the prologue of every script but the administrative ones.     *)

Valid(d, states) ==
    /\ control.kind = "hash"
    /\ catalog # None
    /\ control.deployment = d
    /\ control.state \in states

\* The hash is in service for an identity.
OpenTo(d) ==
    /\ control.kind = "hash"
    /\ control.deployment = d
    /\ control.state = "active"

\* count == 4: the hash has no field beyond the four mandatory ones.
NoOtherField == control.writers = NoWriters /\ ~control.stray

\* token_fields() returns a list: every other field is a token of an epoch
\* that the hash has reached.
TokenFieldsOK ==
    /\ ~control.stray
    /\ \A t \in Tokens : control.writers[t] <= control.epoch

(* LOOKUP changes nothing.  It answers busy unless the keyspace is quiet;  *)
(* quiet, it issues a ticket for the current epoch, with the response when *)
(* the entry's header names this epoch and with the catalog otherwise.     *)

\* Mutant: the tokens of the writers are not looked at.
QuietDuringWrites(d) == Valid(d, {"active"}) /\ claim = None

Quiet(d) == Valid(d, {"active"}) /\ NoOtherField /\ claim = None

\* Mutant: a response of any epoch is served.
HitOfAnyEpoch(d, k) == Quiet(d) /\ entries[d][k] # None

Hit(d, k) ==
    /\ Quiet(d)
    /\ entries[d][k] # None
    /\ entries[d][k].epoch = control.epoch

\* Mutant: the ticket's epoch is not compared with the current one.
PublishWithAnyTicket(d, ticketEpoch, k, response) ==
    /\ Quiet(d)
    /\ entries' = [entries EXCEPT
            ![d][k] = [epoch |-> control.epoch, response |-> response]]
    /\ UNCHANGED <<control, claim, catalog, lineage, tombstones, saved>>

(* PUBLISH: skipped unless the keyspace is quiet in the ticket's epoch.    *)
Publish(d, ticketEpoch, k, response) ==
    /\ Quiet(d)
    /\ control.epoch = ticketEpoch
    /\ entries' = [entries EXCEPT
            ![d][k] = [epoch |-> control.epoch, response |-> response]]
    /\ UNCHANGED <<control, claim, catalog, lineage, tombstones, saved>>

\* Mutant: the epoch is advanced past its maximum.
AdmitPastMaximum(d, t, nextState) ==
    /\ Valid(d, {"active"})
    /\ claim = None
    /\ TokenFieldsOK
    /\ control.writers[t] = 0
    /\ control' = [control EXCEPT !.epoch = control.epoch + 1,
                                  !.writers[t] = control.epoch + 1,
                                  !.state = nextState]
    /\ UNCHANGED <<claim, catalog, lineage, tombstones, entries, saved>>

\* Mutant: maintenance does not refuse writers.
AdmitInMaintenance(d, t, nextState) ==
    /\ Valid(d, {"active", "maintenance"})
    /\ claim = None
    /\ TokenFieldsOK
    /\ control.epoch # MaxEpoch
    /\ control.writers[t] = 0
    /\ control' = [control EXCEPT !.epoch = control.epoch + 1,
                                  !.writers[t] = control.epoch + 1,
                                  !.state = nextState]
    /\ UNCHANGED <<claim, catalog, lineage, tombstones, entries, saved>>

(* ADMIT: one HSET advances the epoch, records the token and sets the      *)
(* state, "maintenance" for the operator's fence.                          *)
Admit(d, t, nextState) ==
    /\ Valid(d, {"active"})
    /\ claim = None
    /\ TokenFieldsOK
    /\ control.epoch # MaxEpoch
    /\ control.writers[t] = 0
    /\ control' = [control EXCEPT !.epoch = control.epoch + 1,
                                  !.writers[t] = control.epoch + 1,
                                  !.state = nextState]
    /\ UNCHANGED <<claim, catalog, lineage, tombstones, entries, saved>>

(* RELEASE: also while another writer holds the claim, and in maintenance. *)
Release(d, t, tokenEpoch) ==
    /\ Valid(d, {"active", "maintenance"})
    /\ TokenFieldsOK
    /\ control.writers[t] # 0
    /\ control.writers[t] = tokenEpoch
    /\ control' = [control EXCEPT !.writers[t] = 0]
    /\ UNCHANGED <<claim, catalog, lineage, tombstones, entries, saved>>

----------------------------------------------------------------------------
(* The administrative scripts.  ADMIN_VALIDATE compares the catalog with   *)
(* the copy the command has just validated; a catalog that changed in      *)
(* between is refused like an absent one.                                  *)

\* Mutant: an identity that served once may be chosen again.
AdminValidForAnyIdentity(identity) == catalog # None /\ claim = None

AdminValid(identity) ==
    /\ catalog # None
    /\ claim = None
    /\ identity \notin tombstones

Record(identity) ==
    /\ tombstones' = tombstones \cup {identity}
    /\ lineage' = identity

FreshControl(identity) ==
    [kind |-> "hash", deployment |-> identity, epoch |-> 0,
     state |-> "active", writers |-> NoWriters, stray |-> FALSE]

\* Mutant: a lost control key is taken for a cache never enabled.
BootstrapIgnoringLineage(identity, completes) ==
    /\ AdminValid(identity)
    /\ control.kind = "none"
    /\ Record(identity)
    /\ control' = IF completes THEN FreshControl(identity) ELSE control
    /\ UNCHANGED <<claim, catalog, entries, saved>>

(* BOOTSTRAP: the MSET of tombstone and lineage, then the HSET of control. *)
(* Lua does not roll back, so the script may stop after the MSET.          *)
Bootstrap(identity, completes) ==
    /\ AdminValid(identity)
    /\ control.kind = "none"
    /\ lineage = None
    /\ Record(identity)
    /\ control' = IF completes THEN FreshControl(identity) ELSE control
    /\ UNCHANGED <<claim, catalog, entries, saved>>

RecoverGuard(old, new) ==
    /\ new # old
    /\ AdminValid(new)
    /\ lineage = old
    /\ old \in tombstones

\* HSET schema, deployment, epoch, state and PERSIST: the old identity is
\* fenced before the lineage moves.  The other fields stay.
Fenced(old) ==
    [control EXCEPT !.kind = "hash", !.deployment = old, !.epoch = 0,
                    !.state = "maintenance"]

\* HSET deployment, state; then the HDEL of every other field, one by one:
\* the fields still there when the script stops are those in left (and the
\* stray one).
Opened(old, new, left, strayLeft) ==
    [Fenced(old) EXCEPT
        !.deployment = new,
        !.state = "active",
        !.writers = [t \in Tokens |-> IF t \in left THEN control.writers[t]
                                                    ELSE 0],
        !.stray = control.stray /\ strayLeft]

(* RECOVER runs to its end ...                                             *)
Recover(old, new) ==
    /\ RecoverGuard(old, new)
    /\ Record(new)
    /\ control' = Opened(old, new, {}, FALSE)
    /\ UNCHANGED <<claim, catalog, entries, saved>>

\* RECOVER before it has fenced the old identity: a key of another type is
\* deleted, and the HSET leaves a TTL in place for the PERSIST to remove.
HalfFenced(old) ==
    CASE control.kind = "other" -> Unusable("none")
      [] control.kind = "bad"   -> [Fenced(old) EXCEPT !.kind = "bad"]
      [] OTHER                  -> Fenced(old)

(* ... or stops before or after the PERSIST, after the MSET, or among the  *)
(* HDELs.                                                                  *)
RecoverStops(old, new) ==
    /\ RecoverGuard(old, new)
    /\ \/ control' \in {HalfFenced(old), Fenced(old)}
         /\ UNCHANGED <<lineage, tombstones>>
       \/ control' = Fenced(old) /\ Record(new)
       \/ \E left \in SUBSET Tokens, strayLeft \in BOOLEAN :
            control' = Opened(old, new, left, strayLeft) /\ Record(new)
    /\ UNCHANGED <<claim, catalog, entries, saved>>

----------------------------------------------------------------------------
(* The server.  A response carries a TTL and may be evicted; PUBLISH does  *)
(* not reach the append-only file, but a rewrite writes out the responses  *)
(* that memory holds, and a restart brings back those of the last rewrite. *)
(* All other keys are durable (appendfsync always).                        *)

Expire(d, k) ==
    /\ entries[d][k] # None
    /\ entries' = [entries EXCEPT ![d][k] = None]
    /\ UNCHANGED <<control, claim, catalog, lineage, tombstones, saved>>

RewriteAof ==
    /\ saved' = entries
    /\ UNCHANGED <<control, claim, catalog, lineage, tombstones, entries>>

RestartValkey ==
    /\ entries' = saved
    /\ UNCHANGED <<control, claim, catalog, lineage, tombstones, saved>>

(* Someone deletes or overwrites the control key by hand.  A usable hash   *)
(* is not forged: what is left is refused, or has a malformed field.       *)
DamageControl ==
    /\ control.kind \in {"hash", "bad"}
    /\ control.kind = "bad" => control' = Unusable("none")
    /\ control' \in {Unusable("none"), Unusable("other"),
                     [control EXCEPT !.kind = "bad"],
                     [control EXCEPT !.stray = TRUE]}
    /\ UNCHANGED <<claim, catalog, lineage, tombstones, entries, saved>>
============================================================================
