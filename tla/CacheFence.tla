----------------------------- MODULE CacheFence ----------------------------
(***************************************************************************)
(* The scripts of ReadCache under the weakest assumptions about their      *)
(* callers.  A ticket or a writer token, once a script has returned it,    *)
(* may be used by any later call, at any time and any number of times: so  *)
(* calls may be delayed, repeated, reordered or lost, replicas may crash,  *)
(* restart or keep an old identity, and an operator's command may stop     *)
(* half way.  Bounds: Identities, Tokens and Keys are small sets, MaxEpoch *)
(* is small enough for ADMIT to meet it.                                   *)
(*                                                                         *)
(* era counts the moments at which the documents or the catalog may begin  *)
(* to change: the admission of a writer and a recovery that reaches its    *)
(* new identity.  It is a history variable; a response is represented by   *)
(* the era of the ticket its reader held, so that it is stale when that    *)
(* era has passed.                                                         *)
(***************************************************************************)
EXTENDS ReadCache

VARIABLES
    era,          \* history: admissions and recoveries so far
    tickets,      \* every ticket LOOKUP has issued
    granted,      \* every writer token ADMIT has granted
    held          \* history: the writers admitted, not released, and not
                  \* declared finished by a recovery

fenceVars == <<era, tickets, granted, held>>
vars == <<keyspace, fenceVars>>

ASSUME NoneIsNoEntry == None \notin Entry(Nat)

Ticket == [deployment: Identities, epoch: 0..MaxEpoch, era: Nat]
WriterToken == [deployment: Identities, token: Tokens, epoch: 0..MaxEpoch]

(* Every variable keeps its type, and an era is never from the future.     *)
TypeOK ==
    /\ KeyspaceTypeOK(Nat)
    /\ era \in Nat
    /\ tickets \subseteq Ticket
    /\ granted \subseteq WriterToken
    /\ held \subseteq Tokens

Init ==
    /\ KeyspaceInit("catalog")
    /\ era = 0
    /\ tickets = {}
    /\ granted = {}
    /\ held = {}

----------------------------------------------------------------------------
(* The gateway's calls.                                                    *)

IssueTicket(d) ==
    /\ Quiet(d)
    /\ tickets' = tickets \cup
            {[deployment |-> d, epoch |-> control.epoch, era |-> era]}
    /\ UNCHANGED <<keyspace, era, granted, held>>

Fill(ticket, k) ==
    /\ Publish(ticket.deployment, ticket.epoch, k, ticket.era)
    /\ UNCHANGED fenceVars

AdmitWriter(d, t, nextState) ==
    /\ \A g \in granted : g.token # t
    /\ Admit(d, t, nextState)
    /\ era' = era + 1
    /\ granted' = granted \cup {[deployment |-> d, token |-> t,
                                 epoch |-> control.epoch + 1]}
    /\ held' = held \cup {t}
    /\ UNCHANGED tickets

ReleaseWriter(g) ==
    /\ Release(g.deployment, g.token, g.epoch)
    /\ held' = held \ {g.token}
    /\ UNCHANGED <<era, tickets, granted>>

(* Claims of admitted administrators and of gateways that run without the  *)
(* cache come and go; the catalog key may be lost and provisioned again.   *)
ChangeCatalog ==
    /\ \/ claim' \in {None, "claimed"} /\ catalog # None /\ UNCHANGED catalog
       \/ catalog' \in {None, "catalog"} /\ claim = None /\ UNCHANGED claim
    /\ UNCHANGED <<control, lineage, tombstones, entries, saved, fenceVars>>

(* The operator's commands.                                                *)
OperatorBootstrap(d) ==
    /\ \E completes \in BOOLEAN : Bootstrap(d, completes)
    /\ UNCHANGED fenceVars

OperatorRecover(old, new) ==
    /\ Recover(old, new) \/ RecoverStops(old, new)
    /\ era' = IF lineage' = new THEN era + 1 ELSE era
    /\ held' = {}
    /\ UNCHANGED <<tickets, granted>>

Server ==
    /\ \/ \E d \in Identities, k \in Keys : Expire(d, k)
       \/ RewriteAof
       \/ RestartValkey
       \/ DamageControl
    /\ UNCHANGED fenceVars

Next ==
    \/ \E d \in Identities : IssueTicket(d) \/ OperatorBootstrap(d)
    \/ \E ticket \in tickets, k \in Keys : Fill(ticket, k)
    \/ \E d \in Identities, t \in Tokens, s \in {"active", "maintenance"} :
            AdmitWriter(d, t, s)
    \/ \E g \in granted : ReleaseWriter(g)
    \/ \E old, new \in Identities : OperatorRecover(old, new)
    \/ ChangeCatalog
    \/ Server

Spec == Init /\ [][Next]_vars

----------------------------------------------------------------------------
(* No lookup, whatever identity it is made under, answers with a response  *)
(* whose reader took its ticket before the last admission of a writer or   *)
(* recovery: read_cache.rs, LOOKUP and PUBLISH against ADMIT and RECOVER.  *)
NoStaleHit ==
    \A d \in Identities, k \in Keys :
        Hit(d, k) => entries[d][k].response = era

(* While a writer is admitted, LOOKUP issues no ticket and no hit, to any  *)
(* replica: the token outlives a lost control key, and no sequence of      *)
(* operator commands opens the cache around a writer it has not declared   *)
(* finished.                                                               *)
HeldWriterFences ==
    held # {} => \A d \in Identities : ~Quiet(d)

(* An identity is opened for service at most once in its life: epoch 0 is  *)
(* never served twice under one name, although RECOVER resets the epoch    *)
(* of the old identity before it leaves it.                                *)
IdentityOpensOnce ==
    [][\A d \in Identities : ~OpenTo(d) /\ OpenTo(d)' => d \notin tombstones]_vars

(* "Persistent maintenance fence. Stopping/restarting this process never    *)
(* clears it" (read_cache.rs): the cache leaves maintenance only with a    *)
(* change of lineage, whatever writers, commands and replicas do.          *)
MaintenanceHolds ==
    [][control.state = "maintenance" /\ control'.state = "active"
            => lineage' # lineage]_vars

(* The scripts implement the abstract fence: see WriteFence.               *)
Filled == {k \in Keys : \E d \in Identities, table \in {entries, saved} :
              table[d][k] # None /\ table[d][k].response = era}

Fence == INSTANCE WriteFence WITH
    writers  <- held,
    ticketed <- \E ticket \in tickets : ticket.era = era,
    filled   <- Filled,
    cached   <- {k \in Keys : \E d \in Identities : Hit(d, k)}

ImplementsWriteFence == Fence!Spec
============================================================================
