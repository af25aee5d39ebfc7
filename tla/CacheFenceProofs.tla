-------------------------- MODULE CacheFenceProofs -------------------------
EXTENDS CacheFence, ReadCacheProofs

(* An identity without a tombstone has never been in use.                  *)
UnusedIdentityIsClean ==
    \A d \in Identities \ tombstones :
        /\ ~OpenTo(d)
        /\ \A k \in Keys : entries[d][k] = None /\ saved[d][k] = None
        /\ \A ticket \in tickets : ticket.deployment # d

(* The identity in service is the one the lineage names.                   *)
OpenIdentityIsLineage ==
    \A d \in Identities : OpenTo(d) => lineage = d

(* Nothing of the identity in service is ahead of its epoch, and what is   *)
(* of its epoch is of the present era: the responses in memory and those   *)
(* a restart can bring back ...                                            *)
Current(epoch, of) ==
    /\ epoch <= control.epoch
    /\ epoch = control.epoch => of = era

EntriesCurrent(table) ==
    \A d \in Identities, k \in Keys :
        OpenTo(d) /\ table[d][k] # None
            => Current(table[d][k].epoch, table[d][k].response)

(* ... and the tickets.                                                    *)
TicketsCurrent ==
    \A ticket \in tickets :
        OpenTo(ticket.deployment)
            => Current(ticket.epoch, ticket.era)

(* The hash in service has the token of every writer still held.           *)
HeldTokensRecorded ==
    \A d \in Identities : OpenTo(d) => \A t \in held : control.writers[t] # 0

NoWriterBeforeBootstrap == lineage = None => held = {}

IInv ==
    /\ TypeOK
    /\ UnusedIdentityIsClean
    /\ OpenIdentityIsLineage
    /\ EntriesCurrent(entries)
    /\ EntriesCurrent(saved)
    /\ TicketsCurrent
    /\ HeldTokensRecorded
    /\ NoWriterBeforeBootstrap

----------------------------------------------------------------------------

LEMMA InitType == Init => TypeOK
  BY MaxEpochAssumption
  DEF Init, TypeOK, KeyspaceInit, KeyspaceTypeOK, Control, Unusable,
      NoWriters, EntryTable

LEMMA NextType == TypeOK /\ [Next]_vars => TypeOK'
<1> SUFFICES ASSUME TypeOK, [Next]_vars PROVE TypeOK'
  OBVIOUS
<1> USE DEF TypeOK, KeyspaceTypeOK
<1>1. ASSUME NEW d \in Identities, IssueTicket(d) PROVE TypeOK'
  <2>1. control.epoch \in 0..MaxEpoch
    BY DEF Control
  <2>2. [deployment |-> d, epoch |-> control.epoch, era |-> era] \in Ticket
    BY <2>1 DEF Ticket
  <2>3. QED
    BY <1>1, <2>2 DEF IssueTicket, keyspace
<1>2. ASSUME NEW d \in Identities, OperatorBootstrap(d) PROVE TypeOK'
  <2>1. control' \in Control
    BY <1>2, ControlValues DEF OperatorBootstrap, Bootstrap
  <2>2. QED
    BY <1>2, <2>1 DEF OperatorBootstrap, Bootstrap, fenceVars, Record
<1>3. ASSUME NEW ticket \in tickets, NEW k \in Keys, Fill(ticket, k)
      PROVE TypeOK'
  <2>1. [epoch |-> control.epoch, response |-> ticket.era] \in Entry(Nat)
    BY DEF Ticket, Control, Entry
  <2>2. entries' \in EntryTable(Nat)
    BY <1>3, <2>1 DEF Fill, Publish, EntryTable
  <2>3. QED
    BY <1>3, <2>2 DEF Fill, Publish, fenceVars
<1>4. ASSUME NEW d \in Identities, NEW t \in Tokens,
             NEW s \in {"active", "maintenance"}, AdmitWriter(d, t, s)
      PROVE TypeOK'
  <2>1. control.epoch + 1 \in 0..MaxEpoch
    BY <1>4, NextEpoch DEF AdmitWriter, Admit, Control
  <2>2. control' \in Control
    BY <1>4, <2>1 DEF AdmitWriter, Admit, Control
  <2>3. granted' \subseteq WriterToken /\ held' \subseteq Tokens /\ era' \in Nat
    BY <1>4, <2>1 DEF AdmitWriter, WriterToken
  <2>4. QED
    BY <1>4, <2>2, <2>3 DEF AdmitWriter, Admit
<1>5. ASSUME NEW g \in granted, ReleaseWriter(g) PROVE TypeOK'
  <2>1. 0 \in 0..MaxEpoch
    BY MaxEpochAssumption
  <2>2. control' \in Control
    BY <1>5, <2>1 DEF ReleaseWriter, Release, Control
  <2>3. QED
    BY <1>5, <2>2 DEF ReleaseWriter, Release
<1>6. ASSUME NEW old \in Identities, NEW new \in Identities,
             OperatorRecover(old, new)
      PROVE TypeOK'
  <2>1. control' \in Control
    <3>1. CASE Recover(old, new)
      BY <3>1, ControlValues DEF Recover
    <3>2. CASE RecoverStops(old, new)
      BY <3>2, ControlValues DEF RecoverStops
    <3>3. QED
      BY <1>6, <3>1, <3>2 DEF OperatorRecover
  <2>2. lineage' \in Identities \cup {None} /\ tombstones' \subseteq Identities
    BY <1>6 DEF OperatorRecover, Recover, RecoverStops, Record
  <2>3. UNCHANGED <<entries, saved, tickets, granted>>
    BY <1>6 DEF OperatorRecover, Recover, RecoverStops
  <2>4. era' \in Nat /\ held' = {}
    BY <1>6 DEF OperatorRecover
  <2>5. QED
    BY <2>1, <2>2, <2>3, <2>4
<1>7. CASE ChangeCatalog
  BY <1>7 DEF ChangeCatalog, fenceVars
<1>8. CASE Server
  <2>1. ASSUME NEW d \in Identities, NEW k \in Keys, Expire(d, k)
        PROVE TypeOK'
    <3>1. entries' \in EntryTable(Nat)
      BY <2>1 DEF Expire, EntryTable
    <3>2. QED
      BY <1>8, <2>1, <3>1 DEF Server, Expire, fenceVars
  <2>2. CASE RewriteAof \/ RestartValkey
    BY <1>8, <2>2 DEF Server, RewriteAof, RestartValkey, fenceVars
  <2>3. CASE DamageControl
    <3>1. control' \in Control
      BY <2>3, DamagedControl DEF DamageControl
    <3>2. QED
      BY <1>8, <2>3, <3>1 DEF Server, DamageControl, fenceVars
  <2>4. QED
    BY <1>8, <2>1, <2>2, <2>3 DEF Server
<1>9. CASE UNCHANGED vars
  BY <1>9 DEF vars, keyspace, fenceVars
<1>10. QED
  BY <1>1, <1>2, <1>3, <1>4, <1>5, <1>6, <1>7, <1>8, <1>9 DEF Next

(* Every reachable state has the types TypeOK gives: the epoch of the      *)
(* control hash, in particular, never passes the bound ADMIT guards.       *)
THEOREM TypeCorrect == Spec => []TypeOK
  BY InitType, NextType, PTL DEF Spec

----------------------------------------------------------------------------

(* The conjuncts of IInv that relate the control hash to the rest.         *)
Coherent ==
    /\ UnusedIdentityIsClean
    /\ OpenIdentityIsLineage
    /\ EntriesCurrent(entries)
    /\ EntriesCurrent(saved)
    /\ TicketsCurrent
    /\ HeldTokensRecorded
    /\ NoWriterBeforeBootstrap

LEMMA InitCoherent == Init => Coherent
  BY DEF Init, KeyspaceInit, Unusable, OpenTo, Coherent, UnusedIdentityIsClean,
         OpenIdentityIsLineage, EntriesCurrent, TicketsCurrent,
         HeldTokensRecorded, NoWriterBeforeBootstrap

(* A step that keeps the eras, and opens no identity.                      *)
LEMMA NothingOpens ==
  ASSUME IInv, TypeOK',
         \A d \in Identities : ~OpenTo(d)',
         tombstones \subseteq tombstones',
         tickets' = tickets,
         \A d \in Identities, k \in Keys :
            /\ entries'[d][k] # None
                 => entries[d][k] # None \/ saved[d][k] # None
            /\ saved'[d][k] # None
                 => entries[d][k] # None \/ saved[d][k] # None,
         lineage' = None => lineage = None /\ held' = held
  PROVE  Coherent'
<1>1. UnusedIdentityIsClean'
  BY DEF IInv, UnusedIdentityIsClean
<1>2. NoWriterBeforeBootstrap'
  BY DEF IInv, NoWriterBeforeBootstrap
<1>3. QED
  BY <1>1, <1>2 DEF Coherent, OpenIdentityIsLineage, EntriesCurrent,
                    TicketsCurrent, HeldTokensRecorded, TypeOK, Ticket

(* An identity opened for the first time finds nothing of its own.         *)
LEMMA FreshIdentityOpens ==
  ASSUME IInv, TypeOK', NEW new \in Identities, new \notin tombstones,
         control'.deployment = new,
         Record(new), held' = {},
         UNCHANGED <<entries, saved, tickets>>
  PROVE  Coherent'
<1>1. \A d \in Identities : OpenTo(d)' => d = new
  BY DEF OpenTo
<1>2. /\ \A k \in Keys : entries[new][k] = None /\ saved[new][k] = None
      /\ \A ticket \in tickets : ticket.deployment # new
  BY DEF IInv, UnusedIdentityIsClean
<1>3. UnusedIdentityIsClean'
  BY <1>1 DEF IInv, UnusedIdentityIsClean, Record
<1>4. OpenIdentityIsLineage' /\ HeldTokensRecorded' /\ NoWriterBeforeBootstrap'
  BY <1>1 DEF Record, OpenIdentityIsLineage, HeldTokensRecorded,
              NoWriterBeforeBootstrap
<1>5. EntriesCurrent(entries)' /\ EntriesCurrent(saved)' /\ TicketsCurrent'
  BY <1>1, <1>2 DEF EntriesCurrent, TicketsCurrent, TypeOK, Ticket
<1>6. QED
  BY <1>3, <1>4, <1>5 DEF Coherent

LEMMA NextCoherent == IInv /\ [Next]_vars => Coherent'
<1> SUFFICES ASSUME IInv, [Next]_vars PROVE Coherent'
  OBVIOUS
<1>0. TypeOK /\ TypeOK' /\ Coherent
  BY NextType DEF IInv, Coherent
<1>1. ASSUME NEW d \in Identities, IssueTicket(d) PROVE Coherent'
  <2>1. OpenTo(d)
    BY <1>1 DEF IssueTicket, Quiet, Valid, OpenTo
  <2>2. /\ UNCHANGED <<control, lineage, tombstones, entries, saved, era, held>>
        /\ tickets' = tickets \cup
             {[deployment |-> d, epoch |-> control.epoch, era |-> era]}
    BY <1>1 DEF IssueTicket, keyspace
  <2>3. UnusedIdentityIsClean'
    BY <1>0, <2>1, <2>2 DEF Coherent, UnusedIdentityIsClean, OpenTo
  <2>4. TicketsCurrent'
    BY <1>0, <2>2 DEF Coherent, TicketsCurrent, Current, OpenTo, TypeOK,
                      KeyspaceTypeOK, Control
  <2>5. QED
    BY <1>0, <2>2, <2>3, <2>4
    DEF Coherent, OpenIdentityIsLineage, EntriesCurrent, HeldTokensRecorded,
        NoWriterBeforeBootstrap, OpenTo, Current
<1>2. ASSUME NEW d \in Identities, OperatorBootstrap(d) PROVE Coherent'
  <2>1. PICK completes \in BOOLEAN : Bootstrap(d, completes)
    BY <1>2 DEF OperatorBootstrap
  <2>2. UNCHANGED <<entries, saved, tickets, era, held>>
    BY <1>2, <2>1 DEF OperatorBootstrap, Bootstrap, fenceVars
  <2>3. held' = {} /\ d \notin tombstones
    BY <1>0, <2>1, <2>2
    DEF Bootstrap, AdminValid, Coherent, NoWriterBeforeBootstrap
  <2>4. CASE completes
    BY <2>1, <2>2, <2>3, <2>4, <1>0, FreshIdentityOpens
    DEF Bootstrap, FreshControl
  <2>5. CASE ~completes
    <3>1. \A i \in Identities : ~OpenTo(i)'
      BY <2>1, <2>5 DEF Bootstrap, OpenTo
    <3>2. QED
      BY <1>0, <2>1, <2>2, <3>1, NothingOpens, NoneAssumption
      DEF Bootstrap, Record
  <2>6. QED
    BY <2>4, <2>5
<1>3. ASSUME NEW ticket \in tickets, NEW k \in Keys, Fill(ticket, k)
      PROVE Coherent'
  <2> DEFINE d == ticket.deployment
             entry == [epoch |-> control.epoch, response |-> ticket.era]
  <2>1. /\ d \in Identities
        /\ OpenTo(d)
        /\ ticket.epoch = control.epoch
        /\ entries' = [entries EXCEPT ![d][k] = entry]
        /\ UNCHANGED <<control, lineage, tombstones, saved, fenceVars>>
    BY <1>0, <1>3 DEF Fill, Publish, Quiet, Valid, OpenTo, TypeOK, Ticket
  <2>2. ticket.era = era
    BY <1>0, <2>1 DEF Coherent, TicketsCurrent, Current
  <2>3. \A i \in Identities, j \in Keys :
           entries'[i][j] = IF i = d /\ j = k THEN entry ELSE entries[i][j]
    BY <1>0, <2>1 DEF TypeOK, KeyspaceTypeOK, EntryTable
  <2>4. UnusedIdentityIsClean'
    BY <1>0, <2>1, <2>3
    DEF Coherent, UnusedIdentityIsClean, OpenTo, fenceVars
  <2>5. EntriesCurrent(entries)'
    <3> SUFFICES ASSUME NEW i \in Identities, NEW j \in Keys,
                        OpenTo(i)', entries'[i][j] # None
                 PROVE  Current(entries[i][j].epoch, entries[i][j].response)'
      BY DEF EntriesCurrent
    <3>1. CASE i = d /\ j = k
      BY <1>0, <2>1, <2>2, <2>3, <3>1
      DEF Current, fenceVars, TypeOK, KeyspaceTypeOK, Control
    <3>2. CASE ~(i = d /\ j = k)
      BY <1>0, <2>1, <2>3, <3>2
      DEF Coherent, EntriesCurrent, Current, OpenTo, fenceVars
    <3>3. QED
      BY <3>1, <3>2
  <2>6. QED
    BY <1>0, <2>1, <2>4, <2>5
    DEF Coherent, OpenIdentityIsLineage, EntriesCurrent, HeldTokensRecorded,
        NoWriterBeforeBootstrap, TicketsCurrent, OpenTo, Current, fenceVars
<1>4. ASSUME NEW d \in Identities, NEW t \in Tokens,
             NEW s \in {"active", "maintenance"}, AdmitWriter(d, t, s)
      PROVE Coherent'
  <2>1. /\ OpenTo(d)
        /\ era' = era + 1 /\ held' = held \cup {t}
        /\ UNCHANGED <<lineage, tombstones, entries, saved, tickets>>
    BY <1>4 DEF AdmitWriter, Admit, Valid, OpenTo
  <2>2. /\ control.epoch \in Nat
        /\ control'.epoch = control.epoch + 1
        /\ control'.deployment = d
        /\ control'.writers[t] = control.epoch + 1
        /\ \A u \in Tokens : u # t => control'.writers[u] = control.writers[u]
    BY <1>0, <1>4, <2>1
    DEF AdmitWriter, Admit, OpenTo, TypeOK, KeyspaceTypeOK, Control
  <2>3. \A i \in Identities : OpenTo(i)' => i = d
    BY <2>2 DEF OpenTo
  <2>4. UnusedIdentityIsClean' /\ OpenIdentityIsLineage'
    BY <1>0, <2>1, <2>3
    DEF Coherent, UnusedIdentityIsClean, OpenIdentityIsLineage
  <2>5. /\ \A k \in Keys : entries[d][k] # None =>
                               entries[d][k].epoch \in 0..control.epoch
        /\ \A k \in Keys : saved[d][k] # None =>
                               saved[d][k].epoch \in 0..control.epoch
        /\ \A ticket \in tickets : ticket.deployment = d =>
                               ticket.epoch \in 0..control.epoch
    BY <1>0, <2>1, <2>2
    DEF Coherent, EntriesCurrent, TicketsCurrent, Current, TypeOK,
        KeyspaceTypeOK, EntryTable, Entry, Ticket
  <2>6. EntriesCurrent(entries)' /\ EntriesCurrent(saved)' /\ TicketsCurrent'
    BY <2>1, <2>2, <2>3, <2>5 DEF EntriesCurrent, TicketsCurrent, Current, OpenTo
  <2>7. HeldTokensRecorded'
    BY <1>0, <2>1, <2>2, <2>3 DEF Coherent, HeldTokensRecorded, TypeOK
  <2>8. NoWriterBeforeBootstrap'
    BY <1>0, <2>1, NoneAssumption
    DEF Coherent, OpenIdentityIsLineage, NoWriterBeforeBootstrap
  <2>9. QED
    BY <2>4, <2>6, <2>7, <2>8 DEF Coherent
<1>5. ASSUME NEW g \in granted, ReleaseWriter(g) PROVE Coherent'
  <2>1. /\ \A i \in Identities : OpenTo(i)' = OpenTo(i)
        /\ control'.epoch = control.epoch
        /\ \A u \in Tokens : u # g.token => control'.writers[u] = control.writers[u]
        /\ held' = held \ {g.token}
        /\ UNCHANGED <<lineage, tombstones, entries, saved, tickets, era>>
    BY <1>0, <1>5
    DEF ReleaseWriter, Release, OpenTo, TypeOK, KeyspaceTypeOK, Control
  <2>2. HeldTokensRecorded'
    BY <1>0, <2>1 DEF Coherent, HeldTokensRecorded, TypeOK
  <2>3. EntriesCurrent(entries)' /\ EntriesCurrent(saved)' /\ TicketsCurrent'
    BY <1>0, <2>1 DEF Coherent, EntriesCurrent, TicketsCurrent, Current, TypeOK,
                      Ticket
  <2>4. QED
    BY <1>0, <2>1, <2>2, <2>3
    DEF Coherent, UnusedIdentityIsClean, OpenIdentityIsLineage,
        NoWriterBeforeBootstrap
<1>6. ASSUME NEW old \in Identities, NEW new \in Identities,
             OperatorRecover(old, new)
      PROVE Coherent'
  <2>1. /\ held' = {} /\ new \notin tombstones
        /\ UNCHANGED <<entries, saved, tickets>>
    BY <1>6 DEF OperatorRecover, Recover, RecoverStops, RecoverGuard, AdminValid
  <2>2. CASE control' \in {HalfFenced(old), Fenced(old)}
    <3>1. \A i \in Identities : ~OpenTo(i)'
      BY <1>0, <2>2, FencedIsClosed DEF OpenTo, TypeOK, KeyspaceTypeOK
    <3>2. /\ tombstones \subseteq tombstones'
          /\ lineage' # None
      BY <1>6, NoneAssumption
      DEF OperatorRecover, Recover, RecoverStops, RecoverGuard, Record
    <3>3. QED
      BY <1>0, <2>1, <3>1, <3>2, NothingOpens
  <2>3. ASSUME NEW left \in SUBSET Tokens, NEW strayLeft \in BOOLEAN,
               control' = Opened(old, new, left, strayLeft), Record(new)
        PROVE  Coherent'
    <3>1. control'.deployment = new
      BY <1>0, <2>3 DEF Opened, Fenced, TypeOK, KeyspaceTypeOK, Control
    <3>2. QED
      BY <1>0, <2>1, <2>3, <3>1, FreshIdentityOpens
  <2>4. QED
    BY <1>6, <2>2, <2>3 DEF OperatorRecover, Recover, RecoverStops
<1>7. CASE ChangeCatalog
  BY <1>0, <1>7
  DEF ChangeCatalog, fenceVars, Coherent, UnusedIdentityIsClean,
      OpenIdentityIsLineage, EntriesCurrent, TicketsCurrent,
      HeldTokensRecorded, NoWriterBeforeBootstrap, OpenTo, Current
<1>8. CASE Server
  <2>1. UNCHANGED fenceVars
    BY <1>8 DEF Server
  <2>2. ASSUME NEW d \in Identities, NEW k \in Keys, Expire(d, k)
        PROVE Coherent'
    <3>1. \A i \in Identities, j \in Keys :
             entries'[i][j] # None => entries'[i][j] = entries[i][j]
      BY <1>0, <2>2 DEF Expire, TypeOK, KeyspaceTypeOK, EntryTable
    <3>2. UnusedIdentityIsClean'
      BY <1>0, <2>1, <2>2, <3>1
      DEF Expire, fenceVars, Coherent, UnusedIdentityIsClean, OpenTo
    <3>3. EntriesCurrent(entries)'
      BY <1>0, <2>1, <2>2, <3>1
      DEF Expire, fenceVars, Coherent, EntriesCurrent, Current, OpenTo
    <3>4. QED
      BY <1>0, <2>1, <2>2, <3>2, <3>3
      DEF Expire, fenceVars, Coherent, OpenIdentityIsLineage, EntriesCurrent,
          TicketsCurrent, HeldTokensRecorded, NoWriterBeforeBootstrap, OpenTo,
          Current
  <2>3. CASE RewriteAof \/ RestartValkey
    BY <1>0, <2>1, <2>3
    DEF RewriteAof, RestartValkey, fenceVars, Coherent, UnusedIdentityIsClean,
        OpenIdentityIsLineage, EntriesCurrent, TicketsCurrent,
        HeldTokensRecorded, NoWriterBeforeBootstrap, OpenTo, Current
  <2>4. CASE DamageControl
    <3>1. \/ \A i \in Identities : ~OpenTo(i)'
          \/ control' = [control EXCEPT !.stray = TRUE]
      BY <1>0, <2>4
      DEF DamageControl, Unusable, OpenTo, TypeOK, KeyspaceTypeOK, Control
    <3>2. CASE \A i \in Identities : ~OpenTo(i)'
      BY <1>0, <2>1, <2>4, <3>2, NothingOpens DEF DamageControl, fenceVars
    <3>3. CASE control' = [control EXCEPT !.stray = TRUE]
      <4>1. /\ \A i \in Identities : OpenTo(i)' = OpenTo(i)
            /\ control'.epoch = control.epoch
            /\ control'.writers = control.writers
        BY <1>0, <3>3 DEF OpenTo, TypeOK, KeyspaceTypeOK, Control
      <4>2. QED
        BY <1>0, <2>1, <2>4, <4>1
        DEF DamageControl, fenceVars, Coherent, UnusedIdentityIsClean,
            OpenIdentityIsLineage, EntriesCurrent, TicketsCurrent,
            HeldTokensRecorded, NoWriterBeforeBootstrap, Current, TypeOK, Ticket
    <3>4. QED
      BY <3>1, <3>2, <3>3
  <2>5. QED
    BY <1>8, <2>2, <2>3, <2>4 DEF Server
<1>9. CASE UNCHANGED vars
  BY <1>0, <1>9
  DEF vars, keyspace, fenceVars, Coherent, UnusedIdentityIsClean,
      OpenIdentityIsLineage, EntriesCurrent, TicketsCurrent,
      HeldTokensRecorded, NoWriterBeforeBootstrap, OpenTo, Current
<1>10. QED
  BY <1>1, <1>2, <1>3, <1>4, <1>5, <1>6, <1>7, <1>8, <1>9 DEF Next

LEMMA Invariance == Spec => []IInv
<1>1. Init => IInv
  BY InitType, InitCoherent DEF IInv, Coherent
<1>2. IInv /\ [Next]_vars => IInv'
  BY NextType, NextCoherent DEF IInv, Coherent
<1>3. QED
  BY <1>1, <1>2, PTL DEF Spec

(* No lookup ever answers with a response read before the last admission   *)
(* of a writer or recovery (LOOKUP, PUBLISH against ADMIT and RECOVER),    *)
(* for any number of replicas, writers, identities and requests.           *)
THEOREM HitsAreCurrent == Spec => []NoStaleHit
<1>1. IInv => NoStaleHit
  BY DEF IInv, NoStaleHit, Hit, Quiet, Valid, OpenTo, EntriesCurrent, Current
<1>2. QED
  BY <1>1, Invariance, PTL

(* While a writer is admitted and not declared finished, LOOKUP serves     *)
(* nobody (LOOKUP's count against ADMIT, RELEASE, BOOTSTRAP and RECOVER).  *)
THEOREM HeldWritersFence == Spec => []HeldWriterFences
<1>1. IInv => HeldWriterFences
  BY DEF IInv, HeldWriterFences, HeldTokensRecorded, Quiet, Valid, OpenTo,
         NoOtherField, NoWriters, TypeOK
<1>2. QED
  BY <1>1, Invariance, PTL

(* An identity is opened for service only while it has no tombstone        *)
(* (BOOTSTRAP and RECOVER, the only scripts that make the state active).   *)
THEOREM IdentitiesOpenOnce == Spec => IdentityOpensOnce
<1>1. ASSUME IInv, [Next]_vars, NEW d \in Identities, ~OpenTo(d), OpenTo(d)'
      PROVE  d \notin tombstones
  <2>1. TypeOK /\ control' # control
    BY <1>1 DEF IInv, OpenTo
  <2>2. ASSUME NEW i \in Identities, OperatorBootstrap(i) PROVE d \notin tombstones
    BY <1>1, <2>1, <2>2 DEF OperatorBootstrap, Bootstrap, AdminValid,
                            FreshControl, OpenTo
  <2>3. ASSUME NEW old \in Identities, NEW new \in Identities,
               OperatorRecover(old, new)
        PROVE  d \notin tombstones
    <3>1. CASE control' \in {HalfFenced(old), Fenced(old)}
      BY <1>1, <2>1, <3>1, FencedIsClosed DEF OpenTo, TypeOK, KeyspaceTypeOK
    <3>2. ASSUME NEW left \in SUBSET Tokens, NEW strayLeft \in BOOLEAN,
                 control' = Opened(old, new, left, strayLeft)
          PROVE  d \notin tombstones
      BY <1>1, <2>1, <2>3, <3>2
      DEF OperatorRecover, Recover, RecoverStops, RecoverGuard, AdminValid,
          Opened, Fenced, OpenTo, TypeOK, KeyspaceTypeOK, Control
    <3>3. QED
      BY <2>3, <3>1, <3>2 DEF OperatorRecover, Recover, RecoverStops
  <2>4. ASSUME NEW i \in Identities, NEW t \in Tokens,
               NEW s \in {"active", "maintenance"}, AdmitWriter(i, t, s)
        PROVE  FALSE
    BY <1>1, <2>1, <2>4 DEF AdmitWriter, Admit, Valid, OpenTo, TypeOK,
                            KeyspaceTypeOK, Control
  <2>5. ASSUME NEW g \in granted, ReleaseWriter(g) PROVE FALSE
    BY <1>1, <2>1, <2>5 DEF ReleaseWriter, Release, OpenTo, TypeOK,
                            KeyspaceTypeOK, Control
  <2>6. CASE DamageControl
    BY <1>1, <2>1, <2>6 DEF DamageControl, Unusable, OpenTo, TypeOK,
                            KeyspaceTypeOK, Control
  <2>7. ASSUME ~DamageControl, Server \/ ChangeCatalog \/ UNCHANGED vars
        PROVE  FALSE
    BY <2>1, <2>7 DEF Server, Expire, RewriteAof, RestartValkey, ChangeCatalog,
                      vars, keyspace
  <2>8. ASSUME \/ \E i \in Identities : IssueTicket(i)
               \/ \E ticket \in tickets, k \in Keys : Fill(ticket, k)
        PROVE  FALSE
    BY <2>1, <2>8 DEF IssueTicket, keyspace, Fill, Publish
  <2>9. QED
    BY <1>1, <2>2, <2>3, <2>4, <2>5, <2>6, <2>7, <2>8 DEF Next
<1>2. IInv /\ [Next]_vars =>
        [\A d \in Identities : ~OpenTo(d) /\ OpenTo(d)' => d \notin tombstones]_vars
  BY <1>1
<1>3. QED
  BY <1>2, Invariance, PTL DEF Spec, IdentityOpensOnce

(* Nothing but a change of lineage ends maintenance (ADMIT, RELEASE and    *)
(* the interrupted administrative scripts).                                *)
THEOREM MaintenanceIsPersistent == Spec => MaintenanceHolds
<1>1. ASSUME TypeOK, [Next]_vars,
             control.state = "maintenance", control'.state = "active"
      PROVE  lineage' # lineage
  <2>1. control' # control
    BY <1>1
  <2>2. ASSUME NEW d \in Identities, OperatorBootstrap(d)
        PROVE  lineage' # lineage
    BY <1>1, <2>2, NoneAssumption DEF OperatorBootstrap, Bootstrap, Record
  <2>3. ASSUME NEW old \in Identities, NEW new \in Identities,
               OperatorRecover(old, new)
        PROVE  lineage' # lineage
    <3>1. control' \notin {HalfFenced(old), Fenced(old)}
      BY <1>1, FencedIsClosed DEF TypeOK, KeyspaceTypeOK
    <3>2. Record(new) /\ lineage = old /\ new # old
      BY <2>3, <3>1 DEF OperatorRecover, Recover, RecoverStops, RecoverGuard
    <3>3. QED
      BY <3>2 DEF Record
  <2>4. ASSUME NEW d \in Identities, NEW t \in Tokens,
               NEW s \in {"active", "maintenance"}, AdmitWriter(d, t, s)
        PROVE  FALSE
    BY <1>1, <2>4 DEF AdmitWriter, Admit, Valid
  <2>5. ASSUME NEW g \in granted, ReleaseWriter(g) PROVE FALSE
    BY <1>1, <2>5 DEF ReleaseWriter, Release, TypeOK, KeyspaceTypeOK, Control
  <2>6. CASE DamageControl
    BY <1>1, <2>6 DEF DamageControl, Unusable, TypeOK, KeyspaceTypeOK, Control
  <2>7. ASSUME ~DamageControl, Server \/ ChangeCatalog \/ UNCHANGED vars
        PROVE  FALSE
    BY <2>1, <2>7 DEF Server, Expire, RewriteAof, RestartValkey, ChangeCatalog,
                      vars, keyspace
  <2>8. ASSUME \/ \E i \in Identities : IssueTicket(i)
               \/ \E ticket \in tickets, k \in Keys : Fill(ticket, k)
        PROVE  FALSE
    BY <2>1, <2>8 DEF IssueTicket, keyspace, Fill, Publish
  <2>9. QED
    BY <1>1, <2>2, <2>3, <2>4, <2>5, <2>6, <2>7, <2>8 DEF Next
<1>2. TypeOK /\ [Next]_vars =>
        [control.state = "maintenance" /\ control'.state = "active"
            => lineage' # lineage]_vars
  BY <1>1
<1>3. QED
  BY <1>2, TypeCorrect, PTL DEF Spec, MaintenanceHolds

----------------------------------------------------------------------------
(* The scripts of read_cache.rs implement the abstract fence of WriteFence *)
(* for every number of identities, writers and requests.                   *)

(* Nothing is of an era that has not begun; while a writer is held,        *)
(* nothing is of the present one; a held writer holds a granted token.     *)
PastOnly(table) ==
    \A d \in Identities, k \in Keys :
        table[d][k] # None =>
            /\ table[d][k].response <= era
            /\ held # {} => table[d][k].response # era

TicketsPast ==
    \A ticket \in tickets :
        /\ ticket.era <= era
        /\ held # {} => ticket.era # era

HeldGranted == \A t \in held : \E g \in granted : g.token = t

History ==
    /\ PastOnly(entries)
    /\ PastOnly(saved)
    /\ TicketsPast
    /\ HeldGranted

----------------------------------------------------------------------------

LEMMA InitHistory == Init => History
  BY DEF Init, KeyspaceInit, History, PastOnly, TicketsPast, HeldGranted

(* A quiet cache has no held writer.                                       *)
LEMMA QuietMeansNoWriter ==
  ASSUME IInv, NEW d \in Identities, Quiet(d)
  PROVE  held = {} /\ OpenTo(d)
  BY DEF IInv, HeldTokensRecorded, Quiet, Valid, OpenTo, NoOtherField,
         NoWriters, TypeOK

(* Steps that begin no era, issue no ticket, and move entries only between *)
(* memory and the append-only file.                                        *)
LEMMA HistoryKept ==
  ASSUME TypeOK, History, era' = era, held' \subseteq held,
         tickets' = tickets, granted' = granted,
         \A d \in Identities, k \in Keys :
            /\ entries'[d][k] \in {None, entries[d][k], saved[d][k]}
            /\ saved'[d][k] \in {entries[d][k], saved[d][k]}
  PROVE  History'
<1>1. PastOnly(entries)' /\ PastOnly(saved)'
  BY DEF History, PastOnly
<1>2. TicketsPast' /\ HeldGranted'
  BY DEF History, TicketsPast, HeldGranted
<1>3. QED
  BY <1>1, <1>2 DEF History

LEMMA NextHistory == IInv /\ History /\ [Next]_vars => History'
<1> SUFFICES ASSUME IInv, History, [Next]_vars PROVE History'
  OBVIOUS
<1>0. TypeOK
  BY DEF IInv
<1>1. ASSUME NEW d \in Identities, IssueTicket(d) PROVE History'
  <2>1. held = {}
    BY <1>1, QuietMeansNoWriter DEF IssueTicket
  <2>2. TicketsPast'
    BY <1>0, <1>1, <2>1 DEF IssueTicket, History, TicketsPast, TypeOK
  <2>3. QED
    BY <1>1, <2>2 DEF IssueTicket, keyspace, History, PastOnly, HeldGranted
<1>2. ASSUME NEW ticket \in tickets, NEW k \in Keys, Fill(ticket, k)
      PROVE  History'
  <2>1. ticket.deployment \in Identities
    BY <1>0 DEF TypeOK, Ticket
  <2>2. held = {}
    BY <1>2, <2>1, QuietMeansNoWriter DEF Fill, Publish
  <2>3. PastOnly(entries)'
    BY <1>0, <1>2, <2>1, <2>2
    DEF Fill, Publish, fenceVars, History, PastOnly, TicketsPast, TypeOK,
        KeyspaceTypeOK, EntryTable
  <2>4. QED
    BY <1>2, <2>3 DEF Fill, Publish, fenceVars, History, PastOnly, TicketsPast,
                      HeldGranted
<1>3. ASSUME NEW d \in Identities, NEW t \in Tokens,
             NEW s \in {"active", "maintenance"}, AdmitWriter(d, t, s)
      PROVE  History'
  <2>1. /\ era' = era + 1 /\ held' = held \cup {t}
        /\ UNCHANGED <<entries, saved, tickets>>
        /\ granted' = granted \cup {[deployment |-> d, token |-> t,
                                    epoch |-> control.epoch + 1]}
    BY <1>3 DEF AdmitWriter, Admit
  <2>2. PastOnly(entries)' /\ PastOnly(saved)'
    BY <1>0, <2>1 DEF History, PastOnly, TypeOK, KeyspaceTypeOK, EntryTable, Entry
  <2>3. TicketsPast'
    BY <1>0, <2>1 DEF History, TicketsPast, TypeOK, Ticket
  <2>4. HeldGranted'
    <3> DEFINE new == [deployment |-> d, token |-> t, epoch |-> control.epoch + 1]
    <3>1. new.token = t /\ new \in granted'
      BY <2>1
    <3>2. granted \subseteq granted'
      BY <2>1
    <3> HIDE DEF new
    <3>3. QED
      BY <2>1, <3>1, <3>2 DEF History, HeldGranted
  <2>5. QED
    BY <2>2, <2>3, <2>4 DEF History
<1>4. ASSUME NEW g \in granted, ReleaseWriter(g) PROVE History'
  BY <1>0, <1>4, HistoryKept DEF ReleaseWriter, Release
<1>5. ASSUME NEW old \in Identities, NEW new \in Identities,
             OperatorRecover(old, new)
      PROVE  History'
  <2>1. /\ era' \in {era, era + 1} /\ held' = {}
        /\ UNCHANGED <<entries, saved, tickets>>
    BY <1>5 DEF OperatorRecover, Recover, RecoverStops
  <2>2. PastOnly(entries)' /\ PastOnly(saved)'
    BY <1>0, <2>1 DEF History, PastOnly, TypeOK, KeyspaceTypeOK, EntryTable, Entry
  <2>3. TicketsPast' /\ HeldGranted'
    BY <1>0, <2>1 DEF History, TicketsPast, HeldGranted, TypeOK, Ticket
  <2>4. QED
    BY <2>2, <2>3 DEF History
<1>6. ASSUME NEW d \in Identities, OperatorBootstrap(d) PROVE History'
  BY <1>0, <1>6, HistoryKept DEF OperatorBootstrap, Bootstrap, fenceVars
<1>7. CASE ChangeCatalog
  BY <1>0, <1>7, HistoryKept DEF ChangeCatalog, fenceVars
<1>8. CASE Server
  <2>1. \A d \in Identities, k \in Keys :
            /\ entries'[d][k] \in {None, entries[d][k], saved[d][k]}
            /\ saved'[d][k] \in {entries[d][k], saved[d][k]}
    BY <1>0, <1>8
    DEF Server, Expire, RewriteAof, RestartValkey, DamageControl, TypeOK,
        KeyspaceTypeOK, EntryTable
  <2>2. QED
    BY <1>0, <1>8, <2>1, HistoryKept DEF Server, fenceVars
<1>9. CASE UNCHANGED vars
  BY <1>0, <1>9, HistoryKept DEF vars, keyspace, fenceVars
<1>10. QED
  BY <1>1, <1>2, <1>3, <1>4, <1>5, <1>6, <1>7, <1>8, <1>9 DEF Next

LEMMA HistoryInvariance == Spec => [](IInv /\ History)
<1>1. Spec => []History
  BY InitHistory, NextHistory, Invariance, PTL DEF Spec
<1>2. QED
  BY <1>1, Invariance, PTL
----------------------------------------------------------------------------
(* The refinement mapping.                                                 *)

NotedHit == {k \in Keys : \E d \in Identities : Hit(d, k)}
Ticketed == \E ticket \in tickets : ticket.era = era

(* What a lookup would serve was filled in this generation.                *)
CachedIsFilled == NotedHit \subseteq Filled /\ (held # {} => NotedHit = {})

LEMMA HitsAreFilled == IInv => CachedIsFilled
<1> SUFFICES ASSUME IInv PROVE CachedIsFilled
  OBVIOUS
<1>1. ASSUME NEW k \in Keys, NEW d \in Identities, Hit(d, k)
      PROVE  k \in Filled /\ held = {}
  <2>1. Quiet(d) /\ OpenTo(d) /\ held = {}
    BY <1>1, QuietMeansNoWriter DEF Hit
  <2>2. entries[d][k] # None /\ entries[d][k].response = era
    BY <1>1, <2>1 DEF Hit, IInv, EntriesCurrent, Current
  <2>3. QED
    BY <2>1, <2>2 DEF Filled
<1>2. QED
  BY <1>1 DEF NotedHit, CachedIsFilled

RInv == IInv /\ History /\ CachedIsFilled

LEMMA InitRefines == Init => Fence!Init
<1> SUFFICES ASSUME Init PROVE Fence!Init
  OBVIOUS
<1>1. held = {} /\ ~Ticketed /\ Filled = {} /\ NotedHit = {}
  BY DEF Init, KeyspaceInit, Ticketed, Filled, NotedHit, Hit
<1>2. QED
  BY <1>1 DEF Fence!Init, Ticketed, NotedHit

(* A step that takes responses away, or gives back some of this generation. *)
LEMMA Suspends ==
  ASSUME CachedIsFilled', held' = held, Ticketed' <=> Ticketed,
         Filled' \subseteq Filled
  PROVE  Fence!Suspend
  BY DEF CachedIsFilled, Fence!Suspend, Fence!Recall, NotedHit, Ticketed

(* A step after which nothing is of the present era.                       *)
NoneOfThisEra == ~Ticketed /\ Filled = {}

LEMMA HeldMeansNoneOfThisEra ==
  ASSUME RInv, held # {}
  PROVE  NoneOfThisEra
  BY DEF RInv, History, PastOnly, TicketsPast, NoneOfThisEra, Ticketed, Filled

LEMMA NextEraIsEmpty ==
  ASSUME RInv, era' = era + 1, UNCHANGED <<entries, saved, tickets>>
  PROVE  NoneOfThisEra'
<1>1. \A ticket \in tickets : ticket.era # era + 1
  BY DEF RInv, IInv, TypeOK, Ticket, History, TicketsPast
<1>2. \A d \in Identities, k \in Keys :
        /\ entries[d][k] # None => entries[d][k].response # era + 1
        /\ saved[d][k] # None => saved[d][k].response # era + 1
  BY DEF RInv, IInv, TypeOK, KeyspaceTypeOK, EntryTable, Entry, History, PastOnly
<1>3. QED
  BY <1>1, <1>2 DEF NoneOfThisEra, Ticketed, Filled

LEMMA StepRefines ==
  ASSUME RInv, RInv', [Next]_vars
  PROVE  [Fence!Next]_Fence!fence
<1>0. TypeOK /\ CachedIsFilled /\ CachedIsFilled'
  BY DEF RInv, IInv
<1>1. ASSUME NEW d \in Identities, IssueTicket(d) PROVE Fence!IssueTicket
  <2> DEFINE new == [deployment |-> d, epoch |-> control.epoch, era |-> era]
  <2>0. new.era = era /\ new \in tickets' /\ era' = era
    BY <1>1 DEF IssueTicket
  <2> HIDE DEF new
  <2>1. held = {} /\ Ticketed'
    BY <1>1, <2>0, QuietMeansNoWriter DEF RInv, IssueTicket, Ticketed
  <2>2. Filled' = Filled /\ NotedHit' = NotedHit /\ held' = held
    BY <1>1 DEF IssueTicket, keyspace, Filled, NotedHit, Hit, Quiet, Valid,
                NoOtherField
  <2>3. QED
    BY <2>1, <2>2 DEF Fence!IssueTicket, NotedHit, Ticketed
<1>2. ASSUME NEW ticket \in tickets, NEW k \in Keys, Fill(ticket, k)
      PROVE  Fence!Fill(k)
  <2> DEFINE d == ticket.deployment
  <2>1. d \in Identities
    BY <1>0 DEF TypeOK, Ticket
  <2>2. held = {} /\ OpenTo(d) /\ Quiet(d)
    BY <1>2, <2>1, QuietMeansNoWriter DEF RInv, Fill, Publish
  <2>3. ticket.era = era
    BY <1>2, <2>2 DEF Fill, Publish, RInv, IInv, TicketsCurrent, Current
  <2>4. /\ entries' = [entries EXCEPT
                ![d][k] = [epoch |-> control.epoch, response |-> era]]
        /\ UNCHANGED <<control, claim, catalog, saved, era, tickets, held>>
    BY <1>2, <2>3 DEF Fill, Publish, fenceVars
  <2>5. \A i \in Identities, j \in Keys :
            entries'[i][j] = IF i = d /\ j = k
                             THEN [epoch |-> control.epoch, response |-> era]
                             ELSE entries[i][j]
    BY <1>0, <2>1, <2>4 DEF TypeOK, KeyspaceTypeOK, EntryTable
  <2>6. [epoch |-> control.epoch, response |-> era] # None
    BY <1>0, NoneIsNoEntry DEF TypeOK, KeyspaceTypeOK, Control, Entry
  <2>7. Filled' = Filled \cup {k}
    BY <2>1, <2>4, <2>5, <2>6 DEF Filled
  <2>8. \A i \in Identities : Quiet(i) => i = d
    BY <2>2 DEF Quiet, Valid
  <2>9. NotedHit' = NotedHit \cup {k}
    BY <2>1, <2>2, <2>4, <2>5, <2>6
    DEF NotedHit, Hit, Quiet, Valid, NoOtherField
  <2>10. QED
    BY <2>2, <2>3, <2>4, <2>7, <2>9 DEF Fence!Fill, NotedHit
<1>3. ASSUME NEW d \in Identities, NEW t \in Tokens,
             NEW s \in {"active", "maintenance"}, AdmitWriter(d, t, s)
      PROVE  Fence!Admit(t)
  <2>1. /\ era' = era + 1 /\ held' = held \cup {t}
        /\ UNCHANGED <<entries, saved, tickets>>
        /\ t \notin held
    BY <1>3 DEF AdmitWriter, Admit, RInv, History, HeldGranted
  <2>2. NoneOfThisEra' /\ NotedHit' = {}
    BY <1>0, <2>1, NextEraIsEmpty DEF CachedIsFilled
  <2>3. QED
    BY <2>1, <2>2
    DEF Fence!Admit, Fence!NewGeneration, NoneOfThisEra, Ticketed, NotedHit
<1>4. ASSUME NEW g \in granted, ReleaseWriter(g)
      PROVE  Fence!Suspend \/ \E t \in Tokens : Fence!Release(t)
  <2>1. /\ held' = held \ {g.token}
        /\ UNCHANGED <<entries, saved, tickets, era>>
        /\ Filled' = Filled /\ Ticketed' = Ticketed
    BY <1>4 DEF ReleaseWriter, Release, Filled, Ticketed
  <2>2. CASE g.token \in held
    <3>1. Fence!Release(g.token)
      BY <1>0, <2>1, <2>2
      DEF CachedIsFilled, Fence!Release, Fence!Recall, NotedHit, Ticketed
    <3>2. g.token \in Tokens
      BY <1>0, <2>2 DEF TypeOK
    <3>3. QED
      BY <3>1, <3>2
  <2>3. CASE g.token \notin held
    BY <1>0, <2>1, <2>3, Suspends
  <2>4. QED
    BY <2>2, <2>3
<1>5. ASSUME NEW old \in Identities, NEW new \in Identities,
             OperatorRecover(old, new)
      PROVE  Fence!Suspend \/ Fence!Reopen
  <2>1. /\ era' \in {era, era + 1} /\ held' = {}
        /\ UNCHANGED <<entries, saved, tickets>>
    BY <1>5 DEF OperatorRecover, Recover, RecoverStops
  <2>2. CASE era' = era /\ held = {}
    BY <1>0, <2>1, <2>2, Suspends DEF Ticketed, Filled
  <2>3. CASE era' = era + 1 \/ held # {}
    <3>1. NoneOfThisEra'
      <4>1. CASE era' = era + 1
        BY <2>1, <4>1, NextEraIsEmpty
      <4>2. CASE era' = era /\ held # {}
        BY <2>1, <4>2, HeldMeansNoneOfThisEra
        DEF NoneOfThisEra, Ticketed, Filled
      <4>3. QED
        BY <2>1, <2>3, <4>1, <4>2
    <3>2. NotedHit' = {}
      BY <1>0, <3>1 DEF CachedIsFilled, NoneOfThisEra
    <3>3. QED
      BY <2>1, <3>1, <3>2
      DEF Fence!Reopen, Fence!NewGeneration, NoneOfThisEra, Ticketed, NotedHit
  <2>4. QED
    BY <2>1, <2>2, <2>3
<1>6. ASSUME NEW d \in Identities, OperatorBootstrap(d) PROVE Fence!Suspend
  BY <1>0, <1>6, Suspends
  DEF OperatorBootstrap, Bootstrap, fenceVars, Filled, Ticketed
<1>7. CASE ChangeCatalog
  <2>1. Fence!Suspend
    BY <1>0, <1>7, Suspends DEF ChangeCatalog, fenceVars, Filled, Ticketed
  <2>2. QED
    BY <2>1 DEF Fence!Next
<1>8. CASE Server
  <2>1. UNCHANGED fenceVars
    BY <1>8 DEF Server
  <2>2. \A d \in Identities, k \in Keys :
            /\ entries'[d][k] \in {None, entries[d][k], saved[d][k]}
            /\ saved'[d][k] \in {entries[d][k], saved[d][k]}
    BY <1>0, <1>8
    DEF Server, Expire, RewriteAof, RestartValkey, DamageControl, TypeOK,
        KeyspaceTypeOK, EntryTable
  <2>3. Filled' \subseteq Filled
    BY <2>1, <2>2 DEF Filled, fenceVars
  <2>4. Fence!Suspend
    BY <1>0, <2>1, <2>3, Suspends DEF fenceVars, Ticketed
  <2>5. QED
    BY <2>4 DEF Fence!Next
<1>9. CASE UNCHANGED vars
  BY <1>9
  DEF vars, keyspace, fenceVars, Fence!fence, Filled, Hit, Quiet, Valid,
      NoOtherField
<1>10. QED
  BY <1>1, <1>2, <1>3, <1>4, <1>5, <1>6, <1>7, <1>8, <1>9
  DEF Next, Fence!Next

(* The Lua scripts of read_cache.rs implement the abstract fence: a ticket *)
(* or a response never survives the admission of a writer, under any       *)
(* interleaving of callers, restarts and interrupted operator commands.    *)
THEOREM ScriptsImplementFence == Spec => ImplementsWriteFence
<1>1. RInv /\ RInv' /\ [Next]_vars => [Fence!Next]_Fence!fence
  BY StepRefines
<1>2. Spec => []RInv
  BY HistoryInvariance, HitsAreFilled, PTL DEF RInv
<1>3. QED
  BY <1>1, <1>2, InitRefines, PTL DEF Spec, ImplementsWriteFence, Fence!Spec
============================================================================
