------------------------- MODULE CatalogConnection --------------------------
(***************************************************************************)
(* SharedCatalog::run (shared_catalog.rs): one multiplexed connection,     *)
(* shared by the requests of a process, replaced after a failed call.      *)
(* connect_gate is a mutex held while connecting (its order of arrival is  *)
(* left out); `connection` is only locked between awaits.  One deadline    *)
(* covers a call from its start to its reply.                              *)
(*                                                                         *)
(* A script that is executed after its call has ended is CacheRuntime's    *)
(* concern.  Bound: MaxConnections.                                        *)
(***************************************************************************)
EXTENDS Naturals, FiniteSets

CONSTANTS Callers, MaxConnections, None

ASSUME ConnectionAssumption ==
    /\ MaxConnections \in Nat \ {0}
    /\ None \notin Callers \cup (1..MaxConnections)

VARIABLES
    slot,      \* SharedCatalog.connection
    gate,      \* who holds connect_gate
    call,
    made,      \* connections 1..made have been opened
    broken,    \* those that answer nothing any more
    ran,       \* history: how often the caller's present script has run
    failed     \* history: connections on which a call has failed

vars == <<slot, gate, call, made, broken, ran, failed>>

Connections == 1..MaxConnections
CallState == [pc: {"idle", "queue", "connect", "use", "sent", "executed"},
              conn: Connections \cup {None}]

(* Every variable keeps its type; the gate is held by the caller that is   *)
(* connecting and by no other.                                             *)
TypeOK ==
    /\ slot \in Connections \cup {None}
    /\ gate \in Callers \cup {None}
    /\ \A c \in Callers : gate = c <=> call[c].pc = "connect"
    /\ call \in [Callers -> CallState]
    /\ made \in 0..MaxConnections
    /\ broken \subseteq 1..made
    /\ ran \in [Callers -> Nat]
    /\ failed \subseteq 1..made

Init ==
    /\ slot = None /\ gate = None
    /\ call = [c \in Callers |-> [pc |-> "idle", conn |-> None]]
    /\ made = 0 /\ broken = {}
    /\ ran = [c \in Callers |-> 0] /\ failed = {}

At(c, pcs) == call[c].pc \in pcs
Goes(c, pc, k) == call' = [call EXCEPT ![c] = [pc |-> pc, conn |-> k]]

\* The guard of the mutex is dropped.
Leave(c) == gate' = IF gate = c THEN None ELSE gate

StartCall(c) ==
    /\ At(c, {"idle"})
    /\ ran' = [ran EXCEPT ![c] = 0]
    /\ IF slot # None THEN Goes(c, "use", slot) ELSE Goes(c, "queue", None)
    /\ UNCHANGED <<slot, gate, made, broken, failed>>

\* Mutant: the slot is not looked at again.
EnterGateAnyway(c) ==
    /\ At(c, {"queue"})
    /\ gate = None
    /\ gate' = c
    /\ Goes(c, "connect", None)
    /\ UNCHANGED <<slot, made, broken, ran, failed>>

\* Somebody may have connected while this caller waited.
EnterGate(c) ==
    /\ At(c, {"queue"})
    /\ gate = None
    /\ IF slot # None
       THEN Goes(c, "use", slot) /\ UNCHANGED gate
       ELSE Goes(c, "connect", None) /\ gate' = c
    /\ UNCHANGED <<slot, made, broken, ran, failed>>

Connected(c) ==
    /\ At(c, {"connect"})
    /\ made < MaxConnections
    /\ made' = made + 1
    /\ slot' = made'
    /\ Goes(c, "use", made')
    /\ Leave(c)
    /\ UNCHANGED <<broken, ran, failed>>

\* Mutant: nothing limits an attempt to connect.
GivesUpWaiting == {"queue"}

\* The deadline covers both waits.
GivesUpAt == {"queue", "connect"}

\* The deadline passes, the attempt fails, or the request is cancelled.
GiveUp(c) ==
    /\ At(c, GivesUpAt)
    /\ Goes(c, "idle", None)
    /\ Leave(c)
    /\ UNCHANGED <<slot, made, broken, ran, failed>>

Send(c) ==
    /\ At(c, {"use"})
    /\ Goes(c, "sent", call[c].conn)
    /\ UNCHANGED <<slot, gate, made, broken, ran, failed>>

\* What was sent may still run after the connection breaks.
Execute(c) ==
    /\ At(c, {"sent"})
    /\ Goes(c, "executed", call[c].conn)
    /\ ran' = [ran EXCEPT ![c] = @ + 1]
    /\ UNCHANGED <<slot, gate, made, broken, failed>>

Reply(c) ==
    /\ At(c, {"executed"})
    /\ call[c].conn \notin broken
    /\ Goes(c, "idle", None)
    /\ UNCHANGED <<slot, gate, made, broken, ran, failed>>

\* Mutant: whatever connection is there goes.
DropCurrent(c) == None
\* Mutant: the connection stays.
KeepCurrent(c) == slot

\* A failure of an old connection leaves its replacement.
Drop(c) == IF slot = call[c].conn THEN None ELSE slot

\* Mutant: a failed call is tried again.
FailAndRetry(c) ==
    /\ At(c, {"use", "sent", "executed"})
    /\ slot' = Drop(c)
    /\ failed' = failed \cup {call[c].conn}
    /\ Goes(c, "queue", None)
    /\ UNCHANGED <<gate, made, broken, ran>>

\* An error reply, a broken connection or the deadline.  No call is retried.
Fail(c) ==
    /\ At(c, {"use", "sent", "executed"})
    /\ slot' = Drop(c)
    /\ failed' = failed \cup {call[c].conn}
    /\ Goes(c, "idle", None)
    /\ UNCHANGED <<gate, made, broken, ran>>

Cancel(c) ==
    /\ At(c, {"use", "sent", "executed"})
    /\ Goes(c, "idle", None)
    /\ UNCHANGED <<slot, gate, made, broken, ran, failed>>

Break(k) ==
    /\ k \notin broken
    /\ broken' = broken \cup {k}
    /\ UNCHANGED <<slot, gate, call, made, ran, failed>>

Next ==
    \/ \E c \in Callers :
        \/ StartCall(c) \/ EnterGate(c) \/ Connected(c) \/ GiveUp(c)
        \/ Send(c) \/ Execute(c) \/ Reply(c) \/ Fail(c) \/ Cancel(c)
    \/ \E k \in 1..made : Break(k)

Spec == Init /\ [][Next]_vars

\* The deadline passes; SF: not every call is cancelled before it does.
Deadlines ==
    \A c \in Callers : WF_vars(GiveUp(c)) /\ SF_vars(Fail(c))

Traffic == \A c \in Callers :
    WF_vars(StartCall(c)) /\ WF_vars(EnterGate(c)) /\ WF_vars(Send(c))

FairSpec == Spec /\ Deadlines /\ Traffic

----------------------------------------------------------------------------
(* Properties.                                                             *)

(* A connection is made only to replace one on which a call has failed,    *)
(* whoever waits at the gate and however late an old connection fails      *)
(* (the comments in SharedCatalog::run).                                   *)
NoNeedlessConnection == 1..made \ {slot} \subseteq failed

(* A call's script runs once at most: a begin that failed may have set a   *)
(* claim (the comment on SharedCatalog::run; a unit test kills a           *)
(* connection to see the same).                                            *)
NeverReplayed == \A c \in Callers : ran[c] <= 1

(* A connection that answers nothing does not stay the shared one: while   *)
(* there are calls, one of them fails and makes room (run's last branch).  *)
BrokenIsReplaced ==
    \A k \in Connections : slot = k /\ k \in broken ~> slot # k

(* Every call ends, even if the server accepts connections and says        *)
(* nothing and everybody waits at the gate (run's deadline).               *)
CallsEnd == \A c \in Callers : ~At(c, {"idle"}) ~> At(c, {"idle"})

=============================================================================
