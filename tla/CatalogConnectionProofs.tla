----------------------- MODULE CatalogConnectionProofs ----------------------
(* Theorems about CatalogConnection, for any callers and connections.      *)
EXTENDS CatalogConnection, TLAPS

\* Calls use connections that were made, and so does the slot.
ConnectionsMade ==
    /\ slot # None => slot \in 1..made
    /\ \A c \in Callers :
        At(c, {"use", "sent", "executed"}) => call[c].conn \in 1..made

\* Nobody connects while there is a connection.
GateOpens == gate # None => slot = None

\* A script has run only after it was sent.
RunsLast ==
    \A c \in Callers :
        IF At(c, {"queue", "connect", "use", "sent"})
        THEN ran[c] = 0 ELSE ran[c] \in {0, 1}

IInv ==
    /\ TypeOK
    /\ ConnectionsMade
    /\ GateOpens
    /\ RunsLast
    /\ NoNeedlessConnection

\* The invariant holds initially.
LEMMA InitInv == Init => IInv
BY ConnectionAssumption
   DEF Init, IInv, TypeOK, CallState, Connections, ConnectionsMade, GateOpens,
       RunsLast, NoNeedlessConnection, At

\* Starting a call and passing the gate.
LEMMA EntryInv ==
    ASSUME IInv, NEW c \in Callers,
           StartCall(c) \/ EnterGate(c)
    PROVE  IInv'
<1> USE ConnectionAssumption
    DEF IInv, TypeOK, CallState, Connections, ConnectionsMade, GateOpens,
        RunsLast, NoNeedlessConnection, At, Goes
<1>1. CASE StartCall(c)
  BY <1>1 DEF StartCall
<1>2. CASE EnterGate(c)
  BY <1>2 DEF EnterGate
<1>3. QED
  BY <1>1, <1>2

\* A connection is made or not.
LEMMA ConnectInv ==
    ASSUME IInv, NEW c \in Callers,
           Connected(c) \/ GiveUp(c)
    PROVE  IInv'
<1> USE ConnectionAssumption
    DEF IInv, TypeOK, CallState, Connections, ConnectionsMade, GateOpens,
        RunsLast, NoNeedlessConnection, At, Goes, Leave, GivesUpAt
<1>1. CASE Connected(c)
  BY <1>1 DEF Connected
<1>2. CASE GiveUp(c)
  BY <1>2 DEF GiveUp
<1>3. QED
  BY <1>1, <1>2

\* A script is sent, runs and is answered.
LEMMA ScriptInv ==
    ASSUME IInv, NEW c \in Callers,
           Send(c) \/ Execute(c) \/ Reply(c) \/ Cancel(c)
    PROVE  IInv'
<1> USE ConnectionAssumption
    DEF IInv, TypeOK, CallState, Connections, ConnectionsMade, GateOpens,
        RunsLast, NoNeedlessConnection, At, Goes
<1>1. CASE Send(c)
  BY <1>1 DEF Send
<1>2. CASE Execute(c)
  BY <1>2 DEF Execute
<1>3. CASE Reply(c)
  BY <1>3 DEF Reply
<1>4. CASE Cancel(c)
  BY <1>4 DEF Cancel
<1>5. QED
  BY <1>1, <1>2, <1>3, <1>4

\* A call fails: the slot is emptied only of the connection that failed.
LEMMA FailInv ==
    ASSUME IInv, NEW c \in Callers, Fail(c)
    PROVE  IInv'
BY ConnectionAssumption
   DEF Fail, Drop, IInv, TypeOK, CallState, Connections, ConnectionsMade,
       GateOpens, RunsLast, NoNeedlessConnection, At, Goes

\* A connection breaks.
LEMMA BreakInv ==
    ASSUME IInv, NEW k \in 1..made, Break(k)
    PROVE  IInv'
BY DEF Break, IInv, TypeOK, CallState, Connections, ConnectionsMade,
       GateOpens, RunsLast, NoNeedlessConnection, At

LEMMA NextInv == IInv /\ [Next]_vars => IInv'
<1> SUFFICES ASSUME IInv, [Next]_vars
             PROVE  IInv'
  OBVIOUS
<1>1. CASE UNCHANGED vars
  BY <1>1 DEF vars, IInv, TypeOK, ConnectionsMade, GateOpens, RunsLast,
              NoNeedlessConnection, At
<1>2. CASE Next
  BY <1>2, EntryInv, ConnectInv, ScriptInv, FailInv, BreakInv DEF Next
<1>3. QED
  BY <1>1, <1>2

LEMMA InvariantHolds == Spec => []IInv
BY InitInv, NextInv, PTL DEF Spec

(* TypeOK, for any callers: in particular connect_gate has one holder.     *)
THEOREM TypesHold == Spec => []TypeOK
<1>1. IInv => TypeOK
  BY DEF IInv
<1>2. QED
  BY InvariantHolds, <1>1, PTL

(* No attempt to connect is made except to replace a connection on which a *)
(* call has failed (SharedCatalog::run).                                   *)
THEOREM ConnectionsAreNeeded == Spec => []NoNeedlessConnection
<1>1. IInv => NoNeedlessConnection
  BY DEF IInv
<1>2. QED
  BY InvariantHolds, <1>1, PTL

(* No script of a call runs twice (SharedCatalog::run never retries).      *)
THEOREM ScriptsRunOnce == Spec => []NeverReplayed
<1>1. IInv => NeverReplayed
  BY DEF IInv, RunsLast, NeverReplayed, TypeOK
<1>2. QED
  BY InvariantHolds, <1>1, PTL

=============================================================================
