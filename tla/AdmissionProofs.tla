-------------------------- MODULE AdmissionProofs --------------------------
(***************************************************************************)
(* The safety of Admission for any finite set of requests and any limit.   *)
(*                                                                         *)
(* The limit is tested against the value of one atomic addition, so the    *)
(* set that never outgrows it is not that of the connections being served  *)
(* but Granted: the counted requests whose addition gave at most           *)
(* MaxConnections, tested or not.  When one more joins it the counter,     *)
(* which is exact, was below the limit.                                    *)
(***************************************************************************)
EXTENDS Admission, FiniteSetTheorems, TLAPS

(* The counted requests whose addition kept the counter within the limit.  *)
Granted == {r \in Counted : total[r] <= MaxConnections}

(* Past the test a handler holds a slot it was granted.                    *)
SlotInv ==
  MaxConnections > 0 =>
    /\ Cardinality(Granted) <= MaxConnections
    /\ \A r \in Requests :
         handler[r] \in {"admitted", "serving", "session", "hung"} =>
           total[r] <= MaxConnections

(* Only the session that started a process has it running.                 *)
ProcessHeld ==
  \A r \in Requests : process[r] = "running" => handler[r] = "session"

ReturnIsQuiet == action = "returned" => InFlight = {}

IInv == TypeOK /\ CountersExact /\ SlotInv /\ ProcessHeld /\ ReturnIsQuiet

-----------------------------------------------------------------------------
LEMMA FiniteSets ==
  ASSUME TypeOK
  PROVE  /\ IsFiniteSet(Counted) /\ Cardinality(Counted) \in Nat
         /\ IsFiniteSet(Granted) /\ Cardinality(Granted) \in Nat
         /\ IsFiniteSet(InFlight) /\ Cardinality(InFlight) \in Nat
         /\ Cardinality(Granted) <= Cardinality(Counted)
<1>1. IsFiniteSet(Counted)
  BY FS_Subset, AdmissionAssumption DEF Counted
<1>2. IsFiniteSet(InFlight)
  BY FS_Subset, AdmissionAssumption DEF InFlight
<1>3. IsFiniteSet(Granted) /\ Cardinality(Granted) <= Cardinality(Counted)
  BY <1>1, FS_Subset DEF Granted
<1> QED
  BY <1>1, <1>2, <1>3, FS_CardinalityType

LEMMA Initially == Init => IInv
<1> SUFFICES ASSUME Init PROVE IInv
  OBVIOUS
<1>1. TypeOK
  BY DEF Init, TypeOK
<1>2. Counted = {} /\ InFlight = {} /\ Granted = {}
  BY DEF Init, Counted, InFlight, Granted
<1>3. CountersExact /\ SlotInv
  BY <1>2, FS_EmptySet, AdmissionAssumption DEF Init, CountersExact, SlotInv
<1> QED
  BY <1>1, <1>3 DEF Init, IInv, ProcessHeld, ReturnIsQuiet

-----------------------------------------------------------------------------
(* Handlers that only move: none of the three sets changes.                *)
LEMMA QuietMove ==
  ASSUME IInv, NEW r \in Requests,
         Connect(r) \/ Admit(r) \/ Refuse(r) \/ Upgrade(r) \/ SpawnFails(r)
           \/ Spawn(r) \/ SessionEnds(r) \/ SessionHangs(r) \/ SessionAbandons(r)
  PROVE  IInv'
<1> USE DEF Connect, Admit, Refuse, Upgrade, SpawnFails, Spawn, SessionEnds, SessionHangs,
            SessionAbandons, Move
<1>1. TypeOK'
  BY DEF IInv, TypeOK
<1>2. Counted' = Counted
  BY DEF IInv, TypeOK, Counted
<1>3. InFlight' = InFlight
  BY DEF IInv, TypeOK, InFlight
<1>4. Granted' = Granted
  BY <1>2 DEF Granted
<1>5. CountersExact'
  BY <1>2, <1>3 DEF IInv, CountersExact
<1>6. SlotInv'
  BY <1>4 DEF IInv, TypeOK, SlotInv
<1>7. ProcessHeld'
  BY DEF IInv, TypeOK, ProcessHeld
<1> QED
  BY <1>1, <1>3, <1>5, <1>6, <1>7 DEF IInv, ReturnIsQuiet

(* A request enters: it is in flight.                                      *)
LEMMA EnterMove ==
  ASSUME IInv, NEW r \in Requests, Enter(r)
  PROVE  IInv'
<1> USE DEF Enter, Move
<1>1. TypeOK'
  BY DEF IInv, TypeOK
<1>2. InFlight' = InFlight \cup {r} /\ r \notin InFlight
  BY DEF IInv, TypeOK, InFlight
<1>3. MaxConnections > 0 => Counted' = Counted
  BY DEF IInv, TypeOK, Counted
<1>4. CountersExact'
  BY <1>2, <1>3, FiniteSets, FS_AddElement DEF IInv, CountersExact
<1>5. SlotInv'
  BY <1>3 DEF IInv, TypeOK, SlotInv, Granted
<1>6. ProcessHeld'
  BY DEF IInv, TypeOK, ProcessHeld
<1> QED
  BY <1>1, <1>4, <1>5, <1>6 DEF IInv, ReturnIsQuiet, Alive

(* A request is counted: what it saw tells whether it is granted.          *)
LEMMA CountMove ==
  ASSUME IInv, NEW r \in Requests, Count(r)
  PROVE  IInv'
<1> USE DEF Count, Move
<1>1. TypeOK'
  BY DEF IInv, TypeOK
<1>2. Counted' = Counted \cup {r} /\ r \notin Counted
  BY DEF IInv, TypeOK, Counted
<1>3. InFlight' = InFlight
  BY DEF IInv, TypeOK, InFlight
<1>4. CountersExact'
  BY <1>2, <1>3, FiniteSets, FS_AddElement DEF IInv, CountersExact
<1>5. ASSUME MaxConnections > 0
      PROVE  Cardinality(Granted') <= MaxConnections
  <2>1. CASE nbConn + 1 <= MaxConnections
    <3>1. Granted' \in SUBSET Counted'
      BY DEF Granted
    <3>2. IsFiniteSet(Counted') /\ Cardinality(Counted') = nbConn + 1
      BY <1>2, <1>5, FiniteSets, FS_AddElement DEF IInv, CountersExact
    <3>3. Cardinality(Granted') <= nbConn + 1 /\ IsFiniteSet(Granted')
      BY <3>1, <3>2, FS_Subset
    <3> QED
      BY <2>1, <3>3, FS_CardinalityType, AdmissionAssumption DEF IInv, TypeOK
  <2>2. CASE nbConn + 1 > MaxConnections
    <3>1. Granted' = Granted
      BY <1>2, <2>2, AdmissionAssumption DEF IInv, TypeOK, Granted, Counted
    <3> QED
      BY <3>1, <1>5 DEF IInv, SlotInv
  <2> QED
    BY <2>1, <2>2, AdmissionAssumption DEF IInv, TypeOK
<1>6. SlotInv'
  BY <1>5 DEF IInv, TypeOK, SlotInv
<1>7. ProcessHeld'
  BY DEF IInv, TypeOK, ProcessHeld
<1> QED
  BY <1>1, <1>3, <1>4, <1>6, <1>7 DEF IInv, ReturnIsQuiet

(* The slot is given back.                                                 *)
LEMMA UncountMove ==
  ASSUME IInv, NEW r \in Requests, Uncount(r)
  PROVE  IInv'
<1> USE DEF Uncount, Move
<1>1. Counted' = Counted \ {r} /\ r \in Counted
  BY DEF IInv, TypeOK, Counted
<1>2. InFlight' = InFlight
  BY DEF IInv, TypeOK, InFlight
<1>3. IsFiniteSet(Counted') /\ Cardinality(Counted') = Cardinality(Counted) - 1
  BY <1>1, FiniteSets, FS_RemoveElement DEF IInv
<1>4. Cardinality(Counted') \in Nat
  BY <1>3, FS_CardinalityType
<1>5. MaxConnections > 0 => nbConn' = Cardinality(Counted')
  BY <1>3 DEF IInv, CountersExact
<1>6. TypeOK'
  BY <1>4, <1>5 DEF IInv, TypeOK
<1>7. CountersExact'
  BY <1>2, <1>5 DEF IInv, CountersExact
<1>8. MaxConnections > 0 => Cardinality(Granted') <= MaxConnections
  <2>1. Granted' \in SUBSET Granted
    BY <1>1 DEF Granted
  <2>2. Cardinality(Granted') <= Cardinality(Granted) /\ IsFiniteSet(Granted')
    BY <2>1, FiniteSets, FS_Subset DEF IInv
  <2> QED
    BY <2>2, FiniteSets, FS_CardinalityType, AdmissionAssumption DEF IInv, SlotInv
<1>9. SlotInv'
  BY <1>8 DEF IInv, TypeOK, SlotInv
<1>10. ProcessHeld'
  BY DEF IInv, TypeOK, ProcessHeld
<1> QED
  BY <1>2, <1>6, <1>7, <1>9, <1>10 DEF IInv, ReturnIsQuiet

(* The handler returns.                                                    *)
LEMMA LeaveMove ==
  ASSUME IInv, NEW r \in Requests, Leave(r)
  PROVE  IInv'
<1> USE DEF Leave, Move
<1>1. InFlight' = InFlight \ {r} /\ r \in InFlight
  BY DEF IInv, TypeOK, InFlight
<1>2. Counted' = Counted
  BY DEF IInv, TypeOK, Counted
<1>3. inflight' = Cardinality(InFlight') /\ Cardinality(InFlight') \in Nat
  BY <1>1, FiniteSets, FS_RemoveElement, FS_CardinalityType DEF IInv, CountersExact
<1>4. TypeOK'
  BY <1>3 DEF IInv, TypeOK
<1>5. CountersExact'
  BY <1>2, <1>3 DEF IInv, CountersExact
<1>6. SlotInv'
  BY <1>2 DEF IInv, TypeOK, SlotInv, Granted
<1>7. ProcessHeld'
  BY DEF IInv, TypeOK, ProcessHeld
<1>8. action' # "returned"
  BY DEF Alive
<1> QED
  BY <1>4, <1>5, <1>6, <1>7, <1>8 DEF IInv, ReturnIsQuiet

(* Everything else leaves the handlers and their counters alone.           *)
LEMMA ServerMove ==
  ASSUME IInv, (\E r \in Requests : ProcessDies(r)) \/ Signal \/ Server \/ UNCHANGED vars
  PROVE  IInv'
<1> USE DEF ProcessDies, Signal, Server, Shutdown, ServeReturns, Wait, WaitWakes, vars
<1>1. TypeOK'
  BY DEF IInv, TypeOK
<1>2. UNCHANGED <<handler, total, nbConn, inflight>>
  OBVIOUS
<1>3. CountersExact' /\ SlotInv'
  BY <1>2 DEF IInv, CountersExact, SlotInv, Counted, InFlight, Granted
<1>4. ProcessHeld'
  BY DEF IInv, TypeOK, ProcessHeld
<1>5. ReturnIsQuiet'
  <2>1. inflight = 0 => InFlight = {}
    BY FiniteSets, FS_EmptySet DEF IInv, CountersExact
  <2>2. InFlight' = InFlight
    BY <1>2 DEF InFlight
  <2>3. action' = "returned" => action = "returned" \/ inflight = 0
    OBVIOUS
  <2> QED
    BY <2>1, <2>2, <2>3 DEF IInv, ReturnIsQuiet
<1> QED
  BY <1>1, <1>3, <1>4, <1>5 DEF IInv

LEMMA Inductive == IInv /\ [Next]_vars => IInv'
<1> SUFFICES ASSUME IInv, [Next]_vars PROVE IInv'
  OBVIOUS
<1> QED
  BY QuietMove, EnterMove, CountMove, UncountMove, LeaveMove, ServerMove DEF Next, Handler

LEMMA Invariance == Spec => []IInv
<1> QED
  BY Initially, Inductive, PTL DEF Spec

-----------------------------------------------------------------------------
(* Every variable keeps a value of its type; in particular the counters of *)
(* handleConnection never go below zero.                                   *)
THEOREM TypeCorrect == Spec => []TypeOK
<1> QED
  BY Invariance, PTL DEF IInv

(* nbConn and the WaitGroup count exactly the handlers they stand for.     *)
THEOREM CountersAreExact == Spec => []CountersExact
<1> QED
  BY Invariance, PTL DEF IInv

(* handleConnection never serves more websockets than --max-connections.   *)
THEOREM MaxIsRespected == Spec => []ServedWithinMax
<1>1. IInv => ServedWithinMax
  <2> SUFFICES ASSUME IInv, MaxConnections > 0
               PROVE  Cardinality(Connections) <= MaxConnections
    BY DEF ServedWithinMax
  <2>1. Connections \in SUBSET Granted
    BY DEF IInv, SlotInv, Connections, Granted, Counted
  <2>2. Cardinality(Connections) <= Cardinality(Granted) /\ IsFiniteSet(Connections)
    BY <2>1, FiniteSets, FS_Subset DEF IInv
  <2> QED
    BY <2>2, FiniteSets, FS_CardinalityType, AdmissionAssumption DEF IInv, SlotInv
<1> QED
  BY <1>1, Invariance, PTL

(* When Action returns every handler has returned, and no process runs but *)
(* one its session left without Wait.                                      *)
THEOREM ReturnDrains == Spec => []ReturnIsDrained
<1>1. IInv => ReturnIsDrained
  BY DEF IInv, ReturnIsQuiet, ReturnIsDrained, ProcessHeld, InFlight
<1> QED
  BY <1>1, Invariance, PTL
=============================================================================
