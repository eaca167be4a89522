---------------------- MODULE ConnectionManagerProofs ----------------------
(***************************************************************************)
(* Safety of the session table for every set of sources, queries and       *)
(* consoles, every policy and every bound on the generations.              *)
(***************************************************************************)
EXTENDS MetadataOperations, FiniteSetsExt, FiniteSetTheorems, TLAPS

-----------------------------------------------------------------------------
(* Numbers.                                                                 *)

\* A set of numbers has a least member; what never fails at a least number holds for all.
LEMMA LeastExists ==
  ASSUME NEW S \in SUBSET Nat, S # {}
  PROVE  \E x \in S : \A y \in S : x <= y
<1> DEFINE R == OpToRel(<, Nat)
<1>1. IsWellFoundedOn(R, Nat)
  BY NatLessThanWellFounded
<1>2. \A x, y \in Nat : y < x => <<y, x>> \in R
  BY DEF OpToRel
<1> HIDE DEF R
<1>3. PICK x \in S : \A y \in S : ~ (<<y, x>> \in R)
  BY <1>1, WFMin
<1>4. ASSUME NEW y \in S PROVE x <= y
  <2>1. ~(y < x)
    BY <1>2, <1>3
  <2> QED
    BY <2>1
<1> QED
  BY <1>4

LEMMA MinIsLeast ==
  ASSUME NEW S \in SUBSET Nat, S # {}
  PROVE  Min(S) \in S /\ \A y \in S : Min(S) <= y
BY LeastExists DEF Min

LEMMA MaxIsGreatest ==
  ASSUME NEW S \in SUBSET Nat, S # {}, NEW n \in Nat, \A y \in S : y <= n
  PROVE  Max(S) \in S /\ \A y \in S : Max(S) >= y
<1> DEFINE T == {m \in Nat : \E y \in S : y + m = n}
<1>1. T # {}
  <2> PICK y \in S : TRUE
    OBVIOUS
  <2> n - y \in T
    OBVIOUS
  <2> QED
    OBVIOUS
<1>2. PICK t \in T : \A u \in T : t <= u
  BY <1>1, LeastExists
<1>3. PICK x \in S : x + t = n
  OBVIOUS
<1>4. ASSUME NEW y \in S PROVE x >= y
  <2>1. n - y \in T
    OBVIOUS
  <2>2. t <= n - y
    BY <1>2, <2>1
  <2> QED
    BY <1>3, <2>2
<1> QED
  BY <1>4 DEF Max

-----------------------------------------------------------------------------
(* The table of sessions.                                                   *)

USE GenerationAssumption

LEMMA TypeInit == Init => TypeOK
BY LimitsAssumption DEF Init, TypeOK, Generation, NoGeneration, Status, Phase

\* Retiring sessions keeps the shape of everything it touches.
LEMMA RetireType ==
  ASSUME TypeOK, NEW S \in SUBSET Source, Retire(S)
  PROVE  /\ live' \in [Source -> Generation \cup {NoGeneration}]
         /\ consoles' \in [Source -> [Console -> Phase \cup {"absent"}]]
         /\ cancelled' \subseteq registered
BY DEF TypeOK, Retire

LEMMA TouchedType ==
  ASSUME TypeOK, NEW s \in Source
  PROVE  Touched(s) \subseteq Source \X Source
BY DEF TypeOK, Touched

LEMMA TypeNext == TypeOK /\ [Next]_vars => TypeOK'
<1> SUFFICES ASSUME TypeOK, [Next]_vars PROVE TypeOK'
  OBVIOUS
<1> USE DEF sessionVars, policyVars, queryVars, consoleVars, Status
<1>1. ASSUME NEW s \in Source, BeginConnect(s) PROVE TypeOK'
  <2>1. PICK S \in SUBSET Source : StartConnecting(s, S)
    BY <1>1 DEF BeginConnect, LeastRecentlyUsed
  <2> QED
    BY <1>1, <2>1, RetireType DEF BeginConnect, StartConnecting, TypeOK
<1>2. ASSUME NEW s \in Source, FinishConnectOk(s) PROVE TypeOK'
  BY <1>2, TouchedType DEF FinishConnectOk, TypeOK, Generation
<1>3. ASSUME NEW s \in Source, FinishConnectErr(s) PROVE TypeOK'
  BY <1>3 DEF FinishConnectErr, TypeOK
<1>4. ASSUME NEW s \in Source, NEW st \in Status, RetireSource(s, st) PROVE TypeOK'
  BY <1>4, RetireType DEF RetireSource, TypeOK
<1>5. ASSUME NEW S \in SUBSET Source, ReclaimIdle(S) PROVE TypeOK'
  BY <1>5, RetireType DEF ReclaimIdle, TypeOK
<1>6. ASSUME NEW n \in Limits, NEW r \in BOOLEAN, SetSessionPolicy(n, r) PROVE TypeOK'
  BY <1>6 DEF SetSessionPolicy, TypeOK
<1>7. ASSUME ShutdownAll PROVE TypeOK'
  BY <1>7, RetireType DEF ShutdownAll, TypeOK, LiveSources
<1>8. ASSUME NEW s \in Source, NEW q \in QueryId, BeginQuery(s, q) PROVE TypeOK'
  BY <1>8, TouchedType DEF BeginQuery, TypeOK, LiveSources, Lease
<1>9. ASSUME NEW s \in Source, NEW q \in QueryId, CancelQueuedQuery(s, q) PROVE TypeOK'
  BY <1>9 DEF CancelQueuedQuery, TypeOK
<1>10. ASSUME NEW l \in registered, AcquirePermit(l) PROVE TypeOK'
  BY <1>10 DEF AcquirePermit, TypeOK
<1>11. ASSUME NEW l \in registered, ActivateQueued(l) PROVE TypeOK'
  BY <1>11, TouchedType DEF ActivateQueued, TypeOK, Lease
<1>12. ASSUME NEW l \in registered, FailQueued(l) \/ FinishQuery(l) PROVE TypeOK'
  BY <1>12, TouchedType DEF FailQueued, FinishQuery, Unregister, TouchIfOpen, TypeOK, Lease
<1>13. ASSUME NEW s \in Source, NEW c \in Console,
              InstallConsoleSession(s, c) \/ RemoveConsoleSession(s, c)
       PROVE TypeOK'
  <2>1. PICK p \in {"idle", "absent"} : consoles' = [consoles EXCEPT ![s][c] = p]
    BY <1>13 DEF InstallConsoleSession, RemoveConsoleSession
  <2>2. consoles' \in [Source -> [Console -> Phase \cup {"absent"}]]
    BY <2>1 DEF TypeOK, Phase
  <2> QED
    BY <1>13, <2>2 DEF InstallConsoleSession, RemoveConsoleSession, TypeOK
<1>14. ASSUME NEW s \in Source, NEW c \in Console, NEW p \in Phase, SetConsolePhase(s, c, p)
       PROVE TypeOK'
  BY <1>14 DEF SetConsolePhase, TypeOK
<1>15. ASSUME NEW s \in Source, NEW c \in Console, BeginConsoleOperation(s, c) PROVE TypeOK'
  BY <1>15, TouchedType DEF BeginConsoleOperation, TypeOK, LiveSources, Occupancy
<1>16. ASSUME NEW k \in consoleHeld, EndConsoleOperation(k) PROVE TypeOK'
  BY <1>16, TouchedType DEF EndConsoleOperation, TouchIfOpen, TypeOK, Occupancy
<1>17. ASSUME UNCHANGED vars PROVE TypeOK'
  BY <1>17 DEF vars, TypeOK
<1> QED
  BY <1>1, <1>2, <1>3, <1>4, <1>5, <1>6, <1>7, <1>8, <1>9, <1>10, <1>11, <1>12, <1>13,
     <1>14, <1>15, <1>16, <1>17
     DEF Next, SessionNext, QueryNext, ConsoleNext, Disconnect, DisconnectAndForget,
         InvalidateGeneration, LiveSources

(* Every variable keeps the shape the code's types give it.                *)
THEOREM TypeCorrect == Spec => []TypeOK
BY TypeInit, TypeNext, PTL DEF Spec

-----------------------------------------------------------------------------
(* Which steps touch the sessions.                                         *)

LEMMA SessionFrame == QueryNext \/ ConsoleNext \/ UNCHANGED vars => UNCHANGED sessionVars
BY DEF QueryNext, BeginQuery, CancelQueuedQuery, AcquirePermit, ActivateQueued, FailQueued,
       FinishQuery, ConsoleNext, InstallConsoleSession, RemoveConsoleSession,
       BeginConsoleOperation, SetConsolePhase, EndConsoleOperation, vars

\* A session step ends the sessions of some sources, installs one, or leaves
\* the connections alone; it never touches the registries otherwise.
LEMMA SessionSteps ==
  ASSUME SessionNext
  PROVE  \/ \E S \in SUBSET Source :
              Retire(S) /\ UNCHANGED <<nextGeneration, registered, queued, consoleHeld>>
         \/ \E s \in Source : FinishConnectOk(s)
         \/ UNCHANGED <<live, nextGeneration, queryVars, consoleHeld>>
<1> DEFINE Ends == \E S \in SUBSET Source :
                     Retire(S) /\ UNCHANGED <<nextGeneration, registered, queued, consoleHeld>>
<1>1. ASSUME NEW s \in Source, BeginConnect(s) PROVE Ends
  BY <1>1 DEF BeginConnect, StartConnecting, LeastRecentlyUsed
<1>2. ASSUME NEW s \in Source, NEW st, RetireSource(s, st) PROVE Ends
  BY <1>2 DEF RetireSource
<1>3. ASSUME NEW S \in SUBSET Source, ReclaimIdle(S) PROVE Ends
  BY <1>3 DEF ReclaimIdle
<1>4. ASSUME ShutdownAll PROVE Ends
  BY <1>4 DEF ShutdownAll, LiveSources
<1>5. ASSUME NEW s \in Source, FinishConnectErr(s)
      PROVE  UNCHANGED <<live, nextGeneration, queryVars, consoleHeld>>
  BY <1>5 DEF FinishConnectErr, consoleVars
<1>6. ASSUME NEW n \in Limits, NEW r \in BOOLEAN, SetSessionPolicy(n, r)
      PROVE  UNCHANGED <<live, nextGeneration, queryVars, consoleHeld>>
  BY <1>6 DEF SetSessionPolicy, sessionVars, consoleVars
<1> QED
  BY <1>1, <1>2, <1>3, <1>4, <1>5, <1>6
     DEF SessionNext, Disconnect, DisconnectAndForget, InvalidateGeneration

LEMMA StatusNext == TypeOK /\ StatusMatchesRuntime /\ [Next]_vars => StatusMatchesRuntime'
<1> SUFFICES ASSUME TypeOK, StatusMatchesRuntime, [Next]_vars PROVE StatusMatchesRuntime'
  OBVIOUS
<1> USE DEF TypeOK, StatusMatchesRuntime, LiveSources, Generation, NoGeneration, sessionVars
<1>1. CASE QueryNext \/ ConsoleNext \/ UNCHANGED vars
  BY <1>1, SessionFrame
<1>2. ASSUME NEW s \in Source, BeginConnect(s) PROVE StatusMatchesRuntime'
  <2>1. PICK S \in SUBSET LiveSources : StartConnecting(s, S)
    BY <1>2 DEF BeginConnect, LeastRecentlyUsed, CanReclaim
  <2>2. s \notin LiveSources
    BY <1>2 DEF BeginConnect
  <2> QED
    BY <2>1, <2>2 DEF StartConnecting, Retire
<1>3. ASSUME NEW s \in Source, FinishConnectOk(s) \/ FinishConnectErr(s)
      PROVE StatusMatchesRuntime'
  BY <1>3 DEF FinishConnectOk, FinishConnectErr
<1>4. ASSUME NEW s \in Source, NEW st \in {"none", "disconnected", "closed"}, RetireSource(s, st)
      PROVE StatusMatchesRuntime'
  BY <1>4 DEF RetireSource, Retire
<1>5. ASSUME NEW S \in SUBSET Source, ReclaimIdle(S) PROVE StatusMatchesRuntime'
  BY <1>5 DEF ReclaimIdle, Retire
<1>6. ASSUME NEW n \in Limits, NEW r \in BOOLEAN, SetSessionPolicy(n, r)
      PROVE StatusMatchesRuntime'
  BY <1>6 DEF SetSessionPolicy
<1>7. CASE ShutdownAll
  BY <1>7 DEF ShutdownAll, Retire
<1> QED
  BY <1>1, <1>2, <1>3, <1>4, <1>5, <1>6, <1>7
     DEF Next, SessionNext, Disconnect, DisconnectAndForget, InvalidateGeneration

(* The status the interface shows is the state of the runtime.             *)
THEOREM StatusCorrect == Spec => []StatusMatchesRuntime
<1>1. Init => StatusMatchesRuntime
  BY DEF Init, StatusMatchesRuntime, LiveSources
<1> QED
  BY <1>1, StatusNext, TypeCorrect, PTL DEF Spec

-----------------------------------------------------------------------------
LEMMA GenerationsNext ==
  TypeOK /\ GenerationsIdentifyConnections /\ [Next]_vars => GenerationsIdentifyConnections'
<1> SUFFICES ASSUME TypeOK, GenerationsIdentifyConnections, [Next]_vars
             PROVE  GenerationsIdentifyConnections'
  OBVIOUS
<1> USE DEF TypeOK, GenerationsIdentifyConnections, LiveSources, Generation, NoGeneration,
            Lease, Occupancy, sessionVars, queryVars, consoleVars
<1>1. ASSUME NEW S \in SUBSET Source, Retire(S), UNCHANGED <<nextGeneration, registered, consoleHeld>>
      PROVE  GenerationsIdentifyConnections'
  BY <1>1 DEF Retire
<1>2. ASSUME NEW s \in Source, FinishConnectOk(s) PROVE GenerationsIdentifyConnections'
  BY <1>2 DEF FinishConnectOk
<1>3. ASSUME registered' \cup consoleHeld' \subseteq registered \cup consoleHeld,
             UNCHANGED <<live, nextGeneration>>
      PROVE  GenerationsIdentifyConnections'
  BY <1>3
<1>4. ASSUME NEW s \in Source, NEW q \in QueryId, BeginQuery(s, q)
      PROVE  GenerationsIdentifyConnections'
  BY <1>4 DEF BeginQuery
<1>5. ASSUME NEW s \in Source, NEW c \in Console, BeginConsoleOperation(s, c)
      PROVE  GenerationsIdentifyConnections'
  BY <1>5 DEF BeginConsoleOperation
<1>6. CASE SessionNext
  BY <1>1, <1>2, <1>3, <1>6, SessionSteps
<1>7. CASE QueryNext
  BY <1>3, <1>4, <1>7
     DEF QueryNext, CancelQueuedQuery, AcquirePermit, ActivateQueued, FailQueued, FinishQuery,
         Unregister
<1>8. CASE ConsoleNext
  BY <1>3, <1>5, <1>8
     DEF ConsoleNext, InstallConsoleSession, RemoveConsoleSession, SetConsolePhase,
         EndConsoleOperation
<1>9. CASE UNCHANGED vars
  BY <1>3, <1>9 DEF vars
<1> QED
  BY <1>6, <1>7, <1>8, <1>9 DEF Next

(* A generation names one physical connection, so work left over from a     *)
(* retired connection is never taken for work of its successor.             *)
THEOREM GenerationsCorrect == Spec => []GenerationsIdentifyConnections
<1>1. Init => GenerationsIdentifyConnections
  BY DEF Init, GenerationsIdentifyConnections, LiveSources, NoGeneration
<1> QED
  BY <1>1, GenerationsNext, TypeCorrect, PTL DEF Spec

-----------------------------------------------------------------------------
(* The serial gate.  "At most one runs" is not inductive by itself: it      *)
(* follows from the gate being held by one lease of a connection at a time, *)
(* queued or running, and from a running query holding it.                  *)

GateExclusive == \A l, m \in permits : SameConnection(l, m) => l = m

RunnersHoldGate ==
  \A l \in registered \ queued : l.source \in SerialSource => l \in permits

GateInvariant == GateExclusive /\ RunnersHoldGate

LEMMA QueryFrame ==
  SessionNext \/ ConsoleNext \/ UNCHANGED vars => UNCHANGED <<registered, queued, permits>>
BY DEF SessionNext, BeginConnect, StartConnecting, FinishConnectOk, FinishConnectErr, Disconnect,
       DisconnectAndForget, InvalidateGeneration, RetireSource, ReclaimIdle, SetSessionPolicy,
       ShutdownAll, ConsoleNext, InstallConsoleSession, RemoveConsoleSession,
       BeginConsoleOperation, SetConsolePhase, EndConsoleOperation, vars, queryVars

LEMMA GateNext == TypeOK /\ GateInvariant /\ [Next]_vars => GateInvariant'
<1> SUFFICES ASSUME TypeOK, GateInvariant, [Next]_vars PROVE GateInvariant'
  OBVIOUS
<1> USE DEF GateInvariant, GateExclusive, RunnersHoldGate
<1>1. CASE SessionNext \/ ConsoleNext \/ UNCHANGED vars
  BY <1>1, QueryFrame DEF SameConnection
<1>2. ASSUME NEW s \in Source, NEW q \in QueryId, BeginQuery(s, q) PROVE GateInvariant'
  BY <1>2 DEF BeginQuery, GateFree, SameConnection, TypeOK
<1>3. ASSUME NEW l \in registered, AcquirePermit(l) PROVE GateInvariant'
  BY <1>3 DEF AcquirePermit, GateFree, SameConnection
<1>4. ASSUME NEW l \in registered, ActivateQueued(l) PROVE GateInvariant'
  BY <1>4 DEF ActivateQueued, SameConnection
<1>5. ASSUME NEW l \in registered, FailQueued(l) \/ FinishQuery(l) PROVE GateInvariant'
  BY <1>5 DEF FailQueued, FinishQuery, Unregister, SameConnection
<1>6. ASSUME NEW s \in Source, NEW q \in QueryId, CancelQueuedQuery(s, q) PROVE GateInvariant'
  BY <1>6 DEF CancelQueuedQuery, SameConnection
<1> QED
  BY <1>1, <1>2, <1>3, <1>4, <1>5, <1>6 DEF Next, QueryNext, LiveSources

(* On a driver without concurrent queries at most one query of a connection *)
(* runs, and it holds the gate.                                             *)
THEOREM SerialCorrect == Spec => []OneQueryAtATime
<1>1. Init => GateInvariant
  BY DEF Init, GateInvariant, GateExclusive, RunnersHoldGate
<1>2. TypeOK /\ GateInvariant => OneQueryAtATime
  BY DEF TypeOK, GateInvariant, GateExclusive, RunnersHoldGate, OneQueryAtATime, Running,
         SameConnection
<1> QED
  BY <1>1, <1>2, GateNext, TypeCorrect, PTL DEF Spec

-----------------------------------------------------------------------------
(* Cancellation.  That a new connection reopens nothing rests on its        *)
(* generation being fresh.                                                  *)

LEMMA CancellationNext ==
  (/\ TypeOK /\ StatusMatchesRuntime /\ GenerationsIdentifyConnections
   /\ CancellationReachesWaiters /\ [Next]_vars)
    => CancellationReachesWaiters'
<1> SUFFICES ASSUME TypeOK, StatusMatchesRuntime, GenerationsIdentifyConnections,
                    CancellationReachesWaiters, [Next]_vars
             PROVE  CancellationReachesWaiters'
  OBVIOUS
<1> USE DEF TypeOK, CancellationReachesWaiters, RegistryOpen, Lease, Generation, NoGeneration
<1>1. ASSUME NEW S \in SUBSET Source, Retire(S), UNCHANGED <<registered, queued>>
      PROVE  CancellationReachesWaiters'
  BY <1>1 DEF Retire
<1>2. ASSUME NEW s \in Source, FinishConnectOk(s) PROVE CancellationReachesWaiters'
  <2>1. \A l \in registered : l.generation # nextGeneration
    BY DEF GenerationsIdentifyConnections
  <2>2. s \in Source /\ live' = [live EXCEPT ![s] = nextGeneration] /\ UNCHANGED queryVars
    BY <1>2 DEF FinishConnectOk
  <2>3. live[s] = NoGeneration
    BY <1>2 DEF FinishConnectOk, StatusMatchesRuntime, LiveSources
  <2> QED
    BY <2>1, <2>2, <2>3 DEF queryVars
<1>3. ASSUME UNCHANGED <<live, queryVars>> PROVE CancellationReachesWaiters'
  BY <1>3 DEF queryVars
<1>4. CASE SessionNext
  BY <1>1, <1>2, <1>3, <1>4, SessionSteps
<1>5. ASSUME NEW s \in Source, NEW q \in QueryId, BeginQuery(s, q)
      PROVE  CancellationReachesWaiters'
  BY <1>5 DEF BeginQuery, sessionVars, LiveSources
<1>6. ASSUME NEW s \in Source, NEW q \in QueryId, CancelQueuedQuery(s, q)
      PROVE  CancellationReachesWaiters'
  BY <1>6 DEF CancelQueuedQuery, sessionVars
<1>7. ASSUME NEW l \in registered,
             AcquirePermit(l) \/ ActivateQueued(l) \/ FailQueued(l) \/ FinishQuery(l)
      PROVE  CancellationReachesWaiters'
  BY <1>7 DEF AcquirePermit, ActivateQueued, FailQueued, FinishQuery, Unregister, sessionVars
<1>8. CASE ConsoleNext \/ UNCHANGED vars
  BY <1>3, <1>8
     DEF ConsoleNext, InstallConsoleSession, RemoveConsoleSession, BeginConsoleOperation,
         SetConsolePhase, EndConsoleOperation, vars, sessionVars
<1> QED
  BY <1>4, <1>5, <1>6, <1>7, <1>8 DEF Next, QueryNext, LiveSources

(* Every operation that outlives its connection has been told, and no       *)
(* cancelled waiter of a live connection has started.                       *)
THEOREM CancellationCorrect == Spec => []CancellationReachesWaiters
<1>1. Init => CancellationReachesWaiters
  BY DEF Init, CancellationReachesWaiters
<1> QED
  BY <1>1, CancellationNext, TypeCorrect, StatusCorrect, GenerationsCorrect, PTL DEF Spec

-----------------------------------------------------------------------------
(* What a step may not do.                                                 *)

LEMMA StartNext ==
  TypeOK /\ [Next]_vars =>
    [\A l \in registered' \ queued' :
       ~Running(l) => live'[l.source] = l.generation /\ l \notin cancelled]_vars
<1> SUFFICES ASSUME TypeOK, [Next]_vars, NEW l \in registered' \ queued', ~Running(l)
             PROVE  live'[l.source] = l.generation /\ l \notin cancelled
  OBVIOUS
<1> USE DEF Running, sessionVars
<1>1. CASE SessionNext \/ ConsoleNext \/ UNCHANGED vars
  BY <1>1, QueryFrame
<1>2. ASSUME NEW s \in Source, NEW q \in QueryId, BeginQuery(s, q)
      PROVE  live'[l.source] = l.generation /\ l \notin cancelled
  BY <1>2 DEF BeginQuery, TypeOK
<1>3. ASSUME NEW m \in registered,
             AcquirePermit(m) \/ ActivateQueued(m) \/ FailQueued(m) \/ FinishQuery(m)
      PROVE  live'[l.source] = l.generation /\ l \notin cancelled
  BY <1>3 DEF AcquirePermit, ActivateQueued, FailQueued, FinishQuery, Unregister, RegistryOpen
<1>4. ASSUME NEW s \in Source, NEW q \in QueryId, CancelQueuedQuery(s, q)
      PROVE  live'[l.source] = l.generation /\ l \notin cancelled
  BY <1>4 DEF CancelQueuedQuery
<1> QED
  BY <1>1, <1>2, <1>3, <1>4 DEF Next, QueryNext, LiveSources

(* No query starts on a retired connection or after its waiter was          *)
(* cancelled.                                                               *)
THEOREM StartCorrect == Spec => NothingStartsAfterRetirement
BY StartNext, TypeCorrect, PTL DEF Spec, NothingStartsAfterRetirement

LEMMA SurvivalNext ==
  TypeOK /\ StatusMatchesRuntime /\ [Next]_vars =>
    [\A s \in LiveSources :
       (HasRunningOperations(s) \/ HasUncommittedTransaction(s)) =>
          \/ live'[s] = live[s]
          \/ InvalidateGeneration(s, live[s])
          \/ ShutdownAll]_vars
<1> SUFFICES ASSUME TypeOK, StatusMatchesRuntime, [Next]_vars, NEW s \in LiveSources,
                    HasRunningOperations(s) \/ HasUncommittedTransaction(s),
                    live'[s] # live[s]
             PROVE  InvalidateGeneration(s, live[s]) \/ ShutdownAll
  OBVIOUS
<1>1. s \in Source /\ s \notin pending /\ live \in [Source -> Generation \cup {NoGeneration}]
  BY DEF LiveSources, StatusMatchesRuntime, TypeOK
<1>2. CASE QueryNext \/ ConsoleNext \/ UNCHANGED vars
  BY <1>2, SessionFrame DEF sessionVars
<1>3. ASSUME NEW t \in Source, BeginConnect(t) PROVE FALSE
  BY <1>1, <1>3 DEF BeginConnect, StartConnecting, Retire, LeastRecentlyUsed, CanReclaim
<1>4. ASSUME NEW t \in Source, FinishConnectOk(t) \/ FinishConnectErr(t) PROVE FALSE
  BY <1>1, <1>4 DEF FinishConnectOk, FinishConnectErr
<1>5. ASSUME NEW t \in Source, Disconnect(t) \/ DisconnectAndForget(t) PROVE FALSE
  BY <1>1, <1>5 DEF Disconnect, DisconnectAndForget, PreflightDisconnect,
                    PreflightConfigurationChange, RetireSource, Retire
<1>6. ASSUME NEW t \in Source, InvalidateGeneration(t, live[t]), t # s PROVE FALSE
  BY <1>1, <1>6 DEF InvalidateGeneration, RetireSource, Retire
<1>7. ASSUME NEW S \in SUBSET Source, ReclaimIdle(S) PROVE FALSE
  BY <1>1, <1>7 DEF ReclaimIdle, Retire, CanReclaim
<1>8. ASSUME NEW n \in Limits, NEW r \in BOOLEAN, SetSessionPolicy(n, r) PROVE FALSE
  BY <1>8 DEF SetSessionPolicy, sessionVars
<1> QED
  BY <1>2, <1>3, <1>4, <1>5, <1>6, <1>7, <1>8 DEF Next, SessionNext

(* Eviction, idle reclaim and disconnect never drop an occupied session.    *)
THEOREM SurvivalCorrect == Spec => OccupiedSessionsSurvive
BY SurvivalNext, TypeCorrect, StatusCorrect, PTL DEF Spec, OccupiedSessionsSurvive

-----------------------------------------------------------------------------
(* The session limit.  Only an admitted attempt changes the number of       *)
(* occupied slots upwards: it adds one below the limit, or replaces an      *)
(* evicted session; an installed connection moves from pending to live.     *)

LEMMA OccupiedFinite ==
  TypeOK => IsFiniteSet(LiveSources) /\ IsFiniteSet(pending)
BY SourceAssumption, FS_Subset DEF TypeOK, LiveSources

\* Sessions that only end free slots.
LEMMA ShrinkingOccupied ==
  ASSUME TypeOK, LiveSources' \subseteq LiveSources, pending' \subseteq pending
  PROVE  Occupied' <= Occupied
<1>1. IsFiniteSet(LiveSources) /\ IsFiniteSet(pending)
  BY OccupiedFinite
<1>2. /\ Cardinality(LiveSources') <= Cardinality(LiveSources)
      /\ Cardinality(pending') <= Cardinality(pending)
      /\ IsFiniteSet(LiveSources') /\ IsFiniteSet(pending')
  BY <1>1, FS_Subset
<1>3. /\ Cardinality(LiveSources) \in Nat /\ Cardinality(pending) \in Nat
      /\ Cardinality(LiveSources') \in Nat /\ Cardinality(pending') \in Nat
  BY <1>1, <1>2, FS_CardinalityType
<1> QED
  BY <1>2, <1>3 DEF Occupied

LEMMA RetireShrinks ==
  ASSUME TypeOK, NEW S \in SUBSET Source, Retire(S)
  PROVE  LiveSources' = LiveSources \ S
BY DEF Retire, LiveSources, TypeOK

LEMMA GrowthNext ==
  TypeOK /\ StatusMatchesRuntime /\ [Next]_vars => [Occupied' > Occupied => Occupied' <= limit]_vars
<1> SUFFICES ASSUME TypeOK, StatusMatchesRuntime, [Next]_vars
             PROVE  Occupied' > Occupied => Occupied' <= limit
  OBVIOUS
<1>1. IsFiniteSet(LiveSources) /\ IsFiniteSet(pending)
  BY OccupiedFinite
<1>2. Cardinality(LiveSources) \in Nat /\ Cardinality(pending) \in Nat /\ limit \in Int
  BY <1>1, FS_CardinalityType, LimitsAssumption DEF TypeOK
<1>0. Occupied \in Int /\ Occupied' \in Int
  <2>1. IsFiniteSet(LiveSources') /\ IsFiniteSet(pending')
    BY TypeNext, SourceAssumption, FS_Subset DEF TypeOK, LiveSources
  <2> QED
    BY <2>1, <1>2, FS_CardinalityType DEF Occupied
<1>3. ASSUME QueryNext \/ ConsoleNext \/ UNCHANGED vars PROVE Occupied' <= Occupied
  BY <1>3, SessionFrame, ShrinkingOccupied DEF sessionVars, LiveSources
<1>4. ASSUME NEW s \in Source, BeginConnect(s) PROVE Occupied' <= Occupied \/ Occupied' <= limit
  <2>1. Cardinality(pending \cup {s}) = Cardinality(pending) + 1
    BY <1>1, <1>4, FS_AddElement DEF BeginConnect
  <2>2. CASE Occupied < limit /\ StartConnecting(s, {})
    <3>1. LiveSources' = LiveSources /\ pending' = pending \cup {s}
      BY <2>2, RetireShrinks DEF StartConnecting
    <3> QED
      BY <3>1, <2>1, <2>2, <1>2 DEF Occupied
  <2>3. ASSUME NEW t \in LeastRecentlyUsed, StartConnecting(s, {t})
        PROVE  Occupied' <= Occupied
    <3>1. t \in LiveSources /\ t \in Source
      BY <2>3 DEF LeastRecentlyUsed, CanReclaim
    <3>2. LiveSources' = LiveSources \ {t} /\ pending' = pending \cup {s}
      BY <3>1, <2>3, RetireShrinks DEF StartConnecting
    <3>3. Cardinality(LiveSources \ {t}) = Cardinality(LiveSources) - 1
      BY <3>1, <1>1, FS_RemoveElement
    <3> QED
      BY <3>2, <3>3, <2>1, <1>2 DEF Occupied
  <2> QED
    BY <1>4, <2>2, <2>3 DEF BeginConnect
<1>5. ASSUME NEW s \in Source, FinishConnectOk(s) PROVE Occupied' <= Occupied
  <2>1. LiveSources' = LiveSources \cup {s} /\ pending' = pending \ {s}
    BY <1>5 DEF FinishConnectOk, LiveSources, TypeOK, NoGeneration
  <2>2. s \in pending /\ s \notin LiveSources
    BY <1>5 DEF FinishConnectOk, StatusMatchesRuntime
  <2>3. /\ Cardinality(LiveSources \cup {s}) = Cardinality(LiveSources) + 1
        /\ Cardinality(pending \ {s}) = Cardinality(pending) - 1
    BY <2>2, <1>1, FS_AddElement, FS_RemoveElement
  <2> QED
    BY <2>1, <2>3, <1>2 DEF Occupied
<1>6. ASSUME NEW s \in Source, FinishConnectErr(s) PROVE Occupied' <= Occupied
  BY <1>6, ShrinkingOccupied DEF FinishConnectErr, LiveSources
<1>7. ASSUME NEW s \in Source, NEW st, RetireSource(s, st) PROVE Occupied' <= Occupied
  BY <1>7, ShrinkingOccupied, RetireShrinks DEF RetireSource
<1>8. ASSUME NEW S \in SUBSET Source, ReclaimIdle(S) PROVE Occupied' <= Occupied
  BY <1>8, ShrinkingOccupied, RetireShrinks DEF ReclaimIdle
<1>9. ASSUME NEW n \in Limits, NEW r \in BOOLEAN, SetSessionPolicy(n, r)
      PROVE  Occupied' <= Occupied
  BY <1>9, ShrinkingOccupied DEF SetSessionPolicy, sessionVars, LiveSources
<1>10. ASSUME ShutdownAll PROVE Occupied' <= Occupied
  <2>1. LiveSources \in SUBSET Source
    BY DEF LiveSources
  <2> QED
    BY <1>10, <2>1, ShrinkingOccupied, RetireShrinks DEF ShutdownAll
<1>11. Occupied' <= Occupied \/ Occupied' <= limit
  BY <1>3, <1>4, <1>5, <1>6, <1>7, <1>8, <1>9, <1>10
     DEF Next, SessionNext, Disconnect, DisconnectAndForget, InvalidateGeneration
<1> QED
  BY <1>0, <1>11, <1>2

(* No step grows the number of live and pending sessions beyond the limit.  *)
THEOREM LimitCorrect == Spec => GrowsWithinLimit
BY GrowthNext, TypeCorrect, StatusCorrect, PTL DEF Spec, GrowsWithinLimit

-----------------------------------------------------------------------------
(* The steps of metadata operations on the table: they keep its types and    *)
(* its statuses, for every set of operations.                               *)

USE SchemaAssumption

\* Every step that a module over MetadataOperations composes.
MetadataStep ==
  \/ \E s \in Source, q \in QueryId : BeginMetadataOperation(s, q)
  \/ \E l \in waiting : Wait(l) \/ AbandonWait(l)
  \/ \E l \in Underway : EndMetadataOperation(l)
  \/ SurroundingStep
  \/ \E s \in pending : emptied' = emptied \cup {s} /\ UNCHANGED <<vars, schema, waiting>>
  \/ UNCHANGED <<vars, metadataVars>>

LEMMA MetadataTypeInit == MetadataOperationsInit => MetadataTypeOK
BY TypeInit DEF MetadataOperationsInit, MetadataTypeOK, Init, SchemaVersion

\* Activating a lease that did not queue is no method of the open table, but
\* it only stamps the time of last use.
LEMMA ActivateIsTableStep ==
  ASSUME TypeOK, NEW l \in registered, Activate(l)
  PROVE  TypeOK' /\ UNCHANGED <<registered, sessionVars>>
<1>1. CASE ActivateQueued(l)
  <2>1. Next
    BY <1>1 DEF Next, QueryNext
  <2> QED
    BY <1>1, <2>1, TypeNext DEF ActivateQueued
<1>2. CASE older' = Touched(l.source) /\ UNCHANGED <<sessionVars, policyVars, queryVars, consoleVars>>
  <2>1. l.source \in Source
    BY DEF TypeOK, Lease
  <2> QED
    BY <1>2, <2>1, TouchedType DEF TypeOK, sessionVars, policyVars, queryVars, consoleVars
<1> QED
  BY <1>1, <1>2 DEF Activate

\* A lease that ends takes nothing with it.
LEMMA LeaseEnds ==
  ASSUME TypeOK, NEW l \in registered,
         FailQueued(l) \/ FinishQuery(l)
           \/ (Unregister(l) /\ TouchIfOpen(l) /\ UNCHANGED <<sessionVars, policyVars, consoleVars>>)
  PROVE  TypeOK' /\ registered' = registered \ {l} /\ UNCHANGED sessionVars
<1>1. Unregister(l) /\ TouchIfOpen(l) /\ UNCHANGED <<sessionVars, policyVars, consoleVars>>
  BY DEF FailQueued, FinishQuery
<1>2. l.source \in Source
  BY DEF TypeOK, Lease
<1> QED
  BY <1>1, <1>2, TouchedType
     DEF Unregister, TouchIfOpen, TypeOK, sessionVars, policyVars, consoleVars

\* What a step does to the leases, the waiting ones and the sessions.
LEMMA WaitSteps ==
  ASSUME MetadataTypeOK, NEW l \in waiting, Wait(l) \/ AbandonWait(l)
  PROVE  /\ TypeOK'
         /\ UNCHANGED <<sessionVars, schema, emptied>>
         /\ \/ registered' = registered /\ waiting' \in {waiting, waiting \ {l}}
            \/ registered' = registered \ {l} /\ waiting' = waiting \ {l}
<1> l \in registered /\ TypeOK
  BY DEF MetadataTypeOK
<1>1. CASE AcquirePermit(l) /\ UNCHANGED waiting /\ UNCHANGED <<schema, emptied>>
  <2>1. Next
    BY <1>1 DEF Next, QueryNext
  <2> QED
    BY <1>1, <2>1, TypeNext DEF AcquirePermit
<1>2. CASE Activate(l) /\ waiting' = waiting \ {l} /\ UNCHANGED <<schema, emptied>>
  BY <1>2, ActivateIsTableStep
<1>3. CASE WaitFails(l) /\ waiting' = waiting \ {l} /\ UNCHANGED <<schema, emptied>>
  BY <1>3, LeaseEnds DEF WaitFails
<1>4. CASE AbandonWait(l)
  BY <1>4, LeaseEnds DEF AbandonWait
<1> QED
  BY <1>1, <1>2, <1>3, <1>4 DEF Wait

\* The surroundings never touch the leases but to cancel them.
LEMMA SurroundingSteps ==
  ASSUME MetadataTypeOK, SurroundingStep
  PROVE  UNCHANGED <<registered, waiting>>
BY DEF SurroundingStep, ConnectionStep, ChangeSchema, AdmitAttempt, FinishAttempt, EndSession, BeginConnect,
       FinishConnectOk, FinishConnectErr, Disconnect, InvalidateGeneration, RetireSource,
       vars, queryVars

LEMMA SurroundingIsTableStep ==
  ASSUME SurroundingStep
  PROVE  [Next]_vars
BY DEF SurroundingStep, ConnectionStep, ChangeSchema, AdmitAttempt, FinishAttempt, EndSession, Next, SessionNext

LEMMA EmptiedPending ==
  ASSUME MetadataTypeOK, SurroundingStep
  PROVE  emptied' \subseteq pending' /\ schema' \in SchemaVersion
<1> USE DEF MetadataTypeOK
<1>1. ASSUME NEW s \in Source, AdmitAttempt(s)
      PROVE  emptied' \subseteq pending' /\ UNCHANGED schema
  BY <1>1 DEF AdmitAttempt, BeginConnect, StartConnecting
<1>2. ASSUME NEW s \in Source, FinishAttempt(s)
      PROVE  emptied' \subseteq pending' /\ UNCHANGED schema
  BY <1>2 DEF FinishAttempt, FinishConnectOk, FinishConnectErr
<1>3. ASSUME NEW s \in Source, EndSession(s)
      PROVE  emptied' \subseteq pending' /\ UNCHANGED schema
  BY <1>3 DEF EndSession, Disconnect, InvalidateGeneration, RetireSource
<1>4. CASE ChangeSchema
  BY <1>4, SchemaAssumption DEF ChangeSchema, SchemaVersion, vars, sessionVars
<1> QED
  BY <1>1, <1>2, <1>3, <1>4 DEF SurroundingStep, ConnectionStep

\* The types are kept by every step.
LEMMA MetadataTypeNext == MetadataTypeOK /\ MetadataStep => MetadataTypeOK'
<1> SUFFICES ASSUME MetadataTypeOK, MetadataStep PROVE MetadataTypeOK'
  OBVIOUS
<1> USE DEF MetadataTypeOK
<1>1. ASSUME NEW s \in Source, NEW q \in QueryId, BeginMetadataOperation(s, q)
      PROVE  MetadataTypeOK'
  <2> DEFINE l == [source |-> s, generation |-> live[s], query |-> q]
  <2>1. TypeOK'
    BY <1>1, TypeNext DEF BeginMetadataOperation, BeginQuery, Next, QueryNext
  <2>2. registered' = registered \cup {l} /\ waiting' = waiting \cup {l}
    BY <1>1 DEF BeginMetadataOperation, BeginQuery
  <2>3. \A m \in registered : m.query # l.query
    BY <1>1 DEF BeginMetadataOperation
  <2>4. \A m, n \in registered' : m.query = n.query => m = n
    BY <2>2, <2>3
  <2>5. UNCHANGED <<schema, emptied, pending>>
    BY <1>1 DEF BeginMetadataOperation, BeginQuery, sessionVars
  <2> QED
    BY <2>1, <2>2, <2>4, <2>5
<1>2. ASSUME NEW l \in waiting, Wait(l) \/ AbandonWait(l) PROVE MetadataTypeOK'
  BY <1>2, WaitSteps DEF sessionVars
<1>3. ASSUME NEW l \in Underway, EndMetadataOperation(l) PROVE MetadataTypeOK'
  BY <1>3, LeaseEnds DEF EndMetadataOperation, Underway, metadataVars, sessionVars
<1>4. CASE SurroundingStep
  <2>1. TypeOK'
    BY <1>4, SurroundingIsTableStep, TypeNext
  <2> QED
    BY <1>4, <2>1, SurroundingSteps, EmptiedPending
<1>5. ASSUME NEW s \in pending, emptied' = emptied \cup {s}, UNCHANGED <<vars, schema, waiting>>
      PROVE  MetadataTypeOK'
  <2>1. TypeOK'
    BY <1>5, TypeNext
  <2> QED
    BY <1>5, <2>1 DEF vars, sessionVars, queryVars
<1>6. CASE UNCHANGED <<vars, metadataVars>>
  <2>1. TypeOK'
    BY <1>6, TypeNext
  <2> QED
    BY <1>6, <2>1 DEF vars, sessionVars, queryVars, metadataVars
<1> QED
  BY <1>1, <1>2, <1>3, <1>4, <1>5, <1>6 DEF MetadataStep

\* So is the agreement of the statuses with the runtime.
LEMMA MetadataStatusNext ==
  MetadataTypeOK /\ StatusMatchesRuntime /\ MetadataStep => StatusMatchesRuntime'
<1> SUFFICES ASSUME MetadataTypeOK, StatusMatchesRuntime, MetadataStep
             PROVE  StatusMatchesRuntime'
  OBVIOUS
<1> TypeOK
  BY DEF MetadataTypeOK
<1>1. [Next]_vars => StatusMatchesRuntime'
  BY StatusNext
<1>2. UNCHANGED sessionVars => StatusMatchesRuntime'
  BY DEF StatusMatchesRuntime, sessionVars, LiveSources
<1>3. ASSUME NEW s \in Source, NEW q \in QueryId, BeginMetadataOperation(s, q)
      PROVE  UNCHANGED sessionVars
  BY <1>3 DEF BeginMetadataOperation, BeginQuery
<1>4. ASSUME NEW l \in waiting, Wait(l) \/ AbandonWait(l) PROVE UNCHANGED sessionVars
  BY <1>4, WaitSteps
<1>5. ASSUME NEW l \in Underway, EndMetadataOperation(l) PROVE UNCHANGED sessionVars
  BY <1>5 DEF EndMetadataOperation, FinishQuery
<1>6. SurroundingStep => [Next]_vars
  BY SurroundingIsTableStep
<1>7. UNCHANGED vars => UNCHANGED sessionVars
  BY DEF vars
<1> QED
  BY <1>1, <1>2, <1>3, <1>4, <1>5, <1>6, <1>7 DEF MetadataStep

-----------------------------------------------------------------------------
(* What a source may be shown.                                             *)

\* Something read over connection g may be kept for s: g is the connection of
\* s, if s has one, and no earlier one either once an attempt has cleared the
\* caches for its successor.
Describes(s, g) == (s \in LiveSources => g = live[s]) /\ s \notin emptied

\* What is read over an open connection is of the present one.
LEMMA OpenDescribes ==
  ASSUME MetadataTypeOK, StatusMatchesRuntime, NEW l \in registered, RegistryOpen(l)
  PROVE  Describes(l.source, l.generation)
BY DEF MetadataTypeOK, TypeOK, Lease, Generation, NoGeneration, RegistryOpen, StatusMatchesRuntime,
       LiveSources, Describes

\* The sessions come and go: a source becomes live only after its caches were
\* cleared for the attempt.
LEMMA SessionsKeepDescribing ==
  ASSUME MetadataTypeOK, SurroundingStep, NEW s \in Source, NEW g, Describes(s, g)
  PROVE  Describes(s, g)'
<1> USE DEF Describes, LiveSources
<1>1. ASSUME NEW t \in Source, AdmitAttempt(t) PROVE Describes(s, g)'
  <2>1. PICK S : Retire(S)
    BY <1>1 DEF AdmitAttempt, BeginConnect, StartConnecting
  <2> QED
    BY <1>1, <2>1 DEF AdmitAttempt, Retire
<1>2. ASSUME NEW t \in Source, FinishAttempt(t) PROVE Describes(s, g)'
  <2>1. t \in emptied /\ emptied' = emptied \ {t}
    BY <1>2 DEF FinishAttempt
  <2>2. (s # t /\ live'[s] = live[s]) \/ UNCHANGED live \/ s = t
    BY <1>2 DEF FinishAttempt, FinishConnectOk, FinishConnectErr, MetadataTypeOK, TypeOK
  <2> QED
    BY <2>1, <2>2
<1>3. ASSUME NEW t \in Source, EndSession(t) PROVE Describes(s, g)'
  BY <1>3 DEF EndSession, Disconnect, InvalidateGeneration, RetireSource, Retire
<1>4. CASE ChangeSchema
  BY <1>4 DEF ChangeSchema, vars, sessionVars
<1> QED
  BY <1>1, <1>2, <1>3, <1>4 DEF SurroundingStep, ConnectionStep
=============================================================================
