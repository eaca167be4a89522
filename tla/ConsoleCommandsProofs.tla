----------------------- MODULE ConsoleCommandsProofs -----------------------
(***************************************************************************)
(* The SQL Console commands, for every number of commands, consoles and    *)
(* sources: they use the session table through its methods only, occupy    *)
(* sessions exclusively, and keep phase and transaction together unless a   *)
(* command of another physical session reports late.                       *)
(***************************************************************************)
EXTENDS MCConsoleCommands, ConnectionManagerProofs

Labels == {"idle", "opening", "starting"} \cup Working

LEMMA ConsoleTypeInit == ConsoleInit => TypeOK /\ ConsoleTypeOK
<1>1. ConsoleInit => TypeOK
  BY TypeInit DEF ConsoleInit
<1> QED
  BY <1>1 DEF ConsoleInit, ConsoleTypeOK, Transaction, Kind, Phase, SessionId

\* A session the table has now is an occupancy.
LEMMA CurrentType ==
  ASSUME TypeOK, NEW s \in LiveSources, NEW con \in Console
  PROVE  /\ Current(s, con) \in Occupancy
         /\ Current(s, con) \in SessionId
BY DEF TypeOK, LiveSources, Current, Occupancy, SessionId

-----------------------------------------------------------------------------
(* Every step is a step of the table or leaves it alone.                   *)

LEMMA ReportUsesTable ==
  ASSUME ConsoleTypeOK, NEW c \in Command, NEW phase \in Phase, WritePhase(c, phase)
  PROVE  [Next]_vars
<1>1. session[c].source \in Source /\ session[c].console \in Console
  BY DEF ConsoleTypeOK, SessionId
<1> QED
  BY <1>1 DEF WritePhase, Next, ConsoleNext

LEMMA ConsoleStepUsesTable ==
  TypeOK /\ ConsoleTypeOK /\ [ConsoleCommandsNext]_cvars => [Next]_vars
<1> SUFFICES ASSUME TypeOK, ConsoleTypeOK, [ConsoleCommandsNext]_cvars PROVE [Next]_vars
  OBVIOUS
<1>1. ASSUME NEW c \in Command, CommandStep(c) PROVE [Next]_vars
  <2>0. session[c].source \in Source /\ session[c].console \in Console
    BY DEF ConsoleTypeOK, SessionId
  <2>1. CASE SessionOpened(c)
    BY <2>0, <2>1 DEF SessionOpened, Next, ConsoleNext
  <2>2. CASE Admitted(c)
    BY <2>0, <2>2 DEF Admitted, Next, ConsoleNext
  <2>3. CASE MarkActive(c) \/ MarkFailed(c) \/ MarkIdle(c)
    BY <2>3, ReportUsesTable DEF MarkActive, MarkFailed, MarkIdle, Report, Phase
  <2>4. CASE End(c)
    BY <2>4 DEF End, EndConsoleOperation, Next, ConsoleNext
  <2> QED
    BY <1>1, <2>1, <2>2, <2>3, <2>4
       DEF CommandStep, SessionRefused, NotAdmitted, RefuseFailed, ContextFails,
           BeginTransaction, Execute, Explain, Settle
<1>2. ASSUME NEW c \in Command, NEW todo \in Kind, NEW s \in Source, NEW con \in Console,
             Start(c, todo, s, con)
      PROVE  [Next]_vars
  BY <1>2 DEF Start
<1>3. ASSUME NEW s \in Source, NEW con \in Console, SwitchToAuto(s, con) PROVE [Next]_vars
  BY <1>3 DEF SwitchToAuto, Next, ConsoleNext
<1>4. ASSUME NEW l \in registered \ queued, InvalidateGeneration(l.source, l.generation)
      PROVE  [Next]_vars
  <2>1. l.source \in Source /\ InvalidateGeneration(l.source, live[l.source])
    BY <1>4 DEF InvalidateGeneration, TypeOK, Lease
  <2> QED
    BY <2>1 DEF Next, SessionNext
<1>5. CASE SourceStep
  BY <1>4, <1>5 DEF SourceStep, Next, SessionNext
<1>6. CASE UNCHANGED cvars
  BY <1>6 DEF cvars
<1> QED
  BY <1>1, <1>2, <1>3, <1>5, <1>6 DEF ConsoleCommandsNext

-----------------------------------------------------------------------------
(* Types.                                                                  *)

LEMMA ConsoleTypeNext ==
  TypeOK /\ ConsoleTypeOK /\ [ConsoleCommandsNext]_cvars => ConsoleTypeOK'
<1> SUFFICES ASSUME TypeOK, ConsoleTypeOK, [ConsoleCommandsNext]_cvars PROVE ConsoleTypeOK'
  OBVIOUS
<1> USE DEF ConsoleTypeOK, commandVars, Goto
<1>1. ASSUME NEW c \in Command, CommandStep(c) PROVE ConsoleTypeOK'
  <2>0. /\ session[c] \in SessionId /\ session[c].source \in Source
        /\ session[c].console \in Console
    BY DEF SessionId
  <2>1. CASE SessionOpened(c)
    BY <2>0, <2>1 DEF SessionOpened, Transaction
  <2>2. CASE Admitted(c)
    <3>1. Current(session[c].source, session[c].console) \in SessionId
      BY <2>0, <2>2, CurrentType DEF Admitted, BeginConsoleOperation
    <3>2. consoles[session[c].source][session[c].console] \in Phase
      BY <2>0, <2>2 DEF Admitted, BeginConsoleOperation, TypeOK
    <3> QED
      BY <2>2, <3>1, <3>2 DEF Admitted
  <2>3. ASSUME NEW phase \in Phase, NEW label \in Labels, Report(c, phase, label)
        PROVE  ConsoleTypeOK'
    <3>1. misreported' \subseteq Occupancy
      BY <2>0, <2>3, CurrentType DEF Report, Present, Current
    <3> QED
      BY <2>3, <3>1 DEF Report, Labels, Working
  <2>4. CASE MarkActive(c) \/ MarkFailed(c) \/ MarkIdle(c)
    BY <2>3, <2>4 DEF MarkActive, MarkFailed, MarkIdle, Phase, Labels, Working
  <2>5. CASE End(c)
    <3>1. [session[c] EXCEPT !.generation = Unadmitted] \in SessionId
      BY <2>0 DEF SessionId
    <3> QED
      BY <2>5, <3>1 DEF End, Phase
  <2>6. CASE SessionRefused(c) \/ NotAdmitted(c) \/ RefuseFailed(c) \/ ContextFails(c)
    BY <2>6 DEF SessionRefused, NotAdmitted, RefuseFailed, ContextFails
  <2>7. CASE BeginTransaction(c) \/ Execute(c) \/ Explain(c) \/ Settle(c)
    <3>1. /\ txn' \in [Occupancy -> Transaction]
          /\ UNCHANGED <<kind, session, snapshot, misreported>>
      BY <2>7 DEF BeginTransaction, Execute, Explain, Settle, SetTransaction, Transaction
    <3>2. PICK label \in {"began", "ending", "failing", "settled"} :
            pc' = [pc EXCEPT ![c] = label]
      BY <2>7 DEF BeginTransaction, Execute, Explain, Settle
    <3> QED
      BY <3>1, <3>2
  <2> QED
    BY <1>1, <2>1, <2>2, <2>4, <2>5, <2>6, <2>7 DEF CommandStep
<1>2. ASSUME NEW c \in Command, NEW todo \in Kind, NEW s \in Source, NEW con \in Console,
             Start(c, todo, s, con)
      PROVE  ConsoleTypeOK'
  <2>1. [source |-> s, generation |-> Unadmitted, console |-> con] \in SessionId
    BY DEF SessionId
  <2> QED
    BY <1>2, <2>1 DEF Start
<1>3. ASSUME NEW s \in Source, NEW con \in Console, SwitchToAuto(s, con) PROVE ConsoleTypeOK'
  BY <1>3 DEF SwitchToAuto, Transaction
<1>4. CASE SourceStep
  BY <1>4 DEF SourceStep
<1>5. CASE UNCHANGED cvars
  BY <1>5 DEF cvars
<1> QED
  BY <1>1, <1>2, <1>3, <1>4, <1>5 DEF ConsoleCommandsNext

LEMMA TableAndTypes ==
  ConsoleSpec => [](TypeOK /\ ConsoleTypeOK)
<1>1. TypeOK /\ ConsoleTypeOK /\ [ConsoleCommandsNext]_cvars => (TypeOK /\ ConsoleTypeOK)'
  BY ConsoleStepUsesTable, TypeNext, ConsoleTypeNext
<1> QED
  BY <1>1, ConsoleTypeInit, PTL DEF ConsoleSpec

(* Every command is well typed in every reachable state.                   *)
THEOREM ConsoleTypeCorrect == ConsoleSpec => []ConsoleTypeOK
BY TableAndTypes, PTL

(* The console commands implement the session table: each of their steps is *)
(* one of its methods or leaves it alone.                                  *)
THEOREM ConsolesUseTable == ConsoleSpec => UsesTable
<1>1. ConsoleInit => Init
  BY DEF ConsoleInit
<1> QED
  BY <1>1, ConsoleStepUsesTable, TableAndTypes, PTL DEF ConsoleSpec, UsesTable, Spec

-----------------------------------------------------------------------------
(* What a step does to the connections.                                    *)

\* What a step may do to the connections besides the console sessions of the
\* connections there are.
Retires == \E S \in SUBSET Source : Retire(S) /\ UNCHANGED <<nextGeneration, consoleHeld>>
Connects == \E s \in Source : FinishConnectOk(s)
KeepsConsoles == UNCHANGED <<live, consoles, consoleHeld>>

LEMMA SourceSteps == TypeOK /\ SourceStep => Retires \/ Connects \/ KeepsConsoles
<1> SUFFICES ASSUME TypeOK, SourceStep PROVE Retires \/ Connects \/ KeepsConsoles
  OBVIOUS
<1>1. ASSUME NEW s \in Source, BeginConnect(s) PROVE Retires
  <2>1. PICK S \in SUBSET Source : StartConnecting(s, S)
    BY <1>1 DEF BeginConnect, LeastRecentlyUsed
  <2> QED
    BY <1>1, <2>1 DEF BeginConnect, StartConnecting, Retires
<1>2. ASSUME NEW s \in Source, NEW st, RetireSource(s, st) PROVE Retires
  BY <1>2 DEF RetireSource, Retires
<1>3. ASSUME NEW S \in SUBSET Source, ReclaimIdle(S) PROVE Retires
  BY <1>3 DEF ReclaimIdle, Retires
<1>4. ASSUME QueryNext PROVE KeepsConsoles
  BY <1>4 DEF QueryNext, BeginQuery, CancelQueuedQuery, AcquirePermit, ActivateQueued, FailQueued,
         FinishQuery, KeepsConsoles, sessionVars, consoleVars
<1>5. ASSUME NEW l \in registered \ queued, InvalidateGeneration(l.source, l.generation)
      PROVE  Retires
  <2>1. l.source \in Source
    BY DEF TypeOK, Lease
  <2> QED
    BY <1>2, <1>5, <2>1 DEF InvalidateGeneration
<1> QED
  BY <1>1, <1>2, <1>3, <1>4, <1>5 DEF SourceStep, Connects, Disconnect, InvalidateGeneration

-----------------------------------------------------------------------------
(* The gate of a session belongs to one working command.                   *)

LEMMA OccupancyNext ==
  TypeOK /\ ConsoleTypeOK /\ OccupancyIsOwned /\ [ConsoleCommandsNext]_cvars => OccupancyIsOwned'
<1> SUFFICES ASSUME TypeOK, ConsoleTypeOK, OccupancyIsOwned, [ConsoleCommandsNext]_cvars
             PROVE  OccupancyIsOwned'
  OBVIOUS
<1>0. pc \in [Command -> Labels] /\ session \in [Command -> SessionId]
  BY DEF ConsoleTypeOK, Labels, Working
<1> USE DEF OccupancyIsOwned
\* A command moves among the labels of those that work, or of those that do not.
<1>1. ASSUME NEW c \in Command, NEW label \in Labels, pc[c] \in Working <=> label \in Working,
             pc' = [pc EXCEPT ![c] = label], UNCHANGED consoleHeld,
             \/ UNCHANGED session
             \/ pc[c] = "idle" /\ \A d \in Command \ {c} : session'[d] = session[d]
      PROVE  OccupancyIsOwned'
  BY <1>0, <1>1 DEF Working
<1>2. ASSUME NEW c \in Command, NEW label \in Labels, pc[c] \in Working <=> label \in Working,
             Goto(c, label), UNCHANGED vars
      PROVE  OccupancyIsOwned'
  <2>1. pc' = [pc EXCEPT ![c] = label] /\ UNCHANGED <<consoleHeld, session>>
    BY <1>2 DEF Goto, vars, consoleVars
  <2> QED
    BY <1>1, <1>2, <2>1
<1>3. ASSUME NEW c \in Command, NEW phase, NEW label \in Working, pc[c] \in Working,
             Report(c, phase, label)
      PROVE  OccupancyIsOwned'
  <2>1. UNCHANGED <<consoleHeld, session>>
    BY <1>3 DEF Report, WritePhase, SetConsolePhase, vars, consoleVars
  <2> QED
    BY <1>1, <1>3, <2>1 DEF Report, Labels
<1>4. ASSUME NEW c \in Command, CommandStep(c) PROVE OccupancyIsOwned'
  <2> USE DEF Labels, Working
  <2>1. CASE SessionOpened(c)
    <3>1. UNCHANGED consoleHeld
      BY <2>1 DEF SessionOpened, InstallConsoleSession, vars, consoleVars
    <3> QED
      BY <1>1, <2>1, <3>1 DEF SessionOpened, Goto
  <2>2. CASE SessionRefused(c) \/ NotAdmitted(c)
    BY <1>2, <2>2 DEF SessionRefused, NotAdmitted
  <2>3. CASE Admitted(c)
    <3> DEFINE k == Current(session[c].source, session[c].console)
    <3>1. /\ k \notin consoleHeld /\ consoleHeld' = consoleHeld \cup {k}
          /\ pc[c] = "starting" /\ pc' = [pc EXCEPT ![c] = "admitted"]
          /\ session' = [session EXCEPT ![c] = k]
      BY <2>3 DEF Admitted, BeginConsoleOperation, Current
    <3> HIDE DEF k
    <3> QED
      BY <1>0, <3>1
  <2>4. CASE RefuseFailed(c) \/ ContextFails(c) \/ BeginTransaction(c)
    BY <1>2, <2>4 DEF RefuseFailed, ContextFails, BeginTransaction
  <2>5. CASE Execute(c) \/ Explain(c) \/ Settle(c)
    BY <1>2, <2>5 DEF Execute, Explain, Settle
  <2>6. CASE MarkActive(c) \/ MarkFailed(c) \/ MarkIdle(c)
    BY <1>3, <2>6 DEF MarkActive, MarkFailed, MarkIdle
  <2>7. CASE End(c)
    <3>1. /\ pc[c] = "ending" /\ pc' = [pc EXCEPT ![c] = "idle"]
          /\ consoleHeld' = consoleHeld \ {session[c]}
          /\ \A d \in Command \ {c} : session'[d] = session[d]
      BY <1>0, <2>7 DEF End, EndConsoleOperation
    <3> QED
      BY <1>0, <3>1
  <2> QED
    BY <1>4, <2>1, <2>2, <2>3, <2>4, <2>5, <2>6, <2>7 DEF CommandStep
<1>5. ASSUME NEW c \in Command, NEW todo \in Kind, NEW s \in Source, NEW con \in Console,
             Start(c, todo, s, con)
      PROVE  OccupancyIsOwned'
  <2>1. PICK label \in {"opening", "starting"} : pc' = [pc EXCEPT ![c] = label]
    BY <1>5 DEF Start
  <2>2. pc[c] = "idle" /\ UNCHANGED consoleHeld /\ \A d \in Command \ {c} : session'[d] = session[d]
    BY <1>0, <1>5 DEF Start, vars, consoleVars
  <2> QED
    BY <1>1, <2>1, <2>2 DEF Labels, Working
<1>6. ASSUME NEW s \in Source, NEW con \in Console, SwitchToAuto(s, con) PROVE OccupancyIsOwned'
  BY <1>6 DEF SwitchToAuto, RemoveConsoleSession, commandVars
<1>7. CASE SourceStep
  <2>1. UNCHANGED consoleHeld
    BY <1>7, SourceSteps DEF Retires, Connects, FinishConnectOk, KeepsConsoles, consoleVars
  <2> QED
    BY <1>7, <2>1 DEF SourceStep, commandVars
<1>8. CASE UNCHANGED cvars
  BY <1>8 DEF cvars, vars, consoleVars, commandVars
<1> QED
  BY <1>4, <1>5, <1>6, <1>7, <1>8 DEF ConsoleCommandsNext

(* A console gate is held exactly by one command that works on that          *)
(* physical session, whatever becomes of the Data Source meanwhile.         *)
THEOREM OccupancyCorrect == ConsoleSpec => []OccupancyIsOwned
<1>1. ConsoleInit => OccupancyIsOwned
  BY DEF ConsoleInit, Init, OccupancyIsOwned, Working
<1> QED
  BY <1>1, OccupancyNext, TableAndTypes, PTL DEF ConsoleSpec

-----------------------------------------------------------------------------
(* Phase and transaction.                                                  *)

PhaseOf(k) == consoles[k.source][k.console]

\* The phase admits to a transaction if there is one.
Covers(k) == txn[k] = "none" \/ PhaseOf(k) # "idle"

\* k is a session the table has now, and its phase is its own commands' doing.
Trusted(k) == RegistryOpen(k) /\ PhaseOf(k) # "absent" /\ k \notin misreported

\* What a command that works on k may rely on, at each of its steps.
Relies(c, k) ==
  /\ pc[c] = "admitted" => snapshot[c] = PhaseOf(k) /\ Covers(k)
  /\ pc[c] = "began" => PhaseOf(k) = "idle"
  /\ pc[c] \in {"executing", "failing"} => PhaseOf(k) # "idle"
  /\ pc[c] = "settled" => txn[k] = "none"
  /\ pc[c] = "ending" => Covers(k)

OfflineHasNone == \A s \in Source \ LiveSources, con \in Console : consoles[s][con] = "absent"
HeldIsPresent == \A k \in consoleHeld : RegistryOpen(k) => PhaseOf(k) # "absent"
RestIsCovered == \A k \in Occupancy \ consoleHeld : Trusted(k) => Covers(k)
WorkIsCovered ==
  \A c \in Command : (pc[c] \in Working /\ Trusted(session[c])) => Relies(c, session[c])

PhaseParts == OfflineHasNone /\ HeldIsPresent /\ RestIsCovered /\ WorkIsCovered
TableParts == TypeOK /\ ConsoleTypeOK /\ StatusMatchesRuntime /\ GenerationsIdentifyConnections
ConsoleInv == TableParts /\ OccupancyIsOwned /\ PhaseParts

LEMMA TablePartsNext ==
  TableParts /\ OccupancyIsOwned /\ [ConsoleCommandsNext]_cvars => (TableParts /\ OccupancyIsOwned)'
BY ConsoleStepUsesTable, TypeNext, ConsoleTypeNext, StatusNext, GenerationsNext, OccupancyNext
   DEF TableParts

\* A session is known by its connection and its console.
LEMMA SameSession ==
  ASSUME NEW k \in Occupancy, NEW m \in Occupancy, RegistryOpen(k), RegistryOpen(m),
         k.source = m.source, k.console = m.console
  PROVE  k = m
BY DEF Occupancy, RegistryOpen

LEMMA WorkingSession ==
  ASSUME ConsoleInv, NEW c \in Command, pc[c] \in Working
  PROVE  /\ session[c] \in consoleHeld /\ session[c] \in Occupancy
         /\ session[c].source \in Source /\ session[c].console \in Console
         /\ \A d \in Command : (pc[d] \in Working /\ session[d] = session[c]) => d = c
BY DEF ConsoleInv, TableParts, TypeOK, Occupancy, OccupancyIsOwned

\* A command works on its session beside the table.
LEMMA WorkStep ==
  ASSUME ConsoleInv, NEW c \in Command, NEW label \in Working, pc[c] \in Working,
         Goto(c, label), UNCHANGED vars,
         \A m \in Occupancy : m # session[c] => txn'[m] = txn[m],
         Trusted(session[c]) => Relies(c, session[c])'
  PROVE  PhaseParts'
<1> DEFINE k == session[c]
<1>0. /\ k \in consoleHeld /\ k \in Occupancy
      /\ \A d \in Command : (pc[d] \in Working /\ session[d] = k) => d = c
  BY WorkingSession
<1>1. /\ UNCHANGED <<live, consoles, consoleHeld, session, snapshot, misreported>>
      /\ pc' = [pc EXCEPT ![c] = label]
  BY DEF Goto, vars, sessionVars, consoleVars
<1>2. pc \in [Command -> Labels] /\ consoleHeld \subseteq Occupancy
  BY DEF ConsoleInv, TableParts, TypeOK, ConsoleTypeOK, Labels, Working
<1>3. OfflineHasNone' /\ HeldIsPresent'
  BY <1>1 DEF ConsoleInv, PhaseParts, OfflineHasNone, HeldIsPresent, LiveSources, RegistryOpen,
         PhaseOf
<1>4. RestIsCovered'
  BY <1>0, <1>1 DEF ConsoleInv, PhaseParts, RestIsCovered, Trusted, Covers, RegistryOpen, PhaseOf
<1>5. ASSUME NEW d \in Command, pc'[d] \in Working, Trusted(session[d])'
      PROVE  Relies(d, session[d])'
  <2>1. CASE d = c
    <3>1. Trusted(session[c])
      BY <1>1, <1>5, <2>1 DEF Trusted, RegistryOpen, PhaseOf
    <3> QED
      BY <2>1, <3>1
  <2>2. CASE d # c
    <3>1. pc'[d] = pc[d] /\ pc[d] \in Working
      BY <1>1, <1>2, <1>5, <2>2
    <3>2. session[d] # k /\ session[d] \in Occupancy /\ Trusted(session[d])
      BY <1>0, <1>1, <1>5, <2>2, <3>1, WorkingSession DEF Trusted, RegistryOpen, PhaseOf
    <3>3. Relies(d, session[d]) /\ txn'[session[d]] = txn[session[d]]
      BY <3>1, <3>2 DEF ConsoleInv, PhaseParts, WorkIsCovered
    <3> QED
      BY <1>1, <3>1, <3>3 DEF Relies, Covers, PhaseOf
  <2> QED
    BY <2>1, <2>2
<1> QED
  BY <1>3, <1>4, <1>5 DEF PhaseParts, WorkIsCovered

\* A command reports: its own session has the new phase, or the one that took
\* its place is misreported.
LEMMA ReportEffect ==
  ASSUME ConsoleInv, NEW c \in Command, NEW phase \in Phase, NEW label, pc[c] \in Working,
         Report(c, phase, label)
  PROVE  /\ UNCHANGED <<live, consoleHeld, txn, session, snapshot>>
         /\ pc' = [pc EXCEPT ![c] = label]
         /\ OfflineHasNone' /\ HeldIsPresent'
         /\ Trusted(session[c])' => Trusted(session[c]) /\ PhaseOf(session[c])' = phase
         /\ \A m \in Occupancy \ {session[c]} :
              Trusted(m)' => Trusted(m) /\ PhaseOf(m)' = PhaseOf(m)
<1> DEFINE k == session[c]
           s == k.source
           con == k.console
           j == Current(s, con)
<1>0. /\ k \in consoleHeld /\ k \in Occupancy /\ s \in Source /\ con \in Console
  BY WorkingSession
<1>1. UNCHANGED <<live, consoleHeld, txn, session, snapshot>> /\ pc' = [pc EXCEPT ![c] = label]
  BY DEF Report, WritePhase, SetConsolePhase, vars, sessionVars, consoleVars
<1>2. /\ consoles \in [Source -> [Console -> Phase \cup {"absent"}]]
      /\ live \in [Source -> Generation \cup {NoGeneration}] /\ consoleHeld \subseteq Occupancy
  BY DEF ConsoleInv, TableParts, TypeOK
<1>3. CASE ~Present(s, con)
  <2>1. UNCHANGED consoles /\ misreported \subseteq misreported'
    BY <1>3 DEF Report, WritePhase, vars, consoleVars
  <2>2. ~RegistryOpen(k)
    BY <1>0, <1>2, <1>3 DEF ConsoleInv, PhaseParts, HeldIsPresent, Present, PhaseOf, RegistryOpen,
           LiveSources, Occupancy, Generation, NoGeneration
  <2> QED
    BY <1>1, <2>1, <2>2 DEF ConsoleInv, PhaseParts, OfflineHasNone, HeldIsPresent, LiveSources,
           RegistryOpen, PhaseOf, Trusted
<1>4. CASE Present(s, con)
  <2>1. /\ consoles' = [consoles EXCEPT ![s][con] = phase]
        /\ misreported' = misreported \cup (IF j # k THEN {j} ELSE {})
        /\ s \in LiveSources
    BY <1>4 DEF Report, WritePhase, SetConsolePhase, Current
  <2>2. j \in Occupancy /\ RegistryOpen(j) /\ j.source = s /\ j.console = con
    BY <1>0, <2>1, CurrentType DEF ConsoleInv, TableParts, Current, RegistryOpen
  <2>3. \A m \in Occupancy :
          (m.source = s /\ m.console = con) => PhaseOf(m)' = phase
    BY <1>0, <1>2, <2>1 DEF PhaseOf
  <2>4. \A m \in Occupancy :
          ~(m.source = s /\ m.console = con) => PhaseOf(m)' = PhaseOf(m)
    BY <1>0, <1>2, <2>1 DEF PhaseOf, Occupancy
  <2>5. \A t \in Source, d \in Console :
          t \notin LiveSources => consoles'[t][d] = consoles[t][d]
    BY <1>0, <1>2, <2>1
  <2>6. OfflineHasNone' /\ HeldIsPresent'
    <3>1. OfflineHasNone'
      BY <1>1, <2>5 DEF ConsoleInv, PhaseParts, OfflineHasNone, LiveSources
    <3>2. ASSUME NEW m \in consoleHeld, RegistryOpen(m) PROVE PhaseOf(m)' # "absent"
      BY <1>2, <2>3, <2>4, <3>2 DEF ConsoleInv, PhaseParts, HeldIsPresent, Phase
    <3> QED
      BY <1>1, <3>1, <3>2 DEF HeldIsPresent, RegistryOpen
  <2>7. ASSUME Trusted(k)' PROVE Trusted(k) /\ PhaseOf(k)' = phase
    <3>1. RegistryOpen(k) /\ k \notin misreported
      BY <1>1, <2>1, <2>7 DEF Trusted, RegistryOpen
    <3>2. PhaseOf(k)' = consoles'[s][con]
      BY <1>1 DEF PhaseOf
    <3>3. consoles'[s][con] = phase
      BY <1>0, <1>2, <2>1
    <3> QED
      BY <1>0, <3>1, <3>2, <3>3 DEF ConsoleInv, PhaseParts, HeldIsPresent, Trusted
  <2>8. ASSUME NEW m \in Occupancy \ {k}, Trusted(m)'
        PROVE  Trusted(m) /\ PhaseOf(m)' = PhaseOf(m)
    <3>1. RegistryOpen(m) /\ m \notin misreported' /\ PhaseOf(m)' # "absent"
      BY <1>1, <2>8 DEF Trusted, RegistryOpen
    <3>2. m # j
      BY <2>1, <2>8, <3>1
    <3>3. ~(m.source = s /\ m.console = con)
      BY <2>2, <3>1, <3>2, SameSession
    <3> QED
      BY <2>1, <2>4, <3>1, <3>3 DEF Trusted
  <2> QED
    BY <1>1, <2>6, <2>7, <2>8
<1> QED
  BY <1>3, <1>4

LEMMA ReportStep ==
  ASSUME ConsoleInv, NEW c \in Command, NEW phase \in Phase, NEW label \in {"executing", "ending"},
         pc[c] \in Working, Report(c, phase, label),
         label = "executing" => phase # "idle",
         phase = "idle" => pc[c] = "settled"
  PROVE  PhaseParts'
<1> DEFINE k == session[c]
<1>0. /\ k \in consoleHeld /\ k \in Occupancy
      /\ \A d \in Command : (pc[d] \in Working /\ session[d] = k) => d = c
  BY WorkingSession
<1>1. pc \in [Command -> Labels]
  BY DEF ConsoleInv, TableParts, ConsoleTypeOK, Labels, Working
<1>2. RestIsCovered'
  BY <1>0, ReportEffect DEF ConsoleInv, PhaseParts, RestIsCovered, Covers
<1>3. ASSUME NEW d \in Command, pc'[d] \in Working, Trusted(session[d])'
      PROVE  Relies(d, session[d])'
  <2>1. CASE d = c
    <3>1. pc'[d] = label /\ Trusted(k) /\ PhaseOf(k)' = phase /\ session' = session /\ txn' = txn
      BY <1>1, <1>3, <2>1, ReportEffect
    <3>2. phase = "idle" => txn[k] = "none"
      BY <3>1 DEF ConsoleInv, PhaseParts, WorkIsCovered, Relies
    <3> QED
      BY <2>1, <3>1, <3>2 DEF Relies, Covers
  <2>2. CASE d # c
    <3>1. pc'[d] = pc[d] /\ pc[d] \in Working
      BY <1>1, <1>3, <2>2, ReportEffect
    <3>2. session[d] # k /\ session[d] \in Occupancy
      BY <1>0, <2>2, <3>1, WorkingSession
    <3>3. Trusted(session[d]) /\ PhaseOf(session[d])' = PhaseOf(session[d])
      BY <1>3, <3>2, ReportEffect
    <3>4. Relies(d, session[d])
      BY <3>1, <3>3 DEF ConsoleInv, PhaseParts, WorkIsCovered
    <3>5. UNCHANGED <<txn, session, snapshot>>
      BY ReportEffect
    <3> QED
      BY <3>1, <3>3, <3>4, <3>5 DEF Relies, Covers
  <2> QED
    BY <2>1, <2>2
<1> QED
  BY <1>2, <1>3, ReportEffect DEF PhaseParts, WorkIsCovered

\* The steps of a command that is admitted.
LEMMA WorkingStep ==
  ASSUME ConsoleInv, NEW c \in Command, pc[c] \in Working,
         \/ RefuseFailed(c) \/ ContextFails(c) \/ BeginTransaction(c) \/ MarkActive(c)
         \/ Execute(c) \/ Explain(c) \/ MarkFailed(c) \/ Settle(c) \/ MarkIdle(c)
  PROVE  PhaseParts'
<1> DEFINE k == session[c]
<1>0. k \in Occupancy /\ txn \in [Occupancy -> Transaction] /\ pc \in [Command -> Labels]
  BY WorkingSession DEF ConsoleInv, TableParts, ConsoleTypeOK, Labels, Working
<1>1. Trusted(k) => Relies(c, k)
  BY DEF ConsoleInv, PhaseParts, WorkIsCovered
<1> DEFINE Moves(label) ==
             /\ Goto(c, label) /\ UNCHANGED vars
             /\ \A m \in Occupancy : m # k => txn'[m] = txn[m]
<1>2. ASSUME NEW label \in Working, Moves(label), Trusted(k) => Relies(c, k)' PROVE PhaseParts'
  BY <1>2, WorkStep
<1>3. ASSUME NEW label \in Working, Moves(label)
      PROVE  /\ pc'[c] = label /\ k' = k /\ PhaseOf(k)' = PhaseOf(k)
             /\ snapshot' = snapshot
  BY <1>0, <1>3 DEF Goto, vars, consoleVars, PhaseOf
\* Without a change of the transaction what covered it still does.
<1>4. ASSUME NEW label \in {"ending", "failing"}, Moves(label), UNCHANGED txn,
             pc[c] = "admitted" \/ pc[c] = "executing",
             label = "failing" => (pc[c] = "executing" \/ snapshot[c] = "active")
      PROVE  PhaseParts'
  <2>1. label \in Working
    BY DEF Working
  <2> QED
    BY <1>1, <1>2, <1>3, <1>4, <2>1 DEF Relies, Covers
\* A transaction that is gone needs no covering.
<1>5. ASSUME NEW label \in {"ending", "settled"}, Moves(label), txn'[k] = "none"
      PROVE  PhaseParts'
  <2>1. label \in Working
    BY DEF Working
  <2> QED
    BY <1>1, <1>2, <1>3, <1>5, <2>1 DEF Relies, Covers
\* An error aborts a transaction whose phase admits to it.
<1>6. ASSUME NEW label \in {"ending", "failing"}, Moves(label),
             IF txn[k] = "open" THEN SetTransaction(c, "aborted") ELSE UNCHANGED txn,
             pc[c] = "admitted" \/ pc[c] = "executing",
             label = "failing" => (pc[c] = "executing" \/ snapshot[c] = "active")
      PROVE  PhaseParts'
  <2>1. label \in Working
    BY DEF Working
  <2>2. txn'[k] = "none" \/ txn[k] # "none"
    BY <1>0, <1>6 DEF SetTransaction
  <2> QED
    BY <1>1, <1>2, <1>3, <1>6, <2>1, <2>2 DEF Relies, Covers
<1>7. ASSUME NEW label \in Working, Goto(c, label), UNCHANGED vars,
             UNCHANGED txn \/ \E state \in Transaction : SetTransaction(c, state)
      PROVE  Moves(label)
  BY <1>0, <1>7 DEF SetTransaction
<1>8. ASSUME NEW state \in Transaction, SetTransaction(c, state) PROVE txn'[k] = state
  BY <1>0, <1>8 DEF SetTransaction
<1> HIDE DEF Moves
<1>10. CASE RefuseFailed(c) \/ ContextFails(c)
  BY <1>4, <1>7, <1>10 DEF RefuseFailed, ContextFails, Working
<1>11. CASE BeginTransaction(c)
  <2>1. CASE UNCHANGED txn /\ Goto(c, "ending")
    BY <1>4, <1>7, <1>11, <2>1 DEF BeginTransaction, Working
  <2>2. CASE SetTransaction(c, "open") /\ Goto(c, "began")
    <3>1. Moves("began")
      BY <1>7, <1>11, <2>2 DEF BeginTransaction, Working, Transaction
    <3>2. Trusted(k) => Relies(c, k)'
      BY <1>1, <1>3, <1>11, <3>1 DEF Relies, BeginTransaction, Working
    <3> QED
      BY <1>2, <3>1, <3>2 DEF Working
  <2> QED
    BY <1>11, <2>1, <2>2 DEF BeginTransaction
<1>12. CASE Execute(c)
  <2>1. CASE UNCHANGED txn /\ Goto(c, "ending")
    BY <1>4, <1>7, <1>12, <2>1 DEF Execute, Working
  <2>2. CASE SetTransaction(c, "none") /\ Goto(c, "ending")
    BY <1>5, <1>7, <1>8, <1>12, <2>2 DEF Execute, Working, Transaction
  <2>3. CASE /\ IF txn[k] = "open" THEN SetTransaction(c, "aborted") ELSE UNCHANGED txn
             /\ Goto(c, "failing")
    <3>1. Moves("failing")
      BY <1>7, <1>12, <2>3 DEF Execute, Working, Transaction
    <3> QED
      BY <1>6, <1>12, <2>3, <3>1 DEF Execute
  <2> QED
    BY <1>12, <2>1, <2>2, <2>3 DEF Execute
<1>13. CASE Explain(c)
  <2>1. CASE UNCHANGED txn /\ Goto(c, "ending")
    BY <1>4, <1>7, <1>13, <2>1 DEF Explain, Working
  <2>2. ASSUME NEW label \in {"ending", "failing"}, Goto(c, label),
               label = "failing" => snapshot[c] = "active",
               IF txn[k] = "open" THEN SetTransaction(c, "aborted") ELSE UNCHANGED txn
        PROVE  PhaseParts'
    <3>1. Moves(label)
      BY <1>7, <1>13, <2>2 DEF Explain, Working, Transaction
    <3> QED
      BY <1>6, <1>13, <2>2, <3>1 DEF Explain
  <2> QED
    BY <1>13, <2>1, <2>2 DEF Explain
<1>14. CASE Settle(c)
  <2>1. ASSUME NEW label \in {"settled", "ending"}, SetTransaction(c, "none"), Goto(c, label)
        PROVE  PhaseParts'
    BY <1>5, <1>7, <1>8, <1>14, <2>1 DEF Settle, Working, Transaction
  <2>2. CASE UNCHANGED txn /\ Goto(c, "ending")
    BY <1>4, <1>7, <1>14, <2>2 DEF Settle, Working
  <2> QED
    BY <1>14, <2>1, <2>2 DEF Settle
<1>15. CASE MarkActive(c) \/ MarkFailed(c) \/ MarkIdle(c)
  BY <1>15, ReportStep DEF MarkActive, MarkFailed, MarkIdle, Phase
<1> QED
  BY <1>10, <1>11, <1>12, <1>13, <1>14, <1>15

\* The working commands after the step are those before it.
SameWorkers ==
  \A d \in Command : pc'[d] \in Working =>
    pc'[d] = pc[d] /\ session'[d] = session[d] /\ snapshot'[d] = snapshot[d]

\* A step that leaves every session it can be trusted after as it was.
LEMMA FrameStep ==
  ASSUME ConsoleInv, OfflineHasNone', HeldIsPresent', UNCHANGED consoleHeld, SameWorkers,
         \A m \in Occupancy : Trusted(m)' =>
           \/ Trusted(m) /\ PhaseOf(m)' = PhaseOf(m) /\ txn'[m] = txn[m]
           \/ txn'[m] = "none" /\ m \notin consoleHeld
  PROVE  PhaseParts'
<1>1. RestIsCovered'
  BY DEF ConsoleInv, PhaseParts, RestIsCovered, Covers
<1>2. ASSUME NEW d \in Command, pc'[d] \in Working, Trusted(session[d])'
      PROVE  Relies(d, session[d])'
  <2> DEFINE k == session[d]
  <2>1. pc'[d] = pc[d] /\ session'[d] = k /\ snapshot'[d] = snapshot[d] /\ pc[d] \in Working
    BY <1>2 DEF SameWorkers
  <2>2. k \in consoleHeld /\ k \in Occupancy
    BY <2>1, WorkingSession
  <2>3. ASSUME NEW m \in Occupancy, session'[d] = m, m = session[d], m \in consoleHeld
        PROVE  Relies(d, session[d])'
    <3>1. Trusted(m)'
      BY <1>2, <2>3 DEF Trusted, RegistryOpen, PhaseOf
    <3>2. Trusted(m) /\ PhaseOf(m)' = PhaseOf(m) /\ txn'[m] = txn[m]
      BY <2>3, <3>1
    <3>3. Relies(d, m)
      BY <2>1, <2>3, <3>2 DEF ConsoleInv, PhaseParts, WorkIsCovered
    <3>4. Relies(d, m)'
      BY <2>1, <3>2, <3>3 DEF Relies, Covers
    <3> QED
      BY <2>3, <3>4 DEF Relies, Covers, PhaseOf
  <2> QED
    BY <2>1, <2>2, <2>3
<1> QED
  BY <1>1, <1>2 DEF PhaseParts, WorkIsCovered

LEMMA SourceKeepsPhases ==
  ASSUME ConsoleInv, SourceStep
  PROVE  PhaseParts'
<1>0. /\ consoles \in [Source -> [Console -> Phase \cup {"absent"}]]
      /\ consoleHeld \subseteq Occupancy
      /\ live \in [Source -> Generation \cup {NoGeneration}] /\ TypeOK
  BY DEF ConsoleInv, TableParts, TypeOK
<1>1. UNCHANGED <<txn, misreported, pc, session, snapshot>> /\ SameWorkers
  BY DEF SourceStep, commandVars, SameWorkers
<1>2. CASE KeepsConsoles
  BY <1>1, <1>2, FrameStep DEF KeepsConsoles, ConsoleInv, PhaseParts, OfflineHasNone, HeldIsPresent,
         LiveSources, RegistryOpen, PhaseOf, Trusted
<1>3. ASSUME NEW S \in SUBSET Source, Retire(S), UNCHANGED consoleHeld PROVE PhaseParts'
  <2>1. ASSUME NEW m \in Occupancy, RegistryOpen(m)'
        PROVE  RegistryOpen(m) /\ PhaseOf(m)' = PhaseOf(m)
    <3>1. m.source \in Source /\ m.generation # NoGeneration /\ m.console \in Console
      BY DEF Occupancy, Generation, NoGeneration
    <3>2. m.source \notin S
      BY <1>3, <2>1, <3>1 DEF Retire, RegistryOpen
    <3> QED
      BY <1>3, <2>1, <3>1, <3>2 DEF Retire, RegistryOpen, PhaseOf
  <2>2. OfflineHasNone'
    BY <1>0, <1>3 DEF Retire, ConsoleInv, PhaseParts, OfflineHasNone, LiveSources
  <2>3. HeldIsPresent'
    BY <1>0, <1>3, <2>1 DEF ConsoleInv, PhaseParts, HeldIsPresent
  <2>4. \A m \in Occupancy : Trusted(m)' => Trusted(m) /\ PhaseOf(m)' = PhaseOf(m)
    BY <1>1, <2>1 DEF Trusted
  <2> QED
    BY <1>1, <1>3, <2>2, <2>3, <2>4, FrameStep
<1>4. ASSUME NEW s \in Source, FinishConnectOk(s) PROVE PhaseParts'
  <2>1. /\ s \notin LiveSources /\ live' = [live EXCEPT ![s] = nextGeneration]
        /\ UNCHANGED <<consoles, consoleHeld>> /\ nextGeneration \in Nat \ {0}
    BY <1>0, <1>4 DEF FinishConnectOk, consoleVars, ConsoleInv, TableParts, TypeOK,
           StatusMatchesRuntime
  <2>2. \A con \in Console : consoles[s][con] = "absent"
    BY <2>1 DEF ConsoleInv, PhaseParts, OfflineHasNone
  <2>3. OfflineHasNone'
    BY <1>0, <2>1 DEF ConsoleInv, PhaseParts, OfflineHasNone, LiveSources, NoGeneration
  <2>4. ASSUME NEW m \in Occupancy, RegistryOpen(m)', m.source # s PROVE RegistryOpen(m)
    BY <1>0, <2>1, <2>4 DEF RegistryOpen, Occupancy
  <2>5. ASSUME NEW m \in consoleHeld, RegistryOpen(m)' PROVE PhaseOf(m)' # "absent"
    <3>1. m.generation < nextGeneration /\ m \in Occupancy
      BY <1>0 DEF ConsoleInv, TableParts, GenerationsIdentifyConnections
    <3>2. m.source # s
      BY <1>0, <2>1, <2>5, <3>1 DEF RegistryOpen, Occupancy, Generation
    <3> QED
      BY <2>1, <2>4, <2>5, <3>1, <3>2 DEF ConsoleInv, PhaseParts, HeldIsPresent, PhaseOf
  <2>6. ASSUME NEW m \in Occupancy, Trusted(m)' PROVE Trusted(m) /\ PhaseOf(m)' = PhaseOf(m)
    <3>1. PhaseOf(m)' = PhaseOf(m) /\ PhaseOf(m) # "absent" /\ m \notin misreported
      BY <1>1, <2>1, <2>6 DEF Trusted, PhaseOf
    <3>2. m.source # s
      BY <2>2, <3>1 DEF PhaseOf, Occupancy
    <3> QED
      BY <2>4, <2>6, <3>1, <3>2 DEF Trusted
  <2>7. HeldIsPresent'
    BY <2>1, <2>5 DEF HeldIsPresent
  <2> QED
    BY <1>1, <2>1, <2>3, <2>6, <2>7, FrameStep
<1> QED
  BY <1>0, <1>2, <1>3, <1>4, SourceSteps DEF Retires, Connects

\* A console session is opened or closed: it holds no transaction then.
LEMMA ReplacedSession ==
  ASSUME ConsoleInv, NEW s \in LiveSources, NEW con \in Console, NEW phase,
         consoles' = [consoles EXCEPT ![s][con] = phase],
         txn' = [txn EXCEPT ![Current(s, con)] = "none"],
         Current(s, con) \notin consoleHeld,
         UNCHANGED <<live, consoleHeld, misreported>>, SameWorkers
  PROVE  PhaseParts'
<1> DEFINE j == Current(s, con)
<1>0. /\ consoles \in [Source -> [Console -> Phase \cup {"absent"}]]
      /\ consoleHeld \subseteq Occupancy
      /\ s \in Source /\ txn \in [Occupancy -> Transaction]
  BY DEF ConsoleInv, TableParts, TypeOK, ConsoleTypeOK, LiveSources
<1>1. j \in Occupancy /\ RegistryOpen(j) /\ j.source = s /\ j.console = con
  BY <1>0, CurrentType DEF ConsoleInv, TableParts, Current, RegistryOpen
<1>2. ASSUME NEW m \in Occupancy, RegistryOpen(m), m # j
      PROVE  PhaseOf(m)' = PhaseOf(m) /\ txn'[m] = txn[m]
  <2>1. ~(m.source = s /\ m.console = con)
    BY <1>1, <1>2, SameSession
  <2> QED
    BY <1>0, <1>2, <2>1 DEF PhaseOf, Occupancy
<1>3. OfflineHasNone'
  BY <1>0 DEF ConsoleInv, PhaseParts, OfflineHasNone, LiveSources
<1>4. HeldIsPresent'
  <2>1. ASSUME NEW m \in consoleHeld, RegistryOpen(m) PROVE PhaseOf(m)' # "absent"
    BY <1>0, <1>2, <2>1 DEF ConsoleInv, PhaseParts, HeldIsPresent
  <2> QED
    BY <2>1 DEF HeldIsPresent, RegistryOpen
<1>5. ASSUME NEW m \in Occupancy, Trusted(m)'
      PROVE  \/ Trusted(m) /\ PhaseOf(m)' = PhaseOf(m) /\ txn'[m] = txn[m]
             \/ txn'[m] = "none" /\ m \notin consoleHeld
  <2>1. CASE m = j
    BY <1>0, <2>1
  <2>2. CASE m # j
    <3>1. RegistryOpen(m) /\ m \notin misreported /\ PhaseOf(m)' # "absent"
      BY <1>5 DEF Trusted, RegistryOpen
    <3> QED
      BY <1>2, <2>2, <3>1 DEF Trusted
  <2> QED
    BY <2>1, <2>2
<1> QED
  BY <1>3, <1>4, <1>5, FrameStep

\* A command that waits changes nothing that is relied on.
LEMMA WaitingStep ==
  ASSUME ConsoleInv, UNCHANGED <<live, consoles, consoleHeld, txn, misreported>>, SameWorkers
  PROVE  PhaseParts'
BY FrameStep DEF ConsoleInv, PhaseParts, OfflineHasNone, HeldIsPresent, LiveSources, RegistryOpen,
       PhaseOf, Trusted

\* A command takes the gate of its session, or gives it back.
LEMMA GateStep ==
  ASSUME ConsoleInv, NEW c \in Command, Admitted(c) \/ End(c), OccupancyIsOwned', TypeOK'
  PROVE  PhaseParts'
<1>0. /\ pc \in [Command -> Labels] /\ session \in [Command -> SessionId]
      /\ snapshot \in [Command -> Phase] /\ consoleHeld \subseteq Occupancy
  BY DEF ConsoleInv, TableParts, TypeOK, ConsoleTypeOK, Labels, Working
<1>1. UNCHANGED <<live, consoles, txn, misreported>>
  BY DEF Admitted, BeginConsoleOperation, End, EndConsoleOperation, sessionVars
<1>2. OfflineHasNone'
  BY <1>1 DEF ConsoleInv, PhaseParts, OfflineHasNone, LiveSources
<1>3. ASSUME NEW d \in Command \ {c}, pc'[d] \in Working, Trusted(session[d])'
      PROVE  Relies(d, session[d])'
  <2>1. UNCHANGED <<pc[d], session[d], snapshot[d]>>
    BY <1>0 DEF Admitted, End
  <2>2. Trusted(session[d])
    BY <1>1, <1>3, <2>1 DEF Trusted, RegistryOpen, PhaseOf
  <2> QED
    BY <1>1, <1>3, <2>1, <2>2 DEF ConsoleInv, PhaseParts, WorkIsCovered, Relies, Covers, PhaseOf
<1>4. CASE Admitted(c)
  <2> DEFINE k == Current(session[c].source, session[c].console)
  <2>1. /\ session[c].source \in LiveSources /\ session[c].console \in Console
        /\ consoles[session[c].source][session[c].console] # "absent"
        /\ k \notin consoleHeld /\ consoleHeld' = consoleHeld \cup {k}
        /\ pc'[c] = "admitted" /\ session'[c] = k
        /\ snapshot'[c] = consoles[session[c].source][session[c].console]
    BY <1>0, <1>4 DEF Admitted, BeginConsoleOperation, Current, SessionId
  <2>2. /\ k \in Occupancy /\ PhaseOf(k) = snapshot'[c] /\ PhaseOf(k) # "absent"
    BY <2>1, CurrentType DEF ConsoleInv, TableParts, Current, PhaseOf
  <2>3. HeldIsPresent'
    BY <1>1, <2>1, <2>2 DEF ConsoleInv, PhaseParts, HeldIsPresent, RegistryOpen, PhaseOf
  <2>4. RestIsCovered'
    BY <1>1, <2>1 DEF ConsoleInv, PhaseParts, RestIsCovered, Trusted, RegistryOpen, PhaseOf, Covers
  <2>5. ASSUME NEW m, m = k, Trusted(m)' PROVE Relies(c, m)'
    <3>1. Trusted(m)
      BY <1>1, <2>5 DEF Trusted, RegistryOpen, PhaseOf
    <3>2. Covers(m)
      BY <2>1, <2>2, <2>5, <3>1 DEF ConsoleInv, PhaseParts, RestIsCovered
    <3> QED
      BY <1>1, <2>1, <2>2, <2>5, <3>2 DEF Relies, Covers, PhaseOf
  <2>6. Trusted(session[c])' => Relies(c, session[c])'
    <3> HIDE DEF k
    <3> QED
      BY <2>1, <2>5 DEF Trusted, Relies, Covers, RegistryOpen, PhaseOf
  <2> QED
    BY <1>2, <1>3, <2>3, <2>4, <2>6 DEF PhaseParts, WorkIsCovered
<1>5. CASE End(c)
  <2> DEFINE k == session[c]
  <2>1. /\ consoleHeld' = consoleHeld \ {k} /\ pc[c] = "ending" /\ pc'[c] = "idle"
        /\ k \in consoleHeld
    BY <1>0, <1>5 DEF End, EndConsoleOperation
  <2>2. Trusted(k) => Covers(k)
    BY <2>1 DEF ConsoleInv, PhaseParts, WorkIsCovered, Relies, Working
  <2>3. HeldIsPresent'
    BY <1>1, <2>1 DEF ConsoleInv, PhaseParts, HeldIsPresent, RegistryOpen, PhaseOf
  <2>4. ASSUME NEW m \in Occupancy \ consoleHeld', Trusted(m)' PROVE Covers(m)'
    <3>1. Trusted(m)
      BY <1>1, <2>4 DEF Trusted, RegistryOpen, PhaseOf
    <3>2. Covers(m)
      BY <2>1, <2>2, <2>4, <3>1 DEF ConsoleInv, PhaseParts, RestIsCovered
    <3> QED
      BY <1>1, <3>2 DEF Covers, PhaseOf
  <2>5. RestIsCovered'
    BY <2>4 DEF RestIsCovered
  <2> QED
    BY <1>2, <1>3, <2>1, <2>3, <2>5 DEF PhaseParts, WorkIsCovered, Working
<1> QED
  BY <1>4, <1>5

LEMMA ConsoleInvNext == ConsoleInv /\ [ConsoleCommandsNext]_cvars => ConsoleInv'
<1> SUFFICES ASSUME ConsoleInv, [ConsoleCommandsNext]_cvars PROVE PhaseParts'
  BY TablePartsNext DEF ConsoleInv
<1>0. pc \in [Command -> Labels] /\ OccupancyIsOwned' /\ TypeOK'
  BY TablePartsNext DEF ConsoleInv, TableParts, ConsoleTypeOK, Labels, Working
<1>1. ASSUME NEW c \in Command, SessionOpened(c) PROVE PhaseParts'
  <2> DEFINE s == session[c].source
             con == session[c].console
  <2>0. s \in LiveSources /\ con \in Console /\ UNCHANGED misreported /\ SameWorkers
    BY <1>0, <1>1 DEF SessionOpened, Goto, SameWorkers, Working, ConsoleInv, TableParts,
           ConsoleTypeOK, SessionId
  <2>1. CASE UNCHANGED <<vars, txn>>
    BY <2>0, <2>1, WaitingStep DEF vars, sessionVars, consoleVars
  <2>2. CASE InstallConsoleSession(s, con) /\ txn' = [txn EXCEPT ![Current(s, con)] = "none"]
    <3>1. /\ consoles[s][con] = "absent" /\ consoles' = [consoles EXCEPT ![s][con] = "idle"]
          /\ UNCHANGED <<live, consoleHeld>>
      BY <2>2 DEF InstallConsoleSession, sessionVars
    <3>2. Current(s, con) \notin consoleHeld
      BY <3>1 DEF ConsoleInv, PhaseParts, HeldIsPresent, Current, RegistryOpen, PhaseOf
    <3> QED
      BY <2>0, <2>2, <3>1, <3>2, ReplacedSession
  <2> QED
    BY <1>1, <2>1, <2>2 DEF SessionOpened
<1>2. ASSUME NEW c \in Command, SessionRefused(c) \/ NotAdmitted(c) PROVE PhaseParts'
  <2>1. SameWorkers /\ UNCHANGED <<misreported, vars, txn>>
    BY <1>0, <1>2 DEF SessionRefused, NotAdmitted, Goto, SameWorkers, Working
  <2> QED
    BY <2>1, WaitingStep DEF vars, sessionVars, consoleVars
<1>3. ASSUME NEW c \in Command, CommandStep(c) PROVE PhaseParts'
  BY <1>0, <1>1, <1>2, <1>3, WorkingStep, GateStep
     DEF CommandStep, RefuseFailed, ContextFails, BeginTransaction, MarkActive, Execute, Explain,
         MarkFailed, Settle, MarkIdle, Working
<1>4. ASSUME NEW c \in Command, NEW todo \in Kind, NEW s \in Source, NEW con \in Console,
             Start(c, todo, s, con)
      PROVE  PhaseParts'
  <2>1. session \in [Command -> SessionId]
    BY DEF ConsoleInv, TableParts, ConsoleTypeOK
  <2>2. SameWorkers /\ UNCHANGED <<misreported, vars, txn>>
    BY <1>0, <1>4, <2>1 DEF Start, SameWorkers, Working
  <2> QED
    BY <2>2, WaitingStep DEF vars, sessionVars, consoleVars
<1>5. ASSUME NEW s \in Source, NEW con \in Console, SwitchToAuto(s, con) PROVE PhaseParts'
  <2>1. /\ s \in LiveSources /\ consoles' = [consoles EXCEPT ![s][con] = "absent"]
        /\ txn' = [txn EXCEPT ![Current(s, con)] = "none"]
        /\ UNCHANGED <<live, consoleHeld, misreported>> /\ SameWorkers
    BY <1>5 DEF SwitchToAuto, RemoveConsoleSession, sessionVars, commandVars, SameWorkers
  <2>2. Current(s, con) \notin consoleHeld
    BY <1>5 DEF SwitchToAuto, RemoveConsoleSession, OnLive, Current
  <2> QED
    BY <2>1, <2>2, ReplacedSession
<1>6. CASE SourceStep
  BY <1>6, SourceKeepsPhases
<1>7. CASE UNCHANGED cvars
  BY <1>7, WaitingStep
     DEF cvars, vars, sessionVars, consoleVars, commandVars, SameWorkers
<1> QED
  BY <1>3, <1>4, <1>5, <1>6, <1>7 DEF ConsoleCommandsNext

LEMMA ConsoleInvInit == ConsoleInit => ConsoleInv
<1> SUFFICES ASSUME ConsoleInit PROVE ConsoleInv
  OBVIOUS
<1>1. StatusMatchesRuntime /\ GenerationsIdentifyConnections /\ OccupancyIsOwned
  BY DEF ConsoleInit, Init, StatusMatchesRuntime, GenerationsIdentifyConnections, LiveSources,
         NoGeneration, OccupancyIsOwned, Working
<1>2. PhaseParts
  BY DEF ConsoleInit, Init, PhaseParts, OfflineHasNone, HeldIsPresent, RestIsCovered,
         WorkIsCovered, Covers, Working
<1> QED
  BY <1>1, <1>2, ConsoleTypeInit DEF ConsoleInv, TableParts

(* A console session that reads idle while no command occupies it holds no   *)
(* transaction, for every interleaving of commands, disconnects and          *)
(* reconnects, unless a command of another physical session has reported.   *)
THEOREM PhaseCorrect == ConsoleSpec => []PhaseCoversUnlessMisreported
<1>1. ConsoleInv => PhaseCoversUnlessMisreported
  <2> SUFFICES ASSUME ConsoleInv, NEW s \in Source, NEW con \in Console, Exposed(s, con),
                      Current(s, con) \notin consoleHeld \cup misreported
               PROVE  consoles[s][con] # "idle"
    BY DEF PhaseCoversUnlessMisreported
  <2>1. Current(s, con) \in Occupancy /\ Trusted(Current(s, con))
    BY CurrentType DEF Exposed, Present, Trusted, RegistryOpen, PhaseOf, Current, ConsoleInv,
           TableParts
  <2>2. Covers(Current(s, con))
    BY <2>1 DEF ConsoleInv, PhaseParts, RestIsCovered
  <2> QED
    BY <2>2 DEF Covers, PhaseOf, Current, Exposed
<1> QED
  BY <1>1, ConsoleInvInit, ConsoleInvNext, PTL DEF ConsoleSpec

-----------------------------------------------------------------------------
(* What becomes of uncommitted and of failed work.                         *)

\* A session that admits to a transaction and that no command occupies.
Guarded(s, con) == Present(s, con) /\ consoles[s][con] # "idle"

\* Sessions are retired only if nothing guarded is in them, or found closed.
LEMMA RetiringIsCareful ==
  ASSUME ConsoleInv, SourceStep, NEW s \in Source, NEW con \in Console, Guarded(s, con)
  PROVE  \/ UNCHANGED <<live[s], consoles[s]>>
         \/ live'[s] = NoGeneration /\ status'[s] = "closed"
<1> USE DEF ConsoleInv, TableParts, TypeOK
<1>0. s \in LiveSources /\ s \notin pending /\ HasUncommittedTransaction(s)
  BY DEF Guarded, Present, HasUncommittedTransaction, StatusMatchesRuntime, Phase
<1>1. ASSUME NEW t \in Source, BeginConnect(t) PROVE UNCHANGED <<live[s], consoles[s]>>
  <2>1. PICK S \in SUBSET Source : Retire(S) /\ s \notin S
    BY <1>0, <1>1 DEF BeginConnect, StartConnecting, LeastRecentlyUsed, CanReclaim
  <2> QED
    BY <2>1 DEF Retire
<1>2. ASSUME NEW t \in Source, FinishConnectOk(t) PROVE UNCHANGED <<live[s], consoles[s]>>
  BY <1>0, <1>2 DEF FinishConnectOk, consoleVars
<1>3. ASSUME NEW t \in Source, RetireSource(t, "closed")
      PROVE  \/ UNCHANGED <<live[s], consoles[s]>>
             \/ live'[s] = NoGeneration /\ status'[s] = "closed"
  BY <1>3 DEF RetireSource, Retire
<1>4. ASSUME NEW t \in Source, Disconnect(t) PROVE UNCHANGED <<live[s], consoles[s]>>
  BY <1>0, <1>4 DEF Disconnect, PreflightDisconnect, RetireSource, Retire
<1>5. ASSUME NEW S \in SUBSET Source, ReclaimIdle(S) PROVE UNCHANGED <<live[s], consoles[s]>>
  BY <1>0, <1>5 DEF ReclaimIdle, CanReclaim, Retire
<1>6. ASSUME QueryNext PROVE UNCHANGED <<live[s], consoles[s]>>
  BY <1>6 DEF QueryNext, BeginQuery, CancelQueuedQuery, AcquirePermit, ActivateQueued, FailQueued,
         FinishQuery, sessionVars, consoleVars
<1>7. ASSUME NEW l \in registered \ queued PROVE l.source \in Source
  BY DEF Lease
<1> QED
  BY <1>1, <1>2, <1>3, <1>4, <1>5, <1>6, <1>7 DEF SourceStep, InvalidateGeneration

\* What a step of a command, or of a switch, does to a session that admits to work.
PhaseStep(s, con) ==
  \/ consoles'[s][con] = consoles[s][con]
  \/ \E c \in Command : MarkActive(c) /\ consoles'[s][con] = "active"
                        /\ session[c].source = s /\ session[c].console = con
  \/ consoles'[s][con] \in {"failed", "idle"}

LEMMA ReportedPhase ==
  ASSUME ConsoleInv, NEW c \in Command, NEW phase \in Phase, NEW label, Report(c, phase, label),
         NEW s \in Source, NEW con \in Console
  PROVE  /\ UNCHANGED live
         /\ \/ consoles'[s][con] = consoles[s][con]
            \/ consoles'[s][con] = phase /\ session[c].source = s /\ session[c].console = con
<1>1. /\ consoles \in [Source -> [Console -> Phase \cup {"absent"}]]
      /\ session[c].source \in Source /\ session[c].console \in Console
  BY DEF ConsoleInv, TableParts, TypeOK, ConsoleTypeOK, SessionId
<1> QED
  BY <1>1 DEF Report, WritePhase, SetConsolePhase, vars, sessionVars, consoleVars

LEMMA CommandsAreCareful ==
  ASSUME ConsoleInv, NEW s \in Source, NEW con \in Console, Guarded(s, con),
         \/ \E c \in Command :
              \/ \E todo \in Kind, t \in Source, con2 \in Console : Start(c, todo, t, con2)
              \/ CommandStep(c)
         \/ \E t \in Source, con2 \in Console : SwitchToAuto(t, con2)
         \/ UNCHANGED cvars
  PROVE  live'[s] = live[s] /\ PhaseStep(s, con)
<1>0. /\ consoles \in [Source -> [Console -> Phase \cup {"absent"}]]
      /\ consoles[s][con] \notin {"absent", "idle"}
  BY DEF ConsoleInv, TableParts, TypeOK, Guarded, Present
<1> USE DEF PhaseStep
<1>1. ASSUME NEW c \in Command, SessionOpened(c) PROVE live'[s] = live[s] /\ PhaseStep(s, con)
  <2>1. session[c].source \in Source /\ session[c].console \in Console
    BY DEF ConsoleInv, TableParts, ConsoleTypeOK, SessionId
  <2> QED
    BY <1>0, <1>1, <2>1 DEF SessionOpened, InstallConsoleSession, vars, sessionVars, consoleVars
<1>2. ASSUME NEW c \in Command, MarkActive(c) PROVE live'[s] = live[s] /\ PhaseStep(s, con)
  BY <1>2, ReportedPhase DEF MarkActive, Phase
<1>3. ASSUME NEW c \in Command, MarkFailed(c) \/ MarkIdle(c)
      PROVE  live'[s] = live[s] /\ PhaseStep(s, con)
  BY <1>3, ReportedPhase DEF MarkFailed, MarkIdle, Phase
<1>4. ASSUME UNCHANGED <<live, consoles>> PROVE live'[s] = live[s] /\ PhaseStep(s, con)
  BY <1>4
<1>5. ASSUME NEW c \in Command, Admitted(c) \/ End(c) PROVE UNCHANGED <<live, consoles>>
  BY <1>5 DEF Admitted, BeginConsoleOperation, End, EndConsoleOperation, sessionVars
<1>6. ASSUME NEW c \in Command,
             \/ SessionRefused(c) \/ NotAdmitted(c) \/ RefuseFailed(c) \/ ContextFails(c)
             \/ BeginTransaction(c) \/ Execute(c) \/ Explain(c) \/ Settle(c)
             \/ \E todo \in Kind, t \in Source, con2 \in Console : Start(c, todo, t, con2)
      PROVE  UNCHANGED <<live, consoles>>
  BY <1>6 DEF SessionRefused, NotAdmitted, RefuseFailed, ContextFails, BeginTransaction, Execute,
         Explain, Settle, Start, vars, sessionVars, consoleVars
<1>7. ASSUME NEW t \in Source, NEW con2 \in Console, SwitchToAuto(t, con2)
      PROVE  live'[s] = live[s] /\ PhaseStep(s, con)
  BY <1>0, <1>7 DEF SwitchToAuto, RemoveConsoleSession, sessionVars
<1>8. CASE UNCHANGED cvars
  BY <1>4, <1>8 DEF cvars, vars, sessionVars, consoleVars
<1> QED
  BY <1>1, <1>2, <1>3, <1>4, <1>5, <1>6, <1>7, <1>8 DEF CommandStep

LEMMA WorkSurvivesStep ==
  ASSUME ConsoleInv, PhaseCoversUnlessMisreported, [ConsoleCommandsNext]_cvars,
         NEW s \in Source, NEW con \in Console, Exposed(s, con),
         Current(s, con) \notin consoleHeld \cup misreported
  PROVE  \/ live'[s] = live[s] /\ consoles'[s][con] # "absent"
         \/ status'[s] = "closed"
<1>1. Guarded(s, con)
  BY DEF PhaseCoversUnlessMisreported, Guarded, Exposed
<1>2. consoles[s][con] # "absent"
  BY <1>1 DEF Guarded, Present
<1>3. CASE SourceStep
  BY <1>1, <1>2, <1>3, RetiringIsCareful
<1>4. CASE ~SourceStep
  <2>1. live'[s] = live[s] /\ PhaseStep(s, con)
    BY <1>1, <1>4, CommandsAreCareful DEF ConsoleCommandsNext
  <2> QED
    BY <1>2, <2>1 DEF PhaseStep
<1> QED
  BY <1>3, <1>4

LEMMA FailedStaysStep ==
  ASSUME ConsoleInv, [ConsoleCommandsNext]_cvars,
         NEW s \in Source, NEW con \in Console, consoles[s][con] = "failed", live'[s] = live[s]
  PROVE  \/ consoles'[s][con] \in {"failed", "idle"}
         \/ Current(s, con) \in misreported'
<1>1. s \in LiveSources /\ Guarded(s, con)
  BY DEF ConsoleInv, PhaseParts, OfflineHasNone, Guarded, Present
<1>2. CASE SourceStep
  BY <1>1, <1>2, RetiringIsCareful DEF LiveSources
<1>3. CASE ~SourceStep
  <2>1. PhaseStep(s, con)
    BY <1>1, <1>3, CommandsAreCareful DEF ConsoleCommandsNext
  <2>2. ASSUME NEW c \in Command, MarkActive(c), session[c].source = s, session[c].console = con
        PROVE  Current(s, con) \in misreported'
    <3>1. pc[c] = "began" /\ pc[c] \in Working
      BY <2>2 DEF MarkActive, Working
    <3>2. session[c] # Current(s, con) \/ session[c] \in misreported
      <4> SUFFICES ASSUME session[c] = Current(s, con), session[c] \notin misreported PROVE FALSE
        OBVIOUS
      <4>1. Trusted(session[c])
        BY <1>1, <2>2 DEF Trusted, RegistryOpen, PhaseOf, Current
      <4>2. PhaseOf(session[c]) = "idle"
        BY <3>1, <4>1 DEF ConsoleInv, PhaseParts, WorkIsCovered, Relies
      <4> QED
        BY <2>2, <4>2 DEF PhaseOf
    <3> QED
      BY <1>1, <2>2, <3>2 DEF MarkActive, Report, Guarded, Current
  <2> QED
    BY <2>1, <2>2 DEF PhaseStep
<1> QED
  BY <1>2, <1>3

(* Uncommitted work of a console is lost only with a session that was found  *)
(* closed, and a failed transaction is never taken up again, for any number  *)
(* of commands, consoles and reconnects, unless a late report interfered.   *)
THEOREM WorkCorrect == ConsoleSpec => WorkIsSettledOrLostKnowingly
<1>1. ConsoleSpec => []ConsoleInv
  BY ConsoleInvInit, ConsoleInvNext, PTL DEF ConsoleSpec
<1>2. ConsoleInv /\ PhaseCoversUnlessMisreported /\ [ConsoleCommandsNext]_cvars =>
        [\A s \in Source, con \in Console :
           (Exposed(s, con) /\ Current(s, con) \notin consoleHeld \cup misreported) =>
             \/ live'[s] = live[s] /\ consoles'[s][con] # "absent"
             \/ status'[s] = "closed"]_cvars
  BY WorkSurvivesStep
<1>3. ConsoleInv /\ [ConsoleCommandsNext]_cvars =>
        [\A s \in Source, con \in Console :
           (consoles[s][con] = "failed" /\ live'[s] = live[s]) =>
             \/ consoles'[s][con] \in {"failed", "idle"}
             \/ Current(s, con) \in misreported']_cvars
  BY FailedStaysStep
<1> QED
  BY <1>1, <1>2, <1>3, PhaseCorrect, PTL
     DEF ConsoleSpec, WorkIsSettledOrLostKnowingly, UncommittedWorkSurvives, FailedStaysFailed
=============================================================================
