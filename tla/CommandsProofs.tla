--------------------------- MODULE CommandsProofs ---------------------------
(***************************************************************************)
(* The commands on one Data Source: the connection commands and the queries  *)
(* of its primary session use the session table through its methods only,    *)
(* and what each of them adds to it; for every number of commands, sources,  *)
(* queries and statements and every bound on the generations.               *)
(***************************************************************************)
EXTENDS MCCommands, ConnectionManagerProofs, SequenceTheorems

-----------------------------------------------------------------------------
(* Connecting, disconnecting, editing and deleting.                        *)

USE AttemptAssumption, VersionAssumption

LEMMA ConnectTypeInit == ConnectInit => ConnectTypeOK
BY DEF ConnectInit, ConnectTypeOK, Version, Deleted

\* Answering keeps the shape of the commands' own variables.
LEMMA AnswerType ==
  ASSUME ConnectTypeOK, NEW a \in Attempt, Answer(a)
  PROVE  /\ gate' \in Attempt \cup {NoAttempt}
         /\ pc' \in [Attempt -> {"idle", "waiting", "pinging", "admitting", "opening"}]
         /\ target' \in [Attempt -> Source]
         /\ seen' \in [Attempt -> Generation \cup {NoGeneration}]
         /\ config' \in [Attempt -> Version \cup {Deleted}]
         /\ revoked' \subseteq Attempt
BY DEF ConnectTypeOK, Answer, Deprived

LEMMA ConnectTypeNext ==
  TypeOK /\ ConnectTypeOK /\ [ConnectNext]_cvars => ConnectTypeOK'
<1> SUFFICES ASSUME TypeOK, ConnectTypeOK, [ConnectNext]_cvars PROVE ConnectTypeOK'
  OBVIOUS
<1> USE DEF ConnectTypeOK, savedVars, commandVars
<1>1. ASSUME NEW a \in Attempt, NEW s \in Source, Connect(a, s) PROVE ConnectTypeOK'
  BY <1>1 DEF Connect
<1>2. ASSUME NEW a \in Attempt, EnterGate(a) PROVE ConnectTypeOK'
  BY <1>2 DEF EnterGate, TypeOK
<1>3. ASSUME NEW a \in Attempt, PingSucceeded(a) \/ PingFailed(a) PROVE ConnectTypeOK'
  BY <1>3, AnswerType DEF PingSucceeded, PingFailed, Continue
<1>4. ASSUME NEW a \in Attempt, Admit(a) PROVE ConnectTypeOK'
  BY <1>4 DEF Admit
<1>5. ASSUME NEW a \in Attempt, RefuseAdmission(a) \/ OpenFailed(a) \/ OpenedTooLate(a)
      PROVE  ConnectTypeOK'
  BY <1>5, AnswerType DEF RefuseAdmission, OpenFailed, OpenedTooLate
<1>6. ASSUME NEW a \in Attempt, Opened(a) PROVE ConnectTypeOK'
  <2>1. nextGeneration \in Generation
    BY <1>6 DEF Opened, FinishConnectOk, TypeOK, Generation
  <2> QED
    BY <1>6, <2>1, AnswerType DEF Opened
<1>7. ASSUME NEW s \in Source, DisconnectCommand(s) PROVE ConnectTypeOK'
  BY <1>7 DEF DisconnectCommand
<1>8. ASSUME NEW s \in Source, UpdateConnection(s) \/ DeleteConnection(s) PROVE ConnectTypeOK'
  BY <1>8 DEF UpdateConnection, DeleteConnection, Version, Deleted
<1>9. CASE (\E S \in SUBSET Source : ReclaimIdleAt(S)) \/ QueryStep \/ UNCHANGED cvars
  BY <1>9 DEF ReclaimIdleAt, QueryStep, cvars
<1> QED
  BY <1>1, <1>2, <1>3, <1>4, <1>5, <1>6, <1>7, <1>8, <1>9 DEF ConnectNext, AttemptStep

-----------------------------------------------------------------------------
(* Every step of a command is a step of the table or leaves it alone.      *)

LEMMA ConnectStepUsesTable ==
  TypeOK /\ ConnectTypeOK /\ [ConnectNext]_cvars => [Next]_vars
<1> SUFFICES ASSUME TypeOK, ConnectTypeOK, [ConnectNext]_cvars PROVE [Next]_vars
  OBVIOUS
<1> USE DEF Next, SessionNext
<1>0. ASSUME NEW s \in Source, NEW g, InvalidateGeneration(s, g) PROVE Next
  <2>1. InvalidateGeneration(s, live[s])
    BY <1>0 DEF InvalidateGeneration
  <2> QED
    BY <2>1
<1>1. ASSUME NEW a \in Attempt, AttemptStep(a) PROVE [Next]_vars
  <2>1. target[a] \in Source
    BY DEF ConnectTypeOK
  <2>2. CASE PingFailed(a)
    BY <1>0, <2>1, <2>2 DEF PingFailed
  <2>3. CASE PingSucceeded(a) \/ RefuseAdmission(a) \/ OpenedTooLate(a)
    BY <2>3 DEF PingSucceeded, RefuseAdmission, OpenedTooLate
  <2>4. CASE Admit(a) \/ Opened(a) \/ OpenFailed(a)
    BY <2>1, <2>4 DEF Admit, Opened, OpenFailed
  <2> QED
    BY <1>1, <2>2, <2>3, <2>4 DEF AttemptStep
<1>2. ASSUME NEW a \in Attempt, (\E s \in Source : Connect(a, s)) \/ EnterGate(a)
      PROVE  UNCHANGED vars
  BY <1>2 DEF Connect, EnterGate
<1>3. ASSUME NEW s \in Source, DisconnectCommand(s) \/ UpdateConnection(s) \/ DeleteConnection(s)
      PROVE  Next
  BY <1>3 DEF DisconnectCommand, UpdateConnection, DeleteConnection
<1>4. ASSUME NEW S \in SUBSET Source, ReclaimIdleAt(S) PROVE Next
  BY <1>4 DEF ReclaimIdleAt
<1>5. CASE QueryStep
  <2>1. \A l \in registered : l.source \in Source
    BY DEF TypeOK, Lease
  <2> QED
    BY <1>0, <1>5, <2>1 DEF QueryStep
<1>6. CASE UNCHANGED cvars
  BY <1>6 DEF cvars
<1> QED
  BY <1>1, <1>2, <1>3, <1>4, <1>5, <1>6 DEF ConnectNext

(* Types of both layers are preserved together: a command hands the table  *)
(* a source, and the table hands it a generation.                          *)
THEOREM ConnectTypeCorrect == ConnectSpec => [](TypeOK /\ ConnectTypeOK)
<1>1. ConnectInit => TypeOK /\ ConnectTypeOK
  BY TypeInit, ConnectTypeInit DEF ConnectInit
<1>2. TypeOK /\ ConnectTypeOK /\ [ConnectNext]_cvars => (TypeOK /\ ConnectTypeOK)'
  BY TypeNext, ConnectTypeNext, ConnectStepUsesTable
<1> QED
  BY <1>1, <1>2, PTL DEF ConnectSpec

(* The connection commands use the session table only through its methods, *)
(* so whatever is proved of the table holds while they run.                *)
THEOREM ConnectUsesTable == ConnectSpec => UsesTable
<1>1. ConnectInit => Init
  BY DEF ConnectInit
<1> QED
  BY <1>1, ConnectStepUsesTable, ConnectTypeCorrect, PTL DEF ConnectSpec, Spec, UsesTable

-----------------------------------------------------------------------------
(* The mark of a pending connection.                                       *)

\* What the steps that are no step of an attempt do to the marks.
LEMMA OtherStepsKeepAttempts ==
  ASSUME \/ \E s \in Source : DisconnectCommand(s) \/ UpdateConnection(s) \/ DeleteConnection(s)
         \/ \E S \in SUBSET Source : ReclaimIdleAt(S)
         \/ QueryStep
         \/ UNCHANGED cvars
  PROVE  pending' \subseteq pending /\ UNCHANGED <<gate, pc, target, seen, config>>
<1> USE DEF commandVars, sessionVars
<1>1. ASSUME NEW s \in Source, NEW st, RetireSource(s, st) PROVE pending' \subseteq pending
  BY <1>1 DEF RetireSource
<1>2. ASSUME NEW s, NEW g, InvalidateGeneration(s, g) PROVE pending' \subseteq pending
  BY <1>2 DEF InvalidateGeneration, RetireSource
<1>3. ASSUME QueryNext PROVE pending' \subseteq pending
  BY <1>3, SessionFrame
<1>4. ASSUME NEW s \in Source, DisconnectCommand(s) \/ UpdateConnection(s) \/ DeleteConnection(s)
      PROVE  pending' \subseteq pending /\ UNCHANGED <<gate, pc, target, seen, config>>
  BY <1>1, <1>4
     DEF DisconnectCommand, UpdateConnection, DeleteConnection, Disconnect, DisconnectAndForget
<1>5. ASSUME NEW S \in SUBSET Source, ReclaimIdleAt(S)
      PROVE  pending' \subseteq pending /\ UNCHANGED <<gate, pc, target, seen, config>>
  BY <1>5 DEF ReclaimIdleAt, ReclaimIdle
<1>6. CASE QueryStep
  BY <1>2, <1>3, <1>6 DEF QueryStep
<1>7. CASE UNCHANGED cvars
  BY <1>7 DEF cvars, vars
<1> QED
  BY <1>4, <1>5, <1>6, <1>7

LEMMA PendingNext ==
  ConnectTypeOK /\ PendingIsOwned /\ [ConnectNext]_cvars => PendingIsOwned'
<1> SUFFICES ASSUME ConnectTypeOK, PendingIsOwned, [ConnectNext]_cvars PROVE PendingIsOwned'
  OBVIOUS
<1> USE DEF PendingIsOwned, ConnectTypeOK, sessionVars
<1>1. ASSUME NEW a \in Attempt, NEW s \in Source, Connect(a, s) PROVE PendingIsOwned'
  BY <1>1 DEF Connect, vars
<1>2. ASSUME NEW a \in Attempt, EnterGate(a) PROVE PendingIsOwned'
  BY <1>2 DEF EnterGate, vars
<1>3. ASSUME NEW a \in Attempt, PingSucceeded(a) \/ PingFailed(a) PROVE PendingIsOwned'
  <2>1. pending' \subseteq pending
    BY <1>3 DEF PingSucceeded, PingFailed, InvalidateGeneration, RetireSource, vars
  <2>2. pc[a] = "pinging" /\ UNCHANGED target
    BY <1>3 DEF PingSucceeded, PingFailed, Answer, Continue
  <2>3. \A b \in Attempt \ {a} : pc'[b] = pc[b]
    BY <1>3 DEF PingSucceeded, PingFailed, Answer, Continue
  <2> QED
    BY <2>1, <2>2, <2>3
<1>4. ASSUME NEW a \in Attempt, Admit(a) PROVE PendingIsOwned'
  <2>1. pending' = pending \cup {target[a]}
    BY <1>4 DEF Admit, BeginConnect, StartConnecting
  <2> QED
    BY <1>4, <2>1 DEF Admit
<1>5. ASSUME NEW a \in Attempt, RefuseAdmission(a) PROVE PendingIsOwned'
  BY <1>5 DEF RefuseAdmission, Answer, vars
<1>6. ASSUME NEW a \in Attempt, Opened(a) \/ OpenFailed(a) \/ OpenedTooLate(a)
      PROVE  PendingIsOwned'
  <2>1. pending' = pending \ {target[a]}
    BY <1>6 DEF Opened, OpenFailed, OpenedTooLate, FinishConnectOk, FinishConnectErr, vars
  <2>2. UNCHANGED target /\ \A b \in Attempt \ {a} : pc'[b] = pc[b]
    BY <1>6 DEF Opened, OpenFailed, OpenedTooLate, Answer
  <2> QED
    BY <2>1, <2>2
<1>7. CASE \/ \E s \in Source : DisconnectCommand(s) \/ UpdateConnection(s) \/ DeleteConnection(s)
           \/ \E S \in SUBSET Source : ReclaimIdleAt(S)
           \/ QueryStep
           \/ UNCHANGED cvars
  BY <1>7, OtherStepsKeepAttempts
<1> QED
  BY <1>1, <1>2, <1>3, <1>4, <1>5, <1>6, <1>7 DEF ConnectNext, AttemptStep

(* No source is stuck in connecting: its mark is owed to a command that is *)
(* still opening a driver for it.                                          *)
THEOREM PendingCorrect == ConnectSpec => []PendingIsOwned
<1>1. ConnectInit => PendingIsOwned
  BY DEF ConnectInit, Init, PendingIsOwned
<1> QED
  BY <1>1, PendingNext, ConnectTypeCorrect, PTL DEF ConnectSpec

-----------------------------------------------------------------------------
(* Deleted sources.                                                        *)

\* Steps that leave the saved configurations alone and give no source a
\* session or mark it did not have.
LEMMA NothingAppears ==
  ASSUME DeletedStaysOffline, UNCHANGED saved,
         LiveSources' \cup pending' \subseteq LiveSources \cup pending
  PROVE  DeletedStaysOffline'
BY DEF DeletedStaysOffline

\* Retiring sessions lets nothing appear.
LEMMA RetireAppears ==
  ASSUME TypeOK, NEW S \in SUBSET Source, Retire(S)
  PROVE  LiveSources' \subseteq LiveSources
BY RetireShrinks

LEMMA DeletedNext ==
  TypeOK /\ ConnectTypeOK /\ DeletedStaysOffline /\ [ConnectNext]_cvars => DeletedStaysOffline'
<1> SUFFICES ASSUME TypeOK, ConnectTypeOK, DeletedStaysOffline, [ConnectNext]_cvars
             PROVE  DeletedStaysOffline'
  OBVIOUS
<1> USE DEF savedVars, sessionVars
<1>1. ASSUME NEW s \in Source, NEW st, RetireSource(s, st)
      PROVE  /\ LiveSources' \cup pending' \subseteq LiveSources \cup pending
             /\ s \notin LiveSources' \cup pending'
  BY <1>1, RetireShrinks DEF RetireSource
<1>2. ASSUME NEW s \in Source, NEW g, InvalidateGeneration(s, g)
      PROVE  LiveSources' \cup pending' \subseteq LiveSources \cup pending
  BY <1>1, <1>2 DEF InvalidateGeneration
<1>3. ASSUME NEW a \in Attempt, (\E s \in Source : Connect(a, s)) \/ EnterGate(a)
                                 \/ PingSucceeded(a) \/ RefuseAdmission(a) \/ OpenedTooLate(a)
      PROVE  DeletedStaysOffline'
  BY <1>3, NothingAppears
     DEF Connect, EnterGate, PingSucceeded, RefuseAdmission, OpenedTooLate, vars, LiveSources
<1>4. ASSUME NEW a \in Attempt, PingFailed(a) PROVE DeletedStaysOffline'
  <2>1. target[a] \in Source
    BY DEF ConnectTypeOK
  <2> QED
    BY <1>2, <1>4, <2>1, NothingAppears DEF PingFailed, vars, LiveSources
<1>5. ASSUME NEW a \in Attempt, Admit(a) PROVE DeletedStaysOffline'
  <2>1. PICK S \in SUBSET Source : StartConnecting(target[a], S)
    BY <1>5 DEF Admit, BeginConnect, LeastRecentlyUsed
  <2>2. LiveSources' \subseteq LiveSources /\ pending' = pending \cup {target[a]}
    BY <2>1, RetireAppears DEF StartConnecting
  <2> QED
    BY <1>5, <2>2 DEF Admit, DeletedStaysOffline
<1>6. ASSUME NEW a \in Attempt, Opened(a) PROVE DeletedStaysOffline'
  <2>1. target[a] \in pending
    BY <1>6 DEF Opened, FinishConnectOk
  <2>2. LiveSources' \subseteq LiveSources \cup {target[a]} /\ pending' \subseteq pending
    BY <1>6 DEF Opened, FinishConnectOk, LiveSources, TypeOK
  <2> QED
    BY <1>6, <2>1, <2>2, NothingAppears DEF Opened
<1>7. ASSUME NEW a \in Attempt, OpenFailed(a) PROVE DeletedStaysOffline'
  BY <1>7, NothingAppears DEF OpenFailed, FinishConnectErr, LiveSources
<1>8. ASSUME NEW s \in Source, DisconnectCommand(s) PROVE DeletedStaysOffline'
  BY <1>1, <1>8, NothingAppears DEF DisconnectCommand, Disconnect
<1>9. ASSUME NEW s \in Source, UpdateConnection(s) PROVE DeletedStaysOffline'
  <2>1. LiveSources' \cup pending' \subseteq LiveSources \cup pending
    BY <1>1, <1>9 DEF UpdateConnection, Disconnect
  <2>2. \A t \in Source : saved'[t] = Deleted => saved[t] = Deleted
    BY <1>9 DEF UpdateConnection, ConnectTypeOK, Version, Deleted
  <2> QED
    BY <2>1, <2>2 DEF DeletedStaysOffline
<1>10. ASSUME NEW s \in Source, DeleteConnection(s) PROVE DeletedStaysOffline'
  <2>1. /\ LiveSources' \cup pending' \subseteq LiveSources \cup pending
        /\ s \notin LiveSources' \cup pending'
    BY <1>1, <1>10 DEF DeleteConnection, DisconnectAndForget
  <2>2. \A t \in Source \ {s} : saved'[t] = saved[t]
    BY <1>10 DEF DeleteConnection, ConnectTypeOK
  <2> QED
    BY <2>1, <2>2 DEF DeletedStaysOffline
<1>11. ASSUME NEW S \in SUBSET Source, ReclaimIdleAt(S) PROVE DeletedStaysOffline'
  BY <1>11, RetireAppears, NothingAppears DEF ReclaimIdleAt, ReclaimIdle
<1>12. CASE QueryStep
  <2>1. LiveSources' \cup pending' \subseteq LiveSources \cup pending
    <3>1. CASE QueryNext
      BY <3>1, SessionFrame DEF LiveSources
    <3>2. ASSUME NEW l \in registered, InvalidateGeneration(l.source, l.generation)
          PROVE  LiveSources' \cup pending' \subseteq LiveSources \cup pending
      BY <1>2, <3>2 DEF TypeOK, Lease
    <3> QED
      BY <1>12, <3>1, <3>2 DEF QueryStep
  <2> QED
    BY <1>12, <2>1, NothingAppears DEF QueryStep
<1>13. CASE UNCHANGED cvars
  BY <1>13, NothingAppears DEF cvars, vars, LiveSources
<1> QED
  BY <1>3, <1>4, <1>5, <1>6, <1>7, <1>8, <1>9, <1>10, <1>11, <1>12, <1>13
     DEF ConnectNext, AttemptStep

(* A deleted source has no session, and no attempt that began before the   *)
(* deletion brings one back.                                               *)
THEOREM DeletedCorrect == ConnectSpec => []DeletedStaysOffline
<1>1. ConnectInit => DeletedStaysOffline
  BY DEF ConnectInit, DeletedStaysOffline, Deleted
<1> QED
  BY <1>1, DeletedNext, ConnectTypeCorrect, PTL DEF ConnectSpec

-----------------------------------------------------------------------------
(* The ping.                                                               *)

LEMMA PingNext ==
  ConnectTypeOK /\ TypeOK /\ [ConnectNext]_cvars =>
    [\A a \in Attempt :
       (pc[a] = "pinging" /\ pc'[a] # "pinging" /\ live' # live)
         => /\ live' = [live EXCEPT ![target[a]] = NoGeneration]
            /\ live[target[a]] = seen[a]
            /\ PreflightDisconnect(target[a])]_cvars
<1> SUFFICES ASSUME ConnectTypeOK, TypeOK, ConnectNext, NEW a \in Attempt,
                    pc[a] = "pinging", pc'[a] # "pinging", live' # live
             PROVE  /\ live' = [live EXCEPT ![target[a]] = NoGeneration]
                    /\ live[target[a]] = seen[a]
                    /\ PreflightDisconnect(target[a])
  OBVIOUS
<1> USE DEF ConnectTypeOK
<1>1. ASSUME NEW b \in Attempt \ {a}, (\E s \in Source : Connect(b, s)) \/ EnterGate(b) \/ AttemptStep(b)
      PROVE  FALSE
  BY <1>1 DEF Connect, EnterGate, AttemptStep, PingSucceeded, PingFailed, Admit, RefuseAdmission,
              Opened, OpenFailed, OpenedTooLate, Answer, Continue
<1>2. ASSUME (\E s \in Source : Connect(a, s)) \/ EnterGate(a) \/ PingSucceeded(a) \/ Admit(a)
             \/ RefuseAdmission(a) \/ Opened(a) \/ OpenFailed(a) \/ OpenedTooLate(a)
      PROVE  FALSE
  BY <1>2 DEF Connect, EnterGate, PingSucceeded, Admit, RefuseAdmission, Opened, OpenFailed,
              OpenedTooLate, vars, sessionVars
<1>3. CASE \/ \E s \in Source : DisconnectCommand(s) \/ UpdateConnection(s) \/ DeleteConnection(s)
           \/ \E S \in SUBSET Source : ReclaimIdleAt(S)
           \/ QueryStep
  BY <1>3, OtherStepsKeepAttempts
<1>4. CASE PingFailed(a)
  <2>1. PreflightConfigurationChange(target[a]) /\ InvalidateGeneration(target[a], seen[a])
    BY <1>4 DEF PingFailed, vars, sessionVars
  <2> QED
    BY <2>1 DEF PreflightConfigurationChange, InvalidateGeneration, RetireSource, Retire, TypeOK
<1> QED
  BY <1>1, <1>2, <1>3, <1>4 DEF ConnectNext, AttemptStep

(* The outcome of a ping drops at most the session that was pinged, and not *)
(* that one either if something has begun to use it.                        *)
THEOREM PingCorrect == ConnectSpec => PingSparesOccupied
BY PingNext, ConnectTypeCorrect, PTL DEF ConnectSpec, PingSparesOccupied

-----------------------------------------------------------------------------
(* The saved configuration.  What a live session was opened with is decided *)
(* when its attempt is admitted, so the invariant speaks of attempts too:   *)
(* one that nobody has cancelled still has its mark, and since a marked     *)
(* source can be neither edited nor deleted, what it read is still saved.   *)

AttemptsAreCurrent ==
  \A a \in Attempt :
    (pc[a] = "opening" /\ a \notin revoked)
      => target[a] \in pending /\ config[a] = saved[target[a]]

\* A connection known to be dead has no attempt in flight beside it.
LEMMA InvalidateKeepsMarks ==
  ASSUME StatusMatchesRuntime, NEW s \in Source, NEW g, InvalidateGeneration(s, g)
  PROVE  pending' = pending
BY DEF InvalidateGeneration, RetireSource, StatusMatchesRuntime, LiveSources

LEMMA AttemptsNext ==
  (/\ TypeOK /\ ConnectTypeOK /\ StatusMatchesRuntime /\ AttemptsAreCurrent
   /\ [ConnectNext]_cvars)
    => AttemptsAreCurrent'
<1> SUFFICES ASSUME TypeOK, ConnectTypeOK, StatusMatchesRuntime, AttemptsAreCurrent,
                    [ConnectNext]_cvars
             PROVE  AttemptsAreCurrent'
  OBVIOUS
<1> USE DEF ConnectTypeOK, AttemptsAreCurrent, savedVars, commandVars, sessionVars
<1>1. ASSUME NEW a \in Attempt, NEW s \in Source, Connect(a, s) PROVE AttemptsAreCurrent'
  BY <1>1 DEF Connect, vars
<1>2. ASSUME NEW a \in Attempt, EnterGate(a) PROVE AttemptsAreCurrent'
  BY <1>2 DEF EnterGate, vars
<1>3. ASSUME NEW a \in Attempt, PingSucceeded(a) \/ PingFailed(a) PROVE AttemptsAreCurrent'
  <2>1. pending' = pending /\ UNCHANGED saved
    BY <1>3, InvalidateKeepsMarks DEF PingSucceeded, PingFailed, vars
  <2>2. pc[a] = "pinging" /\ (Answer(a) \/ Continue(a, "admitting"))
    BY <1>3 DEF PingSucceeded, PingFailed
  <2> QED
    BY <2>1, <2>2 DEF Answer, Continue, Deprived
<1>4. ASSUME NEW a \in Attempt, Admit(a) PROVE AttemptsAreCurrent'
  <2>1. pending' = pending \cup {target[a]}
    BY <1>4 DEF Admit, BeginConnect, StartConnecting
  <2> QED
    BY <1>4, <2>1 DEF Admit
<1>5. ASSUME NEW a \in Attempt, RefuseAdmission(a) \/ OpenedTooLate(a)
      PROVE  AttemptsAreCurrent'
  BY <1>5 DEF RefuseAdmission, OpenedTooLate, Answer, Deprived, vars
<1>6. ASSUME NEW a \in Attempt, Opened(a) \/ OpenFailed(a) PROVE AttemptsAreCurrent'
  <2>1. /\ pc[a] = "opening" /\ target[a] \in pending
        /\ pending' = pending \ {target[a]} /\ UNCHANGED saved
        /\ Answer(a)
    BY <1>6 DEF Opened, OpenFailed, FinishConnectOk, FinishConnectErr
  <2> QED
    BY <2>1 DEF Answer, Deprived
<1>7. ASSUME NEW s \in Source, DisconnectCommand(s) PROVE AttemptsAreCurrent'
  BY <1>7 DEF DisconnectCommand, Disconnect, RetireSource
<1>8. ASSUME NEW s \in Source, UpdateConnection(s) \/ DeleteConnection(s)
      PROVE  AttemptsAreCurrent'
  <2>0. s \notin pending /\ pending' = pending \ {s}
    BY <1>8 DEF UpdateConnection, DeleteConnection, Disconnect, DisconnectAndForget,
                PreflightConfigurationChange, RetireSource
  <2>1. s \notin pending /\ pending' = pending
    BY <2>0
  <2>2. \A t \in Source \ {s} : saved'[t] = saved[t]
    BY <1>8 DEF UpdateConnection, DeleteConnection
  <2> QED
    BY <1>8, <2>1, <2>2 DEF UpdateConnection, DeleteConnection
<1>9. ASSUME NEW S \in SUBSET Source, ReclaimIdleAt(S) PROVE AttemptsAreCurrent'
  BY <1>9 DEF ReclaimIdleAt, ReclaimIdle
<1>10. CASE QueryStep
  <2>1. pending' = pending
    BY <1>10, SessionFrame, InvalidateKeepsMarks DEF QueryStep, TypeOK, Lease
  <2> QED
    BY <1>10, <2>1 DEF QueryStep
<1>11. CASE UNCHANGED cvars
  BY <1>11 DEF cvars, vars
<1> QED
  BY <1>1, <1>2, <1>3, <1>4, <1>5, <1>6, <1>7, <1>8, <1>9, <1>10, <1>11
     DEF ConnectNext, AttemptStep

\* Ending sessions keeps what the others were opened with.
LEMMA EndingKeepsRuntime ==
  ASSUME RuntimeMatchesSaved, UNCHANGED savedVars,
         \A s \in Source : live'[s] \in {live[s], NoGeneration}
  PROVE  RuntimeMatchesSaved'
BY DEF RuntimeMatchesSaved, LiveSources, savedVars

LEMMA RuntimeNext ==
  (/\ TypeOK /\ ConnectTypeOK /\ GenerationsIdentifyConnections
   /\ AttemptsAreCurrent /\ RuntimeMatchesSaved /\ [ConnectNext]_cvars)
    => RuntimeMatchesSaved'
<1> SUFFICES ASSUME TypeOK, ConnectTypeOK, GenerationsIdentifyConnections, AttemptsAreCurrent,
                    RuntimeMatchesSaved, [ConnectNext]_cvars
             PROVE  RuntimeMatchesSaved'
  OBVIOUS
<1> USE DEF sessionVars
<1> DEFINE OnlyEnds == \A s \in Source : live'[s] \in {live[s], NoGeneration}
<1>1. ASSUME NEW S \in SUBSET Source, Retire(S) PROVE OnlyEnds
  BY <1>1 DEF Retire
<1>2. ASSUME NEW s \in Source, NEW g, InvalidateGeneration(s, g) PROVE OnlyEnds
  BY <1>1, <1>2 DEF InvalidateGeneration, RetireSource
<1>3. ASSUME NEW a \in Attempt, (\E s \in Source : Connect(a, s)) \/ EnterGate(a)
                                 \/ PingSucceeded(a) \/ RefuseAdmission(a) \/ OpenedTooLate(a)
      PROVE  RuntimeMatchesSaved'
  BY <1>3, EndingKeepsRuntime
     DEF Connect, EnterGate, PingSucceeded, RefuseAdmission, OpenedTooLate, vars
<1>4. ASSUME NEW a \in Attempt, PingFailed(a) PROVE RuntimeMatchesSaved'
  <2>1. OnlyEnds
    BY <1>2, <1>4 DEF PingFailed, ConnectTypeOK, vars
  <2> QED
    BY <1>4, <2>1, EndingKeepsRuntime DEF PingFailed
<1>5. ASSUME NEW a \in Attempt, Admit(a) PROVE RuntimeMatchesSaved'
  <2>1. OnlyEnds
    BY <1>1, <1>5 DEF Admit, BeginConnect, StartConnecting, LeastRecentlyUsed
  <2> QED
    BY <1>5, <2>1, EndingKeepsRuntime DEF Admit
<1>6. ASSUME NEW a \in Attempt, Opened(a) PROVE RuntimeMatchesSaved'
  <2> DEFINE t == target[a]
             g == nextGeneration
  <2>1. /\ pc[a] = "opening" /\ t \in Source /\ g \in Generation
        /\ live' = [live EXCEPT ![t] = g]
        /\ openedWith' = [openedWith EXCEPT ![g] = config[a]]
        /\ strayed' = strayed \cup (IF a \in revoked THEN {g} ELSE {})
        /\ saved' = saved
    BY <1>6 DEF Opened, FinishConnectOk, ConnectTypeOK, TypeOK, Generation
  <2>2. openedWith'[g] = saved[t] \/ g \in strayed'
    BY <2>1 DEF AttemptsAreCurrent, ConnectTypeOK
  <2>3. \A s \in LiveSources : live[s] # g /\ live[s] \in Generation
    BY DEF GenerationsIdentifyConnections, LiveSources, TypeOK, Generation
  <2>4. \A s \in LiveSources' \ {t} : s \in LiveSources /\ live'[s] = live[s]
    BY <2>1 DEF LiveSources, TypeOK
  <2>5. ASSUME NEW s \in LiveSources' \ {t}
        PROVE  openedWith'[live'[s]] = saved'[s] \/ live'[s] \in strayed'
    BY <2>1, <2>3, <2>4 DEF RuntimeMatchesSaved, ConnectTypeOK
  <2>6. live'[t] = g
    BY <2>1 DEF TypeOK
  <2> QED
    BY <2>1, <2>2, <2>5, <2>6 DEF RuntimeMatchesSaved
<1>7. ASSUME NEW a \in Attempt, OpenFailed(a) PROVE RuntimeMatchesSaved'
  BY <1>7, EndingKeepsRuntime DEF OpenFailed, FinishConnectErr
<1>8. ASSUME NEW s \in Source, DisconnectCommand(s) PROVE RuntimeMatchesSaved'
  BY <1>1, <1>8, EndingKeepsRuntime DEF DisconnectCommand, Disconnect, RetireSource
<1>9. ASSUME NEW s \in Source, UpdateConnection(s) \/ DeleteConnection(s)
      PROVE  RuntimeMatchesSaved'
  <2>1. Retire({s})
    BY <1>9 DEF UpdateConnection, DeleteConnection, Disconnect, DisconnectAndForget, RetireSource
  <2>2. \A t \in LiveSources' : t # s /\ t \in LiveSources /\ live'[t] = live[t]
    BY <2>1 DEF Retire, LiveSources
  <2>3. /\ UNCHANGED <<openedWith, strayed>>
        /\ \A t \in Source \ {s} : saved'[t] = saved[t]
    BY <1>9 DEF UpdateConnection, DeleteConnection, ConnectTypeOK
  <2> QED
    BY <2>2, <2>3 DEF RuntimeMatchesSaved, LiveSources
<1>10. ASSUME NEW S \in SUBSET Source, ReclaimIdleAt(S) PROVE RuntimeMatchesSaved'
  BY <1>1, <1>10, EndingKeepsRuntime DEF ReclaimIdleAt, ReclaimIdle
<1>11. CASE QueryStep
  <2>1. OnlyEnds
    BY <1>2, <1>11, SessionFrame DEF QueryStep, TypeOK, Lease
  <2> QED
    BY <1>11, <2>1, EndingKeepsRuntime DEF QueryStep
<1>12. CASE UNCHANGED cvars
  BY <1>12, EndingKeepsRuntime DEF cvars, vars
<1> QED
  BY <1>3, <1>4, <1>5, <1>6, <1>7, <1>8, <1>9, <1>10, <1>11, <1>12
     DEF ConnectNext, AttemptStep

(* A live session was opened with the configuration now saved, unless an    *)
(* attempt that had been cancelled installed it.                            *)
THEOREM RuntimeCorrect == ConnectSpec => []RuntimeMatchesSaved
<1>1. ConnectInit => AttemptsAreCurrent /\ RuntimeMatchesSaved
  BY DEF ConnectInit, Init, AttemptsAreCurrent, RuntimeMatchesSaved, LiveSources
<1>2. ConnectSpec => [](StatusMatchesRuntime /\ GenerationsIdentifyConnections)
  BY ConnectUsesTable, StatusCorrect, GenerationsCorrect, PTL DEF UsesTable
<1> QED
  BY <1>1, <1>2, AttemptsNext, RuntimeNext, ConnectTypeCorrect, PTL DEF ConnectSpec

-----------------------------------------------------------------------------
(* Executing and cancelling queries.                                       *)

USE StatementsAssumption

LEMMA QueryTypeInit == QueryInit => QueryTypeOK
<1>1. QueryInit => TypeOK
  BY TypeInit DEF QueryInit
<1> QED
  BY <1>1 DEF QueryInit, BatchInit, QueryTypeOK

LEMMA RegisteredTypes ==
  ASSUME QueryTypeOK, NEW l \in registered
  PROVE  l \in Lease /\ l.source \in Source /\ l.generation \in Generation /\ l.query \in QueryId
BY DEF QueryTypeOK, TypeOK, Lease

-----------------------------------------------------------------------------
(* Every step is a step of the table or leaves it alone.                    *)

LEMMA QueryStepUsesTable == QueryTypeOK /\ [QueryCommandsNext]_qvars => [Next]_vars
<1> SUFFICES ASSUME QueryTypeOK, [QueryCommandsNext]_qvars PROVE [Next]_vars
  OBVIOUS
<1> USE DEF Next, QueryNext, SessionNext
<1>1. ASSUME NEW s \in Source, NEW q \in QueryId, Execute(s, q) \/ CancelWaiting(s, q)
      PROVE  Next
  <2>1. CASE Execute(s, q)
    BY <2>1 DEF Execute, BeginQuery
  <2>2. CASE CancelWaiting(s, q)
    <3>1. s \in LiveSources
      BY <2>2
         DEF CancelWaiting, CancelQueuedQuery, QueryTypeOK, TypeOK, Lease, LiveSources, Generation,
             NoGeneration
    <3> QED
      BY <2>2, <3>1 DEF CancelWaiting
  <2> QED
    BY <1>1, <2>1, <2>2
<1>2. ASSUME NEW s \in Source, NEW q \in QueryId, FindDriver(s, q)
      PROVE  UNCHANGED vars
  BY <1>2 DEF FindDriver
<1>3. ASSUME NEW l \in registered, QueueStep(l) PROVE Next
  BY <1>3 DEF QueueStep
<1>4. ASSUME NEW l \in registered, BatchStep(l) PROVE [Next]_vars
  <2>1. CASE EnterBatch(l) \/ RunStatement(l) \/ StatementSucceeds(l) \/ StatementFails(l)
    BY <2>1 DEF EnterBatch, RunStatement, StatementSucceeds, StatementFails
  <2>2. CASE RetireStale(l)
    <3>1. l.source \in Source /\ InvalidateGeneration(l.source, live[l.source])
      BY <2>2, RegisteredTypes DEF RetireStale, InvalidateGeneration
    <3> QED
      BY <3>1
  <2>3. CASE AnswerQuery(l)
    BY <2>3 DEF AnswerQuery
  <2> QED
    BY <1>4, <2>1, <2>2, <2>3 DEF BatchStep
<1>5. ASSUME NEW r, AskDriver(r) \/ SignalArrives(r) PROVE UNCHANGED vars
  BY <1>5 DEF AskDriver, SignalArrives
<1>6. ASSUME NEW s \in Source, SessionStep(s) PROVE Next
  BY <1>6 DEF SessionStep
<1>7. CASE UNCHANGED qvars
  BY <1>7 DEF qvars
<1> QED
  BY <1>1, <1>2, <1>3, <1>4, <1>5, <1>6, <1>7 DEF QueryCommandsNext

-----------------------------------------------------------------------------
(* What is known of a query's batch.                                        *)

Stages == {"outside", "between", "running"}
Reports == {"none", "succeeded", "error", "failed", "cancelled"}

\* A statement that runs is still to finish.  A batch whose report says
\* cancelled is over, and the request stands.
BatchOf(q, st, n, rep, req, ask) ==
  /\ st[q] \in Stages /\ n[q] \in 0..MaxStatements /\ rep[q] \in Reports
  /\ st[q] = "running" => n[q] > 0
  /\ q \in req => q \in ask
  /\ rep[q] = "cancelled" => st[q] = "between" /\ n[q] = 0 /\ q \in ask

BatchesAreSound == \A q \in QueryId : BatchOf(q, stage, left, report, requested, asked)

QueryInv == QueryTypeOK /\ BatchesAreSound

\* What a step does to the batches: one query's changes, or none.
LEMMA OneBatchMoves ==
  ASSUME QueryInv, NEW q \in QueryId,
         stage' \in [QueryId -> Stages], left' \in [QueryId -> 0..MaxStatements],
         report' \in [QueryId -> Reports],
         \A p \in QueryId \ {q} :
           /\ stage'[p] = stage[p] /\ left'[p] = left[p] /\ report'[p] = report[p]
           /\ p \in requested' <=> p \in requested
           /\ p \in asked' <=> p \in asked,
         BatchOf(q, stage', left', report', requested', asked')
  PROVE  BatchesAreSound'
BY DEF QueryInv, BatchesAreSound, BatchOf

LEMMA BatchNext ==
  ASSUME QueryInv, NEW l \in registered, BatchStep(l), TypeOK'
  PROVE  QueryInv'
<1> DEFINE q == l.query
<1> q \in QueryId
  BY RegisteredTypes DEF QueryInv
<1>0. /\ stage \in [QueryId -> Stages] /\ left \in [QueryId -> 0..MaxStatements]
      /\ report \in [QueryId -> Reports]
      /\ single \cup requested \cup interrupted \cup asked \subseteq QueryId
      /\ found \cup signals \subseteq Lease
  BY DEF QueryInv, QueryTypeOK, Stages, Reports
<1>s. BatchOf(q, stage, left, report, requested, asked)
  BY DEF QueryInv, BatchesAreSound
<1> HIDE DEF q
<1>1. /\ stage' \in [QueryId -> Stages] /\ left' \in [QueryId -> 0..MaxStatements]
      /\ report' \in [QueryId -> Reports]
      /\ single' \cup requested' \cup interrupted' \cup asked' \subseteq QueryId
      /\ found' \cup signals' \subseteq Lease
      /\ \A p \in QueryId \ {q} :
           /\ stage'[p] = stage[p] /\ left'[p] = left[p] /\ report'[p] = report[p]
           /\ p \in requested' <=> p \in requested
           /\ p \in asked' <=> p \in asked
      /\ BatchOf(q, stage', left', report', requested', asked')
  <2>1. CASE EnterBatch(l)
    BY <1>0, <1>s, <2>1 DEF EnterBatch, Stages, Reports, BatchOf, q, cancelVars
  <2>2. CASE RunStatement(l)
    BY <1>0, <1>s, <2>2 DEF RunStatement, Stages, Reports, BatchOf, q, cancelVars
  <2>3. CASE StatementSucceeds(l)
    BY <1>0, <1>s, <2>3 DEF StatementSucceeds, Stages, Reports, BatchOf, q, cancelVars
  <2>4. CASE StatementFails(l)
    BY <1>0, <1>s, <2>4 DEF StatementFails, Stages, Reports, BatchOf, q, cancelVars
  <2>5. CASE RetireStale(l)
    BY <1>0, <1>s, <2>5 DEF RetireStale, BatchOf, batchVars, cancelVars
  <2>6. CASE AnswerQuery(l)
    BY <1>0, <1>s, <2>6 DEF AnswerQuery, LeaveBatch, Stages, Reports, BatchOf, q, cancelVars
  <2> QED
    BY <2>1, <2>2, <2>3, <2>4, <2>5, <2>6 DEF BatchStep
<1>2. BatchesAreSound'
  BY <1>1, OneBatchMoves
<1> QED
  BY <1>1, <1>2 DEF QueryInv, QueryTypeOK, Stages, Reports

LEMMA CancelNext ==
  ASSUME QueryInv, NEW r \in found \cup signals, AskDriver(r) \/ SignalArrives(r), TypeOK'
  PROVE  QueryInv'
<1>0. r \in Lease /\ r.query \in QueryId
  BY DEF QueryInv, QueryTypeOK, Lease
<1>1. CASE AskDriver(r)
  <2>1. QueryTypeOK'
    BY <1>0, <1>1 DEF QueryInv, QueryTypeOK, AskDriver
  <2>2. BatchesAreSound'
    BY <1>0, <1>1 DEF QueryInv, AskDriver, BatchesAreSound, BatchOf
  <2> QED
    BY <2>1, <2>2 DEF QueryInv
<1>2. CASE SignalArrives(r)
  <2>1. interrupted' \subseteq QueryId
    BY <1>2, RegisteredTypes DEF SignalArrives, QueryInv, QueryTypeOK
  <2>2. QueryTypeOK'
    BY <1>2, <2>1 DEF QueryInv, QueryTypeOK, SignalArrives
  <2>3. BatchesAreSound'
    BY <1>2 DEF QueryInv, SignalArrives, BatchesAreSound, BatchOf
  <2> QED
    BY <2>2, <2>3 DEF QueryInv
<1> QED
  BY <1>1, <1>2

LEMMA QueryInvNext == QueryInv /\ [QueryCommandsNext]_qvars => QueryInv'
<1> SUFFICES ASSUME QueryInv, [QueryCommandsNext]_qvars PROVE QueryInv'
  OBVIOUS
<1>0. TypeOK'
  BY QueryStepUsesTable, TypeNext DEF QueryInv, QueryTypeOK
<1>1. ASSUME UNCHANGED <<batchVars, cancelVars>> PROVE QueryInv'
  BY <1>0, <1>1 DEF batchVars, cancelVars, QueryInv, QueryTypeOK, BatchesAreSound, BatchOf
<1>2. ASSUME NEW s \in Source, NEW q \in QueryId, Execute(s, q) \/ CancelWaiting(s, q)
      PROVE  QueryInv'
  BY <1>1, <1>2 DEF Execute, CancelWaiting
<1>3. ASSUME NEW s \in Source, NEW q \in QueryId, FindDriver(s, q) PROVE QueryInv'
  <2>1. [source |-> s, generation |-> live[s], query |-> q] \in Lease
    BY <1>3 DEF FindDriver, LiveSources, QueryInv, QueryTypeOK, TypeOK, Lease
  <2>2. found' \subseteq Lease /\ signals' \subseteq Lease
    BY <1>3, <2>1 DEF FindDriver, QueryInv, QueryTypeOK
  <2> QED
    BY <1>0, <1>3, <2>2 DEF FindDriver, batchVars, QueryInv, QueryTypeOK, BatchesAreSound, BatchOf
<1>4. ASSUME NEW l \in registered, QueueStep(l) PROVE QueryInv'
  BY <1>1, <1>4 DEF QueueStep
<1>5. ASSUME NEW l \in registered, BatchStep(l) PROVE QueryInv'
  BY <1>0, <1>5, BatchNext
<1>6. ASSUME NEW r \in found \cup signals, AskDriver(r) \/ SignalArrives(r) PROVE QueryInv'
  BY <1>0, <1>6, CancelNext
<1>7. ASSUME NEW s \in Source, SessionStep(s) PROVE QueryInv'
  BY <1>1, <1>7 DEF SessionStep
<1>8. CASE UNCHANGED qvars
  BY <1>1, <1>8 DEF qvars
<1> QED
  BY <1>2, <1>3, <1>4, <1>5, <1>6, <1>7, <1>8 DEF QueryCommandsNext

LEMMA QueryInvAlways == QuerySpec => []QueryInv
<1>1. QueryInit => QueryInv
  <2> SUFFICES ASSUME QueryInit PROVE QueryInv
    OBVIOUS
  <2>1. BatchesAreSound
    BY DEF QueryInit, BatchInit, BatchesAreSound, BatchOf, Stages, Reports
  <2> QED
    BY <2>1, QueryTypeInit DEF QueryInv
<1> QED
  BY <1>1, QueryInvNext, PTL DEF QuerySpec

-----------------------------------------------------------------------------
(* execute_query, cancel_query and the engine are well typed with the table  *)
(* under them in every reachable state.                                     *)
THEOREM QueryTypeCorrect == QuerySpec => []QueryTypeOK
<1>1. QueryInv => QueryTypeOK
  BY DEF QueryInv
<1> QED
  BY <1>1, QueryInvAlways, PTL

(* A statement that the batch reports as cancelled was asked to be cancelled  *)
(* while it ran: the flag is down whenever a statement starts.              *)
THEOREM CancelledCorrect == QuerySpec => []CancelledWasAsked
<1>1. QueryInv => CancelledWasAsked
  BY DEF QueryInv, BatchesAreSound, BatchOf, CancelledWasAsked
<1> QED
  BY <1>1, QueryInvAlways, PTL

(* Executing and cancelling implement the session table: each of their steps *)
(* is one of its methods or leaves it alone.                                *)
THEOREM QueriesUseTable == QuerySpec => Spec
<1>1. QueryInit => Init
  BY DEF QueryInit
<1> QED
  BY <1>1, QueryStepUsesTable, QueryTypeCorrect, PTL DEF QuerySpec, Spec

(* While batches run, are cancelled and retire stale sessions, a serial      *)
(* session runs one of them at a time, retiring reaches those that wait, and *)
(* none starts after it.                                                    *)
THEOREM QueriesKeepOrder ==
  QuerySpec => []OneQueryAtATime /\ []CancellationReachesWaiters /\ NothingStartsAfterRetirement
BY QueriesUseTable, SerialCorrect, CancellationCorrect, StartCorrect

-----------------------------------------------------------------------------
(* Rows.  Whatever holds rows, the driver's buffer, a chunk or the result,   *)
(* holds consecutive ones: those after the a-th up to the b-th.              *)

Rows(a, b) == [i \in 1..(b - a) |-> a + i]

LEMMA RowsAre ==
  ASSUME NEW a \in Nat, NEW b \in Nat, a <= b
  PROVE  /\ Rows(a, b) \in Seq(Nat) /\ Len(Rows(a, b)) = b - a
         /\ \A i \in 1..(b - a) : Rows(a, b)[i] = a + i
         /\ Rows(a, b) = <<>> <=> a = b
         /\ Append(Rows(a, b), b + 1) = Rows(a, b + 1)
<1>1. b - a \in Nat
  OBVIOUS
<1>2. Rows(a, b) \in Seq(Nat) /\ Len(Rows(a, b)) = b - a
      /\ \A i \in 1..(b - a) : Rows(a, b)[i] = a + i
  BY <1>1 DEF Rows
<1>3. Rows(a, b) = <<>> <=> a = b
  BY <1>1, <1>2
<1>4. Append(Rows(a, b), b + 1) = Rows(a, b + 1)
  <2>1. b + 1 - a \in Nat /\ b + 1 \in Nat /\ b + 1 - a = (b - a) + 1
    OBVIOUS
  <2>2. Rows(a, b + 1) \in Seq(Nat) /\ Len(Rows(a, b + 1)) = b + 1 - a
        /\ \A i \in 1..(b + 1 - a) : Rows(a, b + 1)[i] = a + i
    BY <2>1 DEF Rows
  <2> HIDE DEF Rows
  <2> QED
    BY SMTT(30), <1>2, <2>1, <2>2
<1> QED
  BY <1>2, <1>3, <1>4

LEMMA RowsEmpty ==
  ASSUME NEW a \in Nat, NEW b \in Nat, a <= b, Rows(a, b) = <<>>
  PROVE  a = b
BY RowsAre

LEMMA RowsNone ==
  ASSUME NEW a \in Nat
  PROVE  Rows(a, a) = <<>> /\ Rows(a, a + 1) = <<a + 1>>
<1>1. a <= a
  OBVIOUS
<1>2. Rows(a, a) = <<>>
  BY <1>1, RowsAre
<1>3. Append(Rows(a, a), a + 1) = Rows(a, a + 1)
  BY <1>1, RowsAre
<1> QED
  BY <1>2, <1>3

LEMMA RowsJoin ==
  ASSUME NEW a \in Nat, NEW b \in Nat, NEW c \in Nat, a <= b, b <= c
  PROVE  /\ Rows(a, b) \o Rows(b, c) = Rows(a, c)
         /\ \A n \in 0..(b - a) : SubSeq(Rows(a, b), 1, n) = Rows(a, a + n)
<1>1. /\ Rows(a, b) \in Seq(Nat) /\ Len(Rows(a, b)) = b - a
      /\ \A i \in 1..(b - a) : Rows(a, b)[i] = a + i
  BY RowsAre
<1>2. /\ Rows(b, c) \in Seq(Nat) /\ Len(Rows(b, c)) = c - b
      /\ \A i \in 1..(c - b) : Rows(b, c)[i] = b + i
  BY RowsAre
<1>3. /\ Rows(a, c) \in Seq(Nat) /\ Len(Rows(a, c)) = c - a
      /\ \A i \in 1..(c - a) : Rows(a, c)[i] = a + i
  <2>1. a <= c
    OBVIOUS
  <2> QED
    BY <2>1, RowsAre
<1>4. Rows(a, b) \o Rows(b, c) = Rows(a, c)
  <2> DEFINE u == Rows(a, b)
             v == Rows(b, c)
             w == Rows(a, c)
  <2>1. u \in Seq(Nat) /\ v \in Seq(Nat) /\ w \in Seq(Nat)
        /\ Len(u) = b - a /\ Len(v) = c - b /\ Len(w) = c - a
    BY <1>1, <1>2, <1>3
  <2>2. /\ \A i \in 1..(b - a) : u[i] = a + i
        /\ \A i \in 1..(c - b) : v[i] = b + i
        /\ \A i \in 1..(c - a) : w[i] = a + i
    BY <1>1, <1>2, <1>3
  <2> HIDE DEF u, v, w
  <2>3. /\ u \o v \in Seq(Nat) /\ Len(u \o v) = Len(u) + Len(v)
        /\ \A i \in 1..(Len(u) + Len(v)) :
             (u \o v)[i] = IF i <= Len(u) THEN u[i] ELSE v[i - Len(u)]
    BY <2>1, ConcatProperties
  <2>4. Len(u \o v) = Len(w)
    BY <2>1, <2>3
  <2>5. \A i \in 1..Len(u \o v) : (u \o v)[i] = w[i]
    <3>0. Len(u \o v) = c - a
      BY <2>1, <2>3
    <3> SUFFICES ASSUME NEW i \in 1..(c - a) PROVE (u \o v)[i] = w[i]
      BY <3>0
    <3>1. w[i] = a + i
      BY <2>2
    <3>2. CASE i <= b - a
      <4>1. i \in 1..(b - a) /\ i \in 1..(Len(u) + Len(v)) /\ i <= Len(u)
        BY <2>1, <3>2
      <4> QED
        BY <2>2, <2>3, <3>1, <4>1
    <3>3. CASE ~(i <= b - a)
      <4>1. i - (b - a) \in 1..(c - b) /\ i \in 1..(Len(u) + Len(v)) /\ ~(i <= Len(u))
            /\ b + (i - (b - a)) = a + i
        BY <2>1, <3>3
      <4> QED
        BY <2>1, <2>2, <2>3, <3>1, <4>1
    <3> QED
      BY <3>2, <3>3
  <2>6. u \o v = w
    BY <2>1, <2>3, <2>4, <2>5, SeqEqual
  <2> QED
    BY <2>6 DEF u, v, w
<1>5. ASSUME NEW n \in 0..(b - a) PROVE SubSeq(Rows(a, b), 1, n) = Rows(a, a + n)
  <2> DEFINE u == Rows(a, b)
             w == Rows(a, a + n)
  <2>1. /\ w \in Seq(Nat) /\ Len(w) = n /\ \A i \in 1..n : w[i] = a + i
    <3>1. a + n \in Nat /\ a <= a + n /\ (a + n) - a = n
      OBVIOUS
    <3>2. /\ Rows(a, a + n) \in Seq(Nat) /\ Len(Rows(a, a + n)) = (a + n) - a
          /\ \A i \in 1..((a + n) - a) : Rows(a, a + n)[i] = a + i
      BY <3>1, RowsAre
    <3> QED
      BY <3>1, <3>2
  <2>2. u \in Seq(Nat) /\ Len(u) = b - a /\ \A i \in 1..n : u[i] = a + i
    BY <1>1
  <2> HIDE DEF u, w
  <2>3. \A i \in 1..n : u[i] \in Nat
    BY <2>2
  <2>4. /\ SubSeq(u, 1, n) \in Seq(Nat) /\ Len(SubSeq(u, 1, n)) = n
        /\ \A i \in 1..n : SubSeq(u, 1, n)[i] = u[i]
    <3>1. /\ SubSeq(u, 1, n) \in Seq(Nat)
          /\ Len(SubSeq(u, 1, n)) = IF 1 <= n THEN n - 1 + 1 ELSE 0
          /\ \A i \in 1..(n - 1 + 1) : SubSeq(u, 1, n)[i] = u[1 + i - 1]
      BY <2>3, SubSeqProperties
    <3> QED
      BY <3>1
  <2>5. SubSeq(u, 1, n) = w
    BY <2>1, <2>2, <2>4, SeqEqual
  <2> QED
    BY <2>5 DEF u, w
<1> QED
  BY <1>4, <1>5

LEMMA RowsFirst ==
  ASSUME NEW a \in Nat, NEW b \in Nat, a <= b, NEW n \in 0..(b - a)
  PROVE  SubSeq(Rows(a, b), 1, n) = Rows(a, a + n)
<1>1. b <= b
  OBVIOUS
<1>2. \A k \in 0..(b - a) : SubSeq(Rows(a, b), 1, k) = Rows(a, a + k)
  BY <1>1, RowsJoin
<1> QED
  BY <1>2

LEMMA RowsOnward ==
  ASSUME NEW d \in Nat, NEW e \in Nat, d <= e
  PROVE  Rows(0, d) \o Rows(d, e) = Rows(0, e) /\ Len(Rows(0, e)) = e
<1>1. 0 \in Nat /\ 0 <= d /\ 0 <= e /\ e - 0 = e
  OBVIOUS
<1>2. Rows(0, d) \o Rows(d, e) = Rows(0, e)
  BY <1>1, RowsJoin
<1>3. Len(Rows(0, e)) = e - 0
  BY <1>1, RowsAre
<1> QED
  BY <1>1, <1>2, <1>3

-----------------------------------------------------------------------------
(* Bytes.                                                                  *)

Sums(f, s) == f = [n \in 0..Len(s) |-> IF n = 0 THEN 0 ELSE f[n - 1] + sizes[s[n]]]

LEMMA SummingExists ==
  ASSUME NEW s \in Seq(Nat)
  PROVE  \E f : Sums(f, s)
<1> DEFINE To(f, m) == f = [n \in 0..m |-> IF n = 0 THEN 0 ELSE f[n - 1] + sizes[s[n]]]
           Fails == {m \in Nat : ~ \E f : To(f, m)}
<1>0. Len(s) \in Nat
  OBVIOUS
<1>a. SUFFICES ASSUME Fails # {} PROVE FALSE
  BY <1>0 DEF Sums
<1>1. PICK m \in Fails : \A n \in Fails : m <= n
  BY <1>a, LeastExists
<1>2. To([n \in 0..0 |-> 0], 0)
  OBVIOUS
<1>3. m # 0 /\ m - 1 \in Nat /\ m - 1 \notin Fails
  <2> HIDE DEF To
  <2> QED
    BY <1>1, <1>2
<1>4. PICK g : To(g, m - 1)
  BY <1>3
<1> DEFINE f == [n \in 0..m |-> IF n < m THEN g[n] ELSE g[n - 1] + sizes[s[n]]]
<1>5. To(f, m)
  <2>1. ASSUME NEW n \in 0..m, n < m
        PROVE  f[n] = IF n = 0 THEN 0 ELSE f[n - 1] + sizes[s[n]]
    <3>1. n \in 0..(m - 1) /\ f[n] = g[n] /\ (n # 0 => f[n - 1] = g[n - 1])
      BY <1>3, <2>1
    <3>2. g[n] = IF n = 0 THEN 0 ELSE g[n - 1] + sizes[s[n]]
      BY <1>4, <3>1
    <3> QED
      BY <3>1, <3>2
  <2>2. f[m] = f[m - 1] + sizes[s[m]]
    BY <1>3
  <2>3. f = [n \in 0..m |-> f[n]]
    OBVIOUS
  <2> HIDE DEF f
  <2>4. \A n \in 0..m : f[n] = IF n = 0 THEN 0 ELSE f[n - 1] + sizes[s[n]]
    BY <1>3, <2>1, <2>2
  <2> QED
    BY <2>3, <2>4
<1> QED
  BY <1>1, <1>5

Row == 1..Len(sizes)

LEMMA BytesBySum ==
  ASSUME sizes \in Seq(Nat), NEW s \in Seq(Row)
  PROVE  \E f : /\ Bytes(s) = f[Len(s)] /\ f[0] = 0
                /\ \A n \in 0..Len(s) : f[n] \in Nat
                /\ \A n \in 1..Len(s) : f[n] = f[n - 1] + sizes[s[n]]
<1>1. s \in Seq(Nat) /\ \A n \in 1..Len(s) : sizes[s[n]] \in Nat
  BY DEF Row
<1> DEFINE f == CHOOSE g : Sums(g, s)
<1>2. Sums(f, s)
  BY <1>1, SummingExists
<1>3. Bytes(s) = f[Len(s)]
  BY DEF Bytes, Sums
<1> HIDE DEF f
<1>4. f[0] = 0 /\ \A n \in 1..Len(s) : f[n] = f[n - 1] + sizes[s[n]]
  BY <1>2 DEF Sums
<1> DEFINE Fails == {n \in 0..Len(s) : f[n] \notin Nat}
<1>5. Fails = {}
  <2> SUFFICES ASSUME Fails # {} PROVE FALSE
    OBVIOUS
  <2>1. PICK m \in Fails : \A n \in Fails : m <= n
    <3>1. Fails \in SUBSET Nat
      OBVIOUS
    <3> HIDE DEF Fails
    <3> QED
      BY <3>1, LeastExists
  <2>2. m \in 1..Len(s) /\ m - 1 \in 0..Len(s)
    BY <1>4
  <2>3. f[m - 1] \in Nat /\ f[m] \notin Nat
    BY <2>1, <2>2
  <2>4. f[m] = f[m - 1] + sizes[s[m]] /\ sizes[s[m]] \in Nat
    BY <1>1, <1>4, <2>2
  <2> HIDE DEF Fails
  <2> QED
    BY <2>3, <2>4
<1> QED
  BY <1>3, <1>4, <1>5

\* Two runs of sums over the same rows go the same way from where they start.
LEMMA SumsAgree ==
  ASSUME NEW len \in Nat, NEW f, NEW g, g[0] = 0,
         \A n \in 0..len : f[n] \in Nat /\ g[n] \in Nat,
         \A n \in 1..len : f[n] - f[n - 1] = g[n] - g[n - 1]
  PROVE  f[len] = f[0] + g[len]
<1> DEFINE Fails == {n \in 0..len : f[n] # f[0] + g[n]}
<1>1. Fails = {}
  <2> SUFFICES ASSUME Fails # {} PROVE FALSE
    OBVIOUS
  <2>1. PICK m \in Fails : \A n \in Fails : m <= n
    <3>1. Fails \in SUBSET Nat
      OBVIOUS
    <3> HIDE DEF Fails
    <3> QED
      BY <3>1, LeastExists
  <2>2. m \in 1..len /\ m - 1 \in 0..len
    OBVIOUS
  <2>3. f[m - 1] = f[0] + g[m - 1] /\ f[m] # f[0] + g[m]
    BY <2>1, <2>2
  <2>4. /\ f[m] - f[m - 1] = g[m] - g[m - 1] /\ 0 \in 0..len
        /\ {f[m], f[m - 1], g[m], g[m - 1], f[0]} \subseteq Nat
    BY <2>2
  <2> HIDE DEF Fails
  <2> QED
    BY <2>3, <2>4
<1> QED
  BY <1>1

LEMMA BytesAdd ==
  ASSUME sizes \in Seq(Nat), NEW s \in Seq(Row), NEW t \in Seq(Row)
  PROVE  /\ Bytes(s \o t) = Bytes(s) + Bytes(t)
         /\ Bytes(s) \in Nat /\ Bytes(t) \in Nat
<1>0. /\ s \o t \in Seq(Row) /\ Len(s) \in Nat /\ Len(t) \in Nat /\ Len(s \o t) = Len(s) + Len(t)
      /\ \A i \in 1..(Len(s) + Len(t)) : (s \o t)[i] = IF i <= Len(s) THEN s[i] ELSE t[i - Len(s)]
  BY ConcatProperties
<1>1. PICK f : /\ Bytes(s \o t) = f[Len(s \o t)] /\ f[0] = 0
               /\ \A n \in 0..Len(s \o t) : f[n] \in Nat
               /\ \A n \in 1..Len(s \o t) : f[n] = f[n - 1] + sizes[(s \o t)[n]]
  BY <1>0, BytesBySum
<1>2. PICK g : /\ Bytes(s) = g[Len(s)] /\ g[0] = 0
               /\ \A n \in 0..Len(s) : g[n] \in Nat
               /\ \A n \in 1..Len(s) : g[n] = g[n - 1] + sizes[s[n]]
  BY BytesBySum
<1>3. PICK h : /\ Bytes(t) = h[Len(t)] /\ h[0] = 0
               /\ \A n \in 0..Len(t) : h[n] \in Nat
               /\ \A n \in 1..Len(t) : h[n] = h[n - 1] + sizes[t[n]]
  BY BytesBySum
<1>4. \A i \in Row : sizes[i] \in Nat
  BY DEF Row
<1>5. f[Len(s)] = f[0] + g[Len(s)]
  <2>1. ASSUME NEW n \in 1..Len(s) PROVE f[n] - f[n - 1] = g[n] - g[n - 1]
    <3>1. (s \o t)[n] = s[n] /\ n \in 1..Len(s \o t) /\ s[n] \in Row /\ n \in 0..Len(s \o t)
          /\ n - 1 \in 0..Len(s \o t) /\ n - 1 \in 0..Len(s) /\ n \in 0..Len(s)
      BY <1>0
    <3>2. f[n] = f[n - 1] + sizes[s[n]] /\ g[n] = g[n - 1] + sizes[s[n]]
      BY <1>1, <1>2, <3>1
    <3>3. f[n - 1] \in Nat /\ g[n - 1] \in Nat /\ sizes[s[n]] \in Nat
      BY <1>1, <1>2, <1>4, <3>1
    <3>4. \A x, y, z \in Nat : (x + z) - x = (y + z) - y
      OBVIOUS
    <3>5. (f[n - 1] + sizes[s[n]]) - f[n - 1] = (g[n - 1] + sizes[s[n]]) - g[n - 1]
      BY <3>3, <3>4
    <3> QED
      BY <3>2, <3>5
  <2>2. \A n \in 0..Len(s) : f[n] \in Nat /\ g[n] \in Nat
    BY <1>0, <1>1, <1>2
  <2> QED
    BY ZenonT(40), <1>0, <1>2, <2>1, <2>2, SumsAgree
<1> DEFINE k == [n \in 0..Len(t) |-> f[Len(s) + n]]
<1>6. k[Len(t)] = k[0] + h[Len(t)]
  <2>1. ASSUME NEW n \in 1..Len(t) PROVE k[n] - k[n - 1] = h[n] - h[n - 1]
    <3>1. /\ (s \o t)[Len(s) + n] = t[n] /\ Len(s) + n \in 1..Len(s \o t) /\ t[n] \in Row
          /\ (Len(s) + n) - 1 = Len(s) + (n - 1) /\ n \in 0..Len(t) /\ n - 1 \in 0..Len(t)
          /\ Len(s) + (n - 1) \in 0..Len(s \o t)
      BY <1>0
    <3>2. f[Len(s) + n] = f[Len(s) + (n - 1)] + sizes[t[n]] /\ h[n] = h[n - 1] + sizes[t[n]]
      BY <1>1, <1>3, <3>1
    <3>3. f[Len(s) + (n - 1)] \in Nat /\ h[n - 1] \in Nat /\ sizes[t[n]] \in Nat
      BY <1>1, <1>3, <1>4, <3>1
    <3>4. k[n] = f[Len(s) + n] /\ k[n - 1] = f[Len(s) + (n - 1)]
      BY <3>1
    <3>5. \A x, y, z \in Nat : (x + z) - x = (y + z) - y
      OBVIOUS
    <3>6. (f[Len(s) + (n - 1)] + sizes[t[n]]) - f[Len(s) + (n - 1)]
            = (h[n - 1] + sizes[t[n]]) - h[n - 1]
      BY <3>3, <3>5
    <3> QED
      BY <3>2, <3>4, <3>6
  <2>2. \A n \in 0..Len(t) : k[n] \in Nat /\ h[n] \in Nat
    BY <1>0, <1>1, <1>3
  <2> HIDE DEF k
  <2> QED
    BY ZenonT(40), <1>0, <1>3, <2>1, <2>2, SumsAgree
<1>9. k[0] = f[Len(s)]
  BY <1>0
<1>7. k[Len(t)] = f[Len(s \o t)]
  BY <1>0
<1>8. g[Len(s)] \in Nat /\ h[Len(t)] \in Nat
  BY <1>0, <1>2, <1>3
<1> QED
  BY <1>1, <1>2, <1>3, <1>5, <1>6, <1>7, <1>8, <1>9

LEMMA BytesOfNone == Bytes(<<>>) = 0
<1> DEFINE f == CHOOSE g : Sums(g, <<>>)
<1>1. Sums(f, <<>>)
  <2>1. <<>> \in Seq(Nat)
    OBVIOUS
  <2> QED
    BY <2>1, SummingExists
<1>2. Bytes(<<>>) = f[0]
  BY DEF Bytes, Sums
<1> HIDE DEF f
<1> QED
  BY <1>1, <1>2 DEF Sums

-----------------------------------------------------------------------------
(* Chunks in order: the i-th holds the rows between two cuts.               *)

InOrder(chunks, cuts) ==
  /\ chunks \in Seq(Seq(Nat)) /\ cuts \in [0..Len(chunks) -> Nat]
  /\ \A i, j \in 0..Len(chunks) : i <= j => cuts[i] <= cuts[j]
  /\ \A i \in 1..Len(chunks) : chunks[i] = Rows(cuts[i - 1], cuts[i])

Hold(chunks, a, b) ==
  \E cuts : InOrder(chunks, cuts) /\ cuts[0] = a /\ cuts[Len(chunks)] = b

LEMMA HoldRange ==
  ASSUME NEW chunks, NEW a, NEW b, Hold(chunks, a, b)
  PROVE  a \in Nat /\ b \in Nat /\ a <= b /\ chunks \in Seq(Seq(Nat))
         /\ (chunks = <<>> => a = b)
<1>1. PICK cuts : InOrder(chunks, cuts) /\ cuts[0] = a /\ cuts[Len(chunks)] = b
  BY DEF Hold
<1>2. Len(chunks) \in Nat /\ 0 \in 0..Len(chunks) /\ Len(chunks) \in 0..Len(chunks)
  BY <1>1 DEF InOrder
<1> QED
  BY <1>1, <1>2 DEF InOrder

LEMMA HoldNone ==
  ASSUME NEW a \in Nat
  PROVE  Hold(<<>>, a, a)
<1> DEFINE cuts == [i \in 0..0 |-> a]
<1>1. InOrder(<<>>, cuts) /\ cuts[0] = a
  BY DEF InOrder
<1> HIDE DEF cuts
<1> QED
  BY <1>1 DEF Hold

LEMMA HoldAppend ==
  ASSUME NEW chunks, NEW a, NEW b, Hold(chunks, a, b), NEW c \in Nat, b <= c
  PROVE  Hold(Append(chunks, Rows(b, c)), a, c)
<1>1. PICK cuts : InOrder(chunks, cuts) /\ cuts[0] = a /\ cuts[Len(chunks)] = b
  BY DEF Hold
<1> DEFINE n == Len(chunks)
           more == Append(chunks, Rows(b, c))
           further == [i \in 0..(n + 1) |-> IF i <= n THEN cuts[i] ELSE c]
<1>2. n \in Nat /\ b \in Nat /\ chunks \in Seq(Seq(Nat)) /\ Rows(b, c) \in Seq(Nat)
      /\ cuts \in [0..n -> Nat] /\ \A i \in 0..n : cuts[i] <= b
  <2>1. b \in Nat /\ chunks \in Seq(Seq(Nat))
    BY HoldRange
  <2>2. n \in Nat /\ n \in 0..n /\ cuts \in [0..n -> Nat]
    BY <1>1, <2>1 DEF InOrder
  <2>3. \A i \in 0..n : cuts[i] <= cuts[n]
    BY <1>1, <2>2 DEF InOrder
  <2>4. Rows(b, c) \in Seq(Nat)
    BY <2>1, RowsAre
  <2> QED
    BY <1>1, <2>1, <2>2, <2>3, <2>4
<1>3. more \in Seq(Seq(Nat)) /\ Len(more) = n + 1 /\ more[n + 1] = Rows(b, c)
      /\ \A i \in 1..n : more[i] = chunks[i]
  BY <1>2, AppendProperties
<1>4. further \in [0..(n + 1) -> Nat]
  BY <1>2
<1>5. ASSUME NEW i \in 0..(n + 1), NEW j \in 0..(n + 1), i <= j
      PROVE  further[i] <= further[j]
  <2>1. CASE j <= n
    <3>1. i \in 0..n /\ j \in 0..n
      BY <1>2, <1>5, <2>1
    <3> QED
      BY <1>1, <1>5, <3>1 DEF InOrder
  <2>2. CASE ~(j <= n)
    <3>1. further[j] = c
      BY <2>2
    <3>2. CASE i <= n
      <4>1. i \in 0..n /\ further[i] = cuts[i]
        BY <1>2, <3>2
      <4>2. cuts[i] \in Nat /\ cuts[i] <= b
        BY <1>2, <4>1
      <4> HIDE DEF further
      <4> QED
        BY <1>2, <3>1, <4>1, <4>2
    <3>3. CASE ~(i <= n)
      BY <3>1, <3>3
    <3> QED
      BY <3>2, <3>3
  <2> QED
    BY <2>1, <2>2
<1>6. ASSUME NEW i \in 1..(n + 1)
      PROVE  more[i] = Rows(further[i - 1], further[i])
  <2>1. CASE i <= n
    <3>1. i \in 1..n /\ i - 1 \in 0..n /\ i \in 0..n
      BY <1>2, <2>1
    <3>2. further[i - 1] = cuts[i - 1] /\ further[i] = cuts[i]
      BY <1>2, <3>1
    <3> QED
      BY <1>1, <1>3, <3>1, <3>2 DEF InOrder
  <2>2. CASE ~(i <= n)
    <3>1. i = n + 1 /\ n \in 0..(n + 1) /\ (n + 1) - 1 = n
      BY <1>2, <2>2
    <3>2. further[i - 1] = b /\ further[i] = c
      BY <1>1, <1>2, <3>1
    <3> QED
      BY <1>3, <3>1, <3>2
  <2> QED
    BY <2>1, <2>2
<1>7. further[0] = a /\ further[n + 1] = c
  BY <1>1, <1>2
<1> HIDE DEF more, further
<1>8. InOrder(more, further)
  BY <1>3, <1>4, <1>5, <1>6 DEF InOrder
<1>9. Hold(more, a, c)
  BY <1>3, <1>7, <1>8 DEF Hold
<1> QED
  BY <1>9 DEF more

LEMMA HoldHead ==
  ASSUME NEW chunks, NEW a, NEW b, Hold(chunks, a, b), chunks # <<>>
  PROVE  \E c \in Nat : /\ a <= c /\ c <= b /\ Head(chunks) = Rows(a, c)
                        /\ Hold(Tail(chunks), c, b)
<1>1. PICK cuts : InOrder(chunks, cuts) /\ cuts[0] = a /\ cuts[Len(chunks)] = b
  BY DEF Hold
<1> DEFINE n == Len(chunks)
           rest == Tail(chunks)
           after == [i \in 0..(n - 1) |-> cuts[i + 1]]
           c == cuts[1]
<1>2. chunks \in Seq(Seq(Nat)) /\ n \in Nat /\ n # 0 /\ cuts \in [0..n -> Nat]
  BY <1>1 DEF InOrder
<1>3. rest \in Seq(Seq(Nat)) /\ Len(rest) = n - 1 /\ Head(chunks) = chunks[1]
      /\ \A i \in 1..(n - 1) : rest[i] = chunks[i + 1]
  BY <1>2, HeadTailProperties
<1>4. after \in [0..(n - 1) -> Nat] /\ \A i \in 0..(n - 1) : after[i] = cuts[i + 1]
  BY <1>2
<1>5. c \in Nat /\ a <= c /\ c <= b /\ chunks[1] = Rows(a, c)
  <2>1. 0 \in 0..n /\ 1 \in 0..n /\ n \in 0..n /\ 1 \in 1..n /\ 1 - 1 = 0 /\ 0 <= 1 /\ 1 <= n
    BY <1>2
  <2>2. \A i, j \in 0..n : i <= j => cuts[i] <= cuts[j]
    BY <1>1 DEF InOrder
  <2>3. chunks[1] = Rows(cuts[1 - 1], cuts[1])
    BY <1>1, <2>1 DEF InOrder
  <2> QED
    BY <1>1, <1>2, <2>1, <2>2, <2>3
<1>6. after[0] = c /\ after[n - 1] = b
  <2>1. 0 \in 0..(n - 1) /\ n - 1 \in 0..(n - 1) /\ 0 + 1 = 1 /\ (n - 1) + 1 = n
    BY <1>2
  <2> QED
    BY <1>1, <1>4, <2>1
<1>7. \A i, j \in 0..(n - 1) : i <= j => after[i] <= after[j]
  <2> SUFFICES ASSUME NEW i \in 0..(n - 1), NEW j \in 0..(n - 1), i <= j
               PROVE  after[i] <= after[j]
    OBVIOUS
  <2>1. i + 1 \in 0..n /\ j + 1 \in 0..n /\ i + 1 <= j + 1
    BY <1>2
  <2>2. cuts[i + 1] <= cuts[j + 1]
    BY <1>1, <2>1 DEF InOrder
  <2> QED
    BY <1>4, <2>2
<1>8. \A i \in 1..(n - 1) : rest[i] = Rows(after[i - 1], after[i])
  <2> SUFFICES ASSUME NEW i \in 1..(n - 1) PROVE rest[i] = Rows(after[i - 1], after[i])
    OBVIOUS
  <2>1. i + 1 \in 1..n /\ (i + 1) - 1 = i /\ (i - 1) + 1 = i /\ i - 1 \in 0..(n - 1)
        /\ i \in 0..(n - 1)
    BY <1>2
  <2>2. chunks[i + 1] = Rows(cuts[(i + 1) - 1], cuts[i + 1])
    BY <1>1, <2>1 DEF InOrder
  <2>3. after[i - 1] = cuts[i] /\ after[i] = cuts[i + 1]
    BY <1>4, <2>1
  <2> QED
    BY <1>3, <2>1, <2>2, <2>3
<1> HIDE DEF rest, after, c
<1>9. InOrder(rest, after)
  BY <1>3, <1>4, <1>7, <1>8 DEF InOrder
<1>10. Hold(rest, c, b)
  BY <1>3, <1>6, <1>9 DEF Hold
<1> QED
  BY <1>3, <1>5, <1>10 DEF rest

\* The last chunk takes one row more.
LEMMA HoldLonger ==
  ASSUME NEW chunks, NEW a, NEW b, Hold(chunks, a, b), chunks # <<>>
  PROVE  Hold([chunks EXCEPT ![Len(chunks)] = Append(@, b + 1)], a, b + 1)
<1>1. PICK cuts : InOrder(chunks, cuts) /\ cuts[0] = a /\ cuts[Len(chunks)] = b
  BY DEF Hold
<1> DEFINE n == Len(chunks)
           more == [chunks EXCEPT ![n] = Append(@, b + 1)]
           further == [cuts EXCEPT ![n] = b + 1]
<1>2. chunks \in Seq(Seq(Nat)) /\ n \in Nat /\ n # 0 /\ cuts \in [0..n -> Nat] /\ b \in Nat
  BY <1>1, HoldRange DEF InOrder
<1>3. n \in 1..n /\ n - 1 \in 0..n /\ n \in 0..n /\ 0 \in 0..n
  BY <1>2
<1>4. cuts[n - 1] \in Nat /\ cuts[n - 1] <= b /\ chunks[n] = Rows(cuts[n - 1], b)
  <2>1. n - 1 <= n
    BY <1>2
  <2> QED
    BY <1>1, <1>2, <1>3, <2>1 DEF InOrder
<1>5. /\ Append(chunks[n], b + 1) = Rows(cuts[n - 1], b + 1)
      /\ Append(chunks[n], b + 1) \in Seq(Nat)
  <2>1. b + 1 \in Nat /\ cuts[n - 1] <= b + 1
    BY <1>2, <1>4
  <2>2. Append(Rows(cuts[n - 1], b), b + 1) = Rows(cuts[n - 1], b + 1)
    BY ZenonT(40), <1>2, <1>4, RowsAre
  <2>3. Rows(cuts[n - 1], b + 1) \in Seq(Nat)
    BY <1>4, <2>1, RowsAre
  <2> QED
    BY <1>4, <2>2, <2>3
<1>6. more \in Seq(Seq(Nat)) /\ Len(more) = n /\ more[n] = Append(chunks[n], b + 1)
      /\ \A i \in 1..n : i # n => more[i] = chunks[i]
  BY <1>2, <1>3, <1>5, ExceptSeq
<1>7. further \in [0..n -> Nat] /\ further[n] = b + 1
      /\ \A i \in 0..n : i # n => further[i] = cuts[i]
  BY <1>2, <1>3
<1>8. further[0] = a
  BY <1>1, <1>2, <1>3, <1>7
<1>9. \A i, j \in 0..n : i <= j => further[i] <= further[j]
  <2> SUFFICES ASSUME NEW i \in 0..n, NEW j \in 0..n, i <= j PROVE further[i] <= further[j]
    OBVIOUS
  <2>1. cuts[i] <= cuts[j] /\ cuts[i] <= b /\ cuts[i] \in Nat /\ cuts[j] \in Nat
    <3>1. \A k, l \in 0..n : k <= l => cuts[k] <= cuts[l]
      BY <1>1 DEF InOrder
    <3>2. i <= n
      BY <1>2
    <3>3. cuts[i] <= cuts[n]
      BY <1>3, <3>1, <3>2
    <3>4. cuts[i] <= cuts[j]
      BY <3>1
    <3> HIDE DEF n
    <3> QED
      BY <1>1, <1>2, <3>3, <3>4 DEF n
  <2>2. (i = n => j = n)
    BY <1>2
  <2> HIDE DEF n
  <2> QED
    BY <1>2, <1>7, <2>1, <2>2
<1>10. \A i \in 1..n : more[i] = Rows(further[i - 1], further[i])
  <2> SUFFICES ASSUME NEW i \in 1..n PROVE more[i] = Rows(further[i - 1], further[i])
    OBVIOUS
  <2>1. i - 1 \in 0..n /\ i \in 0..n /\ i - 1 # n
    BY <1>2
  <2>2. chunks[i] = Rows(cuts[i - 1], cuts[i])
    BY <1>1 DEF InOrder
  <2>3. further[i - 1] = cuts[i - 1]
    BY <1>7, <2>1
  <2>4. CASE i = n
    BY <1>5, <1>6, <1>7, <2>3, <2>4
  <2>5. CASE i # n
    BY <1>6, <1>7, <2>1, <2>2, <2>3, <2>5
  <2> QED
    BY <2>4, <2>5
<1> HIDE DEF more, further
<1>11. InOrder(more, further)
  BY <1>6, <1>7, <1>9, <1>10 DEF InOrder
<1>12. Hold(more, a, b + 1)
  BY <1>6, <1>7, <1>8, <1>11 DEF Hold
<1> QED
  BY <1>12 DEF more

\* The first chunks, joined, hold the rows up to their last cut.
LEMMA HoldFlat ==
  ASSUME NEW chunks, NEW a, NEW b, Hold(chunks, a, b)
  PROVE  FlattenSeq(chunks) = Rows(a, b)
<1>1. PICK cuts : InOrder(chunks, cuts) /\ cuts[0] = a /\ cuts[Len(chunks)] = b
  BY DEF Hold
<1>2. chunks \in Seq(Seq(Nat)) /\ Len(chunks) \in Nat /\ a \in Nat
      /\ cuts \in [0..Len(chunks) -> Nat]
  BY <1>1, HoldRange DEF InOrder
<1>3. CASE Len(chunks) = 0
  <2>1. chunks = <<>> /\ a = b
    BY <1>1, <1>2, <1>3
  <2>2. Rows(a, a) = <<>>
    BY <1>2, RowsNone
  <2>3. Len(<<>>) = 0
    OBVIOUS
  <2> QED
    BY <2>1, <2>2, <2>3 DEF FlattenSeq
<1>4. CASE Len(chunks) # 0
  <2> DEFINE n == Len(chunks)
             Flat(f) == f = [i \in 1..n |-> IF i = 1 THEN chunks[i] ELSE f[i - 1] \o chunks[i]]
             joined == [i \in 1..n |-> Rows(a, cuts[i])]
             f == CHOOSE g : Flat(g)
  <2>1. ASSUME NEW i \in 1..n, i # 1
        PROVE  joined[i] = joined[i - 1] \o chunks[i]
    <3>1. i - 1 \in 1..n /\ i - 1 \in 0..n /\ i \in 0..n /\ 0 \in 0..n /\ 0 <= i - 1 /\ i - 1 <= i
      BY <1>2, <2>1
    <3>2. a <= cuts[i - 1] /\ cuts[i - 1] <= cuts[i] /\ cuts[i - 1] \in Nat /\ cuts[i] \in Nat
      BY <1>1, <1>2, <3>1 DEF InOrder
    <3>3. chunks[i] = Rows(cuts[i - 1], cuts[i])
      BY <1>1 DEF InOrder
    <3>4. Rows(a, cuts[i - 1]) \o Rows(cuts[i - 1], cuts[i]) = Rows(a, cuts[i])
      BY <1>2, <3>2, RowsJoin
    <3> QED
      BY <3>1, <3>3, <3>4
  <2>2. 1 \in 1..n /\ joined[1] = chunks[1]
    <3>1. 1 \in 1..n /\ 1 - 1 = 0
      BY <1>2, <1>4
    <3> QED
      BY <1>1, <3>1 DEF InOrder
  <2>3. Flat(joined)
    <3>1. joined = [i \in 1..n |-> joined[i]]
      OBVIOUS
    <3> HIDE DEF joined
    <3>2. \A i \in 1..n : joined[i] = IF i = 1 THEN chunks[i] ELSE joined[i - 1] \o chunks[i]
      BY <2>1, <2>2
    <3> QED
      BY <3>1, <3>2
  <2>4. Flat(f)
    <3> HIDE DEF Flat, joined
    <3> QED
      BY <2>3
  <2>5. FlattenSeq(chunks) = f[n]
    BY <1>4 DEF FlattenSeq
  <2> HIDE DEF f
  <2>6. \A i \in 1..n : f[i] = IF i = 1 THEN chunks[i] ELSE f[i - 1] \o chunks[i]
    BY <2>4
  <2> DEFINE Fails == {i \in 1..n : f[i] # joined[i]}
  <2>7. Fails = {}
    <3> SUFFICES ASSUME Fails # {} PROVE FALSE
      OBVIOUS
    <3> HIDE DEF joined
    <3>1. PICK m \in Fails : \A i \in Fails : m <= i
      <4>1. Fails \in SUBSET Nat
        OBVIOUS
      <4> HIDE DEF Fails
      <4> QED
        BY <4>1, LeastExists
    <3>2. m \in 1..n /\ m # 1 /\ f[m] # joined[m]
      BY <2>2, <2>6
    <3>3. m - 1 \in 1..n /\ ~(m <= m - 1)
      BY <1>2, <3>2
    <3>4. f[m - 1] = joined[m - 1]
      BY <3>1, <3>3
    <3> QED
      BY <2>1, <2>6, <3>2, <3>4
  <2>8. n \in 1..n
    BY <1>2, <1>4
  <2>9. f[n] = joined[n]
    BY <2>7, <2>8
  <2> QED
    BY <1>1, <2>5, <2>8, <2>9
<1> QED
  BY <1>3, <1>4

LEMMA HoldJoined ==
  ASSUME NEW chunks, NEW a, NEW b, Hold(chunks, a, b), NEW n \in 0..Len(chunks)
  PROVE  \E c \in Nat : /\ a <= c /\ c <= b /\ Joined(chunks, n) = Rows(a, c)
                        /\ n = 0 => c = a
                        /\ n = Len(chunks) => c = b
                        /\ (n # Len(chunks) /\ chunks[n + 1] # <<>>) => c < b
<1>1. PICK cuts : InOrder(chunks, cuts) /\ cuts[0] = a /\ cuts[Len(chunks)] = b
  BY DEF Hold
<1>2. chunks \in Seq(Seq(Nat)) /\ Len(chunks) \in Nat /\ cuts \in [0..Len(chunks) -> Nat]
  BY <1>1 DEF InOrder
<1>3. \A i, j \in 0..Len(chunks) : i <= j => cuts[i] <= cuts[j]
  BY <1>1 DEF InOrder
<1> DEFINE c == cuts[n]
           first == SubSeq(chunks, 1, n)
           before == [i \in 0..n |-> cuts[i]]
<1>4. 0 \in 0..Len(chunks) /\ Len(chunks) \in 0..Len(chunks) /\ 0 <= n /\ n <= Len(chunks)
  BY <1>2
<1>5. c \in Nat /\ a <= c /\ c <= b
  BY <1>1, <1>2, <1>3, <1>4
<1>6. first \in Seq(Seq(Nat)) /\ Len(first) = n /\ \A i \in 1..n : first[i] = chunks[i]
  <2>1. \A i \in 1..n : chunks[i] \in Seq(Nat)
    BY <1>2
  <2>2. /\ first \in Seq(Seq(Nat)) /\ Len(first) = IF 1 <= n THEN n - 1 + 1 ELSE 0
        /\ \A i \in 1..(n - 1 + 1) : first[i] = chunks[1 + i - 1]
    <3>1. n \in Int
      BY <1>2
    <3> QED
      BY <1>2, <2>1, <3>1, SubSeqProperties
  <2> QED
    BY <1>2, <2>2
<1>7. Hold(first, a, c)
  <2>0. \A i \in 0..n : i \in 0..Len(chunks)
    BY <1>2
  <2>1. before \in [0..n -> Nat] /\ \A i \in 0..n : before[i] = cuts[i] /\ i \in 0..Len(chunks)
    BY <1>2, <2>0
  <2>2. \A i, j \in 0..n : i <= j => before[i] <= before[j]
    BY <1>3, <2>1
  <2>3. \A i \in 1..n : first[i] = Rows(before[i - 1], before[i])
    <3> SUFFICES ASSUME NEW i \in 1..n PROVE first[i] = Rows(before[i - 1], before[i])
      OBVIOUS
    <3>1. i \in 1..Len(chunks) /\ i \in 0..n /\ i - 1 \in 0..n
      BY <1>2
    <3>2. chunks[i] = Rows(cuts[i - 1], cuts[i])
      BY <1>1, <3>1 DEF InOrder
    <3> QED
      BY <1>6, <2>1, <3>1, <3>2
  <2>4. before[0] = a /\ before[n] = c
    BY <1>1, <1>4
  <2> HIDE DEF before, first, c
  <2>5. InOrder(first, before)
    BY <1>6, <2>1, <2>2, <2>3 DEF InOrder
  <2> QED
    BY <1>6, <2>4, <2>5 DEF Hold
<1>8. Joined(chunks, n) = Rows(a, c)
  BY <1>7, HoldFlat DEF Joined
<1>9. (n # Len(chunks) /\ chunks[n + 1] # <<>>) => c < b
  <2> SUFFICES ASSUME n # Len(chunks), chunks[n + 1] # <<>> PROVE c < b
    OBVIOUS
  <2>1. n + 1 \in 1..Len(chunks) /\ n + 1 \in 0..Len(chunks) /\ (n + 1) - 1 = n /\ n <= n + 1
        /\ n + 1 <= Len(chunks)
    BY <1>2
  <2>2. chunks[n + 1] = Rows(c, cuts[n + 1]) /\ cuts[n + 1] \in Nat
    BY <1>1, <1>2, <2>1 DEF InOrder
  <2>3. c <= cuts[n + 1] /\ cuts[n + 1] <= b
    BY <1>1, <1>3, <1>4, <2>1
  <2>4. c # cuts[n + 1]
    <3>1. Rows(c, c) = <<>>
      BY <1>5, RowsNone
    <3> QED
      BY <2>2, <3>1
  <2> DEFINE d == cuts[n + 1]
  <2>5. d \in Nat /\ c <= d /\ d <= b /\ c # d /\ c \in Nat
    BY <1>5, <2>2, <2>3, <2>4
  <2>6. b \in Nat
    BY <1>1, HoldRange
  <2> HIDE DEF c, d
  <2> QED
    BY <2>5, <2>6
<1> QED
  BY <1>1, <1>5, <1>8, <1>9

-----------------------------------------------------------------------------
(* Pieces.                                                                 *)

Grown(pieces, chunk, n) ==
  IF n = 1 \/ Bytes(Last(pieces)) + sizes[chunk[n]] > ChunkBytes
  THEN Append(pieces, <<chunk[n]>>)
  ELSE [pieces EXCEPT ![Len(pieces)] = Append(@, chunk[n])]
Cutting(f, chunk, m) == f = [n \in 0..m |-> IF n = 0 THEN <<>> ELSE Grown(f[n - 1], chunk, n)]

LEMMA CuttingExists ==
  ASSUME NEW chunk \in Seq(Nat)
  PROVE  \E f : Cutting(f, chunk, Len(chunk))
<1> DEFINE Fails == {m \in Nat : ~ \E f : Cutting(f, chunk, m)}
<1>0. Len(chunk) \in Nat
  OBVIOUS
<1>a. SUFFICES ASSUME Fails # {} PROVE FALSE
  BY <1>0
<1>1. PICK m \in Fails : \A n \in Fails : m <= n
  BY <1>a, LeastExists
<1>2. Cutting([n \in 0..0 |-> <<>>], chunk, 0)
  BY DEF Cutting
<1>3. m # 0 /\ m - 1 \in Nat /\ m - 1 \notin Fails
  BY <1>1, <1>2
<1>4. PICK g : Cutting(g, chunk, m - 1)
  BY <1>3
<1> DEFINE f == [n \in 0..m |-> IF n < m THEN g[n] ELSE Grown(g[n - 1], chunk, n)]
<1>5. Cutting(f, chunk, m)
  <2>1. ASSUME NEW n \in 0..m, n < m
        PROVE  f[n] = IF n = 0 THEN <<>> ELSE Grown(f[n - 1], chunk, n)
    <3>1. n \in 0..(m - 1) /\ f[n] = g[n] /\ (n # 0 => f[n - 1] = g[n - 1])
      BY <1>3, <2>1
    <3>2. g[n] = IF n = 0 THEN <<>> ELSE Grown(g[n - 1], chunk, n)
      BY <1>4, <3>1 DEF Cutting
    <3> QED
      BY <3>1, <3>2
  <2>2. f[m] = Grown(f[m - 1], chunk, m)
    BY <1>3
  <2>3. f = [n \in 0..m |-> f[n]]
    OBVIOUS
  <2> HIDE DEF f
  <2>4. \A n \in 0..m : f[n] = IF n = 0 THEN <<>> ELSE Grown(f[n - 1], chunk, n)
    BY <1>3, <2>1, <2>2
  <2> QED
    BY <2>3, <2>4 DEF Cutting
<1> QED
  BY <1>1, <1>5

Filled(pieces) == \A i \in 1..Len(pieces) : pieces[i] # <<>>

LEMMA FilledAppend ==
  ASSUME NEW pieces \in Seq(Seq(Nat)), Filled(pieces), NEW row \in Nat
  PROVE  Filled(Append(pieces, <<row>>))
<1> DEFINE more == Append(pieces, <<row>>)
<1>1. <<row>> \in Seq(Nat) /\ <<row>> # <<>>
  OBVIOUS
<1>2. /\ more \in Seq(Seq(Nat)) /\ Len(more) = Len(pieces) + 1
      /\ more[Len(pieces) + 1] = <<row>>
      /\ \A i \in 1..Len(pieces) : more[i] = pieces[i]
  BY <1>1, AppendProperties
<1> HIDE DEF more
<1>3. ASSUME NEW i \in 1..Len(more) PROVE more[i] # <<>>
  <2>1. i = Len(pieces) + 1 \/ i \in 1..Len(pieces)
    BY <1>2
  <2> QED
    BY <1>1, <1>2, <2>1 DEF Filled
<1>4. Filled(more)
  BY <1>3 DEF Filled
<1> QED
  BY <1>4 DEF more

LEMMA FilledLonger ==
  ASSUME NEW pieces \in Seq(Seq(Nat)), Filled(pieces), pieces # <<>>, NEW row \in Nat
  PROVE  Filled([pieces EXCEPT ![Len(pieces)] = Append(@, row)])
<1> DEFINE n == Len(pieces)
           more == [pieces EXCEPT ![n] = Append(pieces[n], row)]
<1>1. n \in 1..n /\ pieces[n] \in Seq(Nat)
  OBVIOUS
<1>2. /\ Append(pieces[n], row) \in Seq(Nat) /\ Len(Append(pieces[n], row)) = Len(pieces[n]) + 1
      /\ Len(pieces[n]) \in Nat
  BY <1>1, AppendProperties
<1>3. Append(pieces[n], row) # <<>>
  <2> DEFINE longer == Append(pieces[n], row)
             k == Len(pieces[n])
  <2>1. Len(longer) = k + 1 /\ k \in Nat
    BY <1>2
  <2>2. Len(<<>>) = 0
    OBVIOUS
  <2> HIDE DEF longer, k
  <2>3. longer # <<>>
    BY <2>1, <2>2
  <2> QED
    BY <2>3 DEF longer
<1>4. Len(more) = n /\ more[n] = Append(pieces[n], row)
      /\ \A i \in 1..n : i # n => more[i] = pieces[i]
  BY <1>1, <1>2, ExceptSeq
<1>5. more = [pieces EXCEPT ![Len(pieces)] = Append(@, row)]
  OBVIOUS
<1> HIDE DEF more
<1>6. ASSUME NEW i \in 1..Len(more) PROVE more[i] # <<>>
  BY <1>3, <1>4, <1>6 DEF Filled
<1>7. Filled(more)
  BY <1>6 DEF Filled
<1> QED
  BY <1>5, <1>7

LEMMA PiecesHold ==
  ASSUME NEW a \in Nat, NEW b \in Nat, a <= b
  PROVE  Hold(Pieces(Rows(a, b)), a, b) /\ Filled(Pieces(Rows(a, b)))
<1> DEFINE chunk == Rows(a, b)
           f == CHOOSE g : Cutting(g, chunk, Len(chunk))
<1>1. /\ chunk \in Seq(Nat) /\ Len(chunk) = b - a /\ b - a \in Nat
      /\ \A i \in 1..(b - a) : chunk[i] = a + i
  <2>1. b - a \in Nat
    OBVIOUS
  <2>2. /\ Rows(a, b) \in Seq(Nat) /\ Len(Rows(a, b)) = b - a
        /\ \A i \in 1..(b - a) : Rows(a, b)[i] = a + i
    BY RowsAre
  <2> QED
    BY <2>1, <2>2
<1> HIDE DEF chunk
<1>2. Pieces(chunk) = f[Len(chunk)]
  BY DEF Pieces, Cutting, Grown
<1>3. Cutting(f, chunk, b - a)
  BY <1>1, CuttingExists
<1> HIDE DEF f
<1>4. f[0] = <<>> /\ \A n \in 1..(b - a) : f[n] = Grown(f[n - 1], chunk, n)
  BY <1>1, <1>3 DEF Cutting
<1> DEFINE Right(n) == Hold(f[n], a, a + n) /\ Filled(f[n])
           Fails == {n \in 0..(b - a) : ~Right(n)}
<1>5. Fails = {}
  <2> SUFFICES ASSUME Fails # {} PROVE FALSE
    OBVIOUS
  <2>1. PICK m \in Fails : \A n \in Fails : m <= n
    <3>1. Fails \in SUBSET Nat
      OBVIOUS
    <3> HIDE DEF Fails
    <3> QED
      BY <3>1, LeastExists
  <2>2. Right(0)
    BY <1>4, HoldNone DEF Filled
  <2>3. m \in 1..(b - a) /\ m - 1 \in 0..(b - a) /\ ~Right(m)
    <3> HIDE DEF Right
    <3> QED
      BY <1>1, <2>1, <2>2
  <2>4. Right(m - 1)
    <3> HIDE DEF Right
    <3>1. ~(m <= m - 1)
      BY <2>3
    <3> QED
      BY <2>1, <2>3, <3>1
  <2> DEFINE pieces == f[m - 1]
             x == a + (m - 1)
  <2>5. /\ Hold(pieces, a, x) /\ Filled(pieces) /\ x \in Nat /\ x + 1 = a + m
        /\ chunk[m] = x + 1 /\ f[m] = Grown(pieces, chunk, m) /\ pieces \in Seq(Seq(Nat))
        /\ (m # 1 => pieces # <<>>)
    <3>1. Hold(pieces, a, x) /\ Filled(pieces) /\ x \in Nat /\ x + 1 = a + m
          /\ chunk[m] = x + 1 /\ f[m] = Grown(pieces, chunk, m)
      BY <1>1, <1>4, <2>3, <2>4
    <3>2. m # 1 => a # x
      BY <2>3
    <3> HIDE DEF pieces, x
    <3> QED
      BY <3>1, <3>2, HoldRange
  <2> HIDE DEF pieces, x
  <2>6. <<x + 1>> = Rows(x, x + 1) /\ <<x + 1>> # <<>>
    <3>1. <<x + 1>> = Rows(x, x + 1)
      BY <2>5, RowsNone
    <3> QED
      BY <3>1
  <2>7. CASE f[m] = Append(pieces, <<x + 1>>)
    <3>1. Hold(Append(pieces, Rows(x, x + 1)), a, x + 1)
      <4>1. x + 1 \in Nat /\ x <= x + 1
        BY <2>5
      <4> QED
        BY <2>5, <4>1, HoldAppend
    <3>2. Filled(Append(pieces, <<x + 1>>))
      BY <2>5, FilledAppend
    <3> QED
      BY <2>3, <2>5, <2>6, <2>7, <3>1, <3>2
  <2>8. CASE m # 1 /\ f[m] = [pieces EXCEPT ![Len(pieces)] = Append(@, x + 1)]
    <3>1. Hold([pieces EXCEPT ![Len(pieces)] = Append(@, x + 1)], a, x + 1)
      BY <2>5, <2>8, HoldLonger
    <3>2. Filled([pieces EXCEPT ![Len(pieces)] = Append(@, x + 1)])
      <4>1. x + 1 \in Nat
        BY <2>5
      <4> QED
        BY <2>5, <2>8, <4>1, FilledLonger
    <3> QED
      BY <2>3, <2>5, <2>8, <3>1, <3>2
  <2> QED
    BY <2>5, <2>7, <2>8 DEF Grown
<1>6. Right(b - a)
  <2> HIDE DEF Right
  <2> QED
    BY <1>1, <1>5
<1>7. a + (b - a) = b
  OBVIOUS
<1> QED
  BY <1>1, <1>2, <1>6, <1>7 DEF chunk

-----------------------------------------------------------------------------
(* The stream.  Every row the driver has counted is in one place, in order: *)
(* with the engine, in the channel, in the chunk being sent or in the       *)
(* buffer.                                                                  *)

StreamShape ==
  /\ setting \in Settings /\ sizes \in Sizes
  /\ cursor \in 0..Len(sizes) /\ counted \in 0..cursor
  /\ Len(channel) <= Capacity
  /\ reason \in Reason \cup {"none"}
  /\ refused \in BOOLEAN /\ cutShort \in BOOLEAN /\ driverCut \in BOOLEAN
  /\ engineCut \in BOOLEAN /\ failed \in BOOLEAN
  /\ step \in {"top", "row", "send", "flush", "ended"}
  /\ outcome \in {"none", "ok", "result", "database"}
  /\ terminal \in {"none", "done", "result", "database"}

\* d rows are taken by the engine, o are sent, p have left the buffer.
RowsInOrder ==
  \E d, o, p \in Nat :
    /\ Hold(channel, d, o) /\ o <= p /\ p <= counted
    /\ outgoing = Rows(o, p) /\ buffer = Rows(p, counted)
    /\ delivered = Rows(0, Len(delivered)) /\ Len(delivered) \in 0..d
    /\ ~failed /\ ~engineCut => Len(delivered) = d
    /\ engineCut => Len(delivered) < d

LimitsAreKept ==
  /\ counted <= DriverLimit
  /\ Len(delivered) <= setting.rowsLeft
  /\ Bytes(delivered) <= setting.bytesLeft

\* Who stops the stream has left something out.
ReasonsAreTrue ==
  /\ reason = "none" => counted = cursor
  /\ reason # "none" => driverCut \/ engineCut \/ failed \/ refused
  /\ driverCut => counted < cursor
  /\ cutShort => setting.driver = "postgres" /\ ~setting.manual /\ reason # "none"

Untouchable == ~setting.readonly /\ (setting.driver = "postgres" => setting.manual)
StepsAreTrue ==
  /\ step # "send" => outgoing = <<>>
  /\ step = "ended" <=> outcome # "none"
  /\ step = "flush" \/ outcome \in {"ok", "result"} =>
       /\ cursor = Len(sizes) \/ reason # "none"
       /\ Untouchable => cursor = Len(sizes) \/ (step = "flush" /\ setting.driver = "mysql")
  /\ outcome \in {"ok", "result"} => buffer = <<>>
  /\ outcome = "ok" => ~refused
  /\ terminal # "none" =>
       /\ step = "ended" /\ channel = <<>>
       /\ terminal = IF outcome # "ok" THEN outcome ELSE IF failed THEN "result" ELSE "done"

StreamInv == StreamShape /\ RowsInOrder /\ LimitsAreKept /\ ReasonsAreTrue /\ StepsAreTrue

LEMMA SizesAre ==
  ASSUME NEW s \in Sizes
  PROVE  /\ s \in Seq(Nat) /\ Len(s) \in Nat /\ Len(s) <= MaxRows
         /\ \A i \in 1..Len(s) : s[i] \in 1..(DriverBytes + 1)
<1>1. PICK n \in 0..MaxRows : s \in [1..n -> 1..(DriverBytes + 1)]
  BY DEF Sizes
<1>2. n \in Nat /\ DriverBytes \in Nat
  BY StreamAssumption
<1>3. s \in Seq(1..(DriverBytes + 1)) /\ Len(s) = n
  BY <1>1, <1>2
<1> QED
  BY <1>1, <1>2, <1>3, StreamAssumption

\* The bytes of what has been delivered do not change by themselves.
LEMMA BytesStay ==
  ASSUME sizes' = sizes, NEW x, delivered' = x
  PROVE  Bytes(delivered)' = Bytes(x)
BY DEF Bytes

LEMMA RowsAreRows ==
  ASSUME NEW a \in Nat, NEW b \in Nat, a <= b, b <= Len(sizes), Len(sizes) \in Nat
  PROVE  Rows(a, b) \in Seq(Row)
<1>1. /\ Rows(a, b) \in Seq(Nat) /\ Len(Rows(a, b)) = b - a
      /\ \A i \in 1..(b - a) : Rows(a, b)[i] = a + i
  BY RowsAre
<1> DEFINE u == Rows(a, b)
<1> HIDE DEF u
<1>2. \A i \in 1..Len(u) : u[i] \in Row
  BY <1>1 DEF Row, u
<1>3. u \in Seq(Row)
  BY <1>1, <1>2 DEF u
<1> QED
  BY <1>3 DEF u

LEMMA SettingFields ==
  ASSUME setting \in Settings
  PROVE  /\ setting.driver \in Driver /\ setting.manual \in BOOLEAN
         /\ setting.readonly \in BOOLEAN /\ setting.batch \in BOOLEAN
         /\ setting.rowsLeft \in Nat /\ setting.bytesLeft \in Nat
         /\ DriverLimit \in Nat /\ DriverLimit > 0
         /\ ~setting.batch => DriverLimit = setting.rowsLeft
         /\ setting.driver # "postgres" => setting.manual
         /\ setting.driver # "sqlite" => ~setting.readonly
BY StreamAssumption DEF Settings, DriverLimit

LEMMA StreamInvInit == StreamInit => StreamInv
<1> SUFFICES ASSUME StreamInit PROVE StreamInv
  OBVIOUS
<1>1. Len(sizes) \in Nat
  BY SizesAre DEF StreamInit
<1>2. StreamShape
  <2>1. 0 \in 0..Len(sizes) /\ 0 \in 0..0 /\ Len(<<>>) = 0 /\ 0 <= Capacity
    BY <1>1, StreamAssumption
  <2> QED
    BY <2>1 DEF StreamInit, StreamShape
<1>3. RowsInOrder
  <2>1. Rows(0, 0) = <<>> /\ Hold(<<>>, 0, 0)
    BY RowsNone, HoldNone
  <2>2. Len(<<>>) = 0
    OBVIOUS
  <2> QED
    BY <2>1, <2>2 DEF StreamInit, RowsInOrder
<1>4. LimitsAreKept
  BY BytesOfNone, SettingFields DEF StreamInit, LimitsAreKept
<1>5. ReasonsAreTrue /\ StepsAreTrue
  BY DEF StreamInit, ReasonsAreTrue, StepsAreTrue
<1> QED
  BY <1>2, <1>3, <1>4, <1>5 DEF StreamInv

\* What the parts of the invariant are about.
LEMMA DriverLeavesEngine ==
  ASSUME StreamInv, DriverStep
  PROVE  /\ UNCHANGED <<setting, sizes, engineVars>>
         /\ DriverLimit' = DriverLimit /\ Bytes(delivered)' = Bytes(delivered)
         /\ terminal = "none"
<1>1. UNCHANGED <<setting, sizes, engineVars>> /\ step # "ended"
  BY DEF DriverStep, CancelOnServer, AwaitRow, Awaken, DropRow, RefuseRow, KeepRow, SendChunk,
         RowsEnd, StatementErrs, FlushRows, NextRow, engineVars
<1>2. DriverLimit' = DriverLimit /\ Bytes(delivered)' = Bytes(delivered)
  BY <1>1 DEF DriverLimit, Bytes, engineVars
<1> QED
  BY <1>1, <1>2 DEF StreamInv, StepsAreTrue

LEMMA MovingKeeps ==
  StreamInv /\ (\/ CancelOnServer \/ AwaitRow \/ Awaken \/ DropRow \/ RefuseRow \/ RowsEnd
                \/ StatementErrs) => StreamInv'
<1> SUFFICES ASSUME StreamInv, \/ CancelOnServer \/ AwaitRow \/ Awaken \/ DropRow \/ RefuseRow
                               \/ RowsEnd \/ StatementErrs
             PROVE  StreamInv'
  OBVIOUS
<1> USE DEF CancelOnServer, AwaitRow, Awaken, DropRow, RefuseRow, RowsEnd, StatementErrs
<1>1. /\ UNCHANGED <<setting, sizes, engineVars>> /\ DriverLimit' = DriverLimit
      /\ Bytes(delivered)' = Bytes(delivered) /\ terminal = "none"
  BY DriverLeavesEngine DEF DriverStep
<1>2. UNCHANGED <<counted, buffer, outgoing, channel>>
  OBVIOUS
<1>3. /\ Len(sizes) \in Nat /\ setting.driver \in Driver /\ setting.manual \in BOOLEAN
      /\ setting.readonly \in BOOLEAN /\ DriverLimit \in Nat
  BY SizesAre, SettingFields DEF StreamInv, StreamShape
<1>10. \/ UNCHANGED <<cursor, refused, driverCut, reason>>
       \/ /\ cursor < Len(sizes) /\ cursor' = cursor + 1 /\ step = "row"
          /\ step' = AfterStop /\ UNCHANGED <<cutShort, outcome>>
          /\ reason' \in Reason \cup {"none"} /\ reason' # "none"
          /\ reason # "none" => reason' = reason
          /\ \/ /\ UNCHANGED refused
                /\ \/ counted >= DriverLimit /\ driverCut' = TRUE
                   \/ UNCHANGED <<reason, driverCut>>
             \/ refused' = TRUE /\ UNCHANGED driverCut
  <2>1. CASE DropRow
    <3>1. counted >= DriverLimit => driverCut' = TRUE
      BY <2>1, Zenon
    <3>2. ~(counted >= DriverLimit) => driverCut' = driverCut
      <4>1. driverCut \in BOOLEAN
        BY DEF StreamInv, StreamShape
      <4> QED
        BY <2>1, <4>1, Zenon
    <3>3. reason \in Reason \cup {"none"}
      BY DEF StreamInv, StreamShape
    <3> QED
      BY <2>1, <3>1, <3>2, <3>3 DEF NextRow, Stop, Reason
  <2>2. CASE RefuseRow
    BY <2>2 DEF NextRow, Reason
  <2> QED
    BY <2>1, <2>2
<1>11. AfterStop \in {"top", "flush"}
  BY DEF AfterStop
<1>12. /\ cursor \in Nat /\ counted \in 0..cursor /\ cursor <= Len(sizes)
       /\ refused \in BOOLEAN /\ driverCut \in BOOLEAN
  BY <1>3 DEF StreamInv, StreamShape
<1>13. cutShort' # cutShort => cutShort' = TRUE /\ MustCancel /\ UNCHANGED reason
  OBVIOUS
<1>14. /\ cutShort' \in BOOLEAN /\ step' \in {"top", "row", "flush", "ended"}
       /\ outcome' = outcome \/ outcome' = "database"
  BY <1>11 DEF StreamInv, StreamShape
<1>15. \/ cursor' = cursor /\ driverCut' = driverCut
       \/ /\ cursor < Len(sizes) /\ cursor' = cursor + 1
          /\ driverCut' = TRUE \/ driverCut' = driverCut
  BY <1>10
<1>16. driverCut' => driverCut \/ cursor' = cursor + 1
  BY <1>10
<1>4. StreamShape'
  <2>1. /\ cursor' \in 0..Len(sizes) /\ counted \in 0..cursor' /\ refused' \in BOOLEAN
        /\ driverCut' \in BOOLEAN
    <3>1. cursor' \in 0..Len(sizes) /\ counted \in 0..cursor'
      BY <1>3, <1>12, <1>15
    <3>2. refused' \in BOOLEAN
      BY <1>10, <1>12, Zenon
    <3>3. driverCut' \in BOOLEAN
      BY <1>12, <1>15, Zenon
    <3> QED
      BY <3>1, <3>2, <3>3
  <2>2. reason' \in Reason \cup {"none"}
    BY <1>10 DEF StreamInv, StreamShape
  <2> QED
    BY <1>1, <1>2, <1>14, <2>1, <2>2 DEF StreamInv, StreamShape, engineVars
<1>5. RowsInOrder'
  BY <1>1, <1>2 DEF StreamInv, RowsInOrder, engineVars
<1>6. LimitsAreKept'
  BY <1>1, <1>2 DEF StreamInv, LimitsAreKept, engineVars
<1>7. ReasonsAreTrue'
  <2>1. reason' = "none" => counted' = cursor'
    BY <1>2, <1>10 DEF StreamInv, ReasonsAreTrue
  <2>2. driverCut' => counted' < cursor'
    <3>1. driverCut => counted < cursor
      BY DEF StreamInv, ReasonsAreTrue
    <3>2. counted \in Nat /\ counted <= cursor /\ cursor \in Nat
      BY <1>12
    <3>3. cursor' = cursor \/ cursor' = cursor + 1
      BY <1>15
    <3> QED
      BY <1>2, <1>16, <3>1, <3>2, <3>3
  <2>3. reason' # "none" => driverCut' \/ engineCut' \/ failed' \/ refused'
    BY <1>1, <1>10 DEF StreamInv, ReasonsAreTrue, engineVars
  <2>4. cutShort' => setting.driver = "postgres" /\ ~setting.manual /\ reason' # "none"
    BY <1>10, <1>13 DEF StreamInv, ReasonsAreTrue, MustCancel
  <2> QED
    BY <1>1, <2>1, <2>2, <2>3, <2>4 DEF ReasonsAreTrue
<1>8. StepsAreTrue'
  BY <1>1, <1>2, <1>3
     DEF StreamInv, StreamShape, StepsAreTrue, ReasonsAreTrue, Untouchable, NextRow, Stop,
         AfterStop, LeavesLoop, engineVars, MustCancel
<1> QED
  BY <1>4, <1>5, <1>6, <1>7, <1>8 DEF StreamInv

LEMMA KeepingKeeps == StreamInv /\ KeepRow => StreamInv'
<1> SUFFICES ASSUME StreamInv, KeepRow PROVE StreamInv'
  OBVIOUS
<1>1. /\ UNCHANGED <<setting, sizes, engineVars>> /\ DriverLimit' = DriverLimit
      /\ Bytes(delivered)' = Bytes(delivered) /\ terminal = "none"
  BY DriverLeavesEngine DEF DriverStep
<1>2. /\ Len(sizes) \in Nat /\ DriverLimit \in Nat
  BY SizesAre, SettingFields DEF StreamInv, StreamShape
<1>3. /\ step = "row" /\ cursor < Len(sizes) /\ cursor' = cursor + 1 /\ counted' = counted + 1
      /\ counted < DriverLimit /\ reason = "none"
      /\ UNCHANGED <<channel, refused, cutShort, outcome, driverCut, reason>>
      /\ step' \in {"send", "top"} /\ (step' = "top" => outgoing' = <<>>)
  BY DEF KeepRow, NextRow
<1>4. counted = cursor /\ outgoing = <<>> /\ cursor \in Nat
  BY <1>2, <1>3 DEF StreamInv, StreamShape, ReasonsAreTrue, StepsAreTrue
<1>5. \/ buffer' = <<cursor'>> /\ outgoing' = buffer
      \/ buffer' = Append(buffer, cursor') /\ outgoing' = <<>>
  BY DEF KeepRow
<1>6. StreamShape'
  BY <1>1, <1>2, <1>3, <1>4 DEF StreamInv, StreamShape, engineVars
<1>7. RowsInOrder'
  <2>1. PICK d \in Nat, o \in Nat, p \in Nat :
          /\ Hold(channel, d, o) /\ o <= p /\ p <= counted
          /\ outgoing = Rows(o, p) /\ buffer = Rows(p, counted)
          /\ delivered = Rows(0, Len(delivered)) /\ Len(delivered) \in 0..d
          /\ ~failed /\ ~engineCut => Len(delivered) = d
          /\ engineCut => Len(delivered) < d
    BY DEF StreamInv, RowsInOrder
  <2>2. o = p /\ cursor' = counted' /\ counted' \in Nat /\ counted \in Nat
    <3>1. Rows(o, p) = <<>> <=> o = p
      BY <2>1, RowsAre
    <3> QED
      BY <1>3, <1>4, <2>1, <3>1
  <2>3. CASE buffer' = <<cursor'>> /\ outgoing' = buffer
    <3>1. <<cursor'>> = Rows(counted, counted')
      <4>1. Rows(counted, counted + 1) = <<counted + 1>>
        BY <2>2, RowsNone
      <4> QED
        BY <1>3, <2>2, <4>1
    <3>2. counted <= counted' /\ o <= counted /\ Rows(p, counted) = Rows(o, counted)
      BY <1>3, <2>1, <2>2
    <3>3. \E d1, o1, p1 \in Nat :
            /\ Hold(channel, d1, o1) /\ o1 <= p1 /\ p1 <= counted'
            /\ outgoing' = Rows(o1, p1) /\ buffer' = Rows(p1, counted')
            /\ delivered = Rows(0, Len(delivered)) /\ Len(delivered) \in 0..d1
            /\ ~failed /\ ~engineCut => Len(delivered) = d1
            /\ engineCut => Len(delivered) < d1
      <4> counted \in Nat
        BY <2>2
      <4> WITNESS d \in Nat, o \in Nat, counted \in Nat
      <4> QED
        BY <2>1, <2>3, <3>1, <3>2
    <3> QED
      BY <1>1, <1>3, <3>3 DEF RowsInOrder, engineVars
  <2>4. CASE buffer' = Append(buffer, cursor') /\ outgoing' = <<>>
    <3>1. Append(buffer, cursor') = Rows(p, counted')
      <4>1. Append(Rows(p, counted), counted + 1) = Rows(p, counted + 1)
        BY <2>1, <2>2, RowsAre
      <4> QED
        BY <1>3, <2>1, <2>2, <4>1
    <3>2. Rows(p, p) = <<>> /\ p <= counted'
      BY <1>3, <2>1, <2>2, RowsNone
    <3>3. \E d1, o1, p1 \in Nat :
            /\ Hold(channel, d1, o1) /\ o1 <= p1 /\ p1 <= counted'
            /\ outgoing' = Rows(o1, p1) /\ buffer' = Rows(p1, counted')
            /\ delivered = Rows(0, Len(delivered)) /\ Len(delivered) \in 0..d1
            /\ ~failed /\ ~engineCut => Len(delivered) = d1
            /\ engineCut => Len(delivered) < d1
      <4> WITNESS d \in Nat, o \in Nat, p \in Nat
      <4> QED
        BY <2>1, <2>2, <2>4, <3>1, <3>2
    <3> QED
      BY <1>1, <1>3, <3>3 DEF RowsInOrder, engineVars
  <2> QED
    BY <1>5, <2>3, <2>4
<1>8. LimitsAreKept'
  BY <1>1, <1>2, <1>3, <1>4 DEF StreamInv, LimitsAreKept, engineVars
<1>9. ReasonsAreTrue'
  BY <1>1, <1>3, <1>4 DEF StreamInv, ReasonsAreTrue, engineVars
<1>10. StepsAreTrue'
  BY <1>1, <1>3, <1>4 DEF StreamInv, StepsAreTrue, engineVars
<1> QED
  BY <1>6, <1>7, <1>8, <1>9, <1>10 DEF StreamInv

\* Rows go from the driver into the channel in order.
LEMMA SendingChunkKeeps == StreamInv /\ (SendChunk \/ FlushRows) => StreamInv'
<1> SUFFICES ASSUME StreamInv, SendChunk \/ FlushRows PROVE StreamInv'
  OBVIOUS
<1>1. /\ UNCHANGED <<setting, sizes, engineVars>> /\ DriverLimit' = DriverLimit
      /\ Bytes(delivered)' = Bytes(delivered) /\ terminal = "none"
  BY DriverLeavesEngine DEF DriverStep
<1>2. /\ Len(sizes) \in Nat /\ DriverLimit \in Nat /\ setting.driver \in Driver
      /\ setting.manual \in BOOLEAN /\ setting.readonly \in BOOLEAN
  BY SizesAre, SettingFields DEF StreamInv, StreamShape
<1>3. UNCHANGED <<counted, refused, cutShort, driverCut, reason>>
  BY DEF SendChunk, FlushRows
<1>4. PICK d \in Nat, o \in Nat, p \in Nat :
        /\ Hold(channel, d, o) /\ o <= p /\ p <= counted
        /\ outgoing = Rows(o, p) /\ buffer = Rows(p, counted)
        /\ delivered = Rows(0, Len(delivered)) /\ Len(delivered) \in 0..d
        /\ ~failed /\ ~engineCut => Len(delivered) = d
        /\ engineCut => Len(delivered) < d
  BY DEF StreamInv, RowsInOrder
<1>5. counted \in Nat /\ Rows(p, p) = <<>> /\ Rows(counted, counted) = <<>>
      /\ channel \in Seq(Seq(Nat)) /\ Len(channel) \in Nat /\ outgoing \in Seq(Nat) /\ buffer \in Seq(Nat)
  <2>1. counted \in Nat
    BY <1>2 DEF StreamInv, StreamShape
  <2>2. channel \in Seq(Seq(Nat))
    BY <1>4, HoldRange
  <2>3. Rows(p, p) = <<>> /\ Rows(counted, counted) = <<>>
    BY <2>1, RowsNone
  <2>4. outgoing \in Seq(Nat)
    BY <1>4, RowsAre
  <2>5. buffer \in Seq(Nat)
    BY <1>4, <2>1, RowsAre
  <2> QED
    BY <2>1, <2>2, <2>3, <2>4, <2>5
<1>6. CASE SendChunk
  <2>1. /\ step = "send" /\ Len(channel) < Capacity /\ channel' = Append(channel, outgoing)
        /\ outgoing' = <<>> /\ step' = "top" /\ UNCHANGED <<cursor, buffer, outcome>>
    BY <1>6 DEF SendChunk
  <2>2. StreamShape'
    <3>1. Len(channel') = Len(channel) + 1
      BY <1>5, <2>1, AppendProperties
    <3>2. Len(channel') <= Capacity
      BY <1>5, <2>1, <3>1, StreamAssumption
    <3> QED
      BY <1>1, <1>3, <2>1, <3>2 DEF StreamInv, StreamShape, engineVars
  <2>3. RowsInOrder'
    <3>1. Hold(channel', d, p)
      BY <1>4, <2>1, HoldAppend
    <3>9. \E d1, o1, p1 \in Nat :
            /\ Hold(channel', d1, o1) /\ o1 <= p1 /\ p1 <= counted'
            /\ outgoing' = Rows(o1, p1) /\ buffer' = Rows(p1, counted')
            /\ delivered = Rows(0, Len(delivered)) /\ Len(delivered) \in 0..d1
            /\ ~failed /\ ~engineCut => Len(delivered) = d1
            /\ engineCut => Len(delivered) < d1
      <4> WITNESS d \in Nat, p \in Nat, p \in Nat
      <4> QED
        BY <1>3, <1>4, <1>5, <2>1, <3>1
    <3> QED
      BY <1>1, <3>9 DEF RowsInOrder, engineVars
  <2>4. LimitsAreKept' /\ ReasonsAreTrue'
    BY <1>1, <1>3, <2>1 DEF StreamInv, LimitsAreKept, ReasonsAreTrue, engineVars
  <2>5. StepsAreTrue'
    BY <1>1, <1>3, <2>1 DEF StreamInv, StepsAreTrue, engineVars
  <2> QED
    BY <2>2, <2>3, <2>4, <2>5 DEF StreamInv
<1>7. CASE FlushRows
  <2>1. /\ step = "flush" /\ step' = "ended" /\ buffer' = <<>> /\ outgoing' = outgoing
        /\ cursor' = IF setting.driver = "mysql" THEN Len(sizes) ELSE cursor
        /\ outcome' = IF refused THEN "result" ELSE "ok"
        /\ outgoing = <<>>
    BY <1>7 DEF FlushRows, StreamInv, StepsAreTrue
  <2>2. \/ channel' = channel /\ buffer = <<>>
        \/ channel' = Append(channel, buffer) /\ Len(channel) < Capacity
    BY <1>7 DEF FlushRows
  <2>3. cursor' \in 0..Len(sizes) /\ counted <= cursor' /\ cursor <= cursor'
        /\ cursor \in Nat
    BY <1>2, <2>1 DEF StreamInv, StreamShape
  <2>4. StreamShape'
    <3>1. Len(channel') <= Capacity
      <4>1. CASE channel' = channel
        BY <4>1 DEF StreamInv, StreamShape
      <4>2. CASE channel' = Append(channel, buffer) /\ Len(channel) < Capacity
        <5>1. Len(channel') = Len(channel) + 1
          BY <1>5, <4>2, AppendProperties
        <5> QED
          BY <1>5, <4>2, <5>1, StreamAssumption
      <4> QED
        BY <2>2, <4>1, <4>2
    <3>2. counted \in 0..cursor'
      BY <1>5, <2>3
    <3> QED
      BY <1>1, <1>3, <2>1, <2>3, <3>1, <3>2 DEF StreamInv, StreamShape, engineVars
  <2>5. RowsInOrder'
    <3>1. o = p
      BY <1>4, <2>1, RowsEmpty
    <3>2. Hold(channel', d, counted)
      <4>1. CASE channel' = channel /\ buffer = <<>>
        <5>1. p = counted
          BY <1>4, <1>5, <4>1, RowsEmpty
        <5> QED
          BY <1>4, <3>1, <4>1, <5>1
      <4>2. CASE channel' = Append(channel, buffer)
        BY <1>4, <1>5, <3>1, <4>2, HoldAppend
      <4> QED
        BY <2>2, <4>1, <4>2
    <3>9. \E d1, o1, p1 \in Nat :
            /\ Hold(channel', d1, o1) /\ o1 <= p1 /\ p1 <= counted'
            /\ outgoing' = Rows(o1, p1) /\ buffer' = Rows(p1, counted')
            /\ delivered = Rows(0, Len(delivered)) /\ Len(delivered) \in 0..d1
            /\ ~failed /\ ~engineCut => Len(delivered) = d1
            /\ engineCut => Len(delivered) < d1
      <4> counted \in Nat
        BY <1>5
      <4> WITNESS d \in Nat, counted \in Nat, counted \in Nat
      <4> QED
        BY <1>3, <1>4, <1>5, <2>1, <3>1, <3>2
    <3> QED
      BY <1>1, <3>9 DEF RowsInOrder, engineVars
  <2>6. LimitsAreKept'
    BY <1>1, <1>3 DEF StreamInv, LimitsAreKept, engineVars
  <2>7. ReasonsAreTrue'
    BY <1>1, <1>2, <1>3, <1>5, <2>1, <2>3
       DEF StreamInv, ReasonsAreTrue, StepsAreTrue, engineVars
  <2>8. StepsAreTrue'
    BY <1>1, <1>2, <1>3, <2>1 DEF StreamInv, StepsAreTrue, ReasonsAreTrue, Untouchable, engineVars
  <2> QED
    BY <2>4, <2>5, <2>6, <2>7, <2>8 DEF StreamInv
<1> QED
  BY <1>6, <1>7

LEMMA AnsweringKeeps == StreamInv /\ AnswerStream => StreamInv'
<1> SUFFICES ASSUME StreamInv, AnswerStream PROVE StreamInv'
  OBVIOUS
<1> USE DEF AnswerStream, driverVars, StreamInv
<1>1. DriverLimit' = DriverLimit /\ Bytes(delivered)' = Bytes(delivered)
  BY DEF DriverLimit, Bytes
<1>2. StreamShape'
  BY DEF StreamShape, StepsAreTrue
<1>3. RowsInOrder'
  BY DEF RowsInOrder
<1>4. LimitsAreKept' /\ ReasonsAreTrue'
  BY <1>1 DEF LimitsAreKept, ReasonsAreTrue
<1>5. StepsAreTrue'
  BY DEF StepsAreTrue, Untouchable
<1> QED
  BY <1>2, <1>3, <1>4, <1>5

-----------------------------------------------------------------------------
(* The engine.  From the rows up to d it goes on with those up to c, and     *)
(* stops for good when it leaves some of them out.                          *)

Taking(d, c) ==
  /\ delivered' = Rows(0, Len(delivered')) /\ Len(delivered') \in 0..c
  /\ ~failed' /\ ~engineCut' => Len(delivered') = c
  /\ engineCut' => Len(delivered') < c
  /\ failed' \in BOOLEAN /\ engineCut' \in BOOLEAN
  /\ Len(delivered') <= setting.rowsLeft /\ Bytes(delivered)' <= setting.bytesLeft
  /\ reason' \in Reason \cup {"none"}
  /\ reason' = "none" => reason = "none"
  /\ reason' # reason => engineCut' \/ failed'

LEMMA KeepRowsTakes ==
  ASSUME StreamInv, UNCHANGED sizes, NEW d \in Nat, NEW c \in Nat, d <= c, c <= Len(sizes),
         delivered = Rows(0, d), ~failed, ~engineCut, KeepRows(Rows(d, c))
  PROVE  Taking(d, c)
<1> DEFINE chunk == Rows(d, c)
           fits(n) == /\ Len(delivered) + n <= setting.rowsLeft
                      /\ Allows(Bytes(SubSeq(chunk, 1, n)))
           n == Max({k \in 0..Len(chunk) : fits(k)})
<1>1. /\ delivered' = delivered \o SubSeq(chunk, 1, n)
      /\ engineCut' = (n < Len(chunk)) /\ failed' = failed
      /\ reason' = IF n = Len(chunk) THEN reason
                   ELSE IF Len(delivered) + n < setting.rowsLeft THEN Stop("ResultBytes")
                   ELSE Stop("MaxRows")
  BY DEF KeepRows
<1>2. /\ Len(chunk) = c - d /\ c - d \in Nat /\ Len(delivered) = d
  <2>1. c - d \in Nat /\ 0 <= d /\ d - 0 = d
    OBVIOUS
  <2>2. Len(Rows(d, c)) = c - d
    BY RowsAre
  <2>3. Len(Rows(0, d)) = d - 0
    BY <2>1, RowsAre
  <2> QED
    BY <2>1, <2>2, <2>3
<1>3. \A k \in 0..(c - d) : SubSeq(chunk, 1, k) = Rows(d, d + k)
  BY RowsFirst
<1>4. Len(sizes) \in Nat /\ sizes \in Seq(Nat) /\ setting.rowsLeft \in Nat /\ setting.bytesLeft \in Nat
  BY SizesAre, SettingFields DEF StreamInv, StreamShape
<1>5. fits(0)
  <2>1. SubSeq(chunk, 1, 0) = <<>>
    <3>1. SubSeq(chunk, 1, 0) = Rows(d, d + 0) /\ Rows(d, d) = <<>> /\ d + 0 = d
      BY <1>2, <1>3, RowsNone
    <3> QED
      BY <3>1
  <2>2. Bytes(delivered) \in Nat
    <3>1. Rows(0, d) \in Seq(Row)
      <4>1. d <= Len(sizes)
        BY <1>4
      <4> QED
        BY <1>4, <4>1, RowsAreRows
    <3> QED
      BY <1>4, <3>1, BytesAdd
  <2>3. d <= setting.rowsLeft /\ Bytes(delivered) <= setting.bytesLeft
    BY <1>2 DEF StreamInv, LimitsAreKept
  <2> HIDE DEF chunk
  <2>4. Len(delivered) + 0 <= setting.rowsLeft
    BY <1>2, <1>4, <2>3
  <2>5. Bytes(delivered) + Bytes(SubSeq(chunk, 1, 0)) <= setting.bytesLeft
    <3>1. Bytes(SubSeq(chunk, 1, 0)) = 0
      BY <2>1, BytesOfNone
    <3>2. Bytes(delivered) + 0 <= setting.bytesLeft
      BY <1>4, <2>2, <2>3
    <3> QED
      BY <3>1, <3>2
  <2> QED
    BY <2>4, <2>5 DEF Allows
<1> HIDE DEF fits
<1>6. n \in 0..(c - d) /\ fits(n)
  <2> DEFINE S == {k \in 0..Len(chunk) : fits(k)}
  <2>1. S \in SUBSET Nat /\ S # {} /\ \A k \in S : k <= c - d
    BY <1>2, <1>5
  <2>2. n = Max(S)
    OBVIOUS
  <2>3. Max(S) \in S
    <3> HIDE DEF S
    <3> QED
      BY <1>2, <2>1, MaxIsGreatest
  <2> HIDE DEF n
  <2> QED
    BY <1>2, <2>2, <2>3
<1> HIDE DEF n
<1> DEFINE e == d + n
<1>7. e \in Nat /\ d <= e /\ e <= c /\ SubSeq(chunk, 1, n) = Rows(d, e)
  BY <1>2, <1>3, <1>6
<1>8. delivered' = Rows(0, e) /\ Len(delivered') = e
  <2>1. e \in Nat /\ d <= e /\ delivered' = Rows(0, d) \o Rows(d, e)
    BY <1>1, <1>7
  <2> HIDE DEF e
  <2> QED
    BY <2>1, RowsOnward
<1>9. Len(delivered') <= setting.rowsLeft
  BY <1>2, <1>6, <1>8 DEF fits
<1>10. Bytes(delivered)' <= setting.bytesLeft
  <2>1. Rows(0, d) \in Seq(Row) /\ Rows(d, e) \in Seq(Row)
    <3>1. d <= Len(sizes) /\ e <= Len(sizes)
      BY <1>4, <1>7
    <3> QED
      BY <1>4, <1>7, <3>1, RowsAreRows
  <2>2. Bytes(Rows(0, d) \o Rows(d, e)) = Bytes(Rows(0, d)) + Bytes(Rows(d, e))
    BY <1>4, <2>1, BytesAdd
  <2>3. Bytes(delivered)' = Bytes(delivered \o Rows(d, e))
    <3>1. delivered' = delivered \o Rows(d, e)
      BY <1>1, <1>7
    <3> QED
      BY <3>1, BytesStay
  <2>4. Bytes(delivered) + Bytes(Rows(d, e)) <= setting.bytesLeft
    BY <1>6, <1>7 DEF fits, Allows
  <2> QED
    BY <2>2, <2>3, <2>4
<1>11. n < Len(chunk) <=> e < c
  BY <1>2, <1>6
<1>12. n = Len(chunk) <=> e = c
  BY <1>2, <1>6
<1> HIDE DEF e, chunk
<1>13. e \in 0..c
  BY <1>7
<1>14. engineCut' = (e < c) /\ engineCut' \in BOOLEAN
  BY <1>1, <1>11
<1>15. failed' = FALSE /\ failed' \in BOOLEAN
  BY <1>1 DEF StreamInv, StreamShape
<1>16. /\ reason' \in Reason \cup {"none"} /\ (reason' = "none" => reason = "none")
       /\ (reason' # reason => engineCut')
  <2>1. reason \in Reason \cup {"none"}
    BY DEF StreamInv, StreamShape
  <2>2. CASE e = c
    BY <1>1, <1>12, <2>1, <2>2
  <2>3. CASE e # c
    <3>1. e < c
      BY <1>7, <2>3
    <3>2. engineCut'
      BY <1>14, <3>1, Zenon
    <3> QED
      BY <1>1, <1>12, <2>1, <2>3, <3>2 DEF Stop, Reason
  <2> QED
    BY <2>2, <2>3
<1>17. engineCut' => e < c
  BY <1>14, Zenon
<1>18. ~engineCut' => e = c
  <2>1. e < c => engineCut'
    BY <1>14, Zenon
  <2> QED
    BY <1>7, <2>1
<1> QED
  BY <1>8, <1>9, <1>10, <1>13, <1>14, <1>15, <1>16, <1>17, <1>18 DEF Taking

LEMMA PassPiecesTakes ==
  ASSUME StreamInv, UNCHANGED sizes, NEW d \in Nat, NEW c \in Nat, d <= c, c <= Len(sizes),
         c <= setting.rowsLeft,
         delivered = Rows(0, d), ~failed, ~engineCut, PassPieces(Rows(d, c))
  PROVE  Taking(d, c)
<1> DEFINE pieces == Pieces(Rows(d, c))
           bad == FirstBad(pieces)
           error == bad <= Len(pieces) /\ TooLarge(pieces[bad])
           over == bad <= Len(pieces) /\ ~error
<1>1. PICK n \in 0..(bad - 1) :
        /\ error => n = 0
        /\ delivered' = IF error THEN delivered ELSE delivered \o Joined(pieces, n)
        /\ failed' = (error \/ n < bad - 1)
        /\ engineCut' = over
        /\ reason' = IF over THEN Stop("ResultBytes")
                     ELSE IF error THEN Stop("CellOrChunkLimit")
                     ELSE IF n < bad - 1 THEN Stop("ReceiverUnavailable") ELSE reason
  BY DEF PassPieces
<1>2. Hold(pieces, d, c) /\ Filled(pieces)
  BY PiecesHold
<1> HIDE DEF pieces
<1>3. pieces \in Seq(Seq(Nat)) /\ Len(pieces) \in Nat
  BY <1>2, HoldRange
<1>4. Len(sizes) \in Nat /\ sizes \in Seq(Nat) /\ setting.rowsLeft \in Nat /\ setting.bytesLeft \in Nat
  BY SizesAre, SettingFields DEF StreamInv, StreamShape
<1>5. bad \in 1..(Len(pieces) + 1) /\ \A k \in 1..Len(pieces) : k < bad => ~NoRoom(pieces, k)
  <2> DEFINE S == {k \in 1..Len(pieces) : TooLarge(pieces[k]) \/ NoRoom(pieces, k)} \cup {Len(pieces) + 1}
  <2>1. S \in SUBSET Nat /\ S # {} /\ S \subseteq 1..(Len(pieces) + 1)
    BY <1>3
  <2>2. bad = Min(S)
    BY DEF FirstBad
  <2>3. \A k \in 1..Len(pieces) : NoRoom(pieces, k) => k \in S
    OBVIOUS
  <2> HIDE DEF S, bad
  <2>4. Min(S) \in S /\ \A k \in S : Min(S) <= k
    BY <2>1, MinIsLeast
  <2>5. bad \in 1..(Len(pieces) + 1)
    BY <2>1, <2>2, <2>4
  <2>6. ASSUME NEW k \in 1..Len(pieces), k < bad PROVE ~NoRoom(pieces, k)
    <3>1. ~(bad <= k)
      BY <1>3, <2>5, <2>6
    <3> QED
      BY <2>2, <2>3, <2>4, <3>1
  <2> QED
    BY <2>5, <2>6
<1> HIDE DEF bad
<1>6. n \in 0..Len(pieces) /\ n \in Nat /\ bad \in Nat /\ n < bad
  BY <1>3, <1>5
<1>7. PICK e \in Nat :
        /\ d <= e /\ e <= c /\ Joined(pieces, n) = Rows(d, e)
        /\ n = 0 => e = d
        /\ n = Len(pieces) => e = c
        /\ (n # Len(pieces) /\ pieces[n + 1] # <<>>) => e < c
  BY <1>2, <1>6, HoldJoined
<1>8. error \in BOOLEAN /\ over \in BOOLEAN
  OBVIOUS
<1>9. delivered' = delivered \o Rows(d, e)
  <2>1. CASE ~error
    BY <1>1, <1>7, <2>1
  <2>2. CASE error
    <3>1. e = d /\ Rows(d, d) = <<>>
      BY <1>1, <1>7, <2>2, RowsAre
    <3>2. Rows(0, d) \o Rows(d, d) = Rows(0, d)
      <4>1. d <= d
        OBVIOUS
      <4> QED
        BY <4>1, RowsOnward
    <3> QED
      BY <1>1, <2>2, <3>1, <3>2
  <2> QED
    BY <2>1, <2>2
<1>10. delivered' = Rows(0, e) /\ Len(delivered') = e
  BY <1>7, <1>9, RowsOnward
<1>11. Bytes(delivered)' <= setting.bytesLeft
  <2>1. Rows(0, d) \in Seq(Row) /\ Rows(d, e) \in Seq(Row)
    <3>1. d <= Len(sizes) /\ e <= Len(sizes) /\ 0 \in Nat /\ 0 <= d
      BY <1>4, <1>7
    <3>2. Rows(0, d) \in Seq(Row)
      BY <1>4, <3>1, RowsAreRows
    <3>3. Rows(d, e) \in Seq(Row)
      BY <1>4, <1>7, <3>1, RowsAreRows
    <3> QED
      BY <3>2, <3>3
  <2>2. Bytes(Rows(0, d) \o Rows(d, e)) = Bytes(Rows(0, d)) + Bytes(Rows(d, e))
    BY <1>4, <2>1, BytesAdd
  <2>3. Bytes(delivered)' = Bytes(delivered \o Rows(d, e))
    BY <1>9, BytesStay
  <2>4. CASE n = 0
    <3>1. delivered \o Rows(d, e) = delivered
      <4>1. Rows(0, d) \o Rows(d, d) = Rows(0, d)
        <5>1. d <= d
          OBVIOUS
        <5> QED
          BY <5>1, RowsOnward
      <4> QED
        BY <1>7, <2>4, <4>1
    <3> QED
      BY <2>3, <3>1 DEF StreamInv, LimitsAreKept
  <2>5. CASE n # 0
    <3>1. ~NoRoom(pieces, n)
      BY <1>3, <1>5, <1>6, <2>5
    <3>2. Bytes(delivered) + Bytes(Rows(d, e)) <= setting.bytesLeft
      BY <1>7, <3>1 DEF NoRoom, Allows
    <3> QED
      BY <2>2, <2>3, <3>2
  <2> QED
    BY <2>4, <2>5
<1>12. over => e < c
  <2> SUFFICES ASSUME over PROVE e < c
    OBVIOUS
  <2>1. n # Len(pieces) /\ n + 1 \in 1..Len(pieces)
    BY <1>3, <1>5, <1>6
  <2> QED
    BY <1>2, <1>7, <2>1 DEF Filled
<1>13. ~error /\ ~over /\ ~(n < bad - 1) => e = c
  <2> SUFFICES ASSUME ~error, ~over, ~(n < bad - 1) PROVE e = c
    OBVIOUS
  <2>1. ~(bad <= Len(pieces))
    OBVIOUS
  <2>2. n = Len(pieces)
    BY <1>3, <1>5, <1>6, <2>1
  <2> QED
    BY <1>7, <2>2
<1> DEFINE unsent == n < bad - 1
<1>14. unsent \in BOOLEAN
  OBVIOUS
<1>15. failed' = (error \/ unsent) /\ engineCut' = over
  BY <1>1
<1>16. /\ over => reason' = Stop("ResultBytes")
       /\ ~over /\ error => reason' = Stop("CellOrChunkLimit")
       /\ ~over /\ ~error /\ unsent => reason' = Stop("ReceiverUnavailable")
       /\ ~over /\ ~error /\ ~unsent => reason' = reason
  BY <1>1
<1>17. ~error /\ ~over /\ ~unsent => e = c
  BY <1>13
<1> HIDE DEF error, over, unsent
<1>18. reason \in Reason \cup {"none"}
  BY DEF StreamInv, StreamShape
<1>19. failed' \in BOOLEAN /\ engineCut' \in BOOLEAN
  BY <1>8, <1>14, <1>15
<1>20. ~failed' /\ ~engineCut' => e = c
  BY <1>15, <1>17
<1>21. engineCut' => e < c
  BY <1>12, <1>15
<1>22. /\ reason' \in Reason \cup {"none"} /\ (reason' = "none" => reason = "none")
       /\ (reason' # reason => engineCut' \/ failed')
  <2>1. CASE over
    BY <1>15, <1>16, <1>18, <2>1 DEF Stop, Reason
  <2>2. CASE ~over /\ error
    BY <1>15, <1>16, <1>18, <2>2 DEF Stop, Reason
  <2>3. CASE ~over /\ ~error /\ unsent
    BY <1>15, <1>16, <1>18, <2>3 DEF Stop, Reason
  <2>4. CASE ~over /\ ~error /\ ~unsent
    BY <1>16, <1>18, <2>4
  <2> QED
    BY <2>1, <2>2, <2>3, <2>4
<1>23. e \in 0..c /\ e <= setting.rowsLeft
  BY <1>4, <1>7
<1> QED
  BY <1>10, <1>11, <1>19, <1>20, <1>21, <1>22, <1>23 DEF Taking

LEMMA TakingKeeps == StreamInv /\ TakeChunk => StreamInv'
<1> SUFFICES ASSUME StreamInv, TakeChunk PROVE StreamInv'
  OBVIOUS
<1>1. /\ channel # <<>> /\ terminal = "none" /\ channel' = Tail(channel)
      /\ UNCHANGED <<setting, sizes, driverVars, terminal>>
  BY DEF TakeChunk
<1>2. PICK d \in Nat, o \in Nat, p \in Nat :
        /\ Hold(channel, d, o) /\ o <= p /\ p <= counted
        /\ outgoing = Rows(o, p) /\ buffer = Rows(p, counted)
        /\ delivered = Rows(0, Len(delivered)) /\ Len(delivered) \in 0..d
        /\ ~failed /\ ~engineCut => Len(delivered) = d
        /\ engineCut => Len(delivered) < d
  BY DEF StreamInv, RowsInOrder
<1>3. PICK c \in Nat : /\ d <= c /\ c <= o /\ Head(channel) = Rows(d, c)
                       /\ Hold(Tail(channel), c, o)
  BY <1>1, <1>2, HoldHead
<1>4. /\ Len(sizes) \in Nat /\ setting.rowsLeft \in Nat /\ DriverLimit \in Nat
      /\ (~setting.batch => DriverLimit = setting.rowsLeft)
      /\ counted \in Nat /\ counted <= Len(sizes) /\ counted <= DriverLimit
  <2>1. Len(sizes) \in Nat
    BY SizesAre DEF StreamInv, StreamShape
  <2>2. counted \in Nat /\ counted <= Len(sizes) /\ counted <= DriverLimit
    BY <2>1 DEF StreamInv, StreamShape, LimitsAreKept
  <2> QED
    BY <2>1, <2>2, SettingFields DEF StreamInv, StreamShape
<1>5. c <= Len(sizes) /\ (~setting.batch => c <= setting.rowsLeft)
  BY <1>2, <1>3, <1>4
<1>6. Taking(d, c)
  <2>1. CASE failed \/ engineCut
    <3>1. UNCHANGED <<delivered, engineCut, failed, reason>>
      BY <2>1 DEF TakeChunk
    <3>2. Bytes(delivered)' = Bytes(delivered)
      BY <1>1, <3>1 DEF Bytes
    <3>3. Len(delivered) \in 0..c /\ (engineCut => Len(delivered) < c)
      BY <1>2, <1>3
    <3>4. failed \in BOOLEAN /\ engineCut \in BOOLEAN /\ reason \in Reason \cup {"none"}
      BY DEF StreamInv, StreamShape
    <3>5. Len(delivered) <= setting.rowsLeft /\ Bytes(delivered) <= setting.bytesLeft
      BY DEF StreamInv, LimitsAreKept
    <3> QED
      BY <1>2, <2>1, <3>1, <3>2, <3>3, <3>4, <3>5 DEF Taking
  <2>2. CASE ~failed /\ ~engineCut /\ setting.batch
    <3>1. KeepRows(Rows(d, c)) /\ delivered = Rows(0, d)
      BY <1>2, <1>3, <2>2 DEF TakeChunk
    <3> QED
      BY <1>1, <1>3, <1>5, <2>2, <3>1, KeepRowsTakes
  <2>3. CASE ~failed /\ ~engineCut /\ ~setting.batch
    <3>1. PassPieces(Rows(d, c)) /\ delivered = Rows(0, d)
      BY <1>2, <1>3, <2>3 DEF TakeChunk
    <3> QED
      BY <1>1, <1>3, <1>5, <2>3, <3>1, PassPiecesTakes
  <2> QED
    BY <2>1, <2>2, <2>3 DEF StreamInv, StreamShape
<1>7. StreamShape'
  <2>1. channel \in Seq(Seq(Nat)) /\ Len(channel) \in Nat
    BY <1>2, HoldRange
  <2>2. Len(channel') <= Capacity
    <3>1. Len(channel') = Len(channel) - 1
      BY <1>1, <2>1, HeadTailProperties
    <3> QED
      BY <2>1, <3>1, StreamAssumption DEF StreamInv, StreamShape
  <2> QED
    BY <1>1, <1>6, <2>2 DEF Taking, StreamInv, StreamShape, driverVars
<1>8. RowsInOrder'
  <2>1. \E d1, o1, p1 \in Nat :
          /\ Hold(channel', d1, o1) /\ o1 <= p1 /\ p1 <= counted
          /\ outgoing = Rows(o1, p1) /\ buffer = Rows(p1, counted)
          /\ delivered' = Rows(0, Len(delivered')) /\ Len(delivered') \in 0..d1
          /\ ~failed' /\ ~engineCut' => Len(delivered') = d1
          /\ engineCut' => Len(delivered') < d1
    <3> WITNESS c \in Nat, o \in Nat, p \in Nat
    <3> QED
      BY <1>1, <1>2, <1>3, <1>6 DEF Taking
  <2> QED
    BY <1>1, <2>1 DEF RowsInOrder, driverVars
<1>9. LimitsAreKept'
  <2>1. DriverLimit' = DriverLimit /\ counted' = counted
    BY <1>1 DEF DriverLimit, driverVars
  <2> QED
    BY <1>1, <1>6, <2>1 DEF Taking, StreamInv, LimitsAreKept
<1>10. ReasonsAreTrue'
  <2>1. engineCut => engineCut' \/ failed'
    BY DEF TakeChunk
  <2>2. failed => failed'
    BY DEF TakeChunk
  <2> QED
    BY <1>1, <1>6, <2>1, <2>2 DEF Taking, StreamInv, ReasonsAreTrue, driverVars
<1>11. StepsAreTrue'
  BY <1>1, <1>6 DEF Taking, StreamInv, StepsAreTrue, Untouchable, driverVars
<1> QED
  BY <1>7, <1>8, <1>9, <1>10, <1>11 DEF StreamInv

LEMMA StreamInvNext == StreamInv /\ [StreamNext]_streamVars => StreamInv'
<1>1. StreamInv /\ UNCHANGED streamVars => StreamInv'
  <2> SUFFICES ASSUME StreamInv, UNCHANGED streamVars PROVE StreamInv'
    OBVIOUS
  <2>1. DriverLimit' = DriverLimit /\ Bytes(delivered)' = Bytes(delivered)
    BY DEF DriverLimit, Bytes, streamVars, engineVars
  <2> USE DEF StreamInv, streamVars, driverVars, engineVars
  <2>2. StreamShape'
    BY DEF StreamShape
  <2>3. RowsInOrder'
    BY DEF RowsInOrder
  <2>4. LimitsAreKept' /\ ReasonsAreTrue'
    BY <2>1 DEF LimitsAreKept, ReasonsAreTrue
  <2>5. StepsAreTrue'
    BY DEF StepsAreTrue, Untouchable
  <2> QED
    BY <2>2, <2>3, <2>4, <2>5
<1> QED
  BY <1>1, MovingKeeps, KeepingKeeps, SendingChunkKeeps, AnsweringKeeps, TakingKeeps
     DEF StreamNext, DriverStep

LEMMA StreamInvAlways == StreamSpec => []StreamInv
BY StreamInvInit, StreamInvNext, PTL DEF StreamSpec

LEMMA StreamInvTypes == StreamInv => StreamTypeOK
<1> SUFFICES ASSUME StreamInv PROVE StreamTypeOK
  OBVIOUS
<1>1. /\ sizes \in Seq(Nat) /\ Len(sizes) \in Nat /\ Len(sizes) <= MaxRows
      /\ \A i \in 1..Len(sizes) : sizes[i] \in 1..(DriverBytes + 1)
  BY SizesAre DEF StreamInv, StreamShape
<1>2. cursor \in 0..Len(sizes) /\ counted \in 0..cursor
  BY DEF StreamInv, StreamShape
<1>3. ASSUME NEW a \in Nat, NEW b \in Nat, a <= b, b <= cursor
      PROVE  Range(Rows(a, b)) \subseteq 1..cursor
  <2>1. /\ Rows(a, b) \in Seq(Nat) /\ Len(Rows(a, b)) = b - a
        /\ \A i \in 1..(b - a) : Rows(a, b)[i] = a + i
    BY <1>3, RowsAre
  <2>2. DOMAIN Rows(a, b) = 1..(b - a)
    BY <2>1
  <2>3. \A i \in 1..(b - a) : a + i \in 1..cursor
    BY <1>1, <1>2, <1>3
  <2>4. \A i \in 1..(b - a) : Rows(a, b)[i] \in 1..cursor
    BY <2>1, <2>3
  <2> QED
    BY <2>2, <2>4 DEF Range
<1>4. Range(buffer) \cup Range(outgoing) \cup Range(delivered) \subseteq 1..cursor
  <2>1. PICK d \in Nat, o \in Nat, p \in Nat :
          /\ Hold(channel, d, o) /\ o <= p /\ p <= counted
          /\ outgoing = Rows(o, p) /\ buffer = Rows(p, counted)
          /\ delivered = Rows(0, Len(delivered)) /\ Len(delivered) \in 0..d
    BY DEF StreamInv, RowsInOrder
  <2>2. d <= o
    BY <2>1, HoldRange
  <2>3. counted \in Nat /\ p <= cursor /\ counted <= cursor /\ Len(delivered) \in Nat
        /\ Len(delivered) <= cursor
    BY <1>1, <1>2, <2>1, <2>2
  <2>4. Range(buffer) \subseteq 1..cursor
    BY <1>3, <2>1, <2>3
  <2>5. Range(outgoing) \subseteq 1..cursor
    BY <1>3, <2>1, <2>3
  <2>6. Range(delivered) \subseteq 1..cursor
    <3>1. Range(Rows(0, Len(delivered))) \subseteq 1..cursor
      BY <1>3, <2>3
    <3> QED
      BY <2>1, <3>1
  <2> QED
    BY <2>4, <2>5, <2>6
<1>5. Range(sizes) \subseteq 1..(DriverBytes + 1)
  BY <1>1 DEF Range
<1>6. {refused, cutShort, driverCut, engineCut, failed} \subseteq BOOLEAN
  BY Zenon DEF StreamInv, StreamShape
<1> QED
  BY <1>1, <1>2, <1>4, <1>5, <1>6 DEF StreamInv, StreamShape, StreamTypeOK

LEMMA StreamInvAnswers == StreamInv => StreamIsTrue /\ StatementRunsWhole
<1> SUFFICES ASSUME StreamInv PROVE StreamIsTrue /\ StatementRunsWhole
  OBVIOUS
<1>1. Len(sizes) \in Nat /\ cursor \in 0..Len(sizes) /\ counted \in 0..cursor
  BY SizesAre DEF StreamInv, StreamShape
<1>2. StatementRunsWhole
  BY DEF StreamInv, StreamShape, StepsAreTrue, Untouchable, StatementRunsWhole
<1>3. StreamIsTrue
  <2> SUFFICES ASSUME terminal = "done" PROVE StreamIsTrue
    BY DEF StreamIsTrue
  <2>1. /\ step = "ended" /\ channel = <<>> /\ outcome = "ok" /\ ~failed /\ ~refused
        /\ outgoing = <<>> /\ buffer = <<>>
        /\ (cursor = Len(sizes) \/ reason # "none")
    BY DEF StreamInv, StreamShape, StepsAreTrue
  <2>2. PICK d \in Nat, o \in Nat, p \in Nat :
          /\ Hold(channel, d, o) /\ o <= p /\ p <= counted
          /\ outgoing = Rows(o, p) /\ buffer = Rows(p, counted)
          /\ delivered = Rows(0, Len(delivered)) /\ Len(delivered) \in 0..d
          /\ ~failed /\ ~engineCut => Len(delivered) = d
          /\ engineCut => Len(delivered) < d
    BY DEF StreamInv, RowsInOrder
  <2>3. d = o /\ o = p /\ p = counted
    <3>1. d = o
      BY <2>1, <2>2, HoldRange
    <3>2. o = p
      BY <2>1, <2>2, RowsEmpty
    <3>3. counted \in Nat
      BY <1>1
    <3>4. p = counted
      BY <2>1, <2>2, <3>3, RowsEmpty
    <3> QED
      BY <3>1, <3>2, <3>4
  <2>4. delivered = [i \in 1..Len(delivered) |-> i]
    <3>1. Len(delivered) \in Nat
      BY <2>2
    <3>2. Rows(0, Len(delivered)) = [i \in 1..Len(delivered) |-> i]
      BY <3>1 DEF Rows
    <3> QED
      BY <2>2, <3>2
  <2>5. Truncated <=> Len(delivered) < Len(sizes)
    <3>1. CASE engineCut
      BY <1>1, <2>2, <2>3, <3>1 DEF Truncated
    <3>2. CASE ~engineCut /\ driverCut
      BY <1>1, <2>1, <2>2, <2>3, <3>2 DEF Truncated, StreamInv, ReasonsAreTrue
    <3>3. CASE ~engineCut /\ ~driverCut
      BY <1>1, <2>1, <2>2, <2>3, <3>3 DEF Truncated, StreamInv, ReasonsAreTrue
    <3> QED
      BY <3>1, <3>2, <3>3
  <2> QED
    BY <2>4, <2>5 DEF StreamIsTrue, StreamInv, LimitsAreKept
<1> QED
  BY <1>2, <1>3

THEOREM StreamTypeCorrect == StreamSpec => []StreamTypeOK
BY StreamInvAlways, StreamInvTypes, PTL

THEOREM StreamCorrect == StreamSpec => [](StreamIsTrue /\ StatementRunsWhole)
BY StreamInvAlways, StreamInvAnswers, PTL

-----------------------------------------------------------------------------
(* The sidecar.  A request belongs to the process in the slot, and the names *)
(* of a process and of a request are never used again; what the console has *)
(* been told is what the database connection of a living process knows.      *)

USE StatementAssumption, SidecarBoundAssumption

\* The request in flight, the stream among them, and the kind that either session sends.
RequestOwnsProcess ==
  /\ request # NoRequest => process = request.process /\ ~sidecarClosed
  /\ request.kind \in {"stream", "begin"} => request.statement \in Statement
  /\ request.kind = "none" => reply = "none"
  /\ activeStream # NoStream =>
       /\ request.kind = "stream"
       /\ activeStream = [statement |-> request.statement, process |-> request.process,
                          id |-> request.id]

\* A cancel to be written names a request that was sent.
CancelsNameTheirStream ==
  /\ process \in {NoProcess, spawned}
  /\ request.process = process /\ request # NoRequest => request.id < nextRequestId
  /\ \A c \in cancelWrites :
       /\ c.process <= spawned
       /\ c.process = process => c.id < nextRequestId
       /\ c.process = request.process /\ c.id = request.id => c.statement = request.statement
  /\ CancelHitsItsStream

\* Where the console's requests stand.
ConsoleKeepsPhase == manual =>
  /\ request.kind \notin {"ping", "metadata"}
  /\ request.kind = "begin" => consolePhase = "idle"
  /\ request.kind = "stream" => consolePhase = "active"
  /\ request.kind = "context" => consolePhase # "failed"
  /\ request # NoRequest => due = NoStatement
  /\ due # NoStatement => consolePhase # "failed"

\* As long as the process lives, its connection is where the console takes it to be.
PhaseIsTrue == manual /\ ~unmarked =>
  /\ implicit = {}
  /\ consolePhase = "active" /\ ~sidecarClosed => process # NoProcess
  /\ process \in alive /\ consolePhase = "active" => ~autocommit
  /\ process \in alive /\ request.kind = "begin" /\ reply = "ok" => ~autocommit

\* What was answered is in the transaction, or durable.
AnsweredIsKept ==
  /\ process = NoProcess /\ ~sidecarClosed => sessionLost
  /\ request.kind \in Settlement => manual /\ ~sessionLost
  /\ request.kind = "stream" /\ reply = "ok" /\ process \in alive =>
       request.statement \in durable \cup uncommitted
  /\ /\ manual /\ ~sessionLost /\ process \in alive
     /\ ~(request.kind = "rollback" /\ reply = "ok")
     => acknowledged \subseteq durable \cup uncommitted
  /\ request.kind = "commit" /\ reply = "ok" => acknowledged \subseteq durable

\* The kinds of request that change nothing in the database.
Asking == {"ping", "metadata", "context", "explain", "export"}

JdbcInv ==
  /\ JdbcTypeOK /\ RequestOwnsProcess /\ CancelsNameTheirStream
  /\ ConsoleKeepsPhase /\ PhaseIsTrue /\ AnsweredIsKept
  /\ (~manual => implicit = {})

LEMMA JdbcInvInit == JdbcInit => JdbcInv
<1> SUFFICES ASSUME JdbcInit PROVE JdbcInv
  OBVIOUS
<1>1. manual \in BOOLEAN /\ sessionLost \in BOOLEAN /\ sidecarClosed \in BOOLEAN
      /\ autocommit \in BOOLEAN /\ unmarked \in BOOLEAN
  BY Zenon DEF JdbcInit
<1>2. request = NoRequest /\ request.kind = "none" /\ reply = "none" /\ activeStream = NoStream
  BY DEF JdbcInit, NoRequest
<1>3. JdbcTypeOK
  BY <1>1, <1>2 DEF JdbcInit, JdbcTypeOK, Process, NoProcess, Reply
<1>4. RequestOwnsProcess /\ CancelsNameTheirStream
  BY <1>2 DEF JdbcInit, RequestOwnsProcess, CancelsNameTheirStream, CancelHitsItsStream, NoProcess
<1>5. ConsoleKeepsPhase /\ PhaseIsTrue /\ AnsweredIsKept /\ (~manual => implicit = {})
  BY <1>2 DEF JdbcInit, ConsoleKeepsPhase, PhaseIsTrue, AnsweredIsKept, Settlement, NoProcess
<1> QED
  BY <1>3, <1>4, <1>5 DEF JdbcInv

\* The fields of a request, and of none.
LEMMA RequestFields ==
  ASSUME JdbcTypeOK
  PROVE  /\ request.kind \in RequestKind \cup {"none"} /\ request.process \in Process \cup {NoProcess}
         /\ request.statement \in Statement \cup {NoStatement}
         /\ request.id \in 0..MaxRequestId
         /\ request = NoRequest <=> request.kind = "none"
         /\ request # NoRequest => request.process \in Process /\ request.id \in 1..MaxRequestId
BY DEF JdbcTypeOK, NoRequest, RequestKind, Settlement, Process, NoProcess

\* process(): the slot's process with a name of its own for the request, or a fresh one.
LEMMA Obtaining ==
  ASSUME JdbcInv, NEW p \in Process, NEW id \in 1..MaxRequestId, Obtain(p, id)
  PROVE  /\ process' = p /\ p # NoProcess /\ nextRequestId' = id + 1
         /\ nextRequestId' \in 1..(MaxRequestId + 1) /\ spawned' \in 0..MaxProcess
         /\ p = spawned' /\ alive' \subseteq {p}
         /\ \A c \in cancelWrites : c.process <= spawned' /\ (c.process = p => c.id < id)
         /\ autocommit' \in BOOLEAN /\ uncommitted' \subseteq Statement
         /\ \/ process = p /\ UNCHANGED <<process, spawned, alive, autocommit, uncommitted>>
            \/ process = NoProcess /\ alive' = {p} /\ uncommitted' = {}
<1> USE DEF JdbcInv, JdbcTypeOK, CancelsNameTheirStream, Process, NoProcess
<1>1. CASE /\ process # NoProcess /\ p = process /\ id = nextRequestId /\ nextRequestId' = id + 1
           /\ UNCHANGED <<process, spawned, alive, autocommit, uncommitted>>
  BY <1>1
<1>2. CASE Spawn(p) /\ id = 1
  <2>1. /\ process = NoProcess /\ p = spawned + 1 /\ process' = p /\ spawned' = p
        /\ alive' = alive \cup {p} /\ nextRequestId' = 2 /\ uncommitted' = {} /\ alive = {}
    BY <1>2 DEF Spawn
  <2>2. autocommit' \in BOOLEAN
    BY <1>2, Zenon DEF Spawn
  <2>3. cancelWrites \subseteq Stream
    BY DEF JdbcTypeOK
  <2>4. \A c \in cancelWrites : c.process <= spawned /\ c.process \in Nat
    BY <2>3 DEF Stream
  <2> QED
    BY <1>2, <2>1, <2>2, <2>4
<1> QED
  BY <1>1, <1>2 DEF Obtain

\* What the parts of the invariant that know nothing of consoles say after a request is sent.
LEMMA Sending ==
  ASSUME JdbcInv, NEW kind \in RequestKind, NEW w \in Statement \cup {NoStatement}, Send(kind, w),
         kind \in {"stream", "begin"} => w \in Statement
  PROVE  /\ RequestOwnsProcess' /\ CancelsNameTheirStream'
         /\ request'.kind = kind /\ reply' = "none" /\ process' # NoProcess
         /\ ~sidecarClosed /\ (kind = "commit" => ~sessionLost)
         /\ UNCHANGED <<manual, sessionLost, sidecarClosed, durable, implicit, unread>>
         /\ \/ process # NoProcess /\ UNCHANGED <<process, alive, autocommit, uncommitted>>
            \/ process = NoProcess
         /\ unexecuted' \subseteq Statement /\ acknowledged' \subseteq Statement
            /\ consolePhase' \in {"idle", "active", "failed"} /\ due' \in Statement \cup {NoStatement}
            /\ unmarked' \in BOOLEAN
            => JdbcTypeOK'
<1> USE DEF JdbcInv
<1>1. PICK p \in Process, id \in 1..MaxRequestId :
        /\ Obtain(p, id)
        /\ request' = [kind |-> kind, statement |-> w, process |-> p, id |-> id]
        /\ activeStream' = IF kind = "stream" THEN [statement |-> w, process |-> p, id |-> id]
                           ELSE activeStream
  BY DEF Send
<1>2. /\ process' = p /\ p # NoProcess /\ nextRequestId' = id + 1
      /\ nextRequestId' \in 1..(MaxRequestId + 1) /\ spawned' \in 0..MaxProcess
      /\ p = spawned' /\ alive' \subseteq {p}
      /\ \A c \in cancelWrites : c.process <= spawned' /\ (c.process = p => c.id < id)
      /\ autocommit' \in BOOLEAN /\ uncommitted' \subseteq Statement
      /\ \/ process = p /\ UNCHANGED <<process, spawned, alive, autocommit, uncommitted>>
         \/ process = NoProcess /\ alive' = {p} /\ uncommitted' = {}
  BY <1>1, Obtaining
<1>3. /\ request = NoRequest /\ reply' = "none" /\ ~sidecarClosed /\ (kind = "commit" => ~sessionLost)
      /\ UNCHANGED <<manual, sessionLost, sidecarClosed, cancelWrites, struck, durable, implicit,
                     unread>>
  BY DEF Send, Accepts
<1>4. request.kind = "none" /\ activeStream = NoStream
  BY <1>3, RequestFields DEF RequestOwnsProcess
<1>5. /\ request'.kind = kind /\ request'.statement = w /\ request'.process = p /\ request'.id = id
      /\ kind # "none" /\ request' # NoRequest
  BY <1>1 DEF RequestKind, Settlement, NoRequest
<1>6. RequestOwnsProcess'
  BY <1>1, <1>2, <1>3, <1>4, <1>5 DEF RequestOwnsProcess
<1>7. CancelsNameTheirStream'
  <2>1. \A c \in cancelWrites : c.id \in Nat
    BY DEF JdbcTypeOK, Stream
  <2> QED
    BY <1>2, <1>3, <1>5, <2>1 DEF CancelsNameTheirStream, CancelHitsItsStream
<1>8. ASSUME unexecuted' \subseteq Statement, acknowledged' \subseteq Statement,
             consolePhase' \in {"idle", "active", "failed"}, due' \in Statement \cup {NoStatement},
             unmarked' \in BOOLEAN
      PROVE  JdbcTypeOK'
  <2>1. request' \in [kind : RequestKind, statement : Statement \cup {NoStatement},
                      process : Process, id : 1..MaxRequestId]
    BY <1>1
  <2>2. activeStream' \in Stream \cup {NoStream}
    BY <1>1, <1>4 DEF Stream
  <2>3. alive' \subseteq {process'} \cap Process /\ process' \in Process
    BY <1>2
  <2> QED
    BY <1>2, <1>3, <1>8, <2>1, <2>2, <2>3 DEF JdbcTypeOK, Reply
<1> QED
  BY <1>2, <1>3, <1>5, <1>6, <1>7, <1>8

\* A request comes to its end, with an answer or without one.
LEMMA Concluding ==
  ASSUME JdbcInv, NEW result \in {"ok", "limit", "error", "lost"}, request # NoRequest,
         Conclude(result),
         process' \in {process, NoProcess}, alive' \subseteq alive \cap {process'},
         spawned' = spawned, nextRequestId' = nextRequestId, sessionLost' \in BOOLEAN,
         autocommit' = autocommit, uncommitted' \subseteq Statement, durable' = durable,
         implicit' = implicit
  PROVE  JdbcTypeOK' /\ RequestOwnsProcess' /\ CancelsNameTheirStream'
<1> USE DEF JdbcInv
<1>1. request' = NoRequest /\ request'.kind = "none" /\ reply' = "none" /\ activeStream' = NoStream
      /\ request'.process = NoProcess /\ request'.id = 0
  BY DEF Conclude, NoRequest
<1>2. consolePhase' \in {"idle", "active", "failed"}
  BY DEF Conclude, PhasesAfter, JdbcTypeOK
<1>3. due' \in Statement \cup {NoStatement}
  BY RequestFields DEF Conclude
<1>4. acknowledged' \subseteq Statement
  BY DEF Conclude, RequestOwnsProcess, JdbcTypeOK
<1>5. unmarked' \in BOOLEAN
  <2>1. unmarked \in BOOLEAN
    BY DEF JdbcTypeOK
  <2> QED
    BY <2>1, Zenon DEF Conclude
<1>6. UNCHANGED <<manual, sidecarClosed, cancelWrites, struck, unexecuted, unread>>
  BY DEF Conclude
<1>7. JdbcTypeOK'
  BY <1>1, <1>2, <1>3, <1>4, <1>5, <1>6 DEF JdbcTypeOK, Reply
<1>8. RequestOwnsProcess'
  BY <1>1 DEF RequestOwnsProcess
<1>9. CancelsNameTheirStream'
  <2>1. \A c \in cancelWrites : c.process \in Process /\ c.id \in Nat /\ c.process # NoProcess
    BY DEF JdbcTypeOK, Stream, Process, NoProcess
  <2> QED
    BY <1>1, <1>6, <2>1 DEF CancelsNameTheirStream, CancelHitsItsStream
<1> QED
  BY <1>7, <1>8, <1>9

LEMMA SendingKeeps ==
  ASSUME JdbcInv, NEW kind \in RequestKind, NEW w \in Statement \cup {NoStatement}, Send(kind, w),
         kind \in {"stream", "begin"} => w \in Statement,
         kind \in Settlement => manual, kind = "rollback" => ~sessionLost,
         manual => /\ kind \notin {"ping", "metadata"} /\ due' = NoStatement
                   /\ kind = "begin" => consolePhase = "idle"
                   /\ kind = "stream" => consolePhase = "active"
                   /\ kind = "context" => consolePhase # "failed",
         due' \in {due, NoStatement}, unexecuted' \subseteq unexecuted,
         UNCHANGED <<consolePhase, acknowledged, unmarked>>
  PROVE  JdbcInv'
<1>1. /\ RequestOwnsProcess' /\ CancelsNameTheirStream'
      /\ request'.kind = kind /\ reply' = "none" /\ process' # NoProcess
      /\ ~sidecarClosed /\ (kind = "commit" => ~sessionLost)
      /\ UNCHANGED <<manual, sessionLost, sidecarClosed, durable, implicit, unread>>
      /\ \/ process # NoProcess /\ UNCHANGED <<process, alive, autocommit, uncommitted>>
         \/ process = NoProcess
      /\ unexecuted' \subseteq Statement /\ acknowledged' \subseteq Statement
         /\ consolePhase' \in {"idle", "active", "failed"} /\ due' \in Statement \cup {NoStatement}
         /\ unmarked' \in BOOLEAN
         => JdbcTypeOK'
  BY Sending
<1>2. request = NoRequest /\ request.kind = "none"
  BY RequestFields DEF Send, JdbcInv
<1>3. JdbcTypeOK'
  BY <1>1 DEF JdbcInv, JdbcTypeOK
<1>4. ConsoleKeepsPhase'
  BY <1>1 DEF ConsoleKeepsPhase
<1>5. PhaseIsTrue' /\ (~manual => implicit = {})'
  BY <1>1, <1>2 DEF JdbcInv, PhaseIsTrue
<1>6. AnsweredIsKept'
  BY <1>1, <1>2 DEF JdbcInv, AnsweredIsKept, Settlement
<1> QED
  BY <1>1, <1>3, <1>4, <1>5, <1>6 DEF JdbcInv

LEMMA BridgeAnswersKeeps == JdbcInv /\ BridgeAnswers => JdbcInv'
<1> SUFFICES ASSUME JdbcInv, BridgeAnswers PROVE JdbcInv'
  OBVIOUS
<1> USE DEF JdbcInv
<1>1. /\ request # NoRequest /\ reply = "none" /\ request.process \in alive
      /\ process = request.process /\ ~sidecarClosed
      /\ request.kind \in RequestKind
      /\ UNCHANGED <<manual, processVars, sessionLost, sidecarClosed, request, unread, activeStream,
                     cancelWrites, struck, consoleSideVars>>
  BY RequestFields DEF BridgeAnswers, RequestOwnsProcess
<1> USE <1>1 DEF processVars, consoleSideVars, databaseVars
<1>2. reply' \in {"ok", "limit", "error"}
  BY DEF BridgeAnswers
<1>3. RequestOwnsProcess' /\ CancelsNameTheirStream' /\ ConsoleKeepsPhase'
  BY RequestFields DEF RequestOwnsProcess, CancelsNameTheirStream, CancelHitsItsStream, ConsoleKeepsPhase
<1>4. CASE UNCHANGED databaseVars /\ (reply' = "error" \/ request.kind \in Asking)
  <2>1. JdbcTypeOK'
    BY <1>2, <1>4 DEF JdbcTypeOK, Reply
  <2> QED
    BY <1>2, <1>3, <1>4, <2>1 DEF PhaseIsTrue, AnsweredIsKept, Settlement, Asking
<1>5. CASE Succeeds /\ reply' \in {"ok"} \cup (IF request.kind = "stream" THEN {"limit"} ELSE {})
  <2>1. CASE request.kind = "begin"
    <3>1. ~autocommit' /\ reply' = "ok" /\ UNCHANGED <<uncommitted, durable, implicit>>
      BY <1>5, <2>1 DEF Succeeds
    <3>2. autocommit' \in BOOLEAN
      BY <1>5, <2>1, Zenon DEF Succeeds
    <3>3. JdbcTypeOK'
      BY <3>1, <3>2 DEF JdbcTypeOK, Reply
    <3> QED
      BY <1>3, <2>1, <3>1, <3>3 DEF PhaseIsTrue, AnsweredIsKept, Settlement
  <2>2. CASE request.kind = "commit"
    <3>1. durable' = durable \cup uncommitted /\ uncommitted' = {} /\ reply' = "ok"
          /\ UNCHANGED <<autocommit, implicit>>
      BY <1>5, <2>2 DEF Succeeds
    <3>2. JdbcTypeOK'
      BY <3>1 DEF JdbcTypeOK, Reply
    <3> QED
      BY <1>3, <2>2, <3>1, <3>2 DEF PhaseIsTrue, AnsweredIsKept, Settlement
  <2>3. CASE request.kind = "rollback"
    <3>1. uncommitted' = {} /\ reply' = "ok" /\ UNCHANGED <<autocommit, durable, implicit>>
      BY <1>5, <2>3 DEF Succeeds
    <3>2. JdbcTypeOK'
      BY <3>1 DEF JdbcTypeOK, Reply
    <3> QED
      BY <1>3, <2>3, <3>1, <3>2 DEF PhaseIsTrue, AnsweredIsKept, Settlement
  <2>4. CASE request.kind = "stream" /\ autocommit
    <3>1. durable' = durable \cup {request.statement}
          /\ implicit' = (IF manual THEN implicit \cup {request.statement} ELSE implicit)
          /\ UNCHANGED <<autocommit, uncommitted>> /\ request.statement \in Statement
      BY <1>5, <2>4 DEF Succeeds, RequestOwnsProcess
    <3>2. JdbcTypeOK'
      BY <1>2, <3>1 DEF JdbcTypeOK, Reply
    <3>3. manual => unmarked
      BY <2>4 DEF ConsoleKeepsPhase, PhaseIsTrue
    <3> QED
      BY <1>3, <2>4, <3>1, <3>2, <3>3 DEF PhaseIsTrue, AnsweredIsKept, Settlement
  <2>5. CASE request.kind = "stream" /\ ~autocommit
    <3>1. uncommitted' = uncommitted \cup {request.statement} /\ request.statement \in Statement
          /\ UNCHANGED <<autocommit, durable, implicit>>
      BY <1>5, <2>5 DEF Succeeds, RequestOwnsProcess
    <3>2. JdbcTypeOK'
      BY <1>2, <3>1 DEF JdbcTypeOK, Reply
    <3> QED
      BY <1>3, <2>5, <3>1, <3>2 DEF PhaseIsTrue, AnsweredIsKept, Settlement
  <2>6. CASE request.kind \in Asking
    <3>1. UNCHANGED databaseVars
      BY <1>5, <2>6 DEF Succeeds, Asking
    <3> QED
      BY <1>4, <2>6, <3>1
  <2> QED
    BY <2>1, <2>2, <2>3, <2>4, <2>5, <2>6 DEF RequestKind, Settlement, Asking
<1> QED
  BY <1>4, <1>5 DEF BridgeAnswers

\* The end of a request by its answer, by the loss of its process, or by the consumer.
LEMMA EndingKeeps == JdbcInv /\ (Completed \/ Poisoned \/ StopSelect \/ AbandonExport) => JdbcInv'
<1> SUFFICES ASSUME JdbcInv, Completed \/ Poisoned \/ StopSelect \/ AbandonExport PROVE JdbcInv'
  OBVIOUS
<1> USE DEF JdbcInv
<1>1. request # NoRequest /\ process = request.process /\ process \in Process /\ ~sidecarClosed
      /\ request.kind \in RequestKind /\ process # NoProcess
  <2>1. request # NoRequest
    BY RequestFields DEF Completed, Poisoned, StopSelect, AbandonExport, RequestOwnsProcess
  <2> QED
    BY <2>1, RequestFields DEF RequestOwnsProcess, Process, NoProcess
<1>t. alive \subseteq {process} /\ uncommitted \subseteq Statement
  BY DEF JdbcTypeOK
<1>2. ASSUME Completed PROVE JdbcInv'
  <2>1. /\ reply \in {"ok", "limit", "error"} /\ Conclude(reply)
        /\ UNCHANGED <<process, spawned, alive, nextRequestId, autocommit, uncommitted, durable, implicit>>
    BY <1>2 DEF Completed, JdbcTypeOK, Reply, processVars, databaseVars
  <2>2. sessionLost' \in BOOLEAN
    <3>1. sessionLost \in BOOLEAN
      BY DEF JdbcTypeOK
    <3> QED
      BY <1>2, <3>1, Zenon DEF Completed
  <2>3. JdbcTypeOK' /\ RequestOwnsProcess' /\ CancelsNameTheirStream'
    BY <1>1, <1>t, <2>1, <2>2, Concluding
  <2>4. /\ request' = NoRequest /\ request'.kind = "none" /\ reply' = "none"
        /\ consolePhase' \in PhasesAfter(reply)
        /\ due' = IF request.kind \in {"context", "begin"} /\ reply = "ok" THEN request.statement
                  ELSE NoStatement
        /\ acknowledged' =
             CASE reply = "ok" /\ request.kind = "stream" -> acknowledged \cup {request.statement}
               [] reply = "ok" /\ request.kind \in Settlement \cup {"begin"} -> {}
               [] OTHER -> acknowledged
        /\ UNCHANGED <<manual, sidecarClosed, unmarked>>
    <3>1. /\ unmarked \in BOOLEAN
          /\ unmarked' = (unmarked \/ (/\ reply = "lost" /\ request.kind # "stream"
                                       /\ consolePhase' = "active"))
      BY <2>1 DEF Conclude, JdbcTypeOK
    <3>2. unmarked' = unmarked
      BY <2>1, <3>1
    <3> QED
      BY <2>1, <3>2 DEF Conclude, NoRequest
  <2>5. ConsoleKeepsPhase' /\ PhaseIsTrue'
    BY <1>1, <2>1, <2>4 DEF ConsoleKeepsPhase, PhaseIsTrue, PhasesAfter, RequestKind, Settlement
  <2>6. sessionLost' => sessionLost
    BY <1>2 DEF Completed
  <2>7. sessionLost /\ ~sessionLost' => reply = "ok" /\ request.kind \in {"begin", "rollback"}
    BY <1>2, <2>1 DEF Completed
  <2>8. AnsweredIsKept'
    BY <1>1, <2>1, <2>4, <2>7 DEF AnsweredIsKept, Settlement
  <2> QED
    BY <2>1, <2>3, <2>4, <2>5, <2>8
<1>3. ASSUME NEW result \in {"ok", "lost"}, Abort, Conclude(result),
             result = "ok" => request.kind = "stream" /\ ~manual
      PROVE  JdbcInv'
  <2>1. /\ process' = NoProcess /\ alive' = {} /\ sessionLost' /\ sessionLost' \in BOOLEAN
        /\ uncommitted' = {}
        /\ UNCHANGED <<spawned, nextRequestId, autocommit, durable, implicit>>
    BY <1>1, <1>3, <1>t DEF Abort
  <2>2. JdbcTypeOK' /\ RequestOwnsProcess' /\ CancelsNameTheirStream'
    BY <1>1, <1>3, <2>1, Concluding
  <2>3. /\ request' = NoRequest /\ request'.kind = "none" /\ reply' = "none"
        /\ consolePhase' \in PhasesAfter(result)
        /\ result = "lost" => due' = NoStatement
        /\ UNCHANGED <<manual, sidecarClosed>>
        /\ unmarked' <=> unmarked \/ (/\ result = "lost" /\ request.kind # "stream"
                                      /\ consolePhase' = "active")
    BY <1>3 DEF Conclude, NoRequest
  <2>4. ConsoleKeepsPhase' /\ PhaseIsTrue'
    BY <1>1, <1>3, <2>1, <2>3 DEF ConsoleKeepsPhase, PhaseIsTrue, PhasesAfter, RequestKind, Settlement
  <2>5. AnsweredIsKept'
    BY <2>1, <2>3 DEF AnsweredIsKept, Settlement
  <2> QED
    BY <2>1, <2>2, <2>3, <2>4, <2>5
<1>4. ASSUME AbandonExport PROVE JdbcInv'
  <2>1. /\ request' = NoRequest /\ request'.kind = "none" /\ reply' = "none"
        /\ request'.process = NoProcess /\ request.kind = "export"
        /\ unread' = unread \cup {process}
        /\ UNCHANGED <<manual, processVars, sessionLost, sidecarClosed, activeStream, cancelWrites,
                       struck, databaseVars, consoleSideVars>>
    BY <1>1, <1>4 DEF AbandonExport, NoRequest
  <2>2. activeStream = NoStream
    BY <2>1 DEF RequestOwnsProcess
  <2>3. \A c \in cancelWrites : c.process # NoProcess
    BY DEF JdbcTypeOK, Stream, Process, NoProcess
  <2>4. JdbcTypeOK'
    BY <1>1, <2>1 DEF JdbcTypeOK, Reply, processVars, databaseVars, consoleSideVars
  <2>5. RequestOwnsProcess' /\ CancelsNameTheirStream'
    BY <2>1, <2>2, <2>3
       DEF RequestOwnsProcess, CancelsNameTheirStream, CancelHitsItsStream, processVars
  <2>6. ConsoleKeepsPhase' /\ PhaseIsTrue' /\ AnsweredIsKept'
    BY <1>1, <2>1 DEF ConsoleKeepsPhase, PhaseIsTrue, AnsweredIsKept, Settlement, processVars,
                      databaseVars, consoleSideVars
  <2> QED
    BY <2>1, <2>4, <2>5, <2>6 DEF databaseVars
<1> QED
  BY <1>2, <1>3, <1>4 DEF Poisoned, StopSelect

\* What goes past the request, or comes between two.
LEMMA CancellingKeeps ==
  ASSUME JdbcInv,
         \/ \E w \in Statement : CancelStream(w)
         \/ \E c \in cancelWrites : WriteCancel(c)
  PROVE  JdbcInv'
<1> USE DEF JdbcInv, processVars, databaseVars, requestVars, consoleSideVars
<1>1. ASSUME NEW w \in Statement, CancelStream(w) PROVE JdbcInv'
  <2>1. /\ activeStream # NoStream /\ cancelWrites' = cancelWrites \cup {activeStream}
        /\ UNCHANGED <<manual, processVars, sessionLost, sidecarClosed, requestVars, activeStream,
                       struck, databaseVars, consoleSideVars>>
    BY <1>1 DEF CancelStream
  <2>2. /\ activeStream \in Stream /\ request # NoRequest
        /\ activeStream = [statement |-> request.statement, process |-> request.process,
                           id |-> request.id]
    BY <2>1, RequestFields DEF JdbcTypeOK, RequestOwnsProcess
  <2>3. process = request.process /\ request.process \in Process /\ process = spawned
    BY <2>2, RequestFields DEF RequestOwnsProcess, CancelsNameTheirStream, Process, NoProcess
  <2>4. JdbcTypeOK'
    BY <2>1, <2>2 DEF JdbcTypeOK
  <2>5. CancelsNameTheirStream'
    BY <2>1, <2>2, <2>3 DEF CancelsNameTheirStream, CancelHitsItsStream, Process
  <2> QED
    BY <2>1, <2>4, <2>5 DEF RequestOwnsProcess, ConsoleKeepsPhase, PhaseIsTrue, AnsweredIsKept
<1>2. ASSUME NEW c \in cancelWrites, WriteCancel(c) PROVE JdbcInv'
  <2>1. /\ cancelWrites' = cancelWrites \ {c} /\ c \in Stream
        /\ UNCHANGED <<manual, processVars, sessionLost, sidecarClosed, request, unread, activeStream,
                       databaseVars, consoleSideVars>>
    BY <1>2 DEF WriteCancel, JdbcTypeOK
  <2>2. CASE UNCHANGED <<reply, struck>>
    <3>1. JdbcTypeOK' /\ CancelsNameTheirStream'
      BY <2>1, <2>2 DEF JdbcTypeOK, CancelsNameTheirStream, CancelHitsItsStream
    <3> QED
      BY <2>1, <2>2, <3>1 DEF RequestOwnsProcess, ConsoleKeepsPhase, PhaseIsTrue, AnsweredIsKept
  <2>3. CASE /\ Reaches(c) /\ reply = "none" /\ reply' = "error"
             /\ struck' = struck \cup {<<c.statement, request.statement>>}
    <3>1. c.statement = request.statement /\ c.statement \in Statement
          /\ request.process = c.process /\ c.process \in Process
      BY <2>1, <2>3 DEF Reaches, CancelsNameTheirStream, Stream
    <3>2. struck' \subseteq Statement \X (Statement \cup {NoStatement})
          /\ \A hit \in struck' : hit[1] = hit[2]
      BY <2>3, <3>1 DEF CancelsNameTheirStream, CancelHitsItsStream, JdbcTypeOK
    <3>3. JdbcTypeOK' /\ CancelsNameTheirStream'
      BY <2>1, <2>3, <3>2 DEF JdbcTypeOK, Reply, CancelsNameTheirStream, CancelHitsItsStream
    <3>4. request.kind # "none"
      BY <3>1, RequestFields DEF NoRequest, Process, NoProcess
    <3> QED
      BY <2>1, <2>3, <3>3, <3>4 DEF RequestOwnsProcess, ConsoleKeepsPhase, PhaseIsTrue, AnsweredIsKept
  <2> QED
    BY <1>2, <2>2, <2>3 DEF WriteCancel
<1> QED
  BY <1>1, <1>2

LEMMA RollBackLostKeeps == JdbcInv /\ manual /\ Free /\ RollBackLostSession => JdbcInv'
<1> SUFFICES ASSUME JdbcInv, manual, Free, RollBackLostSession PROVE JdbcInv'
  OBVIOUS
<1> USE DEF JdbcInv
<1>1. PICK p \in Process, id \in 1..MaxRequestId : Obtain(p, id)
  BY DEF RollBackLostSession
<1>2. /\ process' = p /\ p # NoProcess /\ nextRequestId' = id + 1
      /\ nextRequestId' \in 1..(MaxRequestId + 1) /\ spawned' \in 0..MaxProcess
      /\ p = spawned' /\ alive' \subseteq {p}
      /\ \A c \in cancelWrites : c.process <= spawned' /\ (c.process = p => c.id < id)
      /\ autocommit' \in BOOLEAN /\ uncommitted' \subseteq Statement
      /\ \/ process = p /\ UNCHANGED <<process, spawned, alive, autocommit, uncommitted>>
         \/ process = NoProcess /\ alive' = {p} /\ uncommitted' = {}
  BY <1>1, Obtaining
<1>3. /\ request = NoRequest /\ request.kind = "none" /\ request.process = NoProcess
      /\ ~sidecarClosed /\ consolePhase' = "idle" /\ acknowledged' = {} /\ due = NoStatement
      /\ UNCHANGED <<manual, sidecarClosed, request, reply, unread, activeStream, cancelWrites, struck,
                     durable, implicit, due, unexecuted, unmarked>>
  BY DEF RollBackLostSession, Free, NoRequest, requestVars
<1>4. sessionLost' \in BOOLEAN /\ ~sessionLost'
  <2>1. sessionLost' = FALSE
    BY DEF RollBackLostSession
  <2> QED
    BY <2>1
<1>5. alive' \subseteq {process'} \cap Process /\ process' \in Process \cup {NoProcess}
  BY <1>2
<1>6. JdbcTypeOK'
  BY <1>2, <1>3, <1>4, <1>5 DEF JdbcTypeOK
<1>7. RequestOwnsProcess' /\ CancelsNameTheirStream'
  <2>1. \A c \in cancelWrites : c.id \in Nat /\ c.process \in Process
    BY DEF JdbcTypeOK, Stream
  <2>2. request'.process # p /\ \A c \in cancelWrites : c.process # request'.process
    BY <1>2, <1>3, <2>1 DEF Process, NoProcess
  <2> QED
    BY <1>2, <1>3, <2>1, <2>2 DEF RequestOwnsProcess, CancelsNameTheirStream, CancelHitsItsStream
<1> QED
  BY <1>2, <1>3, <1>6, <1>7 DEF ConsoleKeepsPhase, PhaseIsTrue, AnsweredIsKept, Settlement

LEMMA JdbcInvNext == JdbcInv /\ [JdbcNext]_jdbcVars => JdbcInv'
<1> SUFFICES ASSUME JdbcInv, [JdbcNext]_jdbcVars PROVE JdbcInv'
  OBVIOUS
<1> USE DEF processVars, databaseVars, requestVars, consoleSideVars
<1>t. JdbcTypeOK /\ ConsoleKeepsPhase /\ (~manual => implicit = {})
  BY DEF JdbcInv
<1>n. /\ NextRequest \in RequestKind /\ NextRequest \in {"begin", "stream"}
      /\ NextRequest = "begin" => consolePhase = "idle"
      /\ NextRequest = "stream" /\ consolePhase # "failed" => consolePhase = "active"
  BY <1>t DEF NextRequest, RequestKind, JdbcTypeOK
<1>1. ASSUME NEW w \in Statement, ConsoleExecutes(w) PROVE JdbcInv'
  <2>1. /\ manual /\ due = NoStatement /\ consolePhase # "failed"
        /\ UNCHANGED <<consolePhase, due, acknowledged, unmarked>>
        /\ unexecuted' \subseteq unexecuted
        /\ Send("context", w) \/ Send(NextRequest, w)
    BY <1>1 DEF ConsoleExecutes, Free, Sent
  <2>2. CASE Send("context", w)
    <3>1. "context" \in RequestKind
      BY DEF RequestKind
    <3> QED
      BY <2>1, <2>2, <3>1, SendingKeeps DEF Settlement
  <2>3. CASE Send(NextRequest, w)
    BY <2>1, <2>3, <1>n, SendingKeeps DEF Settlement
  <2> QED
    BY <2>1, <2>2, <2>3
<1>2. ASSUME NEW w \in Statement, PrimaryExecutes(w) PROVE JdbcInv'
  <2>1. Send("stream", w) /\ "stream" \in RequestKind /\ ~manual
        /\ unexecuted' = unexecuted \ {w} /\ UNCHANGED <<consolePhase, due, acknowledged, unmarked>>
    BY <1>2 DEF PrimaryExecutes, RequestKind
  <2> QED
    BY <2>1, SendingKeeps DEF Settlement
<1>3. CASE ConsoleContinues
  <2>1. Send(NextRequest, due) /\ due \in Statement /\ due' = NoStatement
        /\ UNCHANGED <<consolePhase, acknowledged, unmarked>> /\ unexecuted' \subseteq unexecuted
    BY <1>3, <1>t DEF ConsoleContinues, Sent, JdbcTypeOK
  <2>2. manual => consolePhase # "failed"
    BY <1>3, <1>t DEF ConsoleContinues, ConsoleKeepsPhase
  <2> QED
    BY <2>1, <2>2, <1>n, SendingKeeps DEF Settlement
<1>4. CASE ConsoleRefused
  <2>1. /\ manual /\ request = NoRequest /\ request.kind = "none" /\ due' = NoStatement
        /\ consolePhase' = (IF consolePhase = "active" THEN "failed" ELSE consolePhase)
        /\ UNCHANGED <<manual, processVars, sessionLost, sidecarClosed, requestVars, activeStream,
                       cancelWrites, struck, databaseVars, unexecuted, acknowledged, unmarked>>
    BY <1>4 DEF ConsoleRefused, NoRequest
  <2>2. JdbcTypeOK'
    BY <1>t, <2>1 DEF JdbcTypeOK
  <2> QED
    BY <2>1, <2>2 DEF JdbcInv, RequestOwnsProcess, CancelsNameTheirStream, CancelHitsItsStream,
                      ConsoleKeepsPhase, PhaseIsTrue, AnsweredIsKept
<1>5. ASSUME NEW kind \in Settlement, ConsoleSettles(kind) PROVE JdbcInv'
  <2>1. CASE ~(kind = "rollback" /\ sessionLost) /\ Send(kind, NoStatement) /\ UNCHANGED consoleSideVars
    <3>1. manual /\ due = NoStatement /\ kind \in RequestKind
          /\ kind \notin {"stream", "begin", "context", "ping", "metadata"}
      BY <1>5 DEF ConsoleSettles, Free, RequestKind, Settlement
    <3> QED
      BY <2>1, <3>1, SendingKeeps
  <2>2. CASE RollBackLostSession
    BY <1>5, <2>2, RollBackLostKeeps DEF ConsoleSettles
  <2> QED
    BY <1>5, <2>1, <2>2 DEF ConsoleSettles
<1>r. ASSUME NEW kind \in {"explain", "export"}, ConsoleReads(kind) PROVE JdbcInv'
  <2>1. manual /\ due = NoStatement /\ Send(kind, NoStatement) /\ kind \in RequestKind
        /\ UNCHANGED consoleSideVars
    BY <1>r DEF ConsoleReads, Free, RequestKind
  <2> QED
    BY <2>1, SendingKeeps DEF Settlement
<1>6. ASSUME NEW kind \in {"ping", "metadata", "context"}, PrimaryAsks(kind) PROVE JdbcInv'
  <2>1. ~manual /\ Send(kind, NoStatement) /\ kind \in RequestKind /\ kind \notin {"stream", "begin"}
        /\ kind \notin Settlement /\ UNCHANGED consoleSideVars
    BY <1>6 DEF PrimaryAsks, RequestKind, Settlement
  <2> QED
    BY <2>1, SendingKeeps DEF Settlement
<1>7. CASE BridgeDies
  <2>1. /\ alive' = {} /\ uncommitted' = {}
        /\ UNCHANGED <<manual, process, spawned, nextRequestId, sessionLost, sidecarClosed, requestVars,
                       activeStream, cancelWrites, struck, autocommit, durable, implicit, consoleSideVars>>
    BY <1>7, <1>t DEF BridgeDies, JdbcTypeOK
  <2>2. JdbcTypeOK'
    BY <1>t, <2>1 DEF JdbcTypeOK
  <2> QED
    BY <2>1, <2>2 DEF JdbcInv, RequestOwnsProcess, CancelsNameTheirStream, CancelHitsItsStream,
                      ConsoleKeepsPhase, PhaseIsTrue, AnsweredIsKept
<1>8. CASE ShutDown
  <2>1. /\ alive' = {} /\ uncommitted' = {} /\ process' = NoProcess /\ sidecarClosed'
        /\ request = NoRequest /\ request.kind = "none" /\ request.process = NoProcess
        /\ UNCHANGED <<manual, spawned, nextRequestId, sessionLost, requestVars, activeStream,
                       cancelWrites, struck, autocommit, durable, implicit, consoleSideVars>>
    BY <1>8, <1>t DEF ShutDown, JdbcTypeOK, NoRequest
  <2>2. sidecarClosed' \in BOOLEAN
    BY <1>8, Zenon DEF ShutDown
  <2>3. JdbcTypeOK'
    BY <1>t, <2>1, <2>2 DEF JdbcTypeOK
  <2>4. \A c \in cancelWrites : c.process # NoProcess
    BY <1>t DEF JdbcTypeOK, Stream, Process, NoProcess
  <2> QED
    BY <2>1, <2>3, <2>4 DEF JdbcInv, RequestOwnsProcess, CancelsNameTheirStream, CancelHitsItsStream,
                            ConsoleKeepsPhase, PhaseIsTrue, AnsweredIsKept, Settlement
<1>9. CASE UNCHANGED jdbcVars
  BY <1>9 DEF jdbcVars, JdbcInv, JdbcTypeOK, RequestOwnsProcess, CancelsNameTheirStream,
              CancelHitsItsStream, ConsoleKeepsPhase, PhaseIsTrue, AnsweredIsKept
<1> QED
  BY <1>1, <1>2, <1>3, <1>4, <1>5, <1>6, <1>r, <1>7, <1>8, <1>9, BridgeAnswersKeeps, EndingKeeps,
     CancellingKeeps DEF JdbcNext

\* A COMMIT that is answered OK ends a transaction whose statements are durable.
LEMMA CommitStep ==
  JdbcInv /\ [JdbcNext]_jdbcVars =>
    [request.kind = "commit" /\ reply = "ok" /\ request' = NoRequest
       => acknowledged \subseteq durable']_jdbcVars
<1> SUFFICES ASSUME JdbcInv, JdbcNext, request.kind = "commit", reply = "ok", request' = NoRequest
             PROVE  durable' = durable /\ acknowledged \subseteq durable
  OBVIOUS
<1>1. acknowledged \subseteq durable
  BY DEF JdbcInv, AnsweredIsKept
<1>2. request # NoRequest
  BY DEF NoRequest
<1>3. ~BridgeAnswers
  BY DEF BridgeAnswers
<1>4. durable' = durable
  BY <1>2, <1>3
     DEF JdbcNext, ConsoleExecutes, PrimaryExecutes, CancelStream, ConsoleContinues, ConsoleRefused,
         ConsoleSettles, ConsoleReads, PrimaryAsks, BridgeDies, Completed, Poisoned, StopSelect,
         AbandonExport, ShutDown,
         WriteCancel, Send, Free, Abort, databaseVars, RollBackLostSession
<1> QED
  BY <1>1, <1>4

(* Every variable of the sidecar has its type, and no process outlives its   *)
(* place in the slot.                                                      *)
THEOREM JdbcTypeCorrect == JdbcSpec => []JdbcTypeOK
<1>1. JdbcInv => JdbcTypeOK
  BY DEF JdbcInv
<1> QED
  BY <1>1, JdbcInvInit, JdbcInvNext, PTL DEF JdbcSpec

(* What drivers/jdbc.rs promises of a manual transaction, however often the  *)
(* bridge process dies, stalls or is replaced and however late a CANCEL is   *)
(* written: a COMMIT that is answered OK kept every answered statement, a    *)
(* cancel hits the stream it names, and nothing is committed by itself       *)
(* unless a COMMIT, a ROLLBACK, a schema selection, an EXPLAIN or an export   *)
(* had lost its process and left the transaction marked as active.           *)
THEOREM TransactionsCorrect == JdbcSpec => TransactionsAreKept
<1>1. JdbcInv => CancelHitsItsStream /\ NoImplicitCommitUnlessUnmarked
  BY DEF JdbcInv, CancelsNameTheirStream, PhaseIsTrue, NoImplicitCommitUnlessUnmarked
<1> QED
  BY <1>1, JdbcInvInit, JdbcInvNext, CommitStep, PTL DEF JdbcSpec, TransactionsAreKept, CommitIsWhole

-----------------------------------------------------------------------------
(* All of them.  A behaviour of the commands moves the table by its methods  *)
(* only, and leaves the parts it does not move alone.                       *)

CommandsInv == ConnectTypeOK /\ QueryInv /\ StreamInv /\ JdbcInv

LEMMA CommandsInvInit == CommandsInit => CommandsInv /\ Init
<1> SUFFICES ASSUME CommandsInit PROVE CommandsInv /\ Init
  OBVIOUS
<1>1. Init /\ ConnectInit /\ BatchInit /\ StreamInit /\ JdbcInit
  BY DEF CommandsInit, ConnectInit
<1>2. ConnectTypeOK /\ StreamInv /\ JdbcInv
  BY <1>1, ConnectTypeInit, StreamInvInit, JdbcInvInit
<1>3. QueryInv
  BY <1>1, TypeInit
     DEF BatchInit, QueryInv, QueryTypeOK, BatchesAreSound, BatchOf, Stages, Reports
<1> QED
  BY <1>1, <1>2, <1>3 DEF CommandsInv

LEMMA EachPartIsItself ==
  ASSUME [CommandsNext]_commandsVars
  PROVE  /\ [StreamNext]_streamVars /\ [JdbcNext]_jdbcVars
         /\ \/ [ConnectNext]_cvars /\ UNCHANGED <<batchVars, cancelVars>>
            \/ QueryCommandsNext /\ UNCHANGED <<savedVars, commandVars>>
BY DEF CommandsNext, commandsVars, cvars

LEMMA CommandsInvNext ==
  CommandsInv /\ [CommandsNext]_commandsVars => CommandsInv' /\ [Next]_vars
<1> SUFFICES ASSUME CommandsInv, [CommandsNext]_commandsVars PROVE CommandsInv' /\ [Next]_vars
  OBVIOUS
<1>1. StreamInv' /\ JdbcInv'
  BY EachPartIsItself, StreamInvNext, JdbcInvNext DEF CommandsInv
<1>2. CASE [ConnectNext]_cvars /\ UNCHANGED <<batchVars, cancelVars>>
  <2>1. TypeOK /\ [Next]_vars
    BY <1>2, ConnectStepUsesTable DEF CommandsInv, QueryInv, QueryTypeOK
  <2>2. TypeOK' /\ ConnectTypeOK'
    BY <1>2, <2>1, TypeNext, ConnectTypeNext DEF CommandsInv
  <2>3. QueryInv'
    BY <1>2, <2>2
       DEF CommandsInv, QueryInv, QueryTypeOK, BatchesAreSound, BatchOf, batchVars, cancelVars
  <2> QED
    BY <1>1, <2>1, <2>2, <2>3 DEF CommandsInv
<1>3. CASE QueryCommandsNext /\ UNCHANGED <<savedVars, commandVars>>
  <2>1. QueryInv' /\ [Next]_vars
    BY <1>3, QueryInvNext, QueryStepUsesTable DEF CommandsInv, QueryInv
  <2>2. ConnectTypeOK'
    BY <1>3 DEF CommandsInv, ConnectTypeOK, savedVars, commandVars
  <2> QED
    BY <1>1, <2>1, <2>2 DEF CommandsInv
<1> QED
  BY <1>2, <1>3, EachPartIsItself

LEMMA CommandsInvAlways == CommandsSpec => []CommandsInv
BY CommandsInvInit, CommandsInvNext, PTL DEF CommandsSpec

(* Connect commands, queries, a stream and the sidecar are well typed with   *)
(* the table under them in every reachable state.                           *)
THEOREM CommandsTypeCorrect == CommandsSpec => []CommandsTypeOK
<1>1. CommandsInv => CommandsTypeOK
  BY StreamInvTypes DEF CommandsInv, QueryInv, JdbcInv, CommandsTypeOK
<1> QED
  BY <1>1, CommandsInvAlways, PTL

(* What the user is told of a statement is what happened to it: cancelled    *)
(* was asked for, done has the first rows within the limits and says whether *)
(* there were more, and a statement that changes data ran to its end.       *)
THEOREM AnswersCorrect == CommandsSpec => []AnswersAreTrue
<1>1. QueryInv => CancelledWasAsked
  BY DEF QueryInv, BatchesAreSound, BatchOf, CancelledWasAsked
<1>2. CommandsInv => AnswersAreTrue
  BY <1>1, StreamInvAnswers DEF CommandsInv, AnswersAreTrue
<1> QED
  BY <1>2, CommandsInvAlways, PTL

(* Connect commands and queries implement the session table, each in its way, *)
(* so a serial session runs one query at a time, retiring reaches those that *)
(* wait, and none starts after it.                                          *)
THEOREM CommandsKeepOrder ==
  CommandsSpec => []OneQueryAtATime /\ []CancellationReachesWaiters /\ NothingStartsAfterRetirement
<1>1. CommandsSpec => Spec
  BY CommandsInvInit, CommandsInvNext, CommandsInvAlways, PTL DEF CommandsSpec, Spec
<1> QED
  BY <1>1, SerialCorrect, CancellationCorrect, StartCorrect

(* The sidecar keeps its promises of a manual transaction when it is one of  *)
(* the commands' parts.                                                     *)
THEOREM CommandsKeepTransactions == CommandsSpec => TransactionsAreKept
<1>1. CommandsInit => JdbcInit
  BY DEF CommandsInit
<1>2. [CommandsNext]_commandsVars => [JdbcNext]_jdbcVars
  BY EachPartIsItself
<1> QED
  BY <1>1, <1>2, TransactionsCorrect, PTL DEF CommandsSpec, JdbcSpec

=============================================================================
