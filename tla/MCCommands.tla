----------------------------- MODULE MCCommands -----------------------------
(* Finite instances of the commands on one Data Source: connecting it,       *)
(* executing and cancelling queries on its primary session, the result of    *)
(* one of them, and the sidecar process of a JDBC session.  A behaviour moves *)
(* one of the four, its focus, so that the instances are explored one after   *)
(* the other and not their product; connects and queries do so over the same  *)
(* session table.                                                            *)
EXTENDS ConnectCommands, QueryCommands, QueryStream, JdbcSidecar

VARIABLE focus

On(part) == focus = part
commandsVars == <<focus, cvars, batchVars, cancelVars, streamVars, jdbcVars>>

\* What a part chooses at the start is chosen for the focus only.
CommandsInit ==
  /\ focus \in {"connects", "queries", "stream", "sidecar"}
  /\ ConnectInit /\ (~On("connects") => ~idleReclaim)
  /\ BatchInit
  /\ StreamInit /\ (~On("stream") => sizes = <<>> /\ setting = CHOOSE r \in Settings : TRUE)
  /\ JdbcInit /\ (~On("sidecar") => manual)

CommandsNext ==
  /\ UNCHANGED focus
  /\ \/ /\ On("connects") /\ ConnectNext
        /\ Cardinality(registered') <= 2   \* bound: queries that occupy the session
        /\ UNCHANGED <<batchVars, cancelVars, streamVars, jdbcVars>>
     \/ /\ On("queries") /\ QueryCommandsNext
        /\ UNCHANGED <<savedVars, commandVars, streamVars, jdbcVars>>
     \/ /\ On("stream") /\ StreamNext
        /\ UNCHANGED <<cvars, batchVars, cancelVars, jdbcVars>>
     \/ /\ On("sidecar") /\ JdbcNext
        /\ UNCHANGED <<cvars, batchVars, cancelVars, streamVars>>

\* The fairness of FairConnectSpec, FairQuerySpec and StreamSpec.  A stream can move in its
\* first state, so its fairness is asked of the behaviours that move it.  While connects move,
\* the queries that occupy the session also end.
CommandsFairness ==
  /\ \A a \in Attempt : WF_cvars(AttemptStep(a)) /\ SF_cvars(EnterGate(a))
  /\ \A q \in QueryId :
       /\ WF_qvars(\E l \in registered : l.query = q /\ (RunStatement(l) \/ StatementFails(l)
                                                           \/ AnswerQuery(l)))
       /\ SF_qvars(\E l \in registered : l.query = q /\ QueueStep(l))
  /\ WF_streamVars(On("stream") /\ StreamNext)

CommandsSpec == CommandsInit /\ [][CommandsNext]_commandsVars /\ CommandsFairness

(* Every variable of the commands, of the table under them, of the stream   *)
(* and of the sidecar has its type.                                         *)
CommandsTypeOK == ConnectTypeOK /\ QueryTypeOK /\ StreamTypeOK /\ JdbcTypeOK

(* What the user is told of a statement is what happened to it: a report of *)
(* a batch that says cancelled, and the end of a result (see the modules).  *)
AnswersAreTrue == CancelledWasAsked /\ StreamIsTrue /\ StatementRunsWhole

(* Who asks is answered: connect commands, queries that wait for the gate   *)
(* of their connection, and streams (see their modules).                    *)
EveryCommandIsAnswered == EveryConnectIsAnswered /\ EveryWaiterIsServed /\ EveryStreamEnds
=============================================================================
