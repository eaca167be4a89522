--------------------------- MODULE QueryCommands ---------------------------
(***************************************************************************)
(* Executing and cancelling queries on the primary session: the commands   *)
(* of commands/query.rs, the batches of services/query_engine.rs and the   *)
(* cancellation of a native driver, over the serial gate of                *)
(* ConnectionManager.                                                      *)
(*                                                                         *)
(* A batch has a cancellation flag under its query id.  A cancel command   *)
(* asks the table twice, sets the flag and has the driver signal the       *)
(* server, which interrupts whatever its session is running when the       *)
(* signal arrives.                                                         *)
(***************************************************************************)
EXTENDS ConnectionManager

CONSTANT MaxStatements   \* bound: statements of one batch

ASSUME StatementsAssumption == MaxStatements \in Nat \ {0}

VARIABLES
  stage,      \* where the execution of each query is
  left,       \* statements its batch has still to finish
  single,     \* queries whose batch is one statement
  requested,  \* queries whose cancellation flag is set
  report,     \* what the batch says of its last statement
  found,      \* cancel commands that hold a driver: connection and query
  signals,    \* signals on their way to the server of a connection
  interrupted,\* queries whose running statement the server has interrupted
  asked       \* history: queries asked to be cancelled during their present statement

batchVars == <<stage, left, single, requested, report, interrupted, asked>>
cancelVars == <<found, signals>>
qvars == <<vars, batchVars, cancelVars>>

BatchInit ==
  /\ stage = [q \in QueryId |-> "outside"]
  /\ left = [q \in QueryId |-> 0]
  /\ report = [q \in QueryId |-> "none"]
  /\ single = {} /\ requested = {} /\ interrupted = {} /\ asked = {}
  /\ found = {} /\ signals = {}

\* No step here reads the second half of the policy.
QueryInit == Init /\ ~idleReclaim /\ BatchInit

-----------------------------------------------------------------------------
(* Executing.  An id names one execution at a time.                        *)

Execute(s, q) ==
  /\ \A l \in registered : l.query # q
  /\ BeginQuery(s, q)
  /\ UNCHANGED <<batchVars, cancelVars>>

QueueStep(l) ==
  /\ AcquirePermit(l) \/ ActivateQueued(l) \/ FailQueued(l)
  /\ UNCHANGED <<batchVars, cancelVars>>

\* The engine splits the text and registers the batch's flag.
EnterBatch(l) ==
  LET q == l.query IN
  /\ Running(l) /\ stage[q] = "outside"
  /\ \E n \in 1..MaxStatements :
       /\ left' = [left EXCEPT ![q] = n]
       /\ single' = IF n = 1 THEN single \cup {q} ELSE single \ {q}
  /\ stage' = [stage EXCEPT ![q] = "between"]
  /\ requested' = requested \ {q}
  /\ UNCHANGED <<vars, report, interrupted, asked, cancelVars>>

\* Mutant: a request is remembered from one statement to the next.
RunStatementRemembering(l) ==
  LET q == l.query IN
  /\ stage[q] = "between" /\ left[q] > 0
  /\ stage' = [stage EXCEPT ![q] = "running"]
  /\ asked' = asked \ {q}
  /\ UNCHANGED <<vars, left, single, requested, report, interrupted, cancelVars>>

\* Each statement starts with the flag down and is known to the driver.
RunStatement(l) ==
  LET q == l.query IN
  /\ stage[q] = "between" /\ left[q] > 0
  /\ stage' = [stage EXCEPT ![q] = "running"]
  /\ requested' = requested \ {q}
  /\ asked' = asked \ {q}
  /\ UNCHANGED <<vars, left, single, report, interrupted, cancelVars>>

StatementSucceeds(l) ==
  LET q == l.query IN
  /\ stage[q] = "running" /\ q \notin interrupted
  /\ stage' = [stage EXCEPT ![q] = "between"]
  /\ left' = [left EXCEPT ![q] = @ - 1]
  /\ report' = [report EXCEPT ![q] = "succeeded"]
  /\ UNCHANGED <<vars, single, requested, interrupted, asked, cancelVars>>

\* The rest of the batch is not executed.  The error of a single statement is
\* the answer itself.
StatementFails(l) ==
  LET q == l.query IN
  /\ stage[q] = "running"
  /\ stage' = [stage EXCEPT ![q] = "between"]
  /\ left' = [left EXCEPT ![q] = 0]
  /\ report' = [report EXCEPT ![q] = IF q \in single THEN "error"
                                     ELSE IF q \in requested THEN "cancelled" ELSE "failed"]
  /\ interrupted' = interrupted \ {q}
  /\ UNCHANGED <<vars, single, requested, asked, cancelVars>>

\* An error that says the session is closed retires it, if it is still there.
RetireStale(l) ==
  /\ stage[l.query] = "between" /\ report[l.query] \in {"error", "failed", "cancelled"}
  /\ InvalidateGeneration(l.source, l.generation)
  /\ UNCHANGED <<batchVars, cancelVars>>

LeaveBatch(q) ==
  /\ stage' = [stage EXCEPT ![q] = "outside"]
  /\ report' = [report EXCEPT ![q] = "none"]
  /\ single' = single \ {q}
  /\ requested' = requested \ {q}
  /\ asked' = asked \ {q}
  /\ UNCHANGED <<left, interrupted, cancelVars>>

\* Mutant: the operation is kept when the batch has failed.
AnswerKeepingFailed(l) ==
  LET q == l.query IN
  /\ Running(l)
  /\ stage[q] = "between" /\ left[q] = 0 /\ report[q] = "succeeded"
  /\ FinishQuery(l)
  /\ LeaveBatch(q)

\* The command answers: after its batch, or because the statement that selects
\* database or schema failed before it.  Flag and operation are dropped.
AnswerQuery(l) ==
  LET q == l.query IN
  /\ Running(l)
  /\ stage[q] = "outside" \/ (stage[q] = "between" /\ left[q] = 0)
  /\ FinishQuery(l)
  /\ LeaveBatch(q)

-----------------------------------------------------------------------------
(* Cancelling.                                                             *)

CancelWaiting(s, q) == CancelQueuedQuery(s, q) /\ UNCHANGED <<batchVars, cancelVars>>

\* Not waiting, as far as the first look at the table went: the second look
\* finds the driver that the source has now.
FindDriver(s, q) ==
  LET r == [source |-> s, generation |-> live[s], query |-> q] IN
  /\ s \in LiveSources
  /\ \E l \in registered \ queued : l.source = s /\ l.query = q
  /\ found = {}   \* bound: one cancel command at a time
  /\ found' = {r}
  /\ UNCHANGED <<vars, batchVars, signals>>

\* The flag is set whatever the driver answers.  The driver signals the server
\* only if it is running a statement of that id.
AskDriver(r) ==
  LET q == r.query
      batch == stage[q] # "outside" IN
  /\ r \in found
  /\ found' = found \ {r}
  /\ requested' = IF batch THEN requested \cup {q} ELSE requested
  /\ asked' = IF batch THEN asked \cup {q} ELSE asked
  /\ signals' = IF r \in registered /\ stage[q] = "running" THEN signals \cup {r} ELSE signals
  /\ UNCHANGED <<vars, stage, left, single, report, interrupted>>

\* The server knows sessions, not queries.
SignalArrives(r) ==
  /\ r \in signals
  /\ signals' = signals \ {r}
  /\ \/ \E l \in registered : /\ SameConnection(l, r) /\ stage[l.query] = "running"
                              /\ interrupted' = interrupted \cup {l.query}
     \/ UNCHANGED interrupted
  /\ UNCHANGED <<vars, stage, left, single, requested, report, found, asked>>

-----------------------------------------------------------------------------
\* Connects and disconnects.
SessionStep(s) ==
  /\ BeginConnect(s) \/ FinishConnectOk(s) \/ Disconnect(s)
  /\ UNCHANGED <<batchVars, cancelVars>>

BatchStep(l) ==
  EnterBatch(l) \/ RunStatement(l) \/ StatementSucceeds(l) \/ StatementFails(l)
  \/ RetireStale(l) \/ AnswerQuery(l)

QueryCommandsNext ==
  \/ \E s \in Source, q \in QueryId : Execute(s, q) \/ CancelWaiting(s, q) \/ FindDriver(s, q)
  \/ \E l \in registered : QueueStep(l) \/ BatchStep(l)
  \/ \E r \in found : AskDriver(r)
  \/ \E r \in signals : SignalArrives(r)
  \/ \E s \in Source : SessionStep(s)

QuerySpec == QueryInit /\ [][QueryCommandsNext]_qvars

\* A statement that runs comes to an end, a task that can run does, and the
\* gate, a semaphore that serves in order, passes over no waiter for ever.
FairQuerySpec ==
  /\ QuerySpec
  /\ \A q \in QueryId :
       /\ WF_qvars(\E l \in registered : l.query = q /\ (RunStatement(l) \/ StatementFails(l)
                                                           \/ AnswerQuery(l)))
       /\ SF_qvars(\E l \in registered : l.query = q /\ QueueStep(l))

-----------------------------------------------------------------------------
(* Properties.                                                             *)

QueryTypeOK ==
  /\ TypeOK
  /\ stage \in [QueryId -> {"outside", "between", "running"}]
  /\ left \in [QueryId -> 0..MaxStatements]
  /\ report \in [QueryId -> {"none", "succeeded", "error", "failed", "cancelled"}]
  /\ single \cup requested \cup interrupted \cup asked \subseteq QueryId
  /\ found \cup signals \subseteq Lease

(* A statement is reported as cancelled only if its own cancellation was    *)
(* asked for while it ran: a request that came too late for one statement   *)
(* is not held against the next, however that one fails.                    *)
CancelledWasAsked == \A q \in QueryId : report[q] = "cancelled" => q \in asked

(* Every query that waits for the gate is answered or starts, whatever is   *)
(* cancelled, fails or is retired before it: no end of a batch keeps the    *)
(* gate.                                                                    *)
EveryWaiterIsServed ==
  \A q \in QueryId : (\E l \in queued : l.query = q) ~> (\A l \in queued : l.query # q)
=============================================================================
