---------------------------- MODULE JdbcSidecar ----------------------------
(***************************************************************************)
(* The JDBC driver of drivers/jdbc.rs: one Java bridge process at a time,   *)
(* spawned on demand, that owns the one database connection of a session.  *)
(* One request at a time owns the process's output (request_lock), so the   *)
(* callers that wait for it are left open; cancelling alone goes past the  *)
(* lock.  A process that stalls, dies or breaks the protocol is killed and *)
(* the next request gets a fresh one, with a fresh database connection.    *)
(*                                                                         *)
(* The session is either a SQL Console's, with manual transactions and the *)
(* phase that commands/query.rs keeps for it, or the shared primary one.    *)
(* A statement stands for its text, its effect and the id of its query.     *)
(***************************************************************************)
EXTENDS Integers, FiniteSets

CONSTANTS
  Statement,
  Selects,       \* the statements whose first word is SELECT
  NoStatement,
  MaxProcess,    \* bound: bridge processes spawned in one behaviour
  MaxRequestId   \* bound: requests sent to one process

ASSUME StatementAssumption == Selects \subseteq Statement /\ NoStatement \notin Statement
ASSUME SidecarBoundAssumption == MaxProcess \in Nat \ {0} /\ MaxRequestId \in Nat

NoProcess == 0
Process == 1..MaxProcess
Settlement == {"commit", "rollback"}
RequestKind ==
  Settlement \cup {"begin", "stream", "context", "explain", "export", "ping", "metadata"}
Reply == {"none", "ok", "limit", "error"}

NoRequest == [kind |-> "none", statement |-> NoStatement, process |-> NoProcess, id |-> 0]
NoStream == [statement |-> NoStatement, process |-> NoProcess, id |-> 0]

VARIABLES
  manual,       \* whether the session is a console's
  process,      \* the process in the slot, or NoProcess
  spawned,      \* how many have been spawned
  alive,        \* processes the operating system still runs
  nextRequestId,
  sessionLost, sidecarClosed,
  request,      \* the request that holds request_lock
  reply,        \* what the bridge has answered to it
  activeStream,
  cancelWrites, \* streams cancel_stream has looked up and not yet written to
  autocommit, uncommitted, durable,  \* the database's side of the connection
  consolePhase,
  due,          \* the statement to go on with once its context or BEGIN is answered
  unexecuted,   \* statements nobody has executed yet
  acknowledged, \* history: statements answered since the transaction began
  struck,       \* history: <<the stream to be cancelled, the stream it hit>>
  implicit,     \* history: console statements made durable without a COMMIT
  unread,       \* processes with an answer that was abandoned, and not read
  unmarked      \* history: a request other than a statement has lost its process, and the
                \* transaction it was in is still taken to be active

processVars == <<process, spawned, alive, nextRequestId>>
databaseVars == <<autocommit, uncommitted, durable, implicit>>
requestVars == <<request, reply, unread>>
consoleSideVars == <<consolePhase, due, unexecuted, acknowledged, unmarked>>
jdbcVars == <<manual, processVars, sessionLost, sidecarClosed, requestVars, activeStream,
              cancelWrites, struck, databaseVars, consoleSideVars>>

JdbcInit ==
  /\ manual \in BOOLEAN
  /\ process = 1 /\ spawned = 1 /\ alive = {1} /\ nextRequestId = 1
  /\ sessionLost = FALSE /\ sidecarClosed = FALSE
  /\ request = NoRequest /\ reply = "none" /\ unread = {}
  /\ activeStream = NoStream /\ cancelWrites = {} /\ struck = {}
  /\ autocommit = TRUE /\ uncommitted = {} /\ durable = {} /\ implicit = {}
  /\ consolePhase = "idle" /\ due = NoStatement
  /\ unexecuted = Statement /\ acknowledged = {} /\ unmarked = FALSE

-----------------------------------------------------------------------------
(* Issuing a request.                                                      *)

\* A fresh process that has answered INIT has a fresh database connection.
Spawn(p) ==
  /\ process = NoProcess
  /\ spawned < MaxProcess
  /\ p = spawned + 1
  /\ process' = p /\ spawned' = p /\ alive' = alive \cup {p}
  /\ nextRequestId' = 2
  /\ autocommit' = TRUE /\ uncommitted' = {}

\* process(): the process in the slot, or a fresh one.
Obtain(p, id) ==
  \/ /\ process # NoProcess
     /\ p = process /\ id = nextRequestId
     /\ id <= MaxRequestId
     /\ nextRequestId' = id + 1
     /\ UNCHANGED <<process, spawned, alive, autocommit, uncommitted>>
  \/ Spawn(p) /\ id = 1

\* Mutant: nothing is known of the session that was lost.
AcceptsForgetful(kind) == ~sidecarClosed

Accepts(kind) == ~sidecarClosed /\ ~(kind = "commit" /\ sessionLost)

Send(kind, w) ==
  /\ request = NoRequest
  /\ Accepts(kind)
  /\ \E p \in Process, id \in 1..MaxRequestId :
       /\ Obtain(p, id)
       /\ request' = [kind |-> kind, statement |-> w, process |-> p, id |-> id]
       /\ activeStream' = IF kind = "stream" THEN [statement |-> w, process |-> p, id |-> id]
                          ELSE activeStream
  /\ reply' = "none"
  /\ UNCHANGED <<manual, sessionLost, sidecarClosed, cancelWrites, struck, durable, implicit,
                 unread>>

\* A rollback of a session that was lost has nothing to undo, but waits for a
\* process all the same.
RollBackLostSession ==
  /\ request = NoRequest
  /\ ~sidecarClosed /\ sessionLost
  /\ \E p \in Process, id \in 1..MaxRequestId : Obtain(p, id)
  /\ sessionLost' = FALSE
  /\ consolePhase' = "idle" /\ acknowledged' = {}
  /\ UNCHANGED <<manual, sidecarClosed, requestVars, activeStream, cancelWrites, struck,
                 durable, implicit, due, unexecuted, unmarked>>

-----------------------------------------------------------------------------
(* The bridge and the database.                                            *)

Succeeds ==
  LET w == request.statement IN
  CASE request.kind = "begin" ->
         autocommit' = FALSE /\ UNCHANGED <<uncommitted, durable, implicit>>
    [] request.kind = "commit" ->
         durable' = durable \cup uncommitted /\ uncommitted' = {} /\ UNCHANGED <<autocommit, implicit>>
    [] request.kind = "rollback" ->
         uncommitted' = {} /\ UNCHANGED <<autocommit, durable, implicit>>
    [] request.kind = "stream" /\ autocommit ->
         /\ durable' = durable \cup {w}
         /\ implicit' = IF manual THEN implicit \cup {w} ELSE implicit
         /\ UNCHANGED <<autocommit, uncommitted>>
    [] request.kind = "stream" /\ ~autocommit ->
         uncommitted' = uncommitted \cup {w} /\ UNCHANGED <<autocommit, durable, implicit>>
    [] OTHER -> UNCHANGED databaseVars

\* A result beyond the interactive limits is an error of the result only.
BridgeAnswers ==
  /\ request # NoRequest /\ reply = "none"
  /\ request.process \in alive
  /\ \/ Succeeds /\ reply' \in {"ok"} \cup (IF request.kind = "stream" THEN {"limit"} ELSE {})
     \/ reply' = "error" /\ UNCHANGED databaseVars
  /\ UNCHANGED <<manual, processVars, sessionLost, sidecarClosed, request, unread, activeStream,
                 cancelWrites, struck, consoleSideVars>>

\* The operating system, a crash or an administrator ends the process; the
\* database rolls back what its connection had open.
BridgeDies ==
  /\ process \in alive
  /\ alive' = alive \ {process}
  /\ uncommitted' = {}
  /\ UNCHANGED <<manual, process, spawned, nextRequestId, sessionLost, sidecarClosed, requestVars,
                 activeStream, cancelWrites, struck, autocommit, durable, implicit, consoleSideVars>>

-----------------------------------------------------------------------------
(* The end of a request.                                                   *)

\* Mutant: a statement that lost its process leaves the transaction active.
PhasesAfterReplyOnly(result) ==
  CASE request.kind = "begin" /\ result = "ok" -> {"active"}
    [] request.kind \in Settlement /\ result = "ok" -> {"idle"}
    [] request.kind = "stream" /\ result = "error" /\ manual -> {"failed"}
    [] request.kind \in {"explain", "export"} /\ consolePhase = "active" -> {"active", "failed"}
    [] OTHER -> {consolePhase}

\* What the console's command makes of its request.  An error in settling the
\* transaction or in selecting the schema leaves the phase as it was.  An EXPLAIN
\* or an export that fails marks it, but not for what comes after the plan was
\* read, nor when the export is cancelled or its file cannot be written.
PhasesAfter(result) ==
  CASE request.kind = "begin" /\ result = "ok" -> {"active"}
    [] request.kind \in Settlement /\ result = "ok" -> {"idle"}
    [] request.kind = "stream" /\ result \in {"error", "lost"} /\ manual -> {"failed"}
    [] request.kind \in {"explain", "export"} /\ consolePhase = "active" -> {"active", "failed"}
    [] OTHER -> {consolePhase}

Conclude(result) ==
  /\ request' = NoRequest /\ reply' = "none"
  /\ activeStream' = NoStream
  /\ consolePhase' \in PhasesAfter(result)
  /\ due' = IF request.kind \in {"context", "begin"} /\ result = "ok" THEN request.statement
            ELSE NoStatement
  /\ acknowledged' =
       CASE result = "ok" /\ request.kind = "stream" -> acknowledged \cup {request.statement}
         [] result = "ok" /\ request.kind \in Settlement \cup {"begin"} -> {}
         [] OTHER -> acknowledged
  /\ unmarked' = (unmarked \/ (/\ result = "lost" /\ request.kind # "stream"
                               /\ consolePhase' = "active"))
  /\ UNCHANGED <<manual, sidecarClosed, cancelWrites, struck, unexecuted, unread>>

\* An answer is taken for this request's only when the one before it was read.
Completed ==
  /\ reply # "none" /\ request.process \notin unread
  /\ sessionLost' = IF reply = "ok" /\ request.kind \in {"begin", "rollback"} THEN FALSE
                    ELSE sessionLost
  /\ Conclude(reply)
  /\ UNCHANGED <<processVars, databaseVars>>

\* abort_process: the slot is emptied before the process is killed and reaped.
Abort ==
  /\ process' = IF process = request.process THEN NoProcess ELSE process
  /\ alive' = alive \ {request.process}
  /\ sessionLost' = TRUE
  /\ uncommitted' = {}
  /\ UNCHANGED <<spawned, nextRequestId, autocommit, durable, implicit>>

\* No answer in time, end of output or a frame that is not this request's; the
\* bridge may have done the work all the same.
Poisoned == request # NoRequest /\ Abort /\ Conclude("lost")

\* The consumer has had enough: a read outside a transaction is cut short and
\* counts as answered.
StopSelect ==
  /\ request.kind = "stream" /\ ~manual
  /\ request.statement \in Selects
  /\ Abort
  /\ Conclude("ok")

\* The export gives its worker up in the middle of the stream, whose rest stays
\* in the pipe.
AbandonExport ==
  /\ request.kind = "export"
  /\ request' = NoRequest /\ reply' = "none"
  /\ unread' = unread \cup {request.process}
  /\ UNCHANGED <<manual, processVars, sessionLost, sidecarClosed, activeStream, cancelWrites,
                 struck, databaseVars, consoleSideVars>>

\* shutdown(), by cancel_all_queries or with the driver's last owner; it waits
\* for the request in flight.
ShutDown ==
  /\ request = NoRequest /\ ~sidecarClosed
  /\ sidecarClosed' = TRUE
  /\ process' = NoProcess /\ alive' = alive \ {process}
  /\ uncommitted' = {}
  /\ UNCHANGED <<manual, spawned, nextRequestId, sessionLost, requestVars, activeStream,
                 cancelWrites, struck, autocommit, durable, implicit, consoleSideVars>>

-----------------------------------------------------------------------------
(* Cancelling goes past request_lock: the stream is looked up, and CANCEL    *)
(* with its request id is written to its process some time later.          *)

CancelStream(w) ==
  /\ activeStream # NoStream /\ activeStream.statement = w
  /\ cancelWrites' = cancelWrites \cup {activeStream}
  /\ UNCHANGED <<manual, processVars, sessionLost, sidecarClosed, requestVars, activeStream,
                 struck, databaseVars, consoleSideVars>>

\* Mutant: the id is written to the process that is in the slot by then.
ReachesById(c) == process \in alive /\ request.id = c.id

Reaches(c) == c.process \in alive /\ request.process = c.process /\ request.id = c.id

\* The bridge interrupts a statement that is still running, if it can.
WriteCancel(c) ==
  /\ c \in cancelWrites
  /\ cancelWrites' = cancelWrites \ {c}
  /\ \/ /\ Reaches(c) /\ reply = "none"
        /\ reply' = "error"
        /\ struck' = struck \cup {<<c.statement, request.statement>>}
     \/ UNCHANGED <<reply, struck>>
  /\ UNCHANGED <<manual, processVars, sessionLost, sidecarClosed, request, unread, activeStream,
                 databaseVars, consoleSideVars>>

-----------------------------------------------------------------------------
(* What the commands ask of the driver.                                    *)

Free == request = NoRequest /\ due = NoStatement

\* Executing in a console whose transaction has not failed: the schema is
\* selected, where the product has such a statement, the transaction begun, and
\* the statement sent.
NextRequest == IF consolePhase = "idle" THEN "begin" ELSE "stream"
Sent(w) == IF NextRequest = "stream" THEN unexecuted \ {w} ELSE unexecuted

ConsoleExecutes(w) ==
  /\ manual /\ Free /\ w \in unexecuted
  /\ consolePhase # "failed"
  /\ \/ Send("context", w) /\ UNCHANGED unexecuted
     \/ Send(NextRequest, w) /\ unexecuted' = Sent(w)
  /\ UNCHANGED <<consolePhase, due, acknowledged, unmarked>>

ConsoleContinues ==
  /\ due # NoStatement
  /\ Send(NextRequest, due)
  /\ due' = NoStatement /\ unexecuted' = Sent(due)
  /\ UNCHANGED <<consolePhase, acknowledged, unmarked>>

\* EXPLAIN, in any phase but a failed one, and the export of a query, in a
\* transaction that is active; one request stands for all that each of them sends.
ConsoleReads(kind) ==
  /\ manual /\ Free
  /\ consolePhase = "active" \/ (kind = "explain" /\ consolePhase = "idle")
  /\ Send(kind, NoStatement)
  /\ UNCHANGED consoleSideVars

\* A statement that gets no process fails the transaction it belongs to.
ConsoleRefused ==
  /\ manual /\ request = NoRequest
  /\ due # NoStatement \/ consolePhase = "active"
  /\ sidecarClosed \/ process = NoProcess
  /\ due' = NoStatement
  /\ consolePhase' = IF consolePhase = "active" THEN "failed" ELSE consolePhase
  /\ UNCHANGED <<manual, processVars, sessionLost, sidecarClosed, requestVars, activeStream,
                 cancelWrites, struck, databaseVars, unexecuted, acknowledged, unmarked>>

\* Commit and rollback are asked for in any phase.
ConsoleSettles(kind) ==
  /\ manual /\ Free
  /\ \/ /\ ~(kind = "rollback" /\ sessionLost)
        /\ Send(kind, NoStatement)
        /\ UNCHANGED consoleSideVars
     \/ kind = "rollback" /\ RollBackLostSession

\* The primary session's queries, and its pings, metadata and schema selections.
PrimaryExecutes(w) ==
  /\ ~manual /\ w \in unexecuted
  /\ Send("stream", w)
  /\ unexecuted' = unexecuted \ {w}
  /\ UNCHANGED <<consolePhase, due, acknowledged, unmarked>>

PrimaryAsks(kind) ==
  /\ ~manual
  /\ Send(kind, NoStatement)
  /\ UNCHANGED consoleSideVars

JdbcNext ==
  \/ \E w \in Statement : ConsoleExecutes(w) \/ PrimaryExecutes(w) \/ CancelStream(w)
  \/ ConsoleContinues \/ ConsoleRefused
  \/ \E kind \in Settlement : ConsoleSettles(kind)
  \/ \E kind \in {"explain", "export"} : ConsoleReads(kind)
  \/ \E kind \in {"ping", "metadata", "context"} : PrimaryAsks(kind)
  \/ BridgeAnswers \/ BridgeDies
  \/ Completed \/ Poisoned \/ StopSelect \/ AbandonExport \/ ShutDown
  \/ \E c \in cancelWrites : WriteCancel(c)

JdbcSpec == JdbcInit /\ [][JdbcNext]_jdbcVars

-----------------------------------------------------------------------------
(* Properties.                                                             *)

Stream == [statement : Statement, process : Process, id : 1..MaxRequestId]

(* Every variable has its type, and no process outlives its place in the    *)
(* slot: whatever is retired is also killed.                               *)
JdbcTypeOK ==
  /\ manual \in BOOLEAN /\ sessionLost \in BOOLEAN /\ sidecarClosed \in BOOLEAN
  /\ process \in Process \cup {NoProcess}
  /\ spawned \in 0..MaxProcess
  /\ alive \subseteq {process} \cap Process
  /\ nextRequestId \in 1..(MaxRequestId + 1)
  /\ request \in [kind : RequestKind, statement : Statement \cup {NoStatement},
                  process : Process, id : 1..MaxRequestId] \cup {NoRequest}
  /\ reply \in Reply /\ unread \subseteq Process
  /\ activeStream \in Stream \cup {NoStream}
  /\ cancelWrites \subseteq Stream
  /\ struck \subseteq Statement \X (Statement \cup {NoStatement})
  /\ autocommit \in BOOLEAN
  /\ uncommitted \subseteq Statement /\ durable \subseteq Statement
  /\ implicit \subseteq Statement /\ unexecuted \subseteq Statement
  /\ acknowledged \subseteq Statement
  /\ consolePhase \in {"idle", "active", "failed"}
  /\ due \in Statement \cup {NoStatement}
  /\ unmarked \in BOOLEAN

(* A COMMIT that is answered OK has kept everything: no statement that was  *)
(* answered since the transaction began was lost with an earlier process.   *)
CommitIsWhole ==
  [][(request.kind = "commit" /\ reply = "ok" /\ request' = NoRequest)
       => acknowledged \subseteq durable']_jdbcVars

(* A cancellation interrupts the query it was meant for or none: request    *)
(* ids start again with every process, and the CANCEL is written when the   *)
(* stream it names may have ended and another process have taken over.      *)
CancelHitsItsStream == \A hit \in struck : hit[1] = hit[2]

(* In a console with manual transactions nothing becomes durable but by a   *)
(* COMMIT: losing the bridge process does not let later statements run in   *)
(* a connection that commits each by itself.                               *)
NoImplicitCommit == implicit = {}

(* The same as long as no COMMIT, ROLLBACK, schema selection, EXPLAIN or      *)
(* export has lost its process and left the transaction marked as active:   *)
(* the phase those leave behind is the only way to an implicit commit.       *)
NoImplicitCommitUnlessUnmarked == implicit # {} => unmarked

(* What the sidecar promises of a manual transaction, together.             *)
TransactionsAreKept ==
  CommitIsWhole /\ [](CancelHitsItsStream /\ NoImplicitCommitUnlessUnmarked)
=============================================================================
