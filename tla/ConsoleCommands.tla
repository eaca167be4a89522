-------------------------- MODULE ConsoleCommands --------------------------
(***************************************************************************)
(* The SQL Console commands of commands/query.rs in manual mode: execute,  *)
(* explain, commit, rollback and the switch of the transaction mode, over  *)
(* the session table of ConnectionManager and beside what the database     *)
(* session behind each console really holds.                               *)
(*                                                                         *)
(* A command keeps the physical session it was admitted to, but reports    *)
(* its outcome by the console's id; between the two the Data Source may be *)
(* retired and connected again.                                            *)
(***************************************************************************)
EXTENDS ConnectionManager

CONSTANT Command   \* console commands that may be running

Kind == {"execute", "explain", "commit", "rollback", "manual"}
Transaction == {"none", "open", "aborted"}
Unadmitted == NoGeneration

VARIABLES
  txn,       \* what the database session of each console really holds
  pc,        \* where each command is
  kind,      \* what it was asked to do
  session,   \* the console session it works on
  snapshot,  \* the phase it read when admitted
  misreported \* history: sessions whose phase another session's command wrote

commandVars == <<pc, kind, session, snapshot>>
cvars == <<vars, txn, misreported, commandVars>>

SessionId == [source : Source, generation : Generation \cup {Unadmitted}, console : Console]

ConsoleInit ==
  /\ Init
  /\ txn = [k \in Occupancy |-> "none"]
  /\ pc = [c \in Command |-> "idle"]
  /\ kind \in [Command -> {"execute"}]
  /\ session \in [Command -> {k \in SessionId : k.generation = Unadmitted}]
  /\ snapshot = [c \in Command |-> "idle"]
  /\ misreported = {}

Present(s, con) == s \in LiveSources /\ consoles[s][con] # "absent"

Current(s, con) == [source |-> s, generation |-> live[s], console |-> con]

Goto(c, label) ==
  /\ pc' = [pc EXCEPT ![c] = label]
  /\ UNCHANGED <<kind, session, snapshot, misreported>>

-----------------------------------------------------------------------------
(* Finding or opening the console's session.                               *)

\* Executing and switching to manual mode open a session the console lacks;
\* the other commands never recreate one, since its transaction is lost.
Start(c, todo, s, con) ==
  /\ pc[c] = "idle"
  /\ todo = "manual" => ~Present(s, con)
  /\ pc' = [pc EXCEPT ![c] = IF todo \in {"execute", "manual"} /\ ~Present(s, con)
                             THEN "opening" ELSE "starting"]
  /\ kind' = [kind EXCEPT ![c] = todo]
  /\ session' = [session EXCEPT ![c] =
                   [source |-> s, generation |-> Unadmitted, console |-> con]]
  /\ UNCHANGED <<vars, txn, snapshot, misreported>>

\* The driver was opened without any lock.  Another command may have installed
\* a session meanwhile, in which case the new driver is dropped.
SessionOpened(c) ==
  LET s == session[c].source
      con == session[c].console IN
  /\ pc[c] = "opening"
  /\ s \in LiveSources
  /\ \/ /\ InstallConsoleSession(s, con)
        /\ txn' = [txn EXCEPT ![Current(s, con)] = "none"]
     \/ Present(s, con) /\ UNCHANGED <<vars, txn>>
  /\ Goto(c, IF kind[c] = "manual" THEN "idle" ELSE "starting")

\* The driver cannot be opened, or the source has no connection any more.
SessionRefused(c) ==
  /\ pc[c] = "opening"
  /\ Goto(c, "idle")
  /\ UNCHANGED <<vars, txn>>

\* Mutant: the status of the source is taken for the phase of the console.
AdmittedReadingStatus(c) ==
  LET s == session[c].source
      con == session[c].console IN
  /\ pc[c] = "starting"
  /\ BeginConsoleOperation(s, con)
  /\ session' = [session EXCEPT ![c] = Current(s, con)]
  /\ snapshot' = [snapshot EXCEPT ![c] = status[s]]
  /\ pc' = [pc EXCEPT ![c] = "admitted"]
  /\ UNCHANGED <<txn, kind, misreported>>

Admitted(c) ==
  LET s == session[c].source
      con == session[c].console IN
  /\ pc[c] = "starting"
  /\ BeginConsoleOperation(s, con)
  /\ session' = [session EXCEPT ![c] = Current(s, con)]
  /\ snapshot' = [snapshot EXCEPT ![c] = consoles[s][con]]
  /\ pc' = [pc EXCEPT ![c] = "admitted"]
  /\ UNCHANGED <<txn, kind, misreported>>

\* No connection, no session, or another operation occupies the console.
NotAdmitted(c) ==
  LET s == session[c].source
      con == session[c].console IN
  /\ pc[c] = "starting"
  /\ Present(s, con) => Current(s, con) \in consoleHeld
  /\ Goto(c, "idle")
  /\ UNCHANGED <<vars, txn>>

-----------------------------------------------------------------------------
(* Working on the session.                                                 *)

SetTransaction(c, state) == txn' = [txn EXCEPT ![session[c]] = state]

\* A failed transaction accepts nothing but its settlement.
RefuseFailed(c) ==
  /\ pc[c] = "admitted"
  /\ kind[c] \in {"execute", "explain"}
  /\ snapshot[c] = "failed"
  /\ Goto(c, "ending")
  /\ UNCHANGED <<vars, txn>>

\* The statement that selects database or schema fails.
ContextFails(c) ==
  /\ pc[c] = "admitted"
  /\ kind[c] \in {"execute", "explain"}
  /\ snapshot[c] # "failed"
  /\ Goto(c, IF kind[c] = "explain" /\ snapshot[c] = "active" THEN "failing" ELSE "ending")
  /\ UNCHANGED <<vars, txn>>

\* Mutant: the statements run before the phase is marked active.
BeginTransactionUnmarked(c) ==
  /\ pc[c] = "admitted"
  /\ kind[c] = "execute"
  /\ snapshot[c] = "idle"
  /\ SetTransaction(c, "open")
  /\ Goto(c, "executing")
  /\ UNCHANGED vars

\* Mutant: a failed transaction is begun again.
BeginTransactionAgain(c) ==
  /\ pc[c] = "admitted"
  /\ kind[c] = "execute"
  /\ snapshot[c] # "active"
  /\ SetTransaction(c, "open")
  /\ Goto(c, "began")
  /\ UNCHANGED vars

\* The first execution opens the transaction; a failure leaves none.
BeginTransaction(c) ==
  /\ pc[c] = "admitted"
  /\ kind[c] = "execute"
  /\ snapshot[c] = "idle"
  /\ \/ SetTransaction(c, "open") /\ Goto(c, "began")
     \/ UNCHANGED txn /\ Goto(c, "ending")
  /\ UNCHANGED vars

\* Mutant: a phase is written although the console has no session.
WritePhaseUnchecked(c, phase) ==
  /\ consoles' = [consoles EXCEPT ![session[c].source][session[c].console] = phase]
  /\ UNCHANGED <<sessionVars, older, policyVars, queryVars, consoleHeld>>

\* The phase is written to whatever session the console has now, if any.
WritePhase(c, phase) ==
  LET s == session[c].source
      con == session[c].console IN
  IF Present(s, con) THEN SetConsolePhase(s, con, phase) ELSE UNCHANGED vars

Report(c, phase, label) ==
  LET k == Current(session[c].source, session[c].console) IN
  /\ WritePhase(c, phase)
  /\ misreported' = misreported \cup
                      (IF Present(k.source, k.console) /\ k # session[c] THEN {k} ELSE {})
  /\ pc' = [pc EXCEPT ![c] = label]
  /\ UNCHANGED <<txn, kind, session, snapshot>>

MarkActive(c) == pc[c] = "began" /\ Report(c, "active", "executing")

\* The statements run.  They may settle the transaction themselves; an error
\* may or may not be one that affects the transaction.
Execute(c) ==
  /\ kind[c] = "execute"
  /\ pc[c] = "executing" \/ (pc[c] = "admitted" /\ snapshot[c] = "active")
  /\ \/ UNCHANGED txn /\ Goto(c, "ending")
     \/ SetTransaction(c, "none") /\ Goto(c, "ending")
     \/ /\ IF txn[session[c]] = "open" THEN SetTransaction(c, "aborted") ELSE UNCHANGED txn
        /\ Goto(c, "failing")
  /\ UNCHANGED vars

Explain(c) ==
  /\ kind[c] = "explain"
  /\ pc[c] = "admitted"
  /\ snapshot[c] # "failed"
  /\ \/ UNCHANGED txn /\ Goto(c, "ending")
     \/ /\ IF txn[session[c]] = "open" THEN SetTransaction(c, "aborted") ELSE UNCHANGED txn
        /\ Goto(c, IF snapshot[c] = "active" THEN "failing" ELSE "ending")
  /\ UNCHANGED vars

MarkFailed(c) == pc[c] = "failing" /\ Report(c, "failed", "ending")

\* Commit or rollback.  When the driver reports an error the phase stays and
\* the transaction may or may not have ended.
Settle(c) ==
  /\ kind[c] \in {"commit", "rollback"}
  /\ pc[c] = "admitted"
  /\ \/ SetTransaction(c, "none") /\ Goto(c, "settled")
     \/ SetTransaction(c, "none") /\ Goto(c, "ending")
     \/ UNCHANGED txn /\ Goto(c, "ending")
  /\ UNCHANGED vars

MarkIdle(c) == pc[c] = "settled" /\ Report(c, "idle", "ending")

\* Mutant: the gate of the session the console has now is released.
EndByName(c) ==
  LET k == Current(session[c].source, session[c].console) IN
  /\ pc[c] = "ending"
  /\ IF k \in consoleHeld THEN EndConsoleOperation(k) ELSE UNCHANGED vars
  /\ pc' = [pc EXCEPT ![c] = "idle"]
  /\ session' = [session EXCEPT ![c].generation = Unadmitted]
  /\ snapshot' = [snapshot EXCEPT ![c] = "idle"]
  /\ UNCHANGED <<txn, kind, misreported>>

End(c) ==
  /\ pc[c] = "ending"
  /\ EndConsoleOperation(session[c])
  /\ pc' = [pc EXCEPT ![c] = "idle"]
  /\ session' = [session EXCEPT ![c].generation = Unadmitted]
  /\ snapshot' = [snapshot EXCEPT ![c] = "idle"]
  /\ UNCHANGED <<txn, kind, misreported>>

\* Switching to automatic mode closes the session, ending what it held.
SwitchToAuto(s, con) ==
  /\ RemoveConsoleSession(s, con)
  /\ txn' = [txn EXCEPT ![Current(s, con)] = "none"]
  /\ UNCHANGED <<misreported, commandVars>>

-----------------------------------------------------------------------------
(* What the rest of the application does to the Data Source meanwhile.  A   *)
(* session is retired as closed by a connect command whose ping failed and  *)
(* that passed preflight, or by a query on the primary session.             *)

SourceStep ==
  /\ \/ \E s \in Source :
          \/ BeginConnect(s)
          \/ FinishConnectOk(s)
          \/ Disconnect(s)
          \/ PreflightConfigurationChange(s) /\ InvalidateGeneration(s, live[s])
     \/ \E S \in SUBSET Source : ReclaimIdle(S)
     \/ QueryNext
     \/ \E l \in registered \ queued : InvalidateGeneration(l.source, l.generation)
  /\ UNCHANGED <<txn, misreported, commandVars>>

CommandStep(c) ==
  \/ SessionOpened(c) \/ SessionRefused(c) \/ Admitted(c) \/ NotAdmitted(c)
  \/ RefuseFailed(c) \/ ContextFails(c) \/ BeginTransaction(c) \/ MarkActive(c)
  \/ Execute(c) \/ Explain(c) \/ MarkFailed(c) \/ Settle(c) \/ MarkIdle(c) \/ End(c)

ConsoleCommandsNext ==
  \/ \E c \in Command :
       \/ \E todo \in Kind, s \in Source, con \in Console : Start(c, todo, s, con)
       \/ CommandStep(c)
  \/ \E s \in Source, con \in Console : SwitchToAuto(s, con)
  \/ SourceStep

ConsoleSpec == ConsoleInit /\ [][ConsoleCommandsNext]_cvars

-----------------------------------------------------------------------------
(* Properties.                                                             *)

ConsoleTypeOK ==
  /\ txn \in [Occupancy -> Transaction]
  /\ pc \in [Command -> {"idle", "opening", "starting", "admitted", "began", "executing",
                         "failing", "settled", "ending"}]
  /\ kind \in [Command -> Kind]
  /\ session \in [Command -> SessionId]
  /\ snapshot \in [Command -> Phase]
  /\ misreported \subseteq Occupancy

(* The commands use the table only through its methods.                    *)
UsesTable == Spec

Working == {"admitted", "began", "executing", "failing", "settled", "ending"}

(* A console gate is held exactly by one command that is working on that   *)
(* physical session: every exit gives it back, and a session that was       *)
(* retired or reopened never inherits the occupancy of its predecessor.     *)
OccupancyIsOwned ==
  /\ \A k \in consoleHeld : \E c \in Command : pc[c] \in Working /\ session[c] = k
  /\ \A c, d \in Command :
       (pc[c] \in Working /\ pc[d] \in Working /\ session[c] = session[d]) => c = d
  /\ \A c \in Command : pc[c] \in Working => session[c] \in consoleHeld

\* A transaction is open in the session the console has now, between commands.
Exposed(s, con) == Present(s, con) /\ txn[Current(s, con)] # "none"

(* A console that reads idle, with no command working on it, holds no       *)
(* transaction: idle is what lets a session be closed or reclaimed.         *)
PhaseCoversTransaction ==
  \A s \in Source, con \in Console :
    (Exposed(s, con) /\ Current(s, con) \notin consoleHeld) => consoles[s][con] # "idle"

(* The same of every session whose phase no command of another physical     *)
(* session has written: such a late report is the only way the phase and    *)
(* the transaction ever come apart.                                         *)
PhaseCoversUnlessMisreported ==
  \A s \in Source, con \in Console :
    /\ Exposed(s, con)
    /\ Current(s, con) \notin consoleHeld \cup misreported
    => consoles[s][con] # "idle"

(* Uncommitted work is lost only with a session that was found to be        *)
(* closed, never by a disconnect, an eviction, idle reclaim or a switch of  *)
(* the transaction mode, as long as the phase was not misreported.          *)
UncommittedWorkSurvives ==
  [][\A s \in Source, con \in Console :
       (Exposed(s, con) /\ Current(s, con) \notin consoleHeld \cup misreported) =>
         \/ live'[s] = live[s] /\ consoles'[s][con] # "absent"
         \/ status'[s] = "closed"]_cvars

(* A failed transaction is never taken up again: its console stays failed   *)
(* until the transaction is settled or another session's command reports.   *)
FailedStaysFailed ==
  [][\A s \in Source, con \in Console :
       (consoles[s][con] = "failed" /\ live'[s] = live[s]) =>
         \/ consoles'[s][con] \in {"failed", "idle"}
         \/ Current(s, con) \in misreported']_cvars

\* A command is working in a console session of the connection s has now.
ConsoleAtWork(s) ==
  \E k \in consoleHeld : k.source = s /\ k.generation = live[s]

(* A primary session found closed does not take a console's transaction or  *)
(* the operation a console has in flight down with it.  The query that      *)
(* finds it closed occupies only the primary session and does not count.    *)
DeadPrimarySparesConsoles ==
  [][\A s \in LiveSources :
       (HasUncommittedTransaction(s) \/ ConsoleAtWork(s)) => live'[s] = live[s]]_cvars
=============================================================================
