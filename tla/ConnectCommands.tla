-------------------------- MODULE ConnectCommands --------------------------
(***************************************************************************)
(* The connection commands of commands/connection.rs and the idle worker   *)
(* of lib.rs, running over the session table of ConnectionManager.         *)
(*                                                                         *)
(* A connect command is a process: it waits for the cleanup gate, pings an *)
(* existing session without the table's lock, asks to be admitted, opens   *)
(* its driver without any lock and finally hands the result to the table.  *)
(* The other commands hold the table's lock from beginning to end.         *)
(***************************************************************************)
EXTENDS ConnectionManager

CONSTANTS
  Attempt,     \* connect commands that may be running
  NoAttempt,   \* nobody holds the cleanup gate
  MaxVersion   \* bound: saved versions of one source's configuration

ASSUME AttemptAssumption == NoAttempt \notin Attempt
ASSUME VersionAssumption == MaxVersion \in Nat \ {0}

Deleted == 0
Version == 1..MaxVersion

VARIABLES
  saved,       \* version of the saved configuration, or Deleted
  openedWith,  \* configuration version each generation was opened with
  gate,        \* who holds idle_reclaim_gate
  pc,          \* where each connect command is
  target,      \* the source it connects
  seen,        \* the generation it pings
  config,      \* the configuration version it read when admitted
  revoked,     \* history: opening commands whose pending mark another command removed
  strayed      \* history: generations that a revoked command installed

commandVars == <<gate, pc, target, seen, config, revoked>>
savedVars == <<saved, openedWith, strayed>>
cvars == <<vars, savedVars, commandVars>>

ConnectInit ==
  /\ Init
  /\ saved = [s \in Source |-> 1]
  /\ openedWith = [g \in Generation |-> Deleted]
  /\ gate = NoAttempt
  /\ pc = [a \in Attempt |-> "idle"]
  /\ target \in [Attempt -> Source]
  /\ seen = [a \in Attempt |-> NoGeneration]
  /\ config = [a \in Attempt |-> Deleted]
  /\ revoked = {}
  /\ strayed = {}

-----------------------------------------------------------------------------
(* The connect command.                                                    *)

\* The mark an opening command removes may be one that others rely on.
Deprived(a) ==
  {b \in Attempt \ {a} : /\ pc[a] = "opening" /\ target[a] \in pending
                          /\ pc[b] = "opening" /\ target[b] = target[a]}

\* Mutant: an early return keeps the cleanup gate.
AnswerKeepingGate(a) ==
  /\ pc' = [pc EXCEPT ![a] = "idle"]
  /\ seen' = [seen EXCEPT ![a] = NoGeneration]
  /\ config' = [config EXCEPT ![a] = Deleted]
  /\ revoked' = (revoked \ {a}) \cup Deprived(a)
  /\ UNCHANGED <<gate, target>>

\* The command answers; its gate guard, if it still has it, is dropped.
Answer(a) ==
  /\ pc' = [pc EXCEPT ![a] = "idle"]
  /\ seen' = [seen EXCEPT ![a] = NoGeneration]
  /\ config' = [config EXCEPT ![a] = Deleted]
  /\ gate' = IF gate = a THEN NoAttempt ELSE gate
  /\ revoked' = (revoked \ {a}) \cup Deprived(a)
  /\ UNCHANGED target

Continue(a, label) ==
  /\ pc' = [pc EXCEPT ![a] = label]
  /\ seen' = [seen EXCEPT ![a] = NoGeneration]
  /\ UNCHANGED <<gate, target, config, revoked>>

Connect(a, s) ==
  /\ pc[a] = "idle"
  /\ pc' = [pc EXCEPT ![a] = "waiting"]
  /\ target' = [target EXCEPT ![a] = s]
  /\ UNCHANGED <<vars, savedVars, gate, seen, config, revoked>>

\* With the gate in hand, a live session of the source is pinged first.
EnterGate(a) ==
  LET s == target[a] IN
  /\ pc[a] = "waiting"
  /\ gate = NoAttempt
  /\ gate' = a
  /\ pc' = [pc EXCEPT ![a] = IF s \in LiveSources THEN "pinging" ELSE "admitting"]
  /\ seen' = [seen EXCEPT ![a] = live[s]]
  /\ UNCHANGED <<vars, savedVars, target, config, revoked>>

\* The answer counts only for the generation that was pinged.
PingSucceeded(a) ==
  /\ pc[a] = "pinging"
  /\ IF live[target[a]] = seen[a] THEN Answer(a) ELSE Continue(a, "admitting")
  /\ UNCHANGED <<vars, savedVars>>

\* Mutant: the session is retired without asking whether it is occupied.
PingFailedWithoutPreflight(a) ==
  LET s == target[a] IN
  /\ pc[a] = "pinging"
  /\ \/ live[s] # seen[a] /\ UNCHANGED vars
     \/ InvalidateGeneration(s, seen[a])
  /\ Continue(a, "admitting")
  /\ UNCHANGED savedVars

\* A dead session is retired only if it is still the one that was pinged and
\* nothing has come to occupy it; otherwise the command is refused.
PingFailed(a) ==
  LET s == target[a] IN
  /\ pc[a] = "pinging"
  /\ \/ /\ live[s] # seen[a]
        /\ Continue(a, "admitting")
        /\ UNCHANGED vars
     \/ /\ live[s] = seen[a]
        /\ ~PreflightConfigurationChange(s)
        /\ Answer(a)
        /\ UNCHANGED vars
     \/ /\ PreflightConfigurationChange(s)
        /\ InvalidateGeneration(s, seen[a])
        /\ Continue(a, "admitting")
  /\ UNCHANGED savedVars

\* Mutant: an attempt for a deleted source is admitted.
AdmitDeleted(a) ==
  /\ pc[a] = "admitting"
  /\ BeginConnect(target[a])
  /\ pc' = [pc EXCEPT ![a] = "opening"]
  /\ config' = [config EXCEPT ![a] = saved[target[a]]]
  /\ gate' = NoAttempt
  /\ UNCHANGED <<savedVars, target, seen, revoked>>

\* The configuration is read and the attempt admitted under one lock.  The
\* gate is dropped once the caches are cleared, before the driver is opened.
Admit(a) ==
  LET s == target[a] IN
  /\ pc[a] = "admitting"
  /\ saved[s] # Deleted
  /\ BeginConnect(s)
  /\ pc' = [pc EXCEPT ![a] = "opening"]
  /\ config' = [config EXCEPT ![a] = saved[s]]
  /\ gate' = NoAttempt
  /\ UNCHANGED <<savedVars, target, seen, revoked>>

\* The source is deleted, its configuration does not resolve, another attempt
\* is pending, the source is live after all, or no session can be evicted.
RefuseAdmission(a) ==
  /\ pc[a] = "admitting"
  /\ Answer(a)
  /\ UNCHANGED <<vars, savedVars>>

Opened(a) ==
  /\ pc[a] = "opening"
  /\ FinishConnectOk(target[a])
  /\ openedWith' = [openedWith EXCEPT ![nextGeneration] = config[a]]
  /\ strayed' = strayed \cup (IF a \in revoked THEN {nextGeneration} ELSE {})
  /\ Answer(a)
  /\ UNCHANGED saved

\* Mutant: a failed attempt leaves its mark.
OpenFailedKeepingMark(a) ==
  /\ pc[a] = "opening"
  /\ target[a] \in pending
  /\ Answer(a)
  /\ UNCHANGED <<vars, savedVars>>

OpenFailed(a) ==
  /\ pc[a] = "opening"
  /\ FinishConnectErr(target[a])
  /\ Answer(a)
  /\ UNCHANGED savedVars

\* Mutant: the driver is installed although the mark is gone.
OpenedTooLateInstalls(a) ==
  /\ pc[a] = "opening"
  /\ target[a] \notin pending
  /\ nextGeneration <= MaxGeneration
  /\ live' = [live EXCEPT ![target[a]] = nextGeneration]
  /\ nextGeneration' = nextGeneration + 1
  /\ status' = [status EXCEPT ![target[a]] = "connected"]
  /\ Answer(a)
  /\ UNCHANGED <<pending, older, policyVars, queryVars, consoleVars, savedVars>>

\* The mark is gone: whatever was opened is dropped.
OpenedTooLate(a) ==
  /\ pc[a] = "opening"
  /\ target[a] \notin pending
  /\ Answer(a)
  /\ UNCHANGED <<vars, savedVars>>

-----------------------------------------------------------------------------
(* The commands that keep the table locked, and the idle worker.           *)

DisconnectCommand(s) ==
  /\ Disconnect(s)
  /\ revoked' = revoked \cup {a \in Attempt : pc[a] = "opening" /\ target[a] = s}
  /\ UNCHANGED <<savedVars, gate, pc, target, seen, config>>

\* Mutant: a changed field is not recognised as one the runtime depends on.
UpdateConnectionInPlace(s) ==
  /\ saved[s] # Deleted
  /\ saved[s] < MaxVersion
  /\ saved' = [saved EXCEPT ![s] = @ + 1]
  /\ UNCHANGED <<vars, openedWith, strayed, commandVars>>

\* A change the runtime depends on ends the session before it is persisted;
\* persisting may still fail.
UpdateConnection(s) ==
  /\ saved[s] # Deleted
  /\ PreflightConfigurationChange(s)
  /\ Disconnect(s)
  /\ \/ saved[s] < MaxVersion /\ saved' = [saved EXCEPT ![s] = @ + 1]
     \/ UNCHANGED saved
  /\ UNCHANGED <<openedWith, strayed, commandVars>>

DeleteConnection(s) ==
  /\ saved[s] # Deleted
  /\ DisconnectAndForget(s)
  /\ saved' = [saved EXCEPT ![s] = Deleted]
  /\ UNCHANGED <<openedWith, strayed, commandVars>>

ReclaimIdleAt(S) ==
  /\ gate = NoAttempt
  /\ ReclaimIdle(S)
  /\ UNCHANGED <<savedVars, commandVars>>

\* Queries occupy sessions, and one that finds its session closed retires it.
QueryStep ==
  /\ \/ QueryNext
     \/ \E l \in registered \ queued : InvalidateGeneration(l.source, l.generation)
  /\ UNCHANGED <<savedVars, commandVars>>

AttemptStep(a) ==
  \/ PingSucceeded(a) \/ PingFailed(a)
  \/ Admit(a) \/ RefuseAdmission(a)
  \/ Opened(a) \/ OpenFailed(a) \/ OpenedTooLate(a)

ConnectNext ==
  \/ \E a \in Attempt :
       \/ \E s \in Source : Connect(a, s)
       \/ EnterGate(a)
       \/ AttemptStep(a)
  \/ \E s \in Source : DisconnectCommand(s) \/ UpdateConnection(s) \/ DeleteConnection(s)
  \/ \E S \in SUBSET Source : ReclaimIdleAt(S)
  \/ QueryStep

ConnectSpec == ConnectInit /\ [][ConnectNext]_cvars

\* A ping or an open that was started returns, and the gate is a fair lock.
FairConnectSpec ==
  /\ ConnectSpec
  /\ \A a \in Attempt : WF_cvars(AttemptStep(a)) /\ SF_cvars(EnterGate(a))

-----------------------------------------------------------------------------
(* Properties.                                                             *)

ConnectTypeOK ==
  /\ saved \in [Source -> Version \cup {Deleted}]
  /\ openedWith \in [Generation -> Version \cup {Deleted}]
  /\ gate \in Attempt \cup {NoAttempt}
  /\ pc \in [Attempt -> {"idle", "waiting", "pinging", "admitting", "opening"}]
  /\ target \in [Attempt -> Source]
  /\ seen \in [Attempt -> Generation \cup {NoGeneration}]
  /\ config \in [Attempt -> Version \cup {Deleted}]
  /\ revoked \subseteq Attempt
  /\ strayed \subseteq Generation

(* The commands use the table only through its methods.                    *)
UsesTable == Spec

(* A source stuck in connecting could neither be connected nor edited: the *)
(* mark is always owed to a command that is still opening its driver.      *)
PendingIsOwned ==
  \A s \in pending : \E a \in Attempt : pc[a] = "opening" /\ target[a] = s

(* Deleting a source ends it: no attempt that began before the deletion    *)
(* brings a session back.                                                  *)
DeletedStaysOffline ==
  \A s \in Source : saved[s] = Deleted => s \notin LiveSources \cup pending

(* A live session was opened with the configuration now saved, so what the *)
(* user sees in the connection dialog is what the queries reach.  The one  *)
(* exception is a session installed by an attempt that had been cancelled   *)
(* (see CancelledAttemptInstallsNothing): nothing else in the interplay of *)
(* connects, edits and deletions leads to a stale session.                 *)
RuntimeMatchesSaved ==
  \A s \in LiveSources : openedWith[live[s]] = saved[s] \/ live[s] \in strayed

(* What a ping finds out is applied to the present: when the answer arrives, *)
(* it drops no session but the one that was pinged, and not that one either *)
(* if a query or console began to use it while the ping was out.            *)
PingSparesOccupied ==
  [][\A a \in Attempt :
       (pc[a] = "pinging" /\ pc'[a] # "pinging" /\ live' # live)
         => /\ live' = [live EXCEPT ![target[a]] = NoGeneration]
            /\ live[target[a]] = seen[a]
            /\ PreflightDisconnect(target[a])]_cvars

(* An attempt whose pending mark a disconnect or another attempt removed is *)
(* cancelled: it installs nothing, whoever marks the source as pending      *)
(* afterwards.                                                              *)
CancelledAttemptInstallsNothing ==
  [][\A a \in revoked : pc'[a] = "idle" => nextGeneration' = nextGeneration]_cvars

(* Every connect command is answered: no path keeps the cleanup gate, and  *)
(* none waits for a mark that nobody will remove.                          *)
EveryConnectIsAnswered ==
  \A a \in Attempt : pc[a] = "waiting" ~> pc[a] = "idle"
=============================================================================
