--------------------------- MODULE ServicesProofs ---------------------------
(***************************************************************************)
(* What the services promise to whoever calls them, for any number of       *)
(* exports, installations, tunnels, ports and callers: a published export is *)
(* whole and its query keeps its session, the driver library agrees with    *)
(* its files, and neither a failed tunnel nor a shutdown leaves anything     *)
(* behind.                                                                 *)
(***************************************************************************)
EXTENDS MCServices, FiniteSetTheorems, TLAPS

-----------------------------------------------------------------------------
(* Exports.  What an export may claim depends on how far it has come: the    *)
(* outcome is only known from the end of the stream on, and the destination  *)
(* is only its own from the moment the part was linked.                     *)

USE ExportAssumption DEF Moves, Settles

\* Stages in which the outcome is settled, and those before.
Settled == {"settling", "published", "ended"}
Beginning == {"idle", "created", "queued", "preparing", "streaming", "lost"}
\* Stages of an export that works on its session.
OnSession == {"preparing", "streaming", "stopping"}
Admitted == OnSession \cup {"created", "queued", "settling", "published"}

\* Chunks are neither lost nor counted twice on their way to the part file.
ChunksAddUp == \A e \in Export :
  /\ exportWritten[e] + exportChannel[e] <= MaxChunks
  /\ exportWorker[e] = "ok" /\ exportStage[e] = "streaming"
       => exportWritten[e] + exportChannel[e] = MaxChunks
  /\ exportOutcome[e] = "ok" => exportStage[e] \in Settled /\ exportWritten[e] = MaxChunks
  /\ exportStage[e] \in Beginning => exportOutcome[e] = "none"

\* Whose the destination is.
TargetIsOwned == \A e \in Export :
  /\ exportTarget = e => \/ exportStage[e] = "lost"
                         \/ exportStage[e] \in {"published", "ended"} /\ exportOutcome[e] = "ok"
  /\ exportTarget = e => exportWritten[e] = MaxChunks
  /\ exportStage[e] \in {"published", "ended"} /\ exportOutcome[e] = "ok" => exportTarget = e
  /\ exportStatus[e] = "succeeded" => exportStage[e] = "ended" /\ exportTarget = e

\* Who works on a session, and whose lease it is.
WorkersAreLeased == \A e \in Export :
  /\ exportKind[e] = "result" => exportWorker[e] = "none" /\ e \notin exportLease
  /\ exportWorker[e] = "running" => exportStage[e] \in {"streaming", "stopping"}
  /\ exportKind[e] = "primary" /\ exportStage[e] \in OnSession => e \in exportLease
  /\ exportKind[e] = "console" /\ exportStage[e] \in Admitted => e \in exportLease
  /\ exportKind[e] = "console" /\ exportOutcome[e] = "database"
       /\ exportStage[e] \in {"published", "ended"} => e \in markedFailed

\* What is known of a query that broke: it began, and its export did not succeed.
BreaksAreTold == \A e \in Export :
  /\ exportStage[e] \in {"idle", "lost"} => exportWorker[e] = "none"
  /\ exportStage[e] = "stopping" => exportOutcome[e] \in NeverMarks
  /\ exportStage[e] \in Settled /\ exportWorker[e] \in {"error", "aborted"}
       => exportOutcome[e] \in NeverMarks \cup {"database"}

LeasesAreApart == \A d, e \in exportLease : d # e => exportKind[d] # exportKind[e]

ExportInv ==
  /\ ExportTypeOK
  /\ ChunksAddUp
  /\ TargetIsOwned
  /\ WorkersAreLeased
  /\ BreaksAreTold
  /\ LeasesAreApart

\* The promise follows from the invariant.
LEMMA ExportInvSafe == ExportInv => ExportSafety
BY DEF ExportInv, ExportTypeOK, ChunksAddUp, TargetIsOwned, WorkersAreLeased, BreaksAreTold,
       LeasesAreApart, Broken, NeverMarks, ExportSafety, PublishedIsWhole,
       WorkersHoldTheirSession, OnSession, Admitted, Settled,
       Beginning, ExportKind

LEMMA ExportInvInit == ExportInit => ExportInv
BY DEF ExportInit, ExportTasks!TaskInit, ExportInv, ExportTypeOK, ChunksAddUp, TargetIsOwned,
       WorkersAreLeased, BreaksAreTold, LeasesAreApart, OnSession, Admitted, Settled, Beginning,
       ExportTasks!TaskStatus

LEMMA ExportInvNext == ExportInv /\ [ExportNext]_exportVars => ExportInv'
<1> SUFFICES ASSUME ExportInv, [ExportNext]_exportVars PROVE ExportInv'
  OBVIOUS
<1> USE DEF ExportInv, ExportTypeOK, ChunksAddUp, TargetIsOwned, WorkersAreLeased, BreaksAreTold,
            LeasesAreApart, NeverMarks, OnSession, Admitted, Settled, Beginning, ExportKind, exportTaskVars, exportFileVars,
            ExportTasks!TaskStatus
<1>1. ASSUME NEW e \in Export, BeginExport(e) PROVE ExportInv'
  BY <1>1 DEF BeginExport, SessionFree, ExportTasks!CreateTask
<1>2. ASSUME NEW e \in Export, StartExport(e) PROVE ExportInv'
  BY <1>2 DEF StartExport, ExportTasks!StartTask
<1>3. ASSUME NEW e \in Export, LeaveQueue(e) PROVE ExportInv'
  BY <1>3 DEF LeaveQueue
<1>4. ASSUME NEW e \in Export, GrantExport(e) PROVE ExportInv'
  BY <1>4 DEF GrantExport, SessionFree
<1>5. ASSUME NEW e \in Export, PrepareExport(e) PROVE ExportInv'
  BY <1>5 DEF PrepareExport
<1>6. ASSUME NEW e \in Export, ProduceChunk(e) PROVE ExportInv'
  BY <1>6 DEF ProduceChunk
<1>7. ASSUME NEW e \in Export, WorkerEnds(e) PROVE ExportInv'
  BY <1>7 DEF WorkerEnds
<1>8. ASSUME NEW e \in Export, WriteChunk(e) PROVE ExportInv'
  <2>1. ExportTypeOK'
    BY <1>8 DEF WriteChunk
  <2>2. ChunksAddUp'
    <3>1. \A d \in Export \ {e} :
            /\ exportWritten'[d] = exportWritten[d] /\ exportChannel'[d] = exportChannel[d]
            /\ exportStage'[d] = exportStage[d] /\ exportOutcome'[d] = exportOutcome[d]
      BY <1>8 DEF WriteChunk
    <3>2. exportWorker' = exportWorker
      BY <1>8 DEF WriteChunk
    <3>3. CASE exportStage' = exportStage
      <4>1. /\ exportOutcome' = exportOutcome
            /\ exportWritten'[e] = exportWritten[e] + 1
            /\ exportKind[e] = "result" => exportWritten[e] < MaxChunks /\ exportChannel'[e] = 0
            /\ exportKind[e] # "result" => exportChannel'[e] = exportChannel[e] - 1
        BY <1>8, <3>3 DEF WriteChunk
      <4>2. exportStage[e] = "streaming" /\ MaxChunks \in Nat
        BY <1>8 DEF WriteChunk
      <4>3. /\ exportWritten[e] \in Nat /\ exportChannel[e] \in Nat
            /\ exportWritten[e] + exportChannel[e] <= MaxChunks
            /\ exportKind[e] = "result" => exportWorker[e] = "none"
        OBVIOUS
      <4>4. /\ exportWritten'[e] + exportChannel'[e] <= MaxChunks
            /\ exportWorker[e] = "ok" => exportWritten'[e] + exportChannel'[e] = MaxChunks
        BY <4>1, <4>2, <4>3
      <4> QED BY <3>1, <3>2, <3>3, <4>1, <4>2, <4>4
    <3>4. CASE /\ Moves(e, "stopping") /\ exportChannel' = [exportChannel EXCEPT ![e] = 0]
               /\ exportOutcome' = [exportOutcome EXCEPT ![e] = "failed"]
               /\ exportWritten' = exportWritten
      BY <3>1, <3>2, <3>4
    <3> QED BY <1>8, <3>3, <3>4 DEF WriteChunk
  <2>3. TargetIsOwned'
    BY <1>8 DEF WriteChunk
  <2>4. WorkersAreLeased' /\ LeasesAreApart'
    BY <1>8 DEF WriteChunk
  <2>5. BreaksAreTold'
    BY <1>8 DEF WriteChunk
  <2> QED
    BY <2>1, <2>2, <2>3, <2>4, <2>5
<1>9. ASSUME NEW e \in Export, StreamEnds(e) PROVE ExportInv'
  BY <1>9 DEF StreamEnds
<1>10. ASSUME NEW e \in Export, CancelExport(e) PROVE ExportInv'
  BY <1>10 DEF CancelExport
<1>11. ASSUME NEW e \in Export, StopWorker(e) PROVE ExportInv'
  BY <1>11 DEF StopWorker
<1>12. ASSUME NEW e \in Export, PublishPart(e) PROVE ExportInv'
  BY <1>12 DEF PublishPart
<1>13. ASSUME NEW e \in Export, FinishExport(e) PROVE ExportInv'
  BY <1>13 DEF FinishExport, ExportTasks!Finish
<1>14. CASE CrashDuringExports
  BY <1>14 DEF CrashDuringExports
<1>15. CASE CancelExportTask
  BY <1>15 DEF CancelExportTask, ExportTasks!RequestCancel
<1>16. CASE UNCHANGED exportVars
  BY <1>16 DEF exportVars
<1> QED
  BY <1>1, <1>2, <1>3, <1>4, <1>5, <1>6, <1>7, <1>8, <1>9, <1>10, <1>11, <1>12, <1>13, <1>14, <1>15, <1>16 DEF ExportNext, ExportTaskStep

(* The destination is never part of a result and never replaced, and a query *)
(* that may still run occupies its session (ExportSafety of CsvExport.tla):  *)
(* for any number of exports, chunks and places in the channel.            *)
THEOREM ExportCorrect == ExportSpec => []ExportSafety
<1>1. ExportInit => ExportInv
  BY ExportInvInit
<1>2. ExportInv /\ [ExportNext]_exportVars => ExportInv'
  BY ExportInvNext
<1>3. ExportInv => ExportSafety
  BY ExportInvSafe
<1> QED
  BY <1>1, <1>2, <1>3, PTL DEF ExportSpec

-----------------------------------------------------------------------------
(* The driver library.  A set is registered only when it has been published, *)
(* and a command that removes its files has removed its row before.         *)

USE JarAssumption DEF SetMoves, IsImport, NoCommand

\* Stages of a set whose rows may be in the table; one of them has no way back.
Listed == {"published", "ended", "lost"}

\* How whole a set is at each stage.
SetsAreWhole == \A i \in Installation :
  /\ setStage[i] \in {"verified", "moved"} => setJars[i] = JarCount
  /\ setStage[i] = "moved" => setPlace[i] = "published"
  /\ i \in registeredSets =>
       setStage[i] \in Listed /\ setPlace[i] = "published" /\ setJars[i] = JarCount

\* What a command that deletes has in hand.
DeletesWhatWasListed ==
  /\ mainThread.command \in {"delete", "clean"} => setStage[mainThread.set] \in Listed
  /\ mainThread.command = "clean" => mainThread.set \notin registeredSets

\* A report that denies the publication is the last word on the set.
ReportsAreFinal == \A i \in Installation :
  jarTaskStatus[i] \in {"cancelled", "failed"} => setStage[i] = "ended" /\ i \notin registeredSets

LibraryInv ==
  /\ LibraryTypeOK
  /\ SetsAreWhole
  /\ DeletesWhatWasListed
  /\ ReportsAreFinal
  /\ defaultSet \in registeredSets \cup {NoInstallation}

LEMMA LibraryInvSafe == LibraryInv => LibrarySafety
BY DEF LibraryInv, LibraryTypeOK, SetsAreWhole, ReportsAreFinal, LibrarySafety,
       RegisteredSetsAreWhole, EndedDownloadsAreTrue

LEMMA LibraryInvInit == LibraryInit => LibraryInv
BY DEF LibraryInit, JarTasks!TaskInit, LibraryInv, LibraryTypeOK, SetsAreWhole,
       DeletesWhatWasListed, ReportsAreFinal, JarTasks!TaskStatus, MaybeInstallation, NoSave

LEMMA LibraryInvNext == LibraryInv /\ [LibraryNext]_libraryVars => LibraryInv'
<1> SUFFICES ASSUME LibraryInv, [LibraryNext]_libraryVars PROVE LibraryInv'
  OBVIOUS
<1> USE DEF LibraryInv, LibraryTypeOK, SetsAreWhole, DeletesWhatWasListed, ReportsAreFinal, Listed,
            MaybeInstallation, NoSave, jarTaskVars, diskVars, tableVars, JarTasks!TaskStatus
<1>1. ASSUME NEW i \in Installation, BeginDownload(i) PROVE LibraryInv'
  BY <1>1 DEF BeginDownload, JarTasks!CreateTask
<1>2. ASSUME NEW i \in Installation, StartDownload(i) PROVE LibraryInv'
  BY <1>2 DEF StartDownload, JarTasks!StartTask
<1>3. ASSUME NEW i \in Installation, BeginJarImport(i) PROVE LibraryInv'
  BY <1>3 DEF BeginJarImport
<1>4. ASSUME NEW i \in Installation, FetchJar(i) PROVE LibraryInv'
  BY <1>4 DEF FetchJar
<1>5. ASSUME NEW i \in Installation, VerifySet(i) PROVE LibraryInv'
  BY <1>5 DEF VerifySet
<1>6. ASSUME NEW i \in Installation, FillingFails(i) PROVE LibraryInv'
  BY <1>6 DEF FillingFails, SetFails
<1>7. ASSUME NEW i \in Installation, PublishDirectory(i) PROVE LibraryInv'
  BY <1>7 DEF PublishDirectory, SetFails
<1>8. ASSUME NEW i \in Installation, PublishRows(i) PROVE LibraryInv'
  BY <1>8 DEF PublishRows
<1>9. ASSUME NEW i \in Installation, PublishRefused(i) PROVE LibraryInv'
  BY <1>9 DEF PublishRefused
<1>10. ASSUME NEW i \in Installation, FinishSet(i) PROVE LibraryInv'
  BY <1>10 DEF FinishSet, JarTasks!Finish
<1>11. ASSUME NEW i \in Installation, CancelDownload(i) PROVE LibraryInv'
  BY <1>11 DEF CancelDownload, JarTasks!RequestCancel
<1>12. ASSUME NEW i \in Installation, BeginDelete(i) PROVE LibraryInv'
  BY <1>12 DEF BeginDelete
<1>13. ASSUME NEW c \in Client, NEW i \in Installation, BeginSave(c, i) PROVE LibraryInv'
  BY <1>13 DEF BeginSave
<1>14. ASSUME NEW c \in Client, DropClient(c) PROVE LibraryInv'
  BY <1>14 DEF DropClient
<1>15. CASE WriteSave
  BY <1>15 DEF WriteSave
<1>16. CASE DeleteRows
  BY <1>16 DEF DeleteRows
<1>17. CASE DeleteRefused
  BY <1>17 DEF DeleteRefused
<1>18. CASE DeleteFiles
  BY <1>18 DEF DeleteFiles
<1>19. CASE LibraryCrash
  BY <1>19 DEF LibraryCrash
<1>20. CASE UNCHANGED libraryVars
  BY <1>20 DEF libraryVars
<1> QED
  BY <1>1, <1>2, <1>3, <1>4, <1>5, <1>6, <1>7, <1>8, <1>9, <1>10, <1>11, <1>12, <1>13, <1>14, <1>15, <1>16, <1>17, <1>18, <1>19, <1>20 DEF LibraryNext, DownloadStep

(* An installation of the table has all its verified jars in place, and a    *)
(* download that reports cancelled or failed has published nothing           *)
(* (LibrarySafety of DriverLibrary.tla): for any number of sets and jars.    *)
THEOREM LibraryCorrect == LibrarySpec => []LibrarySafety
<1>1. LibraryInit => LibraryInv
  BY LibraryInvInit
<1>2. LibraryInv /\ [LibraryNext]_libraryVars => LibraryInv'
  BY LibraryInvNext
<1>3. LibraryInv => LibrarySafety
  BY LibraryInvSafe
<1> QED
  BY <1>1, <1>2, <1>3, PTL DEF LibrarySpec

-----------------------------------------------------------------------------
(* Tunnels.  A port has one listener, so two forwards cannot share it once    *)
(* it is known that a live forward listens on its own.                      *)

USE AttemptsAssumption, ListenerAssumption DEF Listens, Opens, Ssh, PortTaken, Alive, Ended

\* Who listens on a port has reserved it or forwards it.
ListenersAreKnown == \A t \in Tunnel :
  /\ \A p \in Port : listener[p] = t => p = localPort[t]
                                        /\ (openStage[t] = "reserved" \/ sshState[t] = "forwarding")
  /\ openStage[t] = "reserved" \/ sshState[t] = "forwarding" => listener[localPort[t]] = t

\* What runs at each stage of a call.
CallsOwnTheirProcess == \A t \in Tunnel :
  /\ sshState[t] \in Alive => openStage[t] \in {"waiting", "answered", "ready"}
  /\ openStage[t] = "closed" => attempts[t] < MaxAttempts

TunnelInv == TunnelTypeOK /\ ListenersAreKnown /\ CallsOwnTheirProcess

LEMMA TunnelInvSafe == TunnelInv => FailedOpensLeaveNothing
BY DEF TunnelInv, TunnelTypeOK, ListenersAreKnown, CallsOwnTheirProcess, FailedOpensLeaveNothing

LEMMA TunnelInvInit == TunnelInit => TunnelInv
BY DEF TunnelInit, TunnelInv, TunnelTypeOK, ListenersAreKnown, CallsOwnTheirProcess

LEMMA TunnelInvNext == TunnelInv /\ [TunnelNext]_tunnelVars => TunnelInv'
<1> SUFFICES ASSUME TunnelInv, [TunnelNext]_tunnelVars PROVE TunnelInv'
  OBVIOUS
<1> USE DEF TunnelInv, TunnelTypeOK, ListenersAreKnown, CallsOwnTheirProcess
<1>1. ASSUME NEW t \in Tunnel, NEW p \in Port, ReservePort(t, p) PROVE TunnelInv'
  BY <1>1 DEF ReservePort
<1>2. ASSUME NEW t \in Tunnel, ReserveFails(t) PROVE TunnelInv'
  BY <1>2 DEF ReserveFails
<1>3. ASSUME NEW t \in Tunnel, SpawnSsh(t) PROVE TunnelInv'
  BY <1>3 DEF SpawnSsh
<1>4. ASSUME NEW t \in Tunnel, SeeSshEnded(t) PROVE TunnelInv'
  BY <1>4 DEF SeeSshEnded, AttemptFails
<1>5. ASSUME NEW t \in Tunnel, ProbeAnswered(t) PROVE TunnelInv'
  BY <1>5 DEF ProbeAnswered
<1>6. ASSUME NEW t \in Tunnel, AcceptAnswer(t) PROVE TunnelInv'
  BY <1>6 DEF AcceptAnswer, AttemptFails
<1>7. ASSUME NEW t \in Tunnel, StartTimesOut(t) PROVE TunnelInv'
  BY <1>7 DEF StartTimesOut, Killed
<1>8. ASSUME NEW t \in Tunnel, CloseTunnel(t) PROVE TunnelInv'
  BY <1>8 DEF CloseTunnel, Killed
<1>9. ASSUME NEW t \in Tunnel, SshBinds(t) PROVE TunnelInv'
  BY <1>9 DEF SshBinds
<1>10. ASSUME NEW t \in Tunnel, SshDenied(t) PROVE TunnelInv'
  BY <1>10 DEF SshDenied
<1>11. ASSUME NEW t \in Tunnel, SshLost(t) PROVE TunnelInv'
  BY <1>11 DEF SshLost
<1>12. ASSUME NEW p \in Port, StrangerComesOrGoes(p) PROVE TunnelInv'
  BY <1>12 DEF StrangerComesOrGoes
<1>13. CASE UNCHANGED tunnelVars
  BY <1>13 DEF tunnelVars
<1> QED
  BY <1>1, <1>2, <1>3, <1>4, <1>5, <1>6, <1>7, <1>8, <1>9, <1>10, <1>11, <1>12, <1>13 DEF TunnelNext, OpenStep

-----------------------------------------------------------------------------
(* Closing.  That there is one owner is stated without counting.            *)

USE RequestsAssumption DEF Emit, Exited

ClosingInv ==
  /\ ClosingTypeOK
  /\ shutdownState = "running" <=> \E c \in Caller : callerStage[c] = "owner"
  /\ \A c, d \in Caller : callerStage[c] = "owner" /\ callerStage[d] = "owner" => c = d
  /\ shutdownState = "idle" => cleanupStep = "none"
  /\ shutdownState = "running" => cleanupStep # "none"
  /\ shutdownState = "completed" => cleanupStep = "exited"
  /\ cleanups = IF cleanupStep = "exited" THEN 1 ELSE 0
  /\ cleanupStep \in {"closing", "exited"} => idleStopped /\ idleTask \in {"absent", "ended"}

LEMMA ClosingInvSafe == ClosingInv => CleanupIsAlone
<1> SUFFICES ASSUME ClosingInv PROVE CleanupIsAlone
  OBVIOUS
<1> DEFINE owners == {c \in Caller : callerStage[c] = "owner"}
<1>1. CASE shutdownState = "running"
  <2>1. PICK c \in Caller : owners = {c}
    BY <1>1 DEF ClosingInv
  <2>2. Cardinality(owners) = 1
    BY <2>1, FS_Singleton
  <2> QED
    BY <1>1, <2>2 DEF ClosingInv, ClosingTypeOK, CleanupIsAlone
<1>2. CASE shutdownState # "running"
  <2>1. owners = {}
    BY <1>2 DEF ClosingInv
  <2> QED
    BY <1>2, <2>1, FS_EmptySet DEF ClosingInv, CleanupIsAlone
<1> QED
  BY <1>1, <1>2

\* Flags apart: whether a variable is a Boolean, and the rest of the types.
Flags == /\ listenerReady \in BOOLEAN /\ closePending \in BOOLEAN /\ closeInFlight \in BOOLEAN
         /\ pageListens \in BOOLEAN /\ readyDue \in BOOLEAN /\ closeEvents \in BOOLEAN
         /\ closeLost \in BOOLEAN /\ closeWanted \in BOOLEAN /\ idleStopped \in BOOLEAN

LEMMA ClosingInvInit == LifecycleInit => ClosingInv
<1>1. LifecycleInit => Flags
  BY Zenon DEF LifecycleInit, Flags
<1>2. LifecycleInit => closeRequests \in 0..MaxRequests /\ cleanups \in 0..1
  BY DEF LifecycleInit
<1> QED
  BY <1>1, <1>2 DEF Flags, LifecycleInit, ClosingInv, ClosingTypeOK

\* Requests and their dialog leave the shutdown alone.
LEMMA BridgeSteps ==
  ASSUME ClosingInv,
         \/ RequestClose \/ Listen \/ ListenerReady \/ OpenDialog \/ AnswerDialog
         \/ FinishRequest \/ Reload
  PROVE  ClosingInv'
<1>1. UNCHANGED <<shutdownVars, workerVars>>
  BY DEF RequestClose, Listen, ListenerReady, OpenDialog, AnswerDialog, FinishRequest, Reload
<1>2. Flags'
  BY Zenon DEF ClosingInv, ClosingTypeOK, Flags, NothingEmitted, RequestClose, Listen,
               ListenerReady, OpenDialog, AnswerDialog, FinishRequest, Reload, shutdownVars,
               workerVars
<1>3. closeRequests' \in 0..MaxRequests
  BY DEF ClosingInv, ClosingTypeOK, RequestClose, Listen, ListenerReady, OpenDialog,
         AnswerDialog, FinishRequest, Reload
<1>4. closeDialog' \in {"closed", "open", "answered"}
  BY DEF ClosingInv, ClosingTypeOK, RequestClose, Listen, ListenerReady, OpenDialog,
         AnswerDialog, FinishRequest, Reload
<1> QED
  BY <1>1, <1>2, <1>3, <1>4 DEF ClosingInv, ClosingTypeOK, Flags, shutdownVars, workerVars

\* The shutdown leaves the requests alone.
LEMMA EnterKeepsInv ==
  ASSUME ClosingInv, NEW c \in Caller, EnterShutdown(c)
  PROVE  ClosingInv'
<1> USE DEF ClosingInv, ClosingTypeOK
<1>1. UNCHANGED <<bridgeVars, workerVars, cleanups>>
  BY DEF EnterShutdown
<1>2. CASE shutdownState = "completed"
  BY <1>1, <1>2 DEF EnterShutdown, bridgeVars, pageVars, workerVars
<1>3. CASE shutdownState = "running"
  BY <1>1, <1>3 DEF EnterShutdown, bridgeVars, pageVars, workerVars
<1>4. CASE shutdownState = "idle"
  BY <1>1, <1>4 DEF EnterShutdown, bridgeVars, pageVars, workerVars
<1> QED
  BY <1>2, <1>3, <1>4

LEMMA LeaveKeepsInv ==
  ASSUME ClosingInv, NEW c \in Caller, LeaveShutdown(c)
  PROVE  ClosingInv'
BY DEF ClosingInv, ClosingTypeOK, LeaveShutdown, bridgeVars, pageVars, workerVars

LEMMA WorkerSteps ==
  ASSUME ClosingInv, \/ StopIdleWorker \/ CleanUp \/ StartIdleWorker
                     \/ BeginTick \/ ReclaimIdleSessions \/ EndIdleWorker
  PROVE  ClosingInv'
<1> USE DEF ClosingInv, ClosingTypeOK, bridgeVars, pageVars, shutdownVars
<1>1. CASE StopIdleWorker
  BY <1>1 DEF StopIdleWorker
<1>2. CASE CleanUp
  BY <1>2 DEF CleanUp, workerVars
<1>3. CASE StartIdleWorker
  BY <1>3 DEF StartIdleWorker
<1>4. CASE BeginTick \/ ReclaimIdleSessions \/ EndIdleWorker
  BY <1>4 DEF BeginTick, ReclaimIdleSessions, EndIdleWorker
<1> QED
  BY <1>1, <1>2, <1>3, <1>4

LEMMA ClosingInvNext == ClosingInv /\ [LifecycleStep]_lifecycleVars => ClosingInv'
<1>1. ClosingInv /\ UNCHANGED lifecycleVars => ClosingInv'
  BY DEF ClosingInv, ClosingTypeOK, lifecycleVars, bridgeVars, pageVars, shutdownVars, workerVars
<1> QED
  BY <1>1, BridgeSteps, EnterKeepsInv, LeaveKeepsInv, WorkerSteps DEF LifecycleStep

(* Cleaning up happens once, by one owner, and beside no sweep of the idle   *)
(* worker (CleanupIsAlone of Lifecycle.tla): for any number of callers.      *)
THEOREM CleanupCorrect == ClosingSpec => []CleanupIsAlone
<1>1. LifecycleInit => ClosingInv
  BY ClosingInvInit
<1>2. ClosingInv /\ [LifecycleStep]_lifecycleVars => ClosingInv'
  BY ClosingInvNext
<1>3. ClosingInv => CleanupIsAlone
  BY ClosingInvSafe
<1> QED
  BY <1>1, <1>2, <1>3, PTL DEF ClosingSpec

(* A call that failed has left neither ssh nor a port taken, and no two      *)
(* live forwards share a port (FailedOpensLeaveNothing of SshTunnel.tla):    *)
(* for any number of calls, ports and attempts.                            *)
THEOREM TunnelCorrect == TunnelSpec => []FailedOpensLeaveNothing
<1>1. TunnelInit => TunnelInv
  BY TunnelInvInit
<1>2. TunnelInv /\ [TunnelNext]_tunnelVars => TunnelInv'
  BY TunnelInvNext
<1>3. TunnelInv => FailedOpensLeaveNothing
  BY TunnelInvSafe
<1> QED
  BY <1>1, <1>2, <1>3, PTL DEF TunnelSpec

-----------------------------------------------------------------------------
(* The four services beside each other.                                    *)

ServicesInv == ClosingInv /\ ExportInv /\ LibraryInv /\ TunnelInv

LEMMA ServicesInvAlways == ServicesSpec => []ServicesInv
<1>1. ServicesInit => ServicesInv
  BY ClosingInvInit, ExportInvInit, LibraryInvInit, TunnelInvInit DEF ServicesInit, ServicesInv
<1>2. ServicesInv /\ [ServicesNext]_serviceVars => ServicesInv'
  <2> SUFFICES ASSUME ServicesInv, [ServicesNext]_serviceVars PROVE ServicesInv'
    OBVIOUS
  <2>1. /\ [LifecycleStep]_lifecycleVars /\ [ExportNext]_exportVars
        /\ [LibraryNext]_libraryVars /\ [TunnelNext]_tunnelVars
    BY DEF ServicesNext, serviceVars
  <2> QED
    BY <2>1, ClosingInvNext, ExportInvNext, LibraryInvNext, TunnelInvNext DEF ServicesInv
<1> QED
  BY <1>1, <1>2, PTL DEF ServicesSpec

(* Every variable of the services has its type.                             *)
THEOREM ServicesTypeCorrect == ServicesSpec => []ServicesTypeOK
<1>1. ServicesInv => ServicesTypeOK
  BY DEF ServicesInv, ClosingInv, ExportInv, LibraryInv, TunnelInv, ServicesTypeOK
<1> QED
  BY <1>1, ServicesInvAlways, PTL

(* Nothing is left behind by a shutdown or by a tunnel that failed to open.  *)
THEOREM ServicesEndCleanCorrect == ServicesSpec => []ServicesEndClean
<1>1. ServicesInv => ServicesEndClean
  BY ClosingInvSafe, TunnelInvSafe DEF ServicesInv, ServicesEndClean
<1> QED
  BY <1>1, ServicesInvAlways, PTL
=============================================================================
