----------------------------- MODULE CsvExport -----------------------------
(***************************************************************************)
(* The export tasks of commands/export.rs: of a result the frontend sends, *)
(* of a table or a query ("primary", on the shared session), or of the query *)
(* of a console whose transaction is open.                                 *)
(* A worker streams chunks through a bounded channel to the task, which     *)
(* writes them to a part file beside the destination and publishes the      *)
(* part by a hard link, which never replaces a file that exists.            *)
(*                                                                         *)
(* All exports go to one destination and use one Data Source, whose primary *)
(* session has a serial gate; the lease on a session is shared by the task  *)
(* and its worker.                                                         *)
(***************************************************************************)
EXTENDS Integers, FiniteSets

CONSTANTS
  Export,
  NoWriter, Foreign,   \* who wrote the destination: nobody, or no export of ours
  ChannelPlaces,
  MaxChunks          \* bound: chunks of a result

ASSUME ExportAssumption ==
  /\ {NoWriter, Foreign} \cap Export = {} /\ NoWriter # Foreign
  /\ ChannelPlaces \in Nat \ {0} /\ MaxChunks \in Nat

VARIABLES
  exportStatus, exportCancel,   \* their tasks
  exportKind, exportStage,
  exportLease,     \* exports whose task or worker holds its session
  exportWorker,    \* the query's own task
  exportChannel,   \* chunks in the channel
  exportWritten,   \* chunks in the part file
  exportParts,     \* part files that exist
  exportOutcome,
  exportTarget,    \* who wrote the destination
  markedFailed     \* consoles marked failed, by their export

exportFileVars == <<exportWritten, exportParts, exportTarget>>
exportTaskVars == <<exportStatus, exportCancel>>
exportVars == <<exportTaskVars, exportKind, exportStage, exportLease, exportWorker, exportChannel,
                exportFileVars, exportOutcome, markedFailed>>

ExportTasks == INSTANCE TaskManager
                 WITH Task <- Export, status <- exportStatus, cancelRequested <- exportCancel

ExportKind == {"result", "primary", "console"}

ExportInit ==
  /\ ExportTasks!TaskInit
  /\ exportKind \in [Export -> ExportKind]
  /\ exportStage = [e \in Export |-> "idle"]
  /\ exportLease = {}
  /\ exportWorker = [e \in Export |-> "none"]
  /\ exportChannel = [e \in Export |-> 0]
  /\ exportWritten = [e \in Export |-> 0]
  /\ exportParts = {}
  /\ exportOutcome = [e \in Export |-> "none"]
  /\ exportTarget \in {NoWriter, Foreign}
  /\ markedFailed = {}

SessionFree(kind) == \A d \in exportLease : exportKind[d] # kind

Moves(e, to) == exportStage' = [exportStage EXCEPT ![e] = to]
Settles(e, outcome) ==
  Moves(e, "settling") /\ exportOutcome' = [exportOutcome EXCEPT ![e] = outcome]

-----------------------------------------------------------------------------
(* Before the stream.                                                      *)

\* The command: a console must be free and its transaction active.  Parts that
\* were left behind long ago are removed on the way.
BeginExport(e) ==
  /\ exportStage[e] = "idle"
  /\ IF exportKind[e] = "console"
       THEN /\ SessionFree("console") /\ markedFailed = {}
            /\ exportLease' = exportLease \cup {e}
       ELSE UNCHANGED exportLease
  /\ ExportTasks!CreateTask(e)
  /\ Moves(e, "created")
  /\ \E stale \in SUBSET {d \in exportParts : exportStage[d] \in {"lost", "ended"}} :
       exportParts' = exportParts \ stale
  /\ UNCHANGED <<exportKind, exportWorker, exportChannel, exportWritten, exportTarget,
                 exportOutcome, markedFailed>>

StartExport(e) ==
  /\ exportStage[e] = "created"
  /\ ExportTasks!StartTask(e)
  /\ Moves(e, "queued")
  /\ UNCHANGED <<exportKind, exportLease, exportWorker, exportChannel, exportFileVars,
                 exportOutcome, markedFailed>>

\* Mutant: a task that waits for its lease does not hear of a cancellation.
LeaveQueueDeaf(e) ==
  /\ exportStage[e] = "queued" /\ exportKind[e] = "console" /\ e \in exportCancel
  /\ Settles(e, "cancelled")
  /\ UNCHANGED <<exportTaskVars, exportKind, exportLease, exportWorker, exportChannel,
                 exportFileVars, markedFailed>>

\* Cancellation is looked at first; a waiting lease may also be retired.
LeaveQueue(e) ==
  /\ exportStage[e] = "queued" /\ exportKind[e] # "result"
  /\ \/ e \in exportCancel /\ Settles(e, "cancelled")
     \/ exportKind[e] = "primary" /\ Settles(e, "failed")
  /\ UNCHANGED <<exportTaskVars, exportKind, exportLease, exportWorker, exportChannel,
                 exportFileVars, markedFailed>>

GrantExport(e) ==
  /\ exportStage[e] = "queued"
  /\ e \notin exportCancel \/ exportKind[e] = "result"
  /\ IF exportKind[e] = "primary"
       THEN SessionFree("primary") /\ exportLease' = exportLease \cup {e}
       ELSE UNCHANGED exportLease
  /\ Moves(e, "preparing")
  /\ UNCHANGED <<exportTaskVars, exportKind, exportWorker, exportChannel, exportFileVars,
                 exportOutcome, markedFailed>>

\* Columns are read or the database and schema selected, the part created and
\* the query spawned, unless the task was cancelled before either.
PrepareExport(e) ==
  LET result == exportKind[e] = "result" IN
  /\ exportStage[e] = "preparing"
  /\ \/ ~result /\ Settles(e, "database") /\ UNCHANGED <<exportParts, exportWorker>>
     \/ Settles(e, "failed") /\ UNCHANGED <<exportParts, exportWorker>>
     \/ /\ ~result /\ e \in exportCancel
        /\ Settles(e, "cancelled")
        /\ exportParts' \in {exportParts, exportParts \cup {e}}
        /\ UNCHANGED exportWorker
     \/ /\ result \/ e \notin exportCancel
        /\ Moves(e, "streaming")
        /\ exportParts' = exportParts \cup {e}
        /\ exportWorker' = [exportWorker EXCEPT ![e] = IF result THEN "none" ELSE "running"]
        /\ UNCHANGED exportOutcome
  /\ UNCHANGED <<exportTaskVars, exportKind, exportLease, exportChannel, exportWritten,
                 exportTarget, markedFailed>>

-----------------------------------------------------------------------------
(* The stream.                                                             *)

ProduceChunk(e) ==
  /\ exportWorker[e] = "running" /\ exportStage[e] = "streaming"
  /\ exportChannel[e] < ChannelPlaces
  /\ exportWritten[e] + exportChannel[e] < MaxChunks
  /\ exportChannel' = [exportChannel EXCEPT ![e] = @ + 1]
  /\ UNCHANGED <<exportTaskVars, exportKind, exportStage, exportLease, exportWorker,
                 exportFileVars, exportOutcome, markedFailed>>

\* The query may fail at any time, and must when nobody receives its rows.
WorkerEnds(e) ==
  /\ exportWorker[e] = "running"
  /\ \/ exportWorker' = [exportWorker EXCEPT ![e] = "error"]
     \/ /\ exportStage[e] = "streaming" /\ exportWritten[e] + exportChannel[e] = MaxChunks
        /\ exportWorker' = [exportWorker EXCEPT ![e] = "ok"]
  /\ UNCHANGED <<exportTaskVars, exportKind, exportStage, exportLease, exportChannel,
                 exportFileVars, exportOutcome, markedFailed>>

\* A result sent by the frontend has its rows at hand.
WriteChunk(e) ==
  LET result == exportKind[e] = "result" IN
  /\ exportStage[e] = "streaming" /\ e \notin exportCancel
  /\ IF result THEN exportWritten[e] < MaxChunks ELSE exportChannel[e] > 0
  /\ \/ /\ exportWritten' = [exportWritten EXCEPT ![e] = @ + 1]
        /\ exportChannel' = [exportChannel EXCEPT ![e] = IF result THEN 0 ELSE @ - 1]
        /\ UNCHANGED <<exportStage, exportOutcome>>
     \/ /\ exportChannel' = [exportChannel EXCEPT ![e] = 0]   \* the disk refuses
        /\ Moves(e, "stopping")
        /\ exportOutcome' = [exportOutcome EXCEPT ![e] = "failed"]
        /\ UNCHANGED exportWritten
  /\ UNCHANGED <<exportTaskVars, exportKind, exportLease, exportWorker, exportParts,
                 exportTarget, markedFailed>>

\* Mutant: the end of the channel is taken for the end of the query.
StreamEndsWithChannel(e) ==
  /\ exportStage[e] = "streaming" /\ e \notin exportCancel
  /\ exportWorker[e] \in {"ok", "error"} /\ exportChannel[e] = 0
  /\ Settles(e, "ok")
  /\ UNCHANGED <<exportTaskVars, exportKind, exportLease, exportWorker, exportChannel,
                 exportFileVars, markedFailed>>

\* The channel is closed and the worker joined, or the rows at hand are written.
StreamEnds(e) ==
  /\ exportStage[e] = "streaming"
  /\ IF exportKind[e] = "result"
       THEN exportWritten[e] = MaxChunks /\ Settles(e, "ok")
       ELSE /\ e \notin exportCancel /\ exportChannel[e] = 0
            /\ \/ exportWorker[e] = "ok" /\ Settles(e, "ok")
               \/ exportWorker[e] = "error" /\ Settles(e, "database")
  /\ UNCHANGED <<exportTaskVars, exportKind, exportLease, exportWorker, exportChannel,
                 exportFileVars, markedFailed>>

\* The receiver is dropped before anything else is done about the query.
CancelExport(e) ==
  /\ exportStage[e] = "streaming" /\ e \in exportCancel
  /\ exportKind[e] = "result" => exportWritten[e] < MaxChunks
  /\ exportChannel' = [exportChannel EXCEPT ![e] = 0]
  /\ Moves(e, "stopping")
  /\ exportOutcome' = [exportOutcome EXCEPT ![e] = "cancelled"]
  /\ UNCHANGED <<exportTaskVars, exportKind, exportLease, exportWorker, exportFileVars,
                 markedFailed>>

\* Mutant: the task goes on while the query is still running.
StopWorkerLeaving(e) ==
  /\ exportStage[e] = "stopping"
  /\ Moves(e, "settling")
  /\ UNCHANGED <<exportTaskVars, exportKind, exportLease, exportWorker, exportChannel,
                 exportFileVars, exportOutcome, markedFailed>>

\* The driver is asked to cancel, the worker given time, and then aborted.
StopWorker(e) ==
  /\ exportStage[e] = "stopping"
  /\ exportWorker' = [exportWorker EXCEPT ![e] = IF @ = "running" THEN "aborted" ELSE @]
  /\ Moves(e, "settling")
  /\ UNCHANGED <<exportTaskVars, exportKind, exportLease, exportChannel, exportFileVars,
                 exportOutcome, markedFailed>>

-----------------------------------------------------------------------------
(* After the stream.                                                       *)

\* A console that lost its transaction is marked while its lease is held; then
\* the part is linked to the destination, if that does not exist.
PublishPart(e) ==
  /\ exportStage[e] = "settling"
  /\ Moves(e, "published")
  /\ markedFailed' = IF exportKind[e] = "console" /\ exportOutcome[e] = "database"
                     THEN markedFailed \cup {e} ELSE markedFailed
  /\ \/ exportOutcome[e] # "ok" /\ UNCHANGED <<exportTarget, exportOutcome>>
     \/ /\ exportOutcome[e] = "ok" /\ exportTarget = NoWriter
        /\ exportTarget' = e
        /\ UNCHANGED exportOutcome
     \/ /\ exportOutcome[e] = "ok"
        /\ exportOutcome' = [exportOutcome EXCEPT ![e] = "failed"]
        /\ UNCHANGED exportTarget
  /\ UNCHANGED <<exportTaskVars, exportKind, exportLease, exportWorker, exportChannel,
                 exportWritten, exportParts>>

\* The part is removed, if it can be, the lease given back and the outcome reported.
FinishExport(e) ==
  /\ exportStage[e] = "published"
  /\ exportParts' \in {exportParts, exportParts \ {e}}
  /\ exportLease' = exportLease \ {e}
  /\ ExportTasks!Finish(e, CASE exportOutcome[e] = "ok" -> "succeeded"
                             [] exportOutcome[e] = "cancelled" -> "cancelled"
                             [] OTHER -> "failed")
  /\ Moves(e, "ended")
  /\ UNCHANGED <<exportKind, exportWorker, exportChannel, exportWritten, exportTarget,
                 exportOutcome, markedFailed>>

\* The process ends: tasks, workers and leases are gone, files stay.
CrashDuringExports ==
  /\ \E e \in Export : exportStage[e] \notin {"idle", "lost", "ended"}
  /\ exportStage' = [e \in Export |-> IF exportStage[e] = "idle" THEN "idle" ELSE "lost"]
  /\ exportStatus' = [e \in Export |-> "none"] /\ exportCancel' = {}
  /\ exportWorker' = [e \in Export |-> "none"]
  /\ exportChannel' = [e \in Export |-> 0]
  /\ exportOutcome' = [e \in Export |-> "none"]
  /\ exportLease' = {} /\ markedFailed' = {}
  /\ UNCHANGED <<exportKind, exportFileVars>>

\* A cancellation that comes after the end changes nothing.
CancelExportTask ==
  /\ \E e \in Export : exportStage[e] # "ended" /\ ExportTasks!RequestCancel(e)
  /\ UNCHANGED <<exportKind, exportStage, exportLease, exportWorker, exportChannel,
                 exportFileVars, exportOutcome, markedFailed>>

\* What the export's own task does without the worker.
ExportTaskStep(e) ==
  \/ StartExport(e) \/ LeaveQueue(e) \/ GrantExport(e) \/ PrepareExport(e)
  \/ WriteChunk(e) \/ StreamEnds(e) \/ CancelExport(e) \/ StopWorker(e)
  \/ PublishPart(e) \/ FinishExport(e)

ExportNext ==
  \/ \E e \in Export : BeginExport(e) \/ ProduceChunk(e) \/ WorkerEnds(e) \/ ExportTaskStep(e)
  \/ CrashDuringExports \/ CancelExportTask

\* Nobody can cancel the round trip to the database that comes before the query.
AwaitsDatabase(e) == exportStage[e] = "preparing" /\ exportKind[e] # "result"

\* The runtime polls a task that can run; nothing is assumed of the database.
ExportFairness == \A e \in Export : WF_exportVars(~AwaitsDatabase(e) /\ ExportTaskStep(e))

ExportSpec == ExportInit /\ [][ExportNext]_exportVars /\ ExportFairness

-----------------------------------------------------------------------------
(* Properties.                                                             *)

ExportTypeOK ==
  /\ exportStatus \in [Export -> ExportTasks!TaskStatus] /\ exportCancel \subseteq Export
  /\ exportKind \in [Export -> ExportKind]
  /\ exportStage \in [Export -> {"idle", "created", "queued", "preparing", "streaming",
                                 "stopping", "settling", "published", "ended", "lost"}]
  /\ exportLease \subseteq Export /\ exportParts \subseteq Export /\ markedFailed \subseteq Export
  /\ exportWorker \in [Export -> {"none", "running", "ok", "error", "aborted"}]
  /\ exportChannel \in [Export -> 0..ChannelPlaces]
  /\ exportWritten \in [Export -> 0..MaxChunks]
  /\ exportOutcome \in [Export -> {"none", "ok", "cancelled", "failed", "database"}]
  /\ exportTarget \in Export \cup {NoWriter, Foreign}

(* The destination is never part of a result: what an export published is   *)
(* all its query returned, and it is the export that says it succeeded.     *)
(* Whatever else happens, a crash included, the destination is left alone.  *)
PublishedIsWhole ==
  /\ \A e \in Export :
       /\ exportTarget = e => /\ exportWritten[e] = MaxChunks
                              /\ exportOutcome[e] = "ok" \/ exportStage[e] = "lost"
       /\ exportStatus[e] = "succeeded" => exportTarget = e

\* The query of a console's transaction did not run to its end.
Broken(e) == exportKind[e] = "console" /\ exportWorker[e] \in {"error", "aborted"}

\* A cancelled export marks no console, nor does one that could not write its file.
NeverMarks == {"cancelled", "failed"}

(* A query that may still be running occupies its session: the lease is not *)
(* given back before the worker has ended or been aborted, so that no other *)
(* operation meets it there.  A console whose query broke is marked by then  *)
(* too, except by an export that was cancelled or could not write its file.  *)
WorkersHoldTheirSession ==
  /\ \A e \in Export : exportWorker[e] = "running" => e \in exportLease
  /\ \A d, e \in exportLease : d # e => exportKind[d] # exportKind[e]
  /\ \A e \in Export :
       Broken(e) /\ exportOutcome[e] \notin NeverMarks => e \in exportLease \cup markedFailed

(* Neither the destination nor the session is given up half way.            *)
ExportSafety == PublishedIsWhole /\ WorkersHoldTheirSession

(* Cancelling an export ends it, though its query never answers and the     *)
(* channel is full, unless it is waiting for columns or the schema then.    *)
EveryCancelledExportEnds ==
  \A e \in Export : (e \in exportCancel /\ ~AwaitsDatabase(e))
                       ~> (exportStage[e] \in {"ended", "lost"})
=============================================================================
