----------------------------- MODULE CsvImport -----------------------------
(***************************************************************************)
(* The CSV import of commands/export.rs: a task with a lease on the primary *)
(* session that reads a file twice inside one transaction, first to check   *)
(* it and then to insert its rows batch by batch.                          *)
(*                                                                         *)
(* Others may edit the file in place meanwhile, and add, remove, narrow or   *)
(* change rows: a plain edit changes its length or time, a silent one not.   *)
(* PostgreSQL guards each batch and row with a savepoint; the databases      *)
(* without it may end the transaction themselves when a statement fails, as *)
(* MySQL does on a deadlock.                                               *)
(***************************************************************************)
EXTENDS Integers, FiniteSets

CONSTANTS
  BatchSize,
  CheckEvery,          \* after how many rows the file is looked at again
  MaxRows,             \* bound: data rows of the file
  MaxEdits             \* bound: edits of the file

ASSUME ImportAssumption ==
  /\ {BatchSize, CheckEvery} \subseteq Nat \ {0}
  /\ MaxRows \in Nat \ {0} /\ MaxEdits \in Nat

ImportTask == {"import"}
Row == 1..MaxRows

VARIABLES
  importStatus, importCancel,
  savepoints,     \* whether the database is one with savepoints
  importStage,
  fileRows,       \* how many rows the file has now
  narrow,         \* those whose width is not the header's
  fileStamp, fileContent,
  stampSeen, contentSeen,  \* the snapshot
  rowsSeen, narrowSeen,    \* what the first pass counted
  importRow,      \* rows read in the second pass
  atEnd,          \* it has met the end of the file
  batch,          \* rows read and not yet inserted, in file order
  inserted, failedRows,
  readFrom,       \* history: contents of the file each row was read from
  checked,        \* history: the row at which the file was last looked at
  inTransaction, provisional, committed,  \* the database's side
  importOutcome,
  serverEnded,    \* history: the database ended the transaction by itself
  unsure          \* history: the answer to COMMIT was lost

fileVars == <<fileRows, narrow, fileStamp, fileContent>>
seenVars == <<stampSeen, contentSeen, rowsSeen, narrowSeen>>
importTaskVars == <<importStatus, importCancel>>
progressVars == <<importRow, atEnd, batch, inserted, failedRows, readFrom, checked>>
importDatabaseVars == <<inTransaction, provisional, committed, serverEnded, unsure>>
importVars == <<importTaskVars, savepoints, importStage, fileVars, seenVars,
                progressVars, importDatabaseVars, importOutcome>>

ImportTasks == INSTANCE TaskManager
                 WITH Task <- ImportTask, status <- importStatus, cancelRequested <- importCancel

ImportInit ==
  /\ ImportTasks!TaskInit
  /\ savepoints \in BOOLEAN
  /\ fileRows \in 0..MaxRows /\ narrow \in SUBSET (1..fileRows)
  /\ importStage = "idle"
  /\ fileStamp = 0 /\ fileContent = 0 /\ stampSeen = 0 /\ contentSeen = 0
  /\ rowsSeen = 0 /\ narrowSeen = {}
  /\ importRow = 0 /\ atEnd = FALSE /\ batch = {} /\ inserted = {} /\ failedRows = {}
  /\ readFrom = [r \in Row |-> 0] /\ checked = 0
  /\ inTransaction = FALSE /\ provisional = {} /\ committed = {}
  /\ serverEnded = FALSE /\ unsure = FALSE
  /\ importOutcome = "none"

Stops == "import" \in importCancel
Goes(stage) == importStage' = stage
\* Whatever goes wrong inside the transaction leads to a rollback.
Abandons(outcome) == importStage' = "rollingBack" /\ importOutcome' = outcome
KeepsFile == UNCHANGED <<fileVars, seenVars>>

-----------------------------------------------------------------------------
\* The command waits for its lease, previews the file and creates the task; it
\* answers with an error if there is nothing to import.
StartImport ==
  /\ importStage = "idle" /\ narrow # 1..fileRows
  /\ ImportTasks!CreateTask("import")
  /\ Goes("created")
  /\ KeepsFile
  /\ UNCHANGED <<savepoints, progressVars, importDatabaseVars, importOutcome>>

\* The task starts and begins the transaction.
BeginImport ==
  /\ importStage = "created"
  /\ ImportTasks!StartTask("import")
  /\ \/ Stops /\ Goes("ended") /\ importOutcome' = "cancelled" /\ UNCHANGED inTransaction
     \/ Goes("ended") /\ importOutcome' = "failed" /\ UNCHANGED inTransaction
     \/ ~Stops /\ Goes("scanning") /\ inTransaction' = TRUE /\ UNCHANGED importOutcome
  /\ KeepsFile
  /\ UNCHANGED <<savepoints, progressVars, provisional, committed, serverEnded, unsure>>

\* The first pass: a snapshot of the file, then every record of it is counted.
TakeSnapshot ==
  /\ importStage = "scanning"
  /\ \/ Stops /\ Abandons("cancelled") /\ UNCHANGED seenVars
     \/ Abandons("failed") /\ UNCHANGED seenVars
     \/ /\ ~Stops
        /\ stampSeen' = fileStamp /\ contentSeen' = fileContent
        /\ rowsSeen' = fileRows /\ narrowSeen' = narrow
        /\ Goes("scanned")
        /\ UNCHANGED importOutcome
  /\ UNCHANGED <<importTaskVars, savepoints, fileVars, progressVars, importDatabaseVars>>

\* Before the first write the whole file is compared with the snapshot.
CompareContents ==
  /\ importStage = "scanned"
  /\ \/ Stops /\ Abandons("cancelled")
     \/ /\ <<fileStamp, fileContent>> # <<stampSeen, contentSeen>>
        /\ Abandons("failed")
     \/ /\ ~Stops /\ <<fileStamp, fileContent>> = <<stampSeen, contentSeen>>
        /\ Goes("writing")
        /\ UNCHANGED importOutcome
  /\ KeepsFile
  /\ UNCHANGED <<importTaskVars, savepoints, progressVars, importDatabaseVars>>

-----------------------------------------------------------------------------
(* The second pass.                                                        *)

Looks(r) == r = 1 \/ r % CheckEvery = 0

\* Rows of another width were reported by the first pass and are skipped here.
Collects(r) ==
  /\ checked' = IF Looks(r) THEN r ELSE checked
  /\ batch' = IF r \in narrow THEN batch ELSE batch \cup {r}
  /\ Goes(IF Cardinality(batch') = BatchSize THEN "inserting" ELSE "writing")
  /\ UNCHANGED importOutcome

\* Mutant: the file is looked at before the first write only.
ReadRowTrusting ==
  LET r == importRow + 1 IN
  /\ importStage = "writing" /\ ~atEnd /\ r <= fileRows /\ ~Stops
  /\ importRow' = r
  /\ readFrom' = [readFrom EXCEPT ![r] = fileContent]
  /\ Collects(r)
  /\ KeepsFile
  /\ UNCHANGED <<importTaskVars, savepoints, atEnd, inserted, failedRows, importDatabaseVars>>

\* The next row of the file as it is now.
ReadRow ==
  LET r == importRow + 1 IN
  /\ importStage = "writing" /\ ~atEnd /\ r <= fileRows
  /\ importRow' = r
  /\ readFrom' = [readFrom EXCEPT ![r] = fileContent]
  /\ IF Stops \/ (Looks(r) /\ fileStamp # stampSeen)
       THEN /\ Abandons(IF Stops THEN "cancelled" ELSE "failed")
            /\ UNCHANGED <<batch, checked>>
       ELSE Collects(r)
  /\ KeepsFile
  /\ UNCHANGED <<importTaskVars, savepoints, atEnd, inserted, failedRows, importDatabaseVars>>

\* The file cannot be read, or what an edit made of it is no record.
ReadFails ==
  /\ importStage = "writing" /\ ~atEnd
  /\ Abandons("failed")
  /\ KeepsFile
  /\ UNCHANGED <<importTaskVars, savepoints, progressVars, importDatabaseVars>>

\* Wherever the file ends now; nobody compares that with what was counted.
EndOfFile ==
  /\ importStage = "writing" /\ ~atEnd /\ importRow >= fileRows
  /\ atEnd' = TRUE
  /\ Goes(IF batch = {} THEN "committing" ELSE "inserting")
  /\ KeepsFile
  /\ UNCHANGED <<importTaskVars, savepoints, importRow, batch, inserted, failedRows, readFrom,
                 checked, importDatabaseVars, importOutcome>>

\* A transaction that is open keeps a row provisionally; otherwise it is kept.
InsertRows(rows) ==
  /\ inserted' = inserted \cup rows
  /\ IF inTransaction
       THEN provisional' = provisional \cup rows /\ UNCHANGED committed
       ELSE committed' = committed \cup rows /\ UNCHANGED provisional

\* A statement that fails may end the transaction: a deadlock, a full disk.
StatementFails ==
  \/ UNCHANGED importDatabaseVars
  \/ /\ ~savepoints
     /\ inTransaction' = FALSE /\ provisional' = {} /\ serverEnded' = TRUE
     /\ UNCHANGED <<committed, unsure>>

AfterBatch == Goes(IF atEnd THEN "committing" ELSE "writing")

\* One statement inserts the batch.  If it fails the rows follow one by one.
InsertBatch ==
  /\ importStage = "inserting"
  /\ \/ /\ Stops /\ Abandons("cancelled")
        /\ UNCHANGED <<batch, inserted, importDatabaseVars>>
     \/ /\ ~Stops
        /\ InsertRows(batch)
        /\ batch' = {}
        /\ AfterBatch
        /\ UNCHANGED <<importOutcome, inTransaction, serverEnded, unsure>>
     \/ /\ ~Stops
        /\ StatementFails
        /\ Goes("rowByRow")
        /\ UNCHANGED <<batch, inserted, importOutcome>>
     \/ /\ savepoints   \* the savepoint itself cannot be had
        /\ Abandons("failed")
        /\ UNCHANGED <<batch, inserted, importDatabaseVars>>
  /\ KeepsFile
  /\ UNCHANGED <<importTaskVars, savepoints, importRow, atEnd, failedRows, readFrom, checked>>

\* The first row that is left, which the database takes or refuses.
InsertOne ==
  LET r == CHOOSE q \in batch : \A o \in batch : q <= o IN
  /\ importStage = "rowByRow" /\ batch # {}
  /\ \/ /\ \/ Stops /\ Abandons("cancelled")
           \/ savepoints /\ Abandons("failed")
        /\ UNCHANGED <<batch, inserted, failedRows, importDatabaseVars>>
     \/ /\ ~Stops /\ batch' = batch \ {r}
        /\ \/ /\ StatementFails
              /\ failedRows' = failedRows \cup {r} /\ UNCHANGED inserted
           \/ /\ InsertRows({r})
              /\ UNCHANGED <<failedRows, inTransaction, serverEnded, unsure>>
        /\ UNCHANGED <<importStage, importOutcome>>
  /\ KeepsFile
  /\ UNCHANGED <<importTaskVars, savepoints, importRow, atEnd, readFrom, checked>>

RowsAreDone ==
  /\ importStage = "rowByRow" /\ batch = {}
  /\ AfterBatch
  /\ KeepsFile
  /\ UNCHANGED <<importTaskVars, savepoints, progressVars, importDatabaseVars, importOutcome>>

-----------------------------------------------------------------------------
(* The end.                                                                *)

\* Mutant: a cancellation is not looked for after the last batch.
CommitImportDeaf ==
  /\ importStage = "committing"
  /\ committed' = committed \cup provisional /\ provisional' = {} /\ inTransaction' = FALSE
  /\ Goes("ended") /\ importOutcome' = IF Stops THEN "cancelled" ELSE "ok"
  /\ KeepsFile
  /\ UNCHANGED <<importTaskVars, savepoints, progressVars, serverEnded, unsure>>

CommitImport ==
  /\ importStage = "committing"
  /\ \/ Stops /\ Abandons("cancelled") /\ UNCHANGED importDatabaseVars
     \/ /\ ~Stops
        /\ committed' = committed \cup provisional /\ provisional' = {} /\ inTransaction' = FALSE
        /\ \/ Goes("ended") /\ importOutcome' = "ok" /\ UNCHANGED unsure
           \/ Abandons("failed") /\ unsure' = TRUE
        /\ UNCHANGED serverEnded
     \/ ~Stops /\ Abandons("failed") /\ UNCHANGED importDatabaseVars
  /\ KeepsFile
  /\ UNCHANGED <<importTaskVars, savepoints, progressVars>>

\* That the rollback failed is not looked at: the transaction stays open then.
RollBackImport ==
  /\ importStage = "rollingBack"
  /\ \/ provisional' = {} /\ inTransaction' = FALSE
     \/ inTransaction /\ UNCHANGED <<provisional, inTransaction>>
  /\ Goes("ended")
  /\ KeepsFile
  /\ UNCHANGED <<importTaskVars, savepoints, progressVars, committed, serverEnded, unsure,
                 importOutcome>>

ReportImport ==
  /\ importStage = "ended" /\ importStatus["import"] \notin {"succeeded", "failed", "cancelled"}
  /\ ImportTasks!Finish("import", IF importOutcome = "ok" THEN "succeeded" ELSE importOutcome)
  /\ KeepsFile
  /\ UNCHANGED <<savepoints, importStage, progressVars, importDatabaseVars, importOutcome>>

\* Any other contents, until the end of the file was met.
EditFile ==
  /\ importStage \in {"scanning", "scanned", "writing", "inserting", "rowByRow"} /\ ~atEnd
  /\ fileContent < MaxEdits
  /\ fileContent' = fileContent + 1
  /\ fileStamp' \in {fileStamp, fileStamp + 1}
  /\ fileRows' \in 0..MaxRows
  /\ narrow' \in SUBSET (1..fileRows')
  /\ UNCHANGED <<importTaskVars, savepoints, importStage, seenVars, progressVars,
                 importDatabaseVars, importOutcome>>

CancelImport ==
  /\ ImportTasks!RequestCancel("import")
  /\ KeepsFile
  /\ UNCHANGED <<savepoints, importStage, progressVars, importDatabaseVars, importOutcome>>

ImportNext ==
  \/ StartImport \/ BeginImport \/ TakeSnapshot \/ CompareContents
  \/ ReadRow \/ ReadFails \/ EndOfFile \/ InsertBatch \/ InsertOne \/ RowsAreDone
  \/ CommitImport \/ RollBackImport \/ ReportImport
  \/ EditFile \/ CancelImport

ImportSpec == ImportInit /\ [][ImportNext]_importVars

-----------------------------------------------------------------------------
(* Properties.                                                             *)

ImportTypeOK ==
  /\ importStatus \in [ImportTask -> ImportTasks!TaskStatus] /\ importCancel \subseteq ImportTask
  /\ savepoints \in BOOLEAN /\ atEnd \in BOOLEAN
  /\ {fileRows, rowsSeen} \subseteq 0..MaxRows
  /\ narrow \subseteq 1..fileRows /\ narrowSeen \subseteq 1..rowsSeen
  /\ importStage \in {"idle", "created", "scanning", "scanned", "writing", "inserting",
                      "rowByRow", "committing", "rollingBack", "ended"}
  /\ {fileStamp, fileContent, stampSeen, contentSeen} \subseteq 0..MaxEdits
  /\ {importRow, checked} \subseteq 0..MaxRows
  /\ batch \subseteq Row /\ Cardinality(batch) <= BatchSize
  /\ inserted \subseteq Row /\ failedRows \subseteq Row
  /\ readFrom \in [Row -> 0..MaxEdits]
  /\ inTransaction \in BOOLEAN /\ serverEnded \in BOOLEAN /\ unsure \in BOOLEAN
  /\ provisional \subseteq Row /\ committed \subseteq Row
  /\ importOutcome \in {"none", "ok", "cancelled", "failed"}

(* What an import reports is what it did.  One that was cancelled or failed  *)
(* has committed nothing, unless the answer to COMMIT was lost; one that     *)
(* succeeded has committed exactly the rows it counts, each of them once.   *)
(* All this as long as the database does not end the transaction by itself.  *)
ImportReportIsTrue ==
  importStage = "ended" /\ ~serverEnded =>
    /\ importOutcome \in {"cancelled", "failed"} /\ ~unsure => committed = {}
    /\ importOutcome = "ok" => committed = inserted /\ inserted \cap failedRows = {}

(* The rows of a successful import come from one state of the file, the one  *)
(* that was checked as a whole, up to the row at which the file was last    *)
(* looked at; edits that change neither length nor time apart.              *)
RowsComeFromCheckedFile ==
  importOutcome = "ok" /\ fileContent = fileStamp =>
    \A r \in inserted : r <= checked => readFrom[r] = contentSeen

(* Nor is a row of that state dropped: up to that row each was inserted, or  *)
(* refused by the database, or reported as one of another width.  If the     *)
(* file was left alone to its end this is so for every row that was counted, *)
(* so that the report adds up.                                             *)
NoRowIsDropped ==
  LET kept == inserted \cup failedRows IN
  importOutcome = "ok" =>
    /\ fileContent = fileStamp => \A r \in 1..checked : r \in narrowSeen <=> r \notin kept
    /\ fileContent = contentSeen => kept = (1..rowsSeen) \ narrowSeen

(* An import does what it says, with the file it was shown.                 *)
ImportSafety == ImportReportIsTrue /\ RowsComeFromCheckedFile /\ NoRowIsDropped
=============================================================================
