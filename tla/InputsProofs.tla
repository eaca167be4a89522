---------------------------- MODULE InputsProofs ----------------------------
(***************************************************************************)
(* What the user hands to the program, for every number of rows, edits,     *)
(* previews, connections, definitions and installations, and for texts of     *)
(* every length: an import reports what it did with the file it checked, the *)
(* preview panel shows the preview it waits for, a command on drivers leaves *)
(* connections alone that it was not about, only creating makes a file, an   *)
(* edit of a form is honoured, a host and its port are taken apart, and the  *)
(* credentials of a URL leave it while all else survives.                   *)
(***************************************************************************)
EXTENDS MCInputs, CsvProofs, FiniteSetTheorems, WellFoundedInduction, TLAPS

-----------------------------------------------------------------------------
(* Imports.                                                                *)

Untouched == {"idle", "created", "scanning", "scanned"}
Inserting == {"writing", "inserting", "rowByRow", "committing"}
InTransaction == {"scanning", "scanned"} \cup Inserting

\* The second pass goes on, or came to its end.
SecondPass == importStage \in Inserting \/ (importStage = "ended" /\ importOutcome = "ok")

\* Every row read so far has at most one place.
RowsHaveOnePlace ==
  /\ batch \cap (inserted \cup failedRows) = {} /\ inserted \cap failedRows = {}
  /\ SecondPass => batch \cup inserted \cup failedRows \subseteq 1..importRow
  /\ importStage = "committing" => atEnd /\ batch = {}
  /\ importStage = "ended" /\ importOutcome = "ok" => atEnd /\ batch = {}
  /\ importStage = "writing" => Cardinality(batch) < BatchSize
  /\ importStage \in Untouched =>
       importRow = 0 /\ checked = 0 /\ batch = {} /\ inserted = {} /\ failedRows = {} /\ ~atEnd

\* What the import will answer is decided where it leaves its transaction.
OutcomeIsDecided ==
  /\ importStage = "rollingBack" => importOutcome \in {"cancelled", "failed"}
  /\ importStage = "ended" => importOutcome # "none"
  /\ importStage \notin {"rollingBack", "ended"} => importOutcome = "none"

\* Until it is committed the transaction holds what was inserted.
TransactionHoldsRows ==
  ~serverEnded =>
    /\ importStage \in InTransaction =>
         inTransaction /\ committed = {} /\ provisional = inserted
    /\ importStage \in {"idle", "created"} => ~inTransaction /\ committed = {} /\ provisional = {}
    /\ importStage = "rollingBack" => (unsure \/ committed = {})
    /\ (importStage = "ended" /\ importOutcome # "ok") => (unsure \/ committed = {})
    /\ (importStage = "ended" /\ importOutcome = "ok") => committed = inserted

\* Contents are never older than the stamp; if all edits changed the stamp, a stamp that is
\* the one seen is that of the contents that were checked.
FileIsWatched ==
  /\ fileStamp <= fileContent /\ stampSeen <= fileStamp /\ contentSeen <= fileContent
  /\ checked <= importRow
  /\ \A r \in 1..importRow : contentSeen <= readFrom[r] /\ readFrom[r] <= fileContent
  /\ fileContent = fileStamp =>
       stampSeen = contentSeen /\ \A r \in 1..checked : readFrom[r] = contentSeen

\* Whether a row was reported by the first pass or taken by the second.
RowIsPlaced(r) == r \in narrowSeen <=> r \notin batch \cup inserted \cup failedRows

\* As long as the contents are those that were checked, the second pass finds what the first
\* one counted, and what it read of them is placed accordingly.
ShapeIsKnown ==
  /\ importStage = "scanned" \/ SecondPass =>
       (fileContent = contentSeen =>
          fileRows = rowsSeen /\ narrow = narrowSeen /\ importRow <= rowsSeen)
  /\ SecondPass => \A r \in 1..importRow : readFrom[r] = contentSeen => RowIsPlaced(r)
  /\ SecondPass /\ atEnd => (fileContent = contentSeen => importRow = rowsSeen)

ImportInv ==
  /\ ImportTypeOK /\ RowsHaveOnePlace /\ OutcomeIsDecided /\ TransactionHoldsRows
  /\ FileIsWatched /\ ShapeIsKnown


LEMMA SizeTypes == BatchSize \in Nat \ {0} /\ MaxRows \in Nat \ {0} /\ MaxEdits \in Nat
BY ImportAssumption

USE SizeTypes DEF KeepsFile, Goes, Abandons, fileVars, seenVars, importTaskVars,
    progressVars, importDatabaseVars

LEMMA ImportInvInit == ImportInit => ImportInv
<1> SUFFICES ASSUME ImportInit PROVE ImportInv
  OBVIOUS
<1>1. ImportTypeOK
  <2>1. batch = {} /\ Cardinality(batch) <= BatchSize
    BY FS_EmptySet DEF ImportInit
  <2>2. importStatus \in [ImportTask -> ImportTasks!TaskStatus] /\ importCancel \subseteq ImportTask
    BY DEF ImportInit, ImportTasks!TaskInit, ImportTasks!TaskStatus
  <2>3. readFrom \in [Row -> 0..MaxEdits]
    BY DEF ImportInit
  <2>4. /\ {fileStamp, fileContent, stampSeen, contentSeen} \subseteq 0..MaxEdits
        /\ {importRow, checked} \subseteq 0..MaxRows /\ {fileRows, rowsSeen} \subseteq 0..MaxRows
        /\ narrow \subseteq 1..fileRows /\ narrowSeen \subseteq 1..rowsSeen
    BY DEF ImportInit
  <2>5. /\ batch \subseteq Row /\ inserted \subseteq Row /\ failedRows \subseteq Row
        /\ provisional \subseteq Row /\ committed \subseteq Row
        /\ atEnd \in BOOLEAN /\ savepoints \in BOOLEAN /\ inTransaction \in BOOLEAN
        /\ serverEnded \in BOOLEAN /\ unsure \in BOOLEAN
        /\ importStage = "idle" /\ importOutcome = "none"
    BY DEF ImportInit
  <2> QED
    BY <2>1, <2>2, <2>3, <2>4, <2>5 DEF ImportTypeOK
<1>2. Cardinality(batch) <= BatchSize
  BY <1>1 DEF ImportTypeOK
<1> QED
  BY <1>1 DEF ImportInit, ImportInv, RowsHaveOnePlace, OutcomeIsDecided, TransactionHoldsRows,
         FileIsWatched, ShapeIsKnown, SecondPass, Untouched, Inserting, InTransaction

\* The batch is a set of rows: it is finite, and one of them is the first.
LEMMA BatchHasFirst ==
  ASSUME batch \subseteq Row, batch # {}
  PROVE  (CHOOSE q \in batch : \A o \in batch : q <= o) \in batch
<1> DEFINE R == OpToRel(<, Nat)
<1>1. IsWellFoundedOn(R, Nat)
  BY NatLessThanWellFounded
<1>0. batch \subseteq Nat
  BY DEF Row
<1>2. \A x, y \in Nat : y < x => <<y, x>> \in R
  BY DEF OpToRel
<1> HIDE DEF R
<1>3. PICK x \in batch : \A y \in batch : ~ (<<y, x>> \in R)
  BY <1>0, <1>1, WFMin
<1>4. ASSUME NEW y \in batch PROVE x <= y
  <2>1. ~(y < x)
    BY <1>0, <1>2, <1>3
  <2> QED
    BY <1>0, <2>1
<1> QED
  BY <1>4

LEMMA BatchIsFinite ==
  ASSUME batch \subseteq Row, NEW r \in Row
  PROVE  /\ IsFiniteSet(batch) /\ Cardinality(batch) \in Nat
         /\ Cardinality(batch \cup {r}) <= Cardinality(batch) + 1
         /\ Cardinality(batch \ {r}) <= Cardinality(batch)
         /\ Cardinality(batch \cup {r}) \in Nat /\ Cardinality(batch \ {r}) \in Nat
<1>1. IsFiniteSet(Row)
  BY FS_Interval DEF Row
<1>2. IsFiniteSet(batch)
  BY <1>1, FS_Subset
<1>3. IsFiniteSet(batch \cup {r}) /\ IsFiniteSet(batch \ {r})
  BY <1>2, FS_AddElement, FS_RemoveElement
<1>4. /\ Cardinality(batch) \in Nat /\ Cardinality(batch \cup {r}) \in Nat
      /\ Cardinality(batch \ {r}) \in Nat
  BY <1>2, <1>3, FS_CardinalityType
<1> QED
  BY <1>2, <1>4, FS_AddElement, FS_RemoveElement

LEMMA ReadRowKeeps == ASSUME ImportInv, ReadRow PROVE ImportInv'
<1> DEFINE r == importRow + 1
<1>1. /\ r \in Row /\ importRow \in 0..MaxRows /\ importStage = "writing" /\ importRow' = r
      /\ batch \subseteq Row /\ readFrom' = [readFrom EXCEPT ![r] = fileContent]
      /\ r <= fileRows /\ ~atEnd
      /\ UNCHANGED <<fileRows, narrow, fileStamp, fileContent, stampSeen, contentSeen, rowsSeen,
                     narrowSeen, atEnd, inserted, failedRows>>
  BY DEF ReadRow, ImportInv, ImportTypeOK, Row
<1>2. PICK stage \in {"writing", "inserting", "rollingBack"} :
        /\ importStage' = stage
        /\ stage = "rollingBack" => importOutcome' \in {"cancelled", "failed"}
        /\ stage = "rollingBack" => UNCHANGED <<batch, checked>>
        /\ stage # "rollingBack" => /\ UNCHANGED importOutcome
                                    /\ batch' = IF r \in narrow THEN batch ELSE batch \cup {r}
                                    /\ checked' = IF Looks(r) THEN r ELSE checked
                                    /\ Looks(r) => fileStamp = stampSeen
        /\ stage = "writing" => Cardinality(batch') # BatchSize
  BY DEF ReadRow, Collects
<1> HIDE DEF r
<1>3. /\ Cardinality(batch') <= BatchSize /\ batch' \subseteq Row
      /\ stage = "writing" => Cardinality(batch') < BatchSize
  <2>1. Cardinality(batch) < BatchSize /\ Cardinality(batch) \in Nat
    BY <1>1, BatchIsFinite DEF ImportInv, RowsHaveOnePlace
  <2>2. batch' = batch \/ batch' = batch \cup {r}
    BY <1>2
  <2>3. /\ Cardinality(batch \cup {r}) <= Cardinality(batch) + 1
        /\ Cardinality(batch \cup {r}) \in Nat
    BY <1>1, BatchIsFinite
  <2>4. Cardinality(batch') <= BatchSize /\ Cardinality(batch') \in Nat
    <3>1. CASE batch' = batch
      BY <2>1, <3>1
    <3>2. CASE batch' = batch \cup {r}
      BY <2>1, <2>3, <3>2
    <3> QED
      BY <2>2, <3>1, <3>2
  <2> QED
    BY <1>1, <1>2, <2>2, <2>4
<1>4. ImportTypeOK'
  BY <1>1, <1>2, <1>3 DEF ReadRow, ImportInv, ImportTypeOK
<1>5. RowsHaveOnePlace'
  <2>1. /\ batch \cup inserted \cup failedRows \subseteq 1..importRow
        /\ batch \cap (inserted \cup failedRows) = {} /\ inserted \cap failedRows = {}
    BY <1>1 DEF ImportInv, RowsHaveOnePlace, Inserting, SecondPass
  <2>2. 1..importRow' = (1..importRow) \cup {r} /\ r \notin 1..importRow
    BY <1>1 DEF r
  <2> QED
    BY <1>1, <1>2, <1>3, <2>1, <2>2 DEF RowsHaveOnePlace, Inserting, SecondPass, Untouched
<1>6. OutcomeIsDecided'
  BY <1>1, <1>2 DEF ImportInv, OutcomeIsDecided
<1>7. TransactionHoldsRows'
  BY <1>1, <1>2 DEF ReadRow, ImportInv, TransactionHoldsRows, Inserting, InTransaction
<1>8. FileIsWatched'
  <2>1. /\ checked \in 0..importRow /\ readFrom \in [Row -> 0..MaxEdits]
        /\ {fileStamp, fileContent, stampSeen, contentSeen} \subseteq Nat
    BY <1>1 DEF ImportInv, ImportTypeOK, FileIsWatched
  <2>2. checked' = checked \/ (checked' = r /\ fileStamp = stampSeen)
    BY <1>2
  <2>3. \A x \in 1..importRow' : contentSeen <= readFrom'[x] /\ readFrom'[x] <= fileContent
    BY <1>1, <2>1 DEF ImportInv, FileIsWatched, r
  <2>4. ASSUME fileContent = fileStamp, NEW x \in 1..checked' PROVE readFrom'[x] = contentSeen
    <3>1. CASE checked' = checked
      BY <1>1, <2>1, <2>4, <3>1 DEF ImportInv, FileIsWatched, r
    <3>2. CASE checked' = r /\ fileStamp = stampSeen
      <4>1. contentSeen = fileContent /\ x \in 1..importRow'
        BY <1>1, <2>1, <2>4, <3>2 DEF ImportInv, FileIsWatched
      <4>2. x \in Row
        BY <1>1, <4>1 DEF Row
      <4>3. readFrom'[x] \in Nat
        BY <1>1, <2>1, <4>2
      <4> QED
        BY <2>1, <2>3, <4>1, <4>3
    <3> QED
      BY <2>2, <3>1, <3>2
  <2> QED
    BY <1>1, <2>1, <2>2, <2>3, <2>4 DEF ImportInv, FileIsWatched, r
<1>9. ShapeIsKnown'
  <2>1. CASE stage = "rollingBack"
    BY <1>2, <2>1 DEF ShapeIsKnown, SecondPass, Inserting
  <2>2. CASE stage # "rollingBack"
    <3>1. /\ fileContent = contentSeen =>
               fileRows = rowsSeen /\ narrow = narrowSeen /\ r <= rowsSeen
          /\ \A x \in 1..importRow : readFrom[x] = contentSeen => RowIsPlaced(x)
          /\ batch \cup inserted \cup failedRows \subseteq 1..importRow
      BY <1>1 DEF ImportInv, ShapeIsKnown, RowsHaveOnePlace, SecondPass, Inserting
    <3>2. ASSUME NEW x \in 1..importRow', readFrom'[x] = contentSeen PROVE RowIsPlaced(x)'
      <4>1. CASE x = r
        <5>1. r \notin batch \cup inserted \cup failedRows
          BY <1>1, <3>1 DEF r
        <5>2. fileContent = contentSeen
          BY <1>1, <3>2, <4>1 DEF ImportInv, ImportTypeOK
        <5> QED
          BY <1>1, <1>2, <2>2, <3>1, <4>1, <5>1, <5>2 DEF RowIsPlaced
      <4>2. CASE x # r
        <5>1. x \in 1..importRow /\ x \in Row
          BY <1>1, <4>2 DEF r, Row
        <5>2. readFrom'[x] = readFrom[x]
          BY <1>1, <4>2, <5>1 DEF ImportInv, ImportTypeOK
        <5>3. RowIsPlaced(x)
          BY <3>1, <3>2, <5>1, <5>2
        <5> QED
          BY <1>1, <1>2, <2>2, <4>2, <5>3 DEF RowIsPlaced
      <4> QED
        BY <4>1, <4>2
    <3> QED
      BY <1>1, <1>2, <2>2, <3>1, <3>2 DEF ShapeIsKnown
  <2> QED
    BY <2>1, <2>2
<1> QED
  BY <1>4, <1>5, <1>6, <1>7, <1>8, <1>9 DEF ImportInv

\* What was read and what the file was stay as they are while rows are inserted.
LEMMA WatchKept ==
  ASSUME ImportInv,
         UNCHANGED <<fileStamp, fileContent, stampSeen, contentSeen, importRow, checked, readFrom>>
  PROVE  FileIsWatched'
BY DEF ImportInv, FileIsWatched

\* Rows that are read already change their place, and all together are the same rows.
LEMMA ShapeKept ==
  ASSUME ImportInv, SecondPass \/ ~SecondPass',
         importStage' # "scanned",
         SecondPass' => batch' \cup inserted' \cup failedRows' = batch \cup inserted \cup failedRows,
         UNCHANGED <<fileVars, seenVars, importRow, atEnd, readFrom>>
  PROVE  ShapeIsKnown'
<1>1. CASE ~SecondPass'
  BY <1>1 DEF ShapeIsKnown
<1>2. CASE SecondPass /\ SecondPass'
  <2>1. /\ fileContent = contentSeen =>
             fileRows = rowsSeen /\ narrow = narrowSeen /\ importRow <= rowsSeen
        /\ \A r \in 1..importRow : readFrom[r] = contentSeen => RowIsPlaced(r)
        /\ atEnd => (fileContent = contentSeen => importRow = rowsSeen)
    BY <1>2 DEF ImportInv, ShapeIsKnown
  <2>2. \A r \in 1..importRow : RowIsPlaced(r) => RowIsPlaced(r)'
    BY <1>2 DEF RowIsPlaced
  <2> HIDE DEF RowIsPlaced
  <2> QED
    BY <2>1, <2>2 DEF ShapeIsKnown
<1> QED
  BY <1>1, <1>2

LEMMA InsertBatchKeeps == ASSUME ImportInv, InsertBatch PROVE ImportInv'
<1>1. FileIsWatched'
  BY WatchKept DEF InsertBatch
<1>2. ImportTypeOK'
  <2>1. batch' \subseteq Row /\ Cardinality(batch') <= BatchSize
    <3>1. batch' = batch \/ batch' = {}
      BY DEF InsertBatch
    <3>2. CASE batch' = batch
      BY <3>2 DEF ImportInv, ImportTypeOK
    <3>3. CASE batch' = {}
      BY <3>3, FS_EmptySet
    <3> QED
      BY <3>1, <3>2, <3>3
  <2>2. /\ inserted' \subseteq Row /\ provisional' \subseteq Row /\ committed' \subseteq Row
        /\ inTransaction' \in BOOLEAN /\ serverEnded' \in BOOLEAN /\ unsure' \in BOOLEAN
    BY DEF InsertBatch, StatementFails, InsertRows, ImportInv, ImportTypeOK
  <2>3. /\ importStage' \in {"writing", "committing", "rowByRow", "rollingBack"}
        /\ importOutcome' \in {importOutcome, "cancelled", "failed"}
        /\ UNCHANGED <<importTaskVars, savepoints, fileVars, seenVars, importRow, atEnd,
                       failedRows, readFrom, checked>>
    BY DEF InsertBatch, AfterBatch
  <2> QED
    BY <2>1, <2>2, <2>3 DEF ImportInv, ImportTypeOK
<1>3. RowsHaveOnePlace'
  BY FS_EmptySet DEF InsertBatch, AfterBatch, InsertRows, ImportInv, RowsHaveOnePlace, Inserting,
     SecondPass, Untouched, OutcomeIsDecided
<1>4. OutcomeIsDecided'
  BY DEF InsertBatch, AfterBatch, ImportInv, OutcomeIsDecided
<1>5. TransactionHoldsRows'
  BY DEF InsertBatch, AfterBatch, StatementFails, InsertRows, ImportInv, TransactionHoldsRows,
     Inserting, InTransaction
<1>6. ShapeIsKnown'
  <2>1. SecondPass /\ importStage' # "scanned"
    BY DEF InsertBatch, AfterBatch, SecondPass, Inserting
  <2>2. batch' \cup inserted' \cup failedRows' = batch \cup inserted \cup failedRows
    BY DEF InsertBatch, InsertRows
  <2> QED
    BY <2>1, <2>2, ShapeKept DEF InsertBatch
<1> QED
  BY <1>1, <1>2, <1>3, <1>4, <1>5, <1>6 DEF ImportInv

LEMMA InsertOneKeeps == ASSUME ImportInv, InsertOne PROVE ImportInv'
<1> DEFINE r == CHOOSE q \in batch : \A o \in batch : q <= o
<1>0. batch \subseteq Row
  BY DEF ImportInv, ImportTypeOK
<1>1. FileIsWatched'
  BY WatchKept DEF InsertOne
<1>2. CASE importStage' = "rollingBack"
  <2>1. /\ importStage = "rowByRow" /\ importOutcome' \in {"cancelled", "failed"}
        /\ UNCHANGED <<importTaskVars, savepoints, fileVars, seenVars, progressVars,
                       importDatabaseVars>>
    BY <1>2 DEF InsertOne
  <2>2. ImportTypeOK'
    BY <1>2, <2>1 DEF ImportInv, ImportTypeOK
  <2>3. RowsHaveOnePlace' /\ OutcomeIsDecided'
    BY <1>2, <2>1 DEF ImportInv, RowsHaveOnePlace, OutcomeIsDecided, Inserting, SecondPass, Untouched
  <2>4. TransactionHoldsRows'
    BY <1>2, <2>1 DEF ImportInv, TransactionHoldsRows, Inserting, InTransaction
  <2>5. ShapeIsKnown'
    BY <1>2 DEF ShapeIsKnown, SecondPass, Inserting
  <2> QED
    BY <1>1, <2>2, <2>3, <2>4, <2>5 DEF ImportInv
<1>3. CASE importStage' # "rollingBack"
  <2>1. r \in batch /\ r \in Row
    BY <1>0, <1>3, BatchHasFirst DEF InsertOne
  <2>2. /\ importStage = "rowByRow" /\ batch' = batch \ {r}
        /\ \/ failedRows' = failedRows \cup {r} /\ StatementFails /\ UNCHANGED inserted
           \/ /\ InsertRows({r})
              /\ UNCHANGED <<failedRows, inTransaction, serverEnded, unsure>>
        /\ UNCHANGED <<importTaskVars, savepoints, importStage, importOutcome, importRow, atEnd,
                       readFrom, checked, fileVars, seenVars>>
    BY <1>3 DEF InsertOne
  <2> HIDE DEF r
  <2>3. Cardinality(batch') <= BatchSize /\ Cardinality(batch') \in Nat
    BY <1>0, <2>1, <2>2, BatchIsFinite DEF ImportInv, ImportTypeOK
  <2>4. ImportTypeOK'
    BY <2>1, <2>2, <2>3 DEF ImportInv, ImportTypeOK, InsertRows, StatementFails
  <2>5. RowsHaveOnePlace' /\ OutcomeIsDecided'
    BY <2>1, <2>2
       DEF ImportInv, RowsHaveOnePlace, OutcomeIsDecided, Inserting, SecondPass, Untouched, InsertRows
  <2>6. TransactionHoldsRows'
    BY <2>1, <2>2 DEF ImportInv, TransactionHoldsRows, Inserting, InTransaction, InsertRows,
       StatementFails
  <2>7. ShapeIsKnown'
    <3>1. batch' \cup inserted' \cup failedRows' = batch \cup inserted \cup failedRows
      BY <2>1, <2>2 DEF InsertRows
    <3>2. SecondPass /\ importStage' # "scanned"
      BY <2>2 DEF SecondPass, Inserting
    <3> QED
      BY <2>2, <3>1, <3>2, ShapeKept
  <2> QED
    BY <1>1, <2>4, <2>5, <2>6, <2>7 DEF ImportInv
<1> QED
  BY <1>2, <1>3

\* The steps that touch the stage and what the task holds, and nothing it has read.
LEMMA OtherImportSteps ==
  ASSUME ImportInv,
         \/ StartImport \/ BeginImport \/ CompareContents \/ ReadFails \/ EndOfFile
         \/ RowsAreDone \/ CommitImport \/ RollBackImport \/ ReportImport \/ CancelImport
  PROVE  ImportInv'
<1> USE DEF ImportTasks!CreateTask, ImportTasks!StartTask, ImportTasks!RequestCancel,
        ImportTasks!Finish, ImportTasks!TaskStatus, StartImport, BeginImport, CompareContents,
        ReadFails, EndOfFile, RowsAreDone, AfterBatch, CommitImport, RollBackImport, ReportImport,
        CancelImport
<1>1. FileIsWatched'
  BY WatchKept
<1>2. ImportTypeOK'
  <2>1. importStatus \in [ImportTask -> ImportTasks!TaskStatus]
    BY DEF ImportInv, ImportTypeOK
  <2>2. importStatus' \in [ImportTask -> ImportTasks!TaskStatus] /\ importCancel' \subseteq ImportTask
    BY <2>1 DEF ImportInv, ImportTypeOK, ImportTask, OutcomeIsDecided
  <2>3. /\ provisional' \subseteq Row /\ committed' \subseteq Row
        /\ inTransaction' \in BOOLEAN /\ unsure' \in BOOLEAN /\ UNCHANGED serverEnded
    BY DEF ImportInv, ImportTypeOK
  <2>4. /\ importStage' \in {importStage, "created", "ended", "scanning", "writing", "rollingBack",
                             "committing", "inserting"}
        /\ importOutcome' \in {importOutcome, "cancelled", "failed", "ok"}
        /\ UNCHANGED <<savepoints, fileVars, seenVars, importRow, batch, inserted, failedRows,
                       readFrom, checked>>
    OBVIOUS
  <2>5. atEnd' \in BOOLEAN
    BY DEF ImportInv, ImportTypeOK
  <2> QED
    BY <2>2, <2>3, <2>4, <2>5 DEF ImportInv, ImportTypeOK
<1>3. RowsHaveOnePlace'
  BY FS_EmptySet DEF ImportInv, RowsHaveOnePlace, OutcomeIsDecided, Inserting, SecondPass, Untouched
<1>4. OutcomeIsDecided'
  BY DEF ImportInv, OutcomeIsDecided
<1>5. TransactionHoldsRows'
  BY ZenonT(40) DEF ImportInv, ImportTypeOK, RowsHaveOnePlace, OutcomeIsDecided, TransactionHoldsRows,
         Inserting, InTransaction, Untouched, Row
<1>6. ShapeIsKnown'
  <2>1. CASE EndOfFile
    <3>1. /\ SecondPass
          /\ UNCHANGED <<fileVars, seenVars, importRow, batch, inserted, failedRows, readFrom>>
      BY <2>1 DEF SecondPass, Inserting
    <3>2. fileContent = contentSeen => importRow = rowsSeen
      BY <2>1, <3>1 DEF ImportInv, ImportTypeOK, ShapeIsKnown
    <3>3. \A r \in 1..importRow : RowIsPlaced(r)' <=> RowIsPlaced(r)
      BY <3>1 DEF RowIsPlaced
    <3> HIDE DEF RowIsPlaced
    <3> QED
      BY <2>1, <3>1, <3>2, <3>3 DEF ImportInv, ShapeIsKnown
  <2>2. CASE CompareContents
    <3>1. /\ importRow = 0 /\ importStage = "scanned" /\ ~atEnd
          /\ UNCHANGED <<fileVars, seenVars, importRow, atEnd>>
          /\ importStage' # "scanned"
      BY <2>2 DEF ImportInv, RowsHaveOnePlace, Untouched
    <3> QED
      BY <3>1 DEF ImportInv, ShapeIsKnown
  <2>3. CASE ReportImport \/ CancelImport
    <3>1. UNCHANGED <<importStage, importOutcome, fileVars, seenVars, progressVars>>
      BY <2>3
    <3> QED
      BY <3>1 DEF ImportInv, ShapeIsKnown, SecondPass, RowIsPlaced
  <2>4. CASE StartImport \/ BeginImport \/ ReadFails \/ RowsAreDone \/ CommitImport \/ RollBackImport
    <3>1. SecondPass \/ ~SecondPass'
      BY <2>4 DEF ImportInv, OutcomeIsDecided, SecondPass, Inserting
    <3>2. importStage' # "scanned" /\ UNCHANGED <<fileVars, seenVars, progressVars>>
      BY <2>4
    <3> QED
      BY <3>1, <3>2, ShapeKept
  <2> QED
    BY <2>1, <2>2, <2>3, <2>4
<1> QED
  BY <1>1, <1>2, <1>3, <1>4, <1>5, <1>6 DEF ImportInv

LEMMA FileSteps ==
  ASSUME ImportInv, TakeSnapshot \/ EditFile
  PROVE  ImportInv'
<1> USE DEF ImportInv, ImportTypeOK
<1>1. ImportTypeOK'
  <2>1. CASE TakeSnapshot
    BY <2>1 DEF TakeSnapshot
  <2>2. CASE EditFile
    <3>1. /\ {fileStamp', fileContent', stampSeen', contentSeen'} \subseteq 0..MaxEdits
          /\ {fileRows', rowsSeen'} \subseteq 0..MaxRows
          /\ narrow' \subseteq 1..fileRows' /\ narrowSeen' \subseteq 1..rowsSeen'
      BY <2>2 DEF EditFile, FileIsWatched
    <3> QED
      BY <2>2, <3>1 DEF EditFile
  <2> QED
    BY <2>1, <2>2
<1>2. RowsHaveOnePlace'
  BY DEF TakeSnapshot, EditFile, RowsHaveOnePlace, OutcomeIsDecided, Inserting, SecondPass, Untouched
<1>3. OutcomeIsDecided'
  BY DEF TakeSnapshot, EditFile, OutcomeIsDecided
<1>4. TransactionHoldsRows'
  BY DEF TakeSnapshot, EditFile, TransactionHoldsRows, Inserting, InTransaction
<1>5. FileIsWatched'
  <2>1. CASE TakeSnapshot
    <3>1. importRow = 0 /\ checked = 0
      BY <2>1 DEF TakeSnapshot, RowsHaveOnePlace, Untouched
    <3> QED
      BY <2>1, <3>1 DEF TakeSnapshot, FileIsWatched
  <2>2. CASE EditFile
    <3>1. /\ fileContent' = fileContent + 1 /\ fileStamp' \in {fileStamp, fileStamp + 1}
          /\ UNCHANGED <<importRow, checked, readFrom, stampSeen, contentSeen>>
          /\ {fileStamp, fileContent, stampSeen, contentSeen} \subseteq Nat
          /\ importRow \in 0..MaxRows
      BY <2>2 DEF EditFile
    <3>2. \A r \in 1..importRow : readFrom[r] \in Nat
      BY <3>1 DEF Row
    <3> QED
      BY <3>1, <3>2 DEF FileIsWatched
  <2> QED
    BY <2>1, <2>2
<1>6. ShapeIsKnown'
  <2>1. CASE TakeSnapshot
    <3>1. importRow = 0 /\ ~SecondPass' /\ UNCHANGED <<fileVars, importRow>>
      BY <2>1 DEF TakeSnapshot, RowsHaveOnePlace, Untouched, SecondPass, Inserting
    <3> QED
      BY <2>1, <3>1 DEF TakeSnapshot, ShapeIsKnown
  <2>2. CASE EditFile
    <3>1. fileContent' # contentSeen'
      BY <2>2 DEF EditFile, FileIsWatched
    <3>2. /\ UNCHANGED <<importStage, importOutcome, importRow, readFrom, seenVars, batch, inserted,
                         failedRows>>
      BY <2>2 DEF EditFile
    <3> QED
      BY <3>1, <3>2 DEF ShapeIsKnown, SecondPass, RowIsPlaced
  <2> QED
    BY <2>1, <2>2
<1> QED
  BY <1>1, <1>2, <1>3, <1>4, <1>5, <1>6

LEMMA ImportInvNext == ImportInv /\ [ImportNext]_importVars => ImportInv'
<1> SUFFICES ASSUME ImportInv, [ImportNext]_importVars PROVE ImportInv'
  OBVIOUS
<1>1. CASE UNCHANGED importVars
  <2>1. UNCHANGED <<importStage, importOutcome, fileVars, seenVars, progressVars>>
    BY <1>1 DEF importVars
  <2>2. ShapeIsKnown'
    BY <2>1 DEF ImportInv, ShapeIsKnown, SecondPass, RowIsPlaced
  <2>3. RowsHaveOnePlace'
    BY <2>1 DEF ImportInv, RowsHaveOnePlace, SecondPass
  <2> QED
    BY <1>1, <2>2, <2>3 DEF importVars, ImportInv, ImportTypeOK, OutcomeIsDecided,
         TransactionHoldsRows, FileIsWatched
<1> QED
  BY <1>1, ReadRowKeeps, InsertBatchKeeps, InsertOneKeeps, OtherImportSteps, FileSteps
     DEF ImportNext

(* A cancelled or failed import has committed nothing, one that succeeded     *)
(* has committed exactly the rows it counts; up to the row at which it last  *)
(* looked at the file they come from the contents it checked, and none of    *)
(* these is dropped; for files of any length, edits of any kind and number,  *)
(* and batches of any size.                                                *)
THEOREM ImportCorrect == ImportSpec => []ImportSafety
<1>1. ImportInv => ImportSafety
  <2> SUFFICES ASSUME ImportInv PROVE ImportSafety
    OBVIOUS
  <2>1. ImportReportIsTrue
    BY DEF ImportInv, ImportTypeOK, ImportReportIsTrue, OutcomeIsDecided, TransactionHoldsRows,
           RowsHaveOnePlace
  <2>2. RowsComeFromCheckedFile
    BY DEF ImportInv, ImportTypeOK, RowsComeFromCheckedFile, FileIsWatched, Row
  <2>3. NoRowIsDropped
    <3> DEFINE kept == inserted \cup failedRows
    <3> SUFFICES ASSUME importOutcome = "ok"
                 PROVE  /\ fileContent = fileStamp =>
                             \A r \in 1..checked : r \in narrowSeen <=> r \notin kept
                        /\ fileContent = contentSeen => kept = (1..rowsSeen) \ narrowSeen
      BY Zenon DEF NoRowIsDropped
    <3>1. /\ SecondPass /\ atEnd /\ batch = {} /\ kept \subseteq 1..importRow
          /\ checked \in 0..importRow /\ importRow \in Nat
          /\ {fileContent, contentSeen} \subseteq Nat
      BY DEF ImportInv, ImportTypeOK, OutcomeIsDecided, RowsHaveOnePlace, FileIsWatched, SecondPass
    <3>2. \A r \in 1..importRow : readFrom[r] = contentSeen => (r \in narrowSeen <=> r \notin kept)
      BY <3>1 DEF ImportInv, ShapeIsKnown, RowIsPlaced
    <3>3. ASSUME fileContent = fileStamp, NEW r \in 1..checked
          PROVE  r \in narrowSeen <=> r \notin kept
      <4>1. r \in 1..importRow /\ readFrom[r] = contentSeen
        BY <3>1, <3>3 DEF ImportInv, FileIsWatched
      <4> QED
        BY <3>2, <4>1
    <3>4. ASSUME fileContent = contentSeen PROVE kept = (1..rowsSeen) \ narrowSeen
      <4>1. importRow = rowsSeen
        BY <3>1, <3>4 DEF ImportInv, ShapeIsKnown
      <4>2. \A r \in 1..importRow : readFrom[r] \in Nat
        BY DEF ImportInv, ImportTypeOK, Row
      <4>3. \A r \in 1..importRow : readFrom[r] = contentSeen
        BY <3>1, <3>4, <4>2 DEF ImportInv, FileIsWatched
      <4> QED
        BY <3>1, <3>2, <4>1, <4>3
    <3> QED
      BY <3>3, <3>4
  <2> QED
    BY <2>1, <2>2, <2>3 DEF ImportSafety
<1> QED
  BY <1>1, ImportInvInit, ImportInvNext, PTL DEF ImportSpec

-----------------------------------------------------------------------------
(* Previews.                                                               *)

StartedPreview == [generation : Nat, stage : PreviewStage, outcome : Outcome]
Cancellation ==
  [preview : Nat \ {0}, stage : {"sent", "done", "refused", "over"}, awaited : BOOLEAN]

\* Previews and cancellations are numbered, and nothing is displayed before its answer came.
PreviewsAreNumbered ==
  /\ \E n \in 0..MaxPreviews : command \in [1..n -> StartedPreview]
  /\ \E n \in 0..MaxPreviewCancels : cancels \in [1..n -> Cancellation]
  /\ activePreview \in Previews \cup {0} /\ shownPreview \in Previews \cup {0}
  /\ (shownPreview # 0) => (command[shownPreview].stage = "over")

PreviewInv == PreviewTypeOK /\ PreviewsAreNumbered /\ PreviewsAreCurrent


USE DEF hookVars, tableVars

LEMMA PreviewBounds == MaxPreviews \in Nat /\ MaxPreviewCancels \in Nat
BY PreviewAssumption

LEMMA PreviewInvInit == PreviewInit => PreviewInv
<1> SUFFICES ASSUME PreviewInit PROVE PreviewInv
  OBVIOUS
<1>1. command \in [1..0 -> StartedPreview] /\ cancels \in [1..0 -> Cancellation] /\ Previews = {}
  BY DEF PreviewInit, Previews
<1>2. PreviewTypeOK
  BY <1>1, PreviewBounds DEF PreviewInit, PreviewTypeOK
<1>3. PreviewsAreNumbered
  <2>1. 0 \in 0..MaxPreviews /\ 0 \in 0..MaxPreviewCancels
    BY PreviewBounds
  <2> QED
    BY <1>1, <2>1 DEF PreviewInit, PreviewsAreNumbered
<1>4. PreviewsAreCurrent
  BY <1>1 DEF PreviewInit, PreviewsAreCurrent
<1> QED
  BY <1>2, <1>3, <1>4 DEF PreviewInv

\* A step of the command that runs a preview.
LEMMA CommandStepKeeps ==
  ASSUME PreviewInv, NEW p \in Previews,
         NEW stage \in {"waiting", "describing", "reading", "cleaning", "answered"},
         NEW outcome \in Outcome,
         command[p].stage \notin {"over", "answered"},
         command' = [command EXCEPT ![p].stage = stage, ![p].outcome = outcome],
         registeredPreviews' = IF stage = "answered" THEN registeredPreviews \ {p}
                                                     ELSE registeredPreviews \cup {p},
         askedToStop' \subseteq registeredPreviews', UNCHANGED <<hookVars, cancels>>
  PROVE  PreviewInv'
<1>1. PICK n \in 0..MaxPreviews : command \in [1..n -> StartedPreview]
  BY DEF PreviewInv, PreviewsAreNumbered
<1>2. /\ p \in 1..n /\ Previews = 1..n /\ command' \in [1..n -> StartedPreview] /\ Previews' = 1..n
      /\ \A q \in 1..n : q # p => command'[q] = command[q]
      /\ command'[p].stage = stage /\ command'[p].generation = command[p].generation
  BY <1>1 DEF Previews, StartedPreview, PreviewStage
<1>3. PreviewTypeOK'
  BY <1>2 DEF PreviewInv, PreviewTypeOK, StartedPreview
<1>4. PreviewsAreNumbered'
  BY <1>2 DEF PreviewInv, PreviewsAreNumbered
<1>5. PreviewsAreCurrent'
  <2>1. shownPreview # p
    BY <1>1, <1>2 DEF PreviewInv, PreviewsAreNumbered
  <2>2. registeredPreviews' =
          {q \in 1..n : command'[q].stage \in {"waiting", "describing", "reading", "cleaning"}}
    BY <1>2 DEF PreviewInv, PreviewsAreCurrent
  <2>3. activePreview \in 1..n \cup {0} /\ shownPreview \in 1..n \cup {0}
    BY <1>2 DEF PreviewInv, PreviewsAreNumbered
  <2>4. activePreview # 0 =>
          /\ command'[activePreview].generation = generation
          /\ command'[activePreview].stage # "over"
    BY <1>2, <2>3 DEF PreviewInv, PreviewsAreCurrent
  <2>5. shownPreview # 0 =>
          /\ command'[shownPreview].generation = generation
          /\ command'[shownPreview].outcome = "preview" /\ activePreview = 0
    BY <1>2, <2>1, <2>3 DEF PreviewInv, PreviewsAreCurrent
  <2> QED
    BY <1>2, <2>2, <2>4, <2>5 DEF PreviewInv, PreviewsAreCurrent
<1> QED
  BY <1>3, <1>4, <1>5 DEF PreviewInv

LEMMA PreviewRuns ==
  ASSUME PreviewInv, NEW p \in Previews,
         \/ RegisterPreview(p) \/ EnterConnection(p) \/ Describe(p) \/ ReadPreview(p)
         \/ CleanUpPreview(p) \/ FailPreview(p)
  PROVE  PreviewInv'
<1>1. PICK n \in 0..MaxPreviews : command \in [1..n -> StartedPreview] /\ Previews = 1..n
  BY DEF PreviewInv, PreviewsAreNumbered, Previews
<1>2. /\ command[p].outcome \in Outcome /\ command[p] \in StartedPreview
      /\ askedToStop \subseteq registeredPreviews
      /\ (p \in registeredPreviews
            <=> command[p].stage \in {"waiting", "describing", "reading", "cleaning"})
  BY <1>1 DEF PreviewInv, PreviewTypeOK, PreviewsAreCurrent, StartedPreview
<1>3. ASSUME NEW stage,
             command' = [command EXCEPT ![p].stage = stage]
      PROVE  command' = [command EXCEPT ![p].stage = stage, ![p].outcome = command[p].outcome]
  BY <1>1, <1>2, <1>3 DEF StartedPreview
<1>4. CASE RegisterPreview(p)
  <2>1. command' = [command EXCEPT ![p].stage = "waiting", ![p].outcome = command[p].outcome]
    BY <1>3, <1>4 DEF RegisterPreview, Reach
  <2> QED
    BY <1>2, <1>4, <2>1, CommandStepKeeps DEF RegisterPreview
<1>5. CASE CleanUpPreview(p)
  <2>1. command' = [command EXCEPT ![p].stage = "answered", ![p].outcome = command[p].outcome]
    BY <1>3, <1>5 DEF CleanUpPreview, Reach
  <2>2. askedToStop' \subseteq registeredPreviews'
    BY <1>2, <1>5 DEF CleanUpPreview
  <2> QED
    BY <1>2, <1>5, <2>1, <2>2, CommandStepKeeps DEF CleanUpPreview
<1>6. ASSUME NEW stage \in {"describing", "reading", "cleaning"}, NEW outcome \in Outcome,
             command[p].stage \in {"waiting", "describing", "reading"},
             command' = [command EXCEPT ![p].stage = stage, ![p].outcome = outcome],
             UNCHANGED <<hookVars, tableVars, cancels>>
      PROVE  PreviewInv'
  <2>1. registeredPreviews' = registeredPreviews \cup {p}
    BY <1>2, <1>6
  <2> QED
    BY <1>2, <1>6, <2>1, CommandStepKeeps
<1>7. ASSUME NEW from \in {"waiting", "describing"}, NEW to \in {"describing", "reading"},
             Proceed(p, from, to)
      PROVE  PreviewInv'
  <2>1. CASE p \in askedToStop
    BY <1>6, <1>7, <2>1 DEF Proceed, Conclude, Outcome
  <2>2. CASE p \notin askedToStop
    <3>1. command' = [command EXCEPT ![p].stage = to, ![p].outcome = command[p].outcome]
      BY <1>3, <1>7, <2>2 DEF Proceed, Reach
    <3> QED
      BY <1>2, <1>6, <1>7, <3>1 DEF Proceed
  <2> QED
    BY <2>1, <2>2
<1>8. CASE EnterConnection(p) \/ Describe(p)
  BY <1>7, <1>8 DEF EnterConnection, Describe
<1>9. CASE ReadPreview(p) \/ FailPreview(p)
  BY <1>6, <1>9 DEF ReadPreview, FailPreview, Conclude, Outcome
<1> QED
  BY <1>4, <1>5, <1>8, <1>9

\* An answer is taken if the hook still waits for it.
LEMMA PreviewAnswered ==
  ASSUME PreviewInv, NEW p \in Previews, ReceivePreview(p)
  PROVE  PreviewInv'
<1>1. PICK n \in 0..MaxPreviews : command \in [1..n -> StartedPreview] /\ Previews = 1..n
  BY DEF PreviewInv, PreviewsAreNumbered, Previews
<1>2. /\ command' \in [1..n -> StartedPreview] /\ Previews' = 1..n
      /\ \A q \in 1..n : q # p => command'[q] = command[q]
      /\ command'[p].stage = "over" /\ command'[p].generation = command[p].generation
      /\ command'[p].outcome = command[p].outcome
  BY <1>1 DEF ReceivePreview, Previews, StartedPreview, PreviewStage
<1>3. /\ p \in 1..n /\ command[p].stage = "answered"
      /\ UNCHANGED <<generation, tableVars, cancels, gateBusy>>
      /\ activePreview \in 1..n \cup {0} /\ shownPreview \in 1..n \cup {0}
      /\ shownPreview # 0 => command[shownPreview].stage = "over"
      /\ PreviewsAreCurrent
  BY <1>1 DEF ReceivePreview, PreviewInv, PreviewsAreNumbered
<1>4. registeredPreviews' =
        {q \in 1..n : command'[q].stage \in {"waiting", "describing", "reading", "cleaning"}}
  BY <1>1, <1>2, <1>3 DEF PreviewsAreCurrent
<1>5. CASE command[p].generation = generation
  <2>1. /\ activePreview' = 0 /\ previewStatus' = "idle"
        /\ shownPreview' = IF command[p].outcome = "preview" THEN p ELSE shownPreview
    BY <1>5 DEF ReceivePreview
  <2>2. shownPreview' # 0 =>
          /\ command'[shownPreview'].generation = generation'
          /\ command'[shownPreview'].outcome = "preview" /\ command'[shownPreview'].stage = "over"
    BY <1>2, <1>3, <1>5, <2>1 DEF PreviewsAreCurrent
  <2>3. PreviewTypeOK'
    BY <1>1, <1>2, <1>3, <2>1, PreviewBounds DEF PreviewInv, PreviewTypeOK, StartedPreview
  <2>4. PreviewsAreNumbered'
    BY <1>2, <1>3, <2>1, <2>2 DEF PreviewInv, PreviewsAreNumbered
  <2>5. PreviewsAreCurrent'
    BY <1>2, <1>4, <2>1, <2>2 DEF PreviewsAreCurrent
  <2> QED
    BY <2>3, <2>4, <2>5 DEF PreviewInv
<1>6. CASE command[p].generation # generation
  <2>1. UNCHANGED <<activePreview, previewStatus, shownPreview>>
    BY <1>6 DEF ReceivePreview
  <2>2. p # activePreview /\ p # shownPreview
    BY <1>1, <1>3, <1>6 DEF PreviewsAreCurrent
  <2>3. PreviewTypeOK'
    BY <1>1, <1>2, <1>3, <2>1 DEF PreviewInv, PreviewTypeOK, StartedPreview
  <2>4. PreviewsAreNumbered'
    BY <1>1, <1>2, <1>3, <2>1, <2>2 DEF PreviewInv, PreviewsAreNumbered
  <2>5. PreviewsAreCurrent'
    BY <1>2, <1>3, <1>4, <2>1, <2>2 DEF PreviewsAreCurrent
  <2> QED
    BY <2>3, <2>4, <2>5 DEF PreviewInv
<1> QED
  BY <1>5, <1>6

\* Cancellations on their way change nothing about the previews.
LEMMA CancelsKept ==
  ASSUME PreviewInv, UNCHANGED <<generation, activePreview, shownPreview, command>>,
         UNCHANGED registeredPreviews, askedToStop' \subseteq registeredPreviews,
         previewStatus' \in {"idle", "loading", "cancelling"},
         previewStatus' = "idle" <=> previewStatus = "idle",
         \E m \in 0..MaxPreviewCancels : cancels' \in [1..m -> Cancellation]
  PROVE  PreviewInv'
BY DEF PreviewInv, PreviewTypeOK, PreviewsAreNumbered, PreviewsAreCurrent, Previews

LEMMA SentCancel ==
  ASSUME PreviewInv, NEW p \in Nat \ {0}, NEW awaited \in BOOLEAN, SendCancel(p, awaited)
  PROVE  \E m \in 0..MaxPreviewCancels : cancels' \in [1..m -> Cancellation]
<1>1. PICK m \in 0..MaxPreviewCancels : cancels \in [1..m -> Cancellation]
  BY DEF PreviewInv, PreviewsAreNumbered
<1>2. Cardinality(DOMAIN cancels) = m
  BY <1>1, FS_Interval
<1>3. /\ m + 1 <= MaxPreviewCancels /\ m + 1 \in 0..MaxPreviewCancels
      /\ cancels' = [c \in 1..(m + 1) |-> IF c = m + 1
                       THEN [preview |-> p, stage |-> "sent", awaited |-> awaited]
                       ELSE cancels[c]]
  BY <1>1, <1>2, PreviewBounds DEF SendCancel
<1>4. [preview |-> p, stage |-> "sent", awaited |-> awaited] \in Cancellation
  BY DEF Cancellation
<1>5. \A c \in 1..(m + 1) : c # m + 1 => c \in 1..m
  BY <1>1
<1>6. cancels' \in [1..(m + 1) -> Cancellation]
  BY <1>1, <1>3, <1>4, <1>5
<1> QED
  BY <1>3, <1>6

LEMMA HookSteps ==
  ASSUME PreviewInv, StartPreview \/ CancelPreview \/ ClearPreview
  PROVE  PreviewInv'
<1>1. PICK n \in 0..MaxPreviews : command \in [1..n -> StartedPreview] /\ Previews = 1..n
  BY DEF PreviewInv, PreviewsAreNumbered, Previews
<1>2. Cardinality(Previews) = n /\ n \in Nat
  BY <1>1, FS_Interval
<1>3. /\ activePreview \in 1..n \cup {0} /\ shownPreview \in 1..n \cup {0}
      /\ generation \in Nat /\ registeredPreviews \subseteq 1..n
      /\ askedToStop \subseteq registeredPreviews
      /\ \E m \in 0..MaxPreviewCancels : cancels \in [1..m -> Cancellation]
  BY <1>1 DEF PreviewInv, PreviewTypeOK, PreviewsAreNumbered
<1>4. CASE StartPreview
  <2> DEFINE p == n + 1
             new == [generation |-> generation + 1, stage |-> "sent", outcome |-> "none"]
  <2>1. /\ p \in 0..MaxPreviews /\ activePreview' = p /\ generation' = generation + 1
        /\ command' = [q \in 1..p |-> IF q = p THEN new ELSE command[q]]
        /\ previewStatus' = "loading" /\ shownPreview' = 0 /\ UNCHANGED <<tableVars, cancels>>
    BY <1>2, <1>4, PreviewBounds DEF StartPreview
  <2>2. new \in StartedPreview /\ \A q \in 1..p : q # p => q \in 1..n
    BY <1>2, <1>3 DEF StartedPreview, PreviewStage, Outcome
  <2> HIDE DEF new
  <2>3. command' \in [1..p -> StartedPreview] /\ Previews' = 1..p /\ p \in Previews' /\ p # 0
    BY <1>1, <1>2, <2>1, <2>2 DEF Previews
  <2>4. command'[p] = new /\ \A q \in 1..n : command'[q] = command[q] /\ q \in 1..p
    BY <1>2, <2>1
  <2>5. PreviewTypeOK'
    BY <1>3, <2>1, <2>3, <2>4, PreviewBounds DEF PreviewTypeOK, StartedPreview
  <2>6. PreviewsAreNumbered'
    BY <1>3, <2>1, <2>3 DEF PreviewsAreNumbered
  <2>7. registeredPreviews =
          {q \in 1..p : command'[q].stage \in {"waiting", "describing", "reading", "cleaning"}}
    <3>1. command'[p].stage = "sent"
      BY <2>4 DEF new
    <3> QED
      BY <1>1, <2>2, <2>4, <3>1 DEF PreviewInv, PreviewsAreCurrent
  <2>8. PreviewsAreCurrent'
    BY <2>1, <2>3, <2>4, <2>7 DEF PreviewsAreCurrent, new
  <2> QED
    BY <2>5, <2>6, <2>8 DEF PreviewInv
<1>5. CASE CancelPreview
  <2>1. activePreview \in Nat \ {0} /\ previewStatus # "idle" /\ SendCancel(activePreview, TRUE)
    <3>1. activePreview # 0 /\ SendCancel(activePreview, TRUE)
      BY <1>5 DEF CancelPreview
    <3>2. activePreview \in Nat
      BY <1>2, <1>3
    <3> QED
      BY <3>1, <3>2 DEF PreviewInv, PreviewsAreCurrent
  <2>2. \E m \in 0..MaxPreviewCancels : cancels' \in [1..m -> Cancellation]
    BY <2>1, SentCancel
  <2> QED
    BY <1>3, <1>5, <2>1, <2>2, CancelsKept DEF CancelPreview
<1>6. CASE ClearPreview
  <2>1. \E m \in 0..MaxPreviewCancels : cancels' \in [1..m -> Cancellation]
    <3>1. CASE activePreview # 0
      <4>1. SendCancel(activePreview, FALSE)
        BY <1>6, <3>1 DEF ClearPreview
      <4>2. activePreview \in Nat \ {0}
        BY <1>2, <1>3, <3>1
      <4> QED
        BY <4>1, <4>2, SentCancel
    <3>2. CASE activePreview = 0
      BY <1>3, <1>6, <3>2 DEF ClearPreview
    <3> QED
      BY <3>1, <3>2
  <2>2. /\ generation' = generation + 1 /\ activePreview' = 0 /\ shownPreview' = 0
        /\ previewStatus' = "idle" /\ UNCHANGED <<command, tableVars>> /\ Previews' = Previews
    BY <1>6 DEF ClearPreview, Previews
  <2>3. PreviewTypeOK'
    BY <1>3, <2>2, PreviewBounds DEF PreviewInv, PreviewTypeOK
  <2>4. PreviewsAreNumbered'
    BY <1>1, <2>1, <2>2 DEF PreviewInv, PreviewsAreNumbered
  <2>5. PreviewsAreCurrent'
    BY <2>2 DEF PreviewInv, PreviewsAreCurrent
  <2> QED
    BY <2>3, <2>4, <2>5 DEF PreviewInv
<1> QED
  BY <1>4, <1>5, <1>6

LEMMA PreviewInvNext == PreviewInv /\ [PreviewNext]_previewVars => PreviewInv'
<1> SUFFICES ASSUME PreviewInv, [PreviewNext]_previewVars PROVE PreviewInv'
  OBVIOUS
<1>1. PICK m \in 0..MaxPreviewCancels : cancels \in [1..m -> Cancellation]
  BY DEF PreviewInv, PreviewsAreNumbered
<1>2. /\ askedToStop \subseteq registeredPreviews
      /\ previewStatus \in {"idle", "loading", "cancelling"}
      /\ previewStatus = "idle" <=> activePreview = 0
  BY DEF PreviewInv, PreviewTypeOK, PreviewsAreCurrent
<1>3. ASSUME NEW c \in DOMAIN cancels, CancelTask(c) PROVE PreviewInv'
  <2>1. cancels' \in [1..m -> Cancellation]
    <3>1. \A stage \in {"done", "refused"} : [cancels[c] EXCEPT !.stage = stage] \in Cancellation
      BY <1>1, <1>3 DEF Cancellation
    <3>2. \E stage \in {"done", "refused"} :
            cancels' = [cancels EXCEPT ![c] = [cancels[c] EXCEPT !.stage = stage]]
      BY <1>3 DEF CancelTask
    <3> QED
      BY <1>1, <3>1, <3>2
  <2>2. askedToStop' \subseteq registeredPreviews
    BY <1>2, <1>3 DEF CancelTask
  <2> QED
    BY <1>2, <1>3, <2>1, <2>2, CancelsKept DEF CancelTask
<1>4. ASSUME NEW c \in DOMAIN cancels, ReceiveCancel(c) PROVE PreviewInv'
  <2>1. cancels' \in [1..m -> Cancellation] /\ cancels[c].preview # 0
    BY <1>1, <1>4 DEF ReceiveCancel, Cancellation
  <2>2. previewStatus' \in {previewStatus, "loading"} /\ (previewStatus' = "idle" <=> previewStatus = "idle")
    BY <1>2, <1>4, <2>1 DEF ReceiveCancel
  <2> QED
    BY <1>2, <1>4, <2>1, <2>2, CancelsKept DEF ReceiveCancel
<1>5. CASE GateChanges \/ UNCHANGED previewVars
  BY <1>1, <1>2, <1>5, CancelsKept DEF GateChanges, previewVars
<1> QED
  BY <1>3, <1>4, <1>5, PreviewRuns, PreviewAnswered, HookSteps DEF PreviewNext, PreviewStep, CancelStep

(* The panel is busy exactly while the preview it started last is unanswered, *)
(* shows only that preview, and the task table knows exactly the commands    *)
(* that run, for any number of previews and cancellations, however the calls *)
(* overtake each other.                                                    *)
THEOREM PreviewsCorrect == PreviewSpec => []PreviewsAreCurrent
<1>1. PreviewInv => PreviewsAreCurrent
  BY DEF PreviewInv
<1> QED
  BY <1>1, PreviewInvInit, PreviewInvNext, PTL DEF PreviewSpec
-----------------------------------------------------------------------------
(* References.                                                             *)

\* The connections a command of the main thread has looked at.
Seen == SavedProfiles \ unchecked

Steps ==
  [step : {"definition"}, id : CustomId, value : DefinitionRow]
    \cup [step : {"deleteDefinition"}, id : CustomId]
    \cup [step : {"deleteInstallation"}, id : InstallationId]
    \cup [step : {"product"}, value : Adapter]
    \cup {NoStep}
Bindings == {NoStep} \cup [step : {"write"}, profile : Profile, value : ProfileRow]
                     \cup [step : {"failed"}, profile : Profile]
Validations == {NoStep} \cup [step : {"loading"}, id : InstallationId, row : InstallationRow]

\* What the check of a command found still holds of the connections it looked at.
CheckStillHolds ==
  /\ registrar.step = "definition" =>
       \A p \in Seen :
         (profiles[p].definition = registrar.id /\ registrar.id \in Defined) =>
           /\ definitions[registrar.id].product = registrar.value.product
           /\ definitions[registrar.id].runtime = registrar.value.runtime
  /\ registrar.step = "deleteDefinition" =>
       \A p \in Seen : profiles[p].definition # registrar.id
  /\ registrar.step = "deleteInstallation" =>
       \A p \in Seen : profiles[p].installation # registrar.id
  /\ (registrar.step = "product" /\ registrar.value # adapter["own"]) =>
       \A p \in Seen : profiles[p].product # "own"

StepsTypeOK == registrar \in Steps /\ binder \in Bindings /\ validator \in Validations
ReferencesInv == ReferencesTypeOK /\ StepsTypeOK /\ CheckStillHolds

\* An identity tells of what it is one.
LEMMA Identities ==
  /\ NativeId \in DefinitionId /\ NativeId \notin CustomId /\ CustomId \subseteq DefinitionId
  /\ \A p \in Profile :
       Derived(p) \in DefinitionId /\ Derived(p) # NativeId /\ Derived(p) \notin CustomId
  /\ \A p, q \in Profile : Derived(p) = Derived(q) => p = q
  /\ \A d \in DefinitionId : Legacy(d) \in InstallationId /\ Legacy(d).of = d
  /\ Imported \subseteq InstallationId
  /\ NoId \notin InstallationId
<1>1. NoId \notin InstallationId
  BY DEF NoId, InstallationId, Imported, Legacy
<1> QED
  BY <1>1 DEF NativeId, CustomId, Derived, DefinitionId, Legacy, InstallationId, Imported

\* A definition, an installation and a connection are not the lack of one.
LEMMA RowsAreRecords ==
  /\ \A entry \in DefinitionRow :
       /\ entry # NoRecord /\ entry.product \in Product /\ entry.runtime \in Runtime
       /\ entry.default \in InstallationId \cup {NoId}
       /\ \A i \in InstallationId \cup {NoId} :
            /\ [entry EXCEPT !.default = i] \in DefinitionRow
            /\ [entry EXCEPT !.default = i].product = entry.product
            /\ [entry EXCEPT !.default = i].runtime = entry.runtime
  /\ \A x \in Product, r \in Runtime, i \in InstallationId \cup {NoId} :
       /\ DefinitionAt(x, r, i) \in DefinitionRow
       /\ DefinitionAt(x, r, i).product = x /\ DefinitionAt(x, r, i).runtime = r
  /\ \A entry \in InstallationRow :
       entry # NoRecord /\ entry.definition \in DefinitionId /\ entry.content \in 0..1
  /\ \A d \in DefinitionId, x \in 0..1 : [definition |-> d, content |-> x] \in InstallationRow
  /\ \A entry \in ProfileRow :
       /\ entry # NoRecord /\ entry.product \in Product /\ entry.definition \in DefinitionId
       /\ entry.installation \in InstallationId \cup {NoId}
  /\ \A x \in Product, d \in DefinitionId, i \in InstallationId \cup {NoId} :
       [product |-> x, definition |-> d, installation |-> i] \in ProfileRow
<1>1. \A entry \in DefinitionRow :
        /\ entry # NoRecord /\ entry.product \in Product /\ entry.runtime \in Runtime
        /\ entry.default \in InstallationId \cup {NoId}
  BY ReferencesAssumption DEF DefinitionRow
<1>2. \A entry \in DefinitionRow, i \in InstallationId \cup {NoId} :
        /\ [entry EXCEPT !.default = i] \in DefinitionRow
        /\ [entry EXCEPT !.default = i].product = entry.product
        /\ [entry EXCEPT !.default = i].runtime = entry.runtime
  BY DEF DefinitionRow
<1>3. \A x \in Product, r \in Runtime, i \in InstallationId \cup {NoId} :
        /\ DefinitionAt(x, r, i) \in DefinitionRow
        /\ DefinitionAt(x, r, i).product = x /\ DefinitionAt(x, r, i).runtime = r
  BY DEF DefinitionRow, DefinitionAt
<1>4. \A entry \in InstallationRow :
        entry # NoRecord /\ entry.definition \in DefinitionId /\ entry.content \in 0..1
  BY ReferencesAssumption DEF InstallationRow
<1>5. \A d \in DefinitionId, x \in 0..1 : [definition |-> d, content |-> x] \in InstallationRow
  BY DEF InstallationRow
<1>6. \A entry \in ProfileRow :
        /\ entry # NoRecord /\ entry.product \in Product /\ entry.definition \in DefinitionId
        /\ entry.installation \in InstallationId \cup {NoId}
  BY ReferencesAssumption DEF ProfileRow
<1>7. \A x \in Product, d \in DefinitionId, i \in InstallationId \cup {NoId} :
        [product |-> x, definition |-> d, installation |-> i] \in ProfileRow
  BY DEF ProfileRow
<1> QED
  BY <1>1, <1>2, <1>3, <1>4, <1>5, <1>6, <1>7

\* What a command is about to do, by its name.
LEMMA StepsByName ==
  ASSUME registrar \in Steps
  PROVE  /\ registrar.step = "definition" =>
              registrar.id \in CustomId /\ registrar.value \in DefinitionRow
         /\ registrar.step = "deleteDefinition" => registrar.id \in CustomId
         /\ registrar.step = "deleteInstallation" => registrar.id \in InstallationId
         /\ registrar.step = "product" => registrar.value \in Adapter
BY DEF Steps, NoStep

LEMMA ReferencesInvInit == ReferencesInit => ReferencesInv
<1> SUFFICES ASSUME ReferencesInit PROVE ReferencesInv
  OBVIOUS
<1>1. PICK there \in SUBSET CustomId, kept \in SUBSET Profile :
        \E withFiles \in SUBSET there, old \in [kept -> OldConnection] :
          UpgradedFrom(there, kept, withFiles, old)
  BY DEF ReferencesInit
<1>2. PICK withFiles \in SUBSET there, old \in [kept -> OldConnection] :
        UpgradedFrom(there, kept, withFiles, old)
  BY <1>1
<1> DEFINE migrated == Migrated(there, old)
           legacy == {Legacy(d) : d \in withFiles}
                       \cup ({migrated[p].installation : p \in kept} \ {NoId})
<1>3. /\ adapter = [x \in Product |-> IF x = "builtIn" THEN "mysql" ELSE "genericSql"]
      /\ definitions = [d \in DefinitionId |->
           IF d = NativeId THEN DefinitionAt("builtIn", "first", NoId)
           ELSE IF d \in there
                  THEN DefinitionAt("own", "first", IF d \in withFiles THEN Legacy(d) ELSE NoId)
           ELSE IF d \in {Derived(p) : p \in kept} \cap {migrated[p].definition : p \in kept}
                  THEN DefinitionAt("own", "second", NoId)
           ELSE NoRecord]
      /\ installations = [i \in InstallationId |->
           IF i \in legacy THEN [definition |-> i.of, content |-> 0] ELSE NoRecord]
      /\ profiles = [p \in Profile |-> IF p \in kept THEN migrated[p] ELSE NoRecord]
  BY <1>2, Zenon DEF UpgradedFrom
<1>4. \A p \in kept : /\ migrated[p] \in ProfileRow
                      /\ migrated[p].installation # NoId =>
                           \E d \in DefinitionId : migrated[p].installation = Legacy(d)
  <2> SUFFICES ASSUME NEW p \in kept
               PROVE  /\ migrated[p] \in ProfileRow
                      /\ migrated[p].installation # NoId =>
                           \E d \in DefinitionId : migrated[p].installation = Legacy(d)
    OBVIOUS
  <2> DEFINE c == old[p]
             jdbc == c.definition \in there
             d == IF jdbc /\ c.overrides THEN Derived(p) ELSE c.definition
  <2>1. c.definition \in {NativeId} \cup CustomId
    BY DEF OldConnection
  <2>2. d \in DefinitionId
    BY <2>1, Identities
  <2>3. migrated[p] = [product |-> IF jdbc THEN "own" ELSE "builtIn", definition |-> d,
                       installation |-> IF jdbc /\ c.files THEN Legacy(d) ELSE NoId]
    BY DEF Migrated
  <2> HIDE DEF d, jdbc, migrated
  <2>4. Legacy(d) \in InstallationId
    BY <2>2, Identities
  <2>5. migrated[p] \in ProfileRow
    BY <2>2, <2>3, <2>4, RowsAreRecords DEF Product
  <2>6. migrated[p].installation \in {Legacy(d), NoId}
    BY <2>3
  <2> QED
    BY <2>2, <2>5, <2>6
<1>5. installations = [i \in InstallationId |->
        IF i \in legacy THEN [definition |-> i.of, content |-> 0] ELSE NoRecord]
  BY <1>3
<1> HIDE DEF migrated
<1>6. adapter \in [Product -> Adapter]
  BY <1>3 DEF Product, Adapter
<1>7. definitions \in [DefinitionId -> {NoRecord} \cup DefinitionRow]
  <2>1. \A d \in DefinitionId :
          definitions[d] \in {NoRecord, DefinitionAt("builtIn", "first", NoId),
            DefinitionAt("own", "first", NoId), DefinitionAt("own", "first", Legacy(d)),
            DefinitionAt("own", "second", NoId)}
    BY <1>3
  <2>2. \A d \in DefinitionId : definitions[d] \in {NoRecord} \cup DefinitionRow
    BY <2>1, Identities, RowsAreRecords DEF Product, Runtime
  <2>3. definitions = [d \in DefinitionId |-> definitions[d]]
    BY <1>3
  <2> QED
    BY <2>2, <2>3
<1>8. installations \in [InstallationId -> {NoRecord} \cup InstallationRow]
  <2>1. \A i \in legacy : i.of \in DefinitionId
    <3> SUFFICES ASSUME NEW i \in legacy PROVE i.of \in DefinitionId
      OBVIOUS
    <3>1. PICK d \in DefinitionId : i = Legacy(d)
      <4>1. CASE i \in {Legacy(d) : d \in withFiles}
        BY <4>1, Identities
      <4>2. CASE i \in {migrated[p].installation : p \in kept} \ {NoId}
        BY <1>4, <4>2
      <4> QED
        BY <4>1, <4>2
    <3> QED
      BY <3>1, Identities
  <2> HIDE DEF legacy
  <2>2. \A i \in InstallationId : installations[i] \in {NoRecord} \cup InstallationRow
    <3> SUFFICES ASSUME NEW i \in InstallationId
                 PROVE  installations[i] \in {NoRecord} \cup InstallationRow
      OBVIOUS
    <3>1. installations[i] = IF i \in legacy THEN [definition |-> i.of, content |-> 0] ELSE NoRecord
      BY <1>5
    <3>2. i \in legacy => [definition |-> i.of, content |-> 0] \in InstallationRow
      BY <2>1 DEF InstallationRow
    <3> QED
      BY <3>1, <3>2
  <2>3. installations = [i \in InstallationId |-> installations[i]]
    BY <1>3
  <2> QED
    BY <2>2, <2>3
<1>9. profiles \in [Profile -> {NoRecord} \cup ProfileRow]
  <2>1. profiles = [p \in Profile |-> IF p \in kept THEN migrated[p] ELSE NoRecord]
    BY <1>3
  <2> HIDE DEF legacy
  <2>2. \A p \in kept : migrated[p] \in ProfileRow
    BY <1>4
  <2> QED
    BY <2>1, <2>2
<1>10. ReferencesTypeOK
  BY <1>6, <1>7, <1>8, <1>9 DEF ReferencesInit, ReferencesTypeOK
<1>11. StepsTypeOK /\ CheckStillHolds
  BY DEF ReferencesInit, StepsTypeOK, Steps, Bindings, Validations, CheckStillHolds, NoStep
<1> QED
  BY <1>10, <1>11 DEF ReferencesInv

\* The tables hold rows, and what is there has one.
LEMMA TablesHoldRows ==
  ASSUME ReferencesTypeOK
  PROVE  /\ \A d \in Defined : d \in DefinitionId /\ definitions[d] \in DefinitionRow
         /\ \A i \in Installed : i \in InstallationId /\ installations[i] \in InstallationRow
         /\ \A p \in SavedProfiles : p \in Profile /\ profiles[p] \in ProfileRow
BY DEF ReferencesTypeOK, Defined, Installed, SavedProfiles

\* A check that passes holds of every connection there is.
LEMMA CheckDefinitionKeeps ==
  ASSUME ReferencesInv, NEW d \in CustomId, NEW x \in Product, NEW r \in Runtime,
         NEW i \in Installed \cup {NoId}, CheckDefinition(d, x, r, i)
  PROVE  registrar' \in Steps /\ CheckStillHolds'
<1>1. /\ registrar' = [step |-> "definition", id |-> d, value |-> DefinitionAt(x, r, i)]
      /\ unchecked' = {} /\ UNCHANGED <<definitions, profiles>>
      /\ (d \in Defined /\ <<definitions[d].product, definitions[d].runtime>> # <<x, r>>)
           => ~Referenced(d)
  BY DEF CheckDefinition, Checked
<1>2. /\ DefinitionAt(x, r, i) \in DefinitionRow
      /\ DefinitionAt(x, r, i).product = x /\ DefinitionAt(x, r, i).runtime = r
  BY RowsAreRecords DEF Installed
<1>3. registrar' \in Steps
  BY <1>1, <1>2 DEF Steps
<1>4. ASSUME NEW p \in SavedProfiles, profiles[p].definition = d, d \in Defined
      PROVE  definitions[d].product = x /\ definitions[d].runtime = r
  BY <1>1, <1>4 DEF Referenced
<1>5. Seen' \subseteq SavedProfiles
  BY <1>1 DEF Seen, SavedProfiles
<1>6. CheckStillHolds'
  BY <1>1, <1>2, <1>4, <1>5 DEF CheckStillHolds, Defined
<1> QED
  BY <1>3, <1>6

LEMMA ChecksKeep ==
  ASSUME ReferencesInv,
         \/ \E d \in CustomId : CheckDeleteDefinition(d)
         \/ \E d \in CustomId, x \in Product, r \in Runtime, i \in Installed \cup {NoId} :
              CheckDefinition(d, x, r, i)
         \/ \E i \in InstallationId : CheckDeleteInstallation(i)
         \/ \E a \in Adapter : CheckProduct(a)
  PROVE  ReferencesInv'
<1>1. /\ unchecked' = {}
      /\ UNCHANGED <<validationVars, adapter, definitions, installations, profiles, files, binder>>
  BY DEF CheckDeleteDefinition, CheckDefinition, CheckDeleteInstallation, CheckProduct, Checked
<1>2. Seen' = SavedProfiles
  BY <1>1 DEF Seen, SavedProfiles
<1>3. registrar' \in Steps /\ CheckStillHolds'
  <2>1. CASE \E d \in CustomId, x \in Product, r \in Runtime, i \in Installed \cup {NoId} :
               CheckDefinition(d, x, r, i)
    BY <2>1, CheckDefinitionKeeps
  <2>2. ASSUME NEW d \in CustomId, CheckDeleteDefinition(d)
        PROVE  registrar' \in Steps /\ CheckStillHolds'
    <3>1. registrar' = [step |-> "deleteDefinition", id |-> d] /\ ~Referenced(d)
      BY <2>2 DEF CheckDeleteDefinition, Checked
    <3> QED
      BY <1>1, <1>2, <3>1 DEF Steps, CheckStillHolds, Referenced
  <2>3. ASSUME NEW i \in InstallationId, CheckDeleteInstallation(i)
        PROVE  registrar' \in Steps /\ CheckStillHolds'
    <3>1. /\ registrar' = [step |-> "deleteInstallation", id |-> i]
          /\ \A p \in SavedProfiles : profiles[p].installation # i
      BY <2>3 DEF CheckDeleteInstallation, Checked
    <3> QED
      BY <1>1, <1>2, <3>1 DEF Steps, CheckStillHolds
  <2>4. ASSUME NEW a \in Adapter, CheckProduct(a)
        PROVE  registrar' \in Steps /\ CheckStillHolds'
    <3>1. /\ registrar' = [step |-> "product", value |-> a]
          /\ a # adapter["own"] => \A p \in SavedProfiles : profiles[p].product # "own"
      BY <2>4 DEF CheckProduct, Checked
    <3> QED
      BY <1>1, <1>2, <3>1 DEF Steps, CheckStillHolds
  <2> QED
    BY <2>1, <2>2, <2>3, <2>4
<1> QED
  BY <1>1, <1>3 DEF ReferencesInv, StepsTypeOK, ReferencesTypeOK, validationVars, Installed

\* A command of the main thread that wrote is over.
LEMMA WrittenIsOver ==
  ASSUME ReferencesInv, registrar' = NoStep, UNCHANGED binder, validator' \in {validator, NoStep},
         ReferencesTypeOK'
  PROVE  ReferencesInv'
BY DEF ReferencesInv, StepsTypeOK, Steps, Validations, CheckStillHolds, NoStep

\* Without its default a definition is what it was otherwise.
LEMMA DefaultsTaken ==
  ASSUME ReferencesInv, DeleteInstallation
  PROVE  /\ definitions' \in [DefinitionId -> {NoRecord} \cup DefinitionRow]
         /\ Defined' = Defined
         /\ \A d \in Defined : /\ definitions'[d].product = definitions[d].product
                               /\ definitions'[d].runtime = definitions[d].runtime
<1>1. definitions' = [d \in DefinitionId |->
        IF d \in Defined /\ definitions[d].default = registrar.id
        THEN [definitions[d] EXCEPT !.default = NoId] ELSE definitions[d]]
  BY DEF DeleteInstallation
<1>2. \A d \in Defined : d \in DefinitionId /\ definitions[d] \in DefinitionRow
  BY TablesHoldRows DEF ReferencesInv
<1>3. \A d \in Defined :
        /\ definitions'[d] \in DefinitionRow
        /\ definitions'[d].product = definitions[d].product
        /\ definitions'[d].runtime = definitions[d].runtime
  BY <1>1, <1>2, RowsAreRecords
<1>4. \A d \in DefinitionId : d \notin Defined => definitions'[d] = NoRecord
  BY <1>1 DEF Defined
<1> QED
  BY <1>1, <1>3, <1>4, RowsAreRecords DEF Defined

LEMMA WritesKeep ==
  ASSUME ReferencesInv, WriteDefinition \/ DeleteDefinition \/ DeleteInstallation \/ WriteProduct
  PROVE  ReferencesInv'
<1> USE StepsByName DEF ReferencesInv, StepsTypeOK
<1>1. CASE WriteDefinition
  <2>1. /\ definitions' = [definitions EXCEPT ![registrar.id] = registrar.value]
        /\ registrar.id \in CustomId /\ registrar.value \in DefinitionRow
        /\ registrar' = NoStep
        /\ UNCHANGED <<validationVars, adapter, installations, profiles, files, binder>>
    BY <1>1 DEF WriteDefinition, Writes
  <2>2. ReferencesTypeOK'
    BY <2>1 DEF ReferencesTypeOK, validationVars, Installed
  <2> QED
    BY <2>1, <2>2, WrittenIsOver DEF validationVars
<1>2. CASE DeleteDefinition
  <2>1. /\ definitions' = [definitions EXCEPT ![registrar.id] = NoRecord]
        /\ registrar.id \in CustomId /\ registrar' = NoStep
        /\ UNCHANGED <<validationVars, adapter, installations, profiles, files, binder>>
    BY <1>2 DEF DeleteDefinition, Writes
  <2>2. ReferencesTypeOK'
    BY <2>1 DEF ReferencesTypeOK, validationVars, Installed
  <2> QED
    BY <2>1, <2>2, WrittenIsOver DEF validationVars
<1>3. CASE DeleteInstallation
  <2>1. /\ installations' = [installations EXCEPT ![registrar.id] = NoRecord]
        /\ validated' = validated \ {registrar.id}
        /\ registrar.id \in InstallationId /\ registrar' = NoStep
        /\ UNCHANGED <<adapter, profiles, files, binder, validator>>
    BY <1>3 DEF DeleteInstallation, Writes
  <2>2. ReferencesTypeOK'
    BY <1>3, <2>1, DefaultsTaken DEF ReferencesTypeOK, Installed
  <2> QED
    BY <2>1, <2>2, WrittenIsOver
<1>4. CASE WriteProduct
  <2>1. /\ adapter' = [adapter EXCEPT !["own"] = registrar.value]
        /\ registrar.value \in Adapter /\ registrar' = NoStep
        /\ UNCHANGED <<validationVars, definitions, installations, profiles, files, binder>>
    BY <1>4 DEF WriteProduct, Writes
  <2>2. ReferencesTypeOK'
    BY <2>1 DEF ReferencesTypeOK, validationVars, Installed
  <2> QED
    BY <2>1, <2>2, WrittenIsOver DEF validationVars
<1> QED
  BY <1>1, <1>2, <1>3, <1>4

\* The check still holds when what it looked at stays as it was.
LEMMA CheckKept ==
  ASSUME ReferencesInv, UNCHANGED <<adapter, registrar>>, Seen' \subseteq Seen,
         \A p \in Seen' : profiles'[p] = profiles[p],
         \A d \in CustomId : d \in Defined' =>
           /\ d \in Defined
           /\ definitions'[d].product = definitions[d].product
           /\ definitions'[d].runtime = definitions[d].runtime
  PROVE  CheckStillHolds'
<1>1. CheckStillHolds /\ registrar \in Steps
  BY DEF ReferencesInv, StepsTypeOK
<1>2. registrar.step = "definition" => registrar.id \in CustomId
  BY <1>1, StepsByName
<1> QED
  BY <1>1, <1>2 DEF CheckStillHolds

\* An installation that is there is never made again with other contents.
LEMMA LegacyIsMadeOnce ==
  ASSUME ReferencesInv, NEW d \in DefinitionId, LegacyInstallation(d)
  PROVE  /\ installations' \in [InstallationId -> {NoRecord} \cup InstallationRow]
         /\ \A i \in Installed : i \in Installed' /\ installations'[i] = installations[i]
<1>1. [definition |-> d, content |-> files] \in InstallationRow
  BY RowsAreRecords DEF ReferencesInv, ReferencesTypeOK
<1>2. installations \in [InstallationId -> {NoRecord} \cup InstallationRow]
  BY DEF ReferencesInv, ReferencesTypeOK
<1>3. CASE UNCHANGED installations
  BY <1>2, <1>3 DEF Installed
<1>4. CASE /\ Legacy(d) \notin Installed
           /\ installations' = [installations EXCEPT ![Legacy(d)] =
                                  [definition |-> d, content |-> files]]
  BY <1>1, <1>2, <1>4 DEF Installed
<1> QED
  BY <1>3, <1>4 DEF LegacyInstallation

LEMMA PublishedKeeps ==
  ASSUME ReferencesInv, NEW i \in Imported, NEW d \in DefinitionId, Publish(i, d)
  PROVE  /\ ReferencesInv'
         /\ \A j \in Installed : installations'[j] = installations[j]
         /\ \A e \in Defined : /\ e \in Defined'
                               /\ definitions'[e].product = definitions[e].product
                               /\ definitions'[e].runtime = definitions[e].runtime
<1>1. /\ d \in Defined /\ i \notin Installed /\ i \in InstallationId
      /\ installations' = [installations EXCEPT ![i] = [definition |-> d, content |-> 0]]
      /\ definitions' = [definitions EXCEPT ![d].default = i]
      /\ UNCHANGED <<validationVars, adapter, profiles, files, registrar, binder, unchecked>>
  BY Identities DEF Publish
<1>2. definitions[d] \in DefinitionRow /\ [definition |-> d, content |-> 0] \in InstallationRow
  <2>1. definitions[d] \in DefinitionRow
    BY <1>1, TablesHoldRows DEF ReferencesInv
  <2>2. [definition |-> d, content |-> 0] \in InstallationRow
    BY DEF InstallationRow
  <2> QED
    BY <2>1, <2>2
<1>3. /\ definitions' = [definitions EXCEPT ![d] = [definitions[d] EXCEPT !.default = i]]
      /\ [definitions[d] EXCEPT !.default = i] \in DefinitionRow
      /\ [definitions[d] EXCEPT !.default = i].product = definitions[d].product
      /\ [definitions[d] EXCEPT !.default = i].runtime = definitions[d].runtime
  BY <1>1, <1>2, RowsAreRecords
<1>4. /\ definitions \in [DefinitionId -> {NoRecord} \cup DefinitionRow]
      /\ installations \in [InstallationId -> {NoRecord} \cup InstallationRow]
  BY DEF ReferencesInv, ReferencesTypeOK
<1>5. /\ installations' \in [InstallationId -> {NoRecord} \cup InstallationRow]
      /\ \A j \in Installed : j \in Installed' /\ installations'[j] = installations[j]
  BY <1>1, <1>2, <1>4 DEF Installed
<1>6. /\ definitions' \in [DefinitionId -> {NoRecord} \cup DefinitionRow]
      /\ Defined' = Defined
      /\ \A e \in Defined : /\ definitions'[e].product = definitions[e].product
                            /\ definitions'[e].runtime = definitions[e].runtime
  BY <1>1, <1>2, <1>3, <1>4, RowsAreRecords DEF Defined
<1>7. ReferencesTypeOK'
  BY <1>1, <1>5, <1>6 DEF ReferencesInv, ReferencesTypeOK, validationVars
<1>8. CheckStillHolds'
  BY <1>1, <1>6, CheckKept DEF Seen, SavedProfiles
<1> QED
  BY <1>1, <1>5, <1>6, <1>7, <1>8 DEF ReferencesInv, StepsTypeOK, validationVars

LEMMA ValidationKeeps ==
  ASSUME ReferencesInv, RecordValidation \/ \E i \in InstallationId : BeginValidation(i)
  PROVE  ReferencesInv'
<1>1. UNCHANGED <<adapter, definitions, installations, profiles, files, registrar, binder,
                  unchecked>>
  BY DEF RecordValidation, BeginValidation
<1>2. CheckStillHolds'
  BY <1>1 DEF ReferencesInv, CheckStillHolds, Seen, SavedProfiles, Defined
<1>3. validated' \subseteq Installed /\ validator' \in Validations
  <2>1. CASE RecordValidation
    <3>1. validator \in [step : {"loading"}, id : InstallationId, row : InstallationRow]
      BY <2>1 DEF RecordValidation, ReferencesInv, StepsTypeOK, Validations
    <3>2. validator.row # NoRecord /\ validator.id \in InstallationId
      BY <3>1, RowsAreRecords
    <3> QED
      BY <2>1, <3>2 DEF RecordValidation, ReferencesInv, ReferencesTypeOK, Installed, Validations
  <2>2. ASSUME NEW i \in InstallationId, BeginValidation(i)
        PROVE  validated' \subseteq Installed /\ validator' \in Validations
    <3>1. installations[i] \in InstallationRow
      BY <2>2, TablesHoldRows DEF BeginValidation, ReferencesInv
    <3> QED
      BY <2>2, <3>1 DEF BeginValidation, ReferencesInv, ReferencesTypeOK, Validations
  <2> QED
    BY <2>1, <2>2
<1> QED
  BY <1>1, <1>2, <1>3 DEF ReferencesInv, ReferencesTypeOK, StepsTypeOK, Installed

\* What a form is bound to has the type of a connection.
LEMMA BindingHasType ==
  ASSUME NEW p \in Profile, NEW x \in Product, NEW d \in DefinitionId,
         NEW i \in InstallationId \cup {NoId}, Binds(p, x, d, i)
  PROVE  binder' \in Bindings /\ binder'.profile = p /\ binder' # NoStep
BY RowsAreRecords DEF Binds, Bindings, NoStep

LEMMA ExplicitKeeps ==
  ASSUME ReferencesInv, NEW p \in Profile, NEW x \in Product, NEW d \in DefinitionId,
         NEW i \in Installed \cup {NoId}, BindExplicit(p, x, d, i)
  PROVE  ReferencesInv'
<1>1. binder' \in Bindings
  BY BindingHasType DEF BindExplicit, Installed
<1>2. UNCHANGED <<validationVars, adapter, definitions, installations, profiles, files,
                  registrar, unchecked>>
  BY DEF BindExplicit
<1>3. CheckStillHolds'
  BY <1>2 DEF ReferencesInv, CheckStillHolds, Seen, SavedProfiles, Defined
<1> QED
  BY <1>1, <1>2, <1>3 DEF ReferencesInv, ReferencesTypeOK, StepsTypeOK, validationVars, Installed

LEMMA LegacyKeeps ==
  ASSUME ReferencesInv, NEW p \in Profile, NEW d \in DefinitionId, NEW own \in BOOLEAN,
         BindLegacy(p, d, own)
  PROVE  /\ ReferencesInv'
         /\ \A i \in Installed : i \in Installed' /\ installations'[i] = installations[i]
<1>1. definitions[d] \in DefinitionRow /\ Legacy(d) \in InstallationId
  BY TablesHoldRows, Identities DEF BindLegacy, ReferencesInv
<1>2. definitions[d].product \in Product /\ definitions[d].default \in InstallationId \cup {NoId}
  BY <1>1, RowsAreRecords
<1>3. binder' \in Bindings
  BY <1>1, <1>2, BindingHasType DEF BindLegacy
<1>4. UNCHANGED installations \/ LegacyInstallation(d)
  BY DEF BindLegacy
<1>5. /\ installations' \in [InstallationId -> {NoRecord} \cup InstallationRow]
      /\ \A i \in Installed : i \in Installed' /\ installations'[i] = installations[i]
  BY <1>4, LegacyIsMadeOnce DEF ReferencesInv, ReferencesTypeOK, Installed
<1>6. UNCHANGED <<validationVars, adapter, definitions, profiles, files, registrar, unchecked>>
  BY DEF BindLegacy
<1>7. CheckStillHolds'
  BY <1>6 DEF ReferencesInv, CheckStillHolds, Seen, SavedProfiles, Defined
<1> QED
  BY <1>3, <1>5, <1>6, <1>7 DEF ReferencesInv, ReferencesTypeOK, StepsTypeOK, validationVars

LEMMA OverridingKeeps ==
  ASSUME ReferencesInv, NEW p \in Profile, NEW d \in DefinitionId, NEW own \in BOOLEAN,
         BindOverriding(p, d, own)
  PROVE  /\ ReferencesInv'
         /\ \A i \in Installed : i \in Installed' /\ installations'[i] = installations[i]
         /\ \A e \in DefinitionId : e # Derived(p) => definitions'[e] = definitions[e]
         /\ binder'.profile = p /\ binder' # NoStep
<1>1. definitions[d] \in DefinitionRow /\ Derived(p) \in DefinitionId
  BY TablesHoldRows, Identities DEF BindOverriding, ReferencesInv
<1>2. definitions[d].product \in Product /\ Legacy(Derived(p)) \in InstallationId
  BY <1>1, RowsAreRecords, Identities
<1>3. PICK class \in Runtime :
        definitions' = [definitions EXCEPT ![Derived(p)] =
                          DefinitionAt(definitions[d].product, class, NoId)]
  BY DEF BindOverriding
<1>4. DefinitionAt(definitions[d].product, class, NoId) \in DefinitionRow
  BY <1>2, RowsAreRecords
<1>5. definitions \in [DefinitionId -> {NoRecord} \cup DefinitionRow]
  BY DEF ReferencesInv, ReferencesTypeOK
<1>6. /\ definitions' \in [DefinitionId -> {NoRecord} \cup DefinitionRow]
      /\ \A e \in DefinitionId : e # Derived(p) => definitions'[e] = definitions[e]
  BY <1>1, <1>3, <1>4, <1>5
<1>7. binder' \in Bindings /\ binder'.profile = p /\ binder' # NoStep
  <2>1. CASE binder' = [step |-> "failed", profile |-> p]
    BY <2>1 DEF Bindings, NoStep
  <2> QED
    BY <1>1, <1>2, <2>1, BindingHasType DEF BindOverriding
<1>8. UNCHANGED installations \/ LegacyInstallation(Derived(p))
  BY DEF BindOverriding
<1>9. /\ installations' \in [InstallationId -> {NoRecord} \cup InstallationRow]
      /\ \A i \in Installed : i \in Installed' /\ installations'[i] = installations[i]
  BY <1>1, <1>8, LegacyIsMadeOnce DEF ReferencesInv, ReferencesTypeOK, Installed
<1>10. UNCHANGED <<validationVars, adapter, profiles, files, registrar, unchecked>>
  BY DEF BindOverriding
<1>11. \A e \in CustomId : e \in Defined' => e \in Defined /\ definitions'[e] = definitions[e]
  BY <1>6, Identities DEF Defined
<1>12. CheckStillHolds'
  BY <1>10, <1>11, CheckKept DEF Seen, SavedProfiles
<1> QED
  BY <1>6, <1>7, <1>9, <1>10, <1>12
     DEF ReferencesInv, ReferencesTypeOK, StepsTypeOK, validationVars

LEMMA ProfilesKeep ==
  ASSUME ReferencesInv, WriteProfile \/ \E p \in Profile : DeleteProfile(p)
  PROVE  ReferencesInv'
<1>1. UNCHANGED <<validationVars, adapter, definitions, installations, files, registrar>>
  BY DEF WriteProfile, DeleteProfile
<1>2. /\ profiles \in [Profile -> {NoRecord} \cup ProfileRow]
      /\ binder \in Bindings /\ CheckStillHolds
  BY DEF ReferencesInv, ReferencesTypeOK, StepsTypeOK
<1>3. /\ profiles' \in [Profile -> {NoRecord} \cup ProfileRow] /\ binder' \in Bindings
      /\ CheckStillHolds'
  <2>1. CASE WriteProfile /\ UNCHANGED <<profiles, unchecked>>
    BY <1>1, <1>2, <2>1
       DEF WriteProfile, CheckStillHolds, Seen, SavedProfiles, Defined, Bindings
  <2>2. CASE WriteProfile /\ NoteWrite(binder.profile) /\ binder.step = "write"
                          /\ profiles' = [profiles EXCEPT ![binder.profile] = binder.value]
    <3>1. binder.profile \in Profile /\ binder.value \in ProfileRow
      <4>1. binder \in [step : {"write"}, profile : Profile, value : ProfileRow]
        <5>1. binder # NoStep /\ binder.step # "failed"
          BY <2>2 DEF WriteProfile
        <5> QED
          BY <1>2, <5>1 DEF Bindings
      <4> QED
        BY <4>1
    <3>2. profiles' \in [Profile -> {NoRecord} \cup ProfileRow] /\ binder' \in Bindings
      BY <1>2, <2>2, <3>1 DEF WriteProfile, Bindings
    <3>3. CASE registrar = NoStep
      BY <1>1, <3>2, <3>3 DEF CheckStillHolds, NoStep
    <3>4. CASE registrar # NoStep
      <4>1. unchecked' = unchecked \cup {binder.profile}
        BY <2>2, <3>4 DEF NoteWrite
      <4>2. \A p \in Seen' : p \in Seen /\ profiles'[p] = profiles[p]
        BY <1>2, <2>2, <4>1 DEF Seen, SavedProfiles
      <4> QED
        BY <1>1, <3>2, <4>2, CheckKept DEF Defined
    <3> QED
      BY <3>3, <3>4
  <2>3. ASSUME NEW p \in Profile, DeleteProfile(p)
        PROVE  /\ profiles' \in [Profile -> {NoRecord} \cup ProfileRow] /\ binder' \in Bindings
               /\ CheckStillHolds'
    <3>1. profiles' = [profiles EXCEPT ![p] = NoRecord] /\ UNCHANGED <<binder, unchecked>>
      BY <2>3 DEF DeleteProfile
    <3>2. \A q \in Seen' : q \in Seen /\ profiles'[q] = profiles[q]
      BY <1>2, <3>1 DEF Seen, SavedProfiles
    <3> QED
      BY <1>1, <1>2, <3>1, <3>2, CheckKept DEF Defined
  <2> QED
    BY <2>1, <2>2, <2>3 DEF WriteProfile
<1> QED
  BY <1>1, <1>3 DEF ReferencesInv, ReferencesTypeOK, StepsTypeOK, validationVars, Installed

LEMMA ImportedKeeps ==
  ASSUME ReferencesInv, NEW p \in Profile, NEW d \in CustomId,
         NEW i \in Imported \cup {NoId}, NEW x \in Product, NEW r \in Runtime,
         ImportConfiguration(p, d, i, x, r)
  PROVE  /\ ReferencesInv'
         /\ \A e \in Defined : definitions'[e] = definitions[e]
         /\ \A j \in Installed : j \in Installed' /\ installations'[j] = installations[j]
<1>1. /\ registrar = NoStep
      /\ definitions' = IF d \in Defined THEN definitions
                        ELSE [definitions EXCEPT ![d] = DefinitionAt(x, r, NoId)]
      /\ profiles' = [profiles EXCEPT ![p] = [product |-> x, definition |-> d,
                                              installation |-> i]]
      /\ UNCHANGED <<validationVars, adapter, files, registrar, binder, unchecked>>
  BY DEF ImportConfiguration
<1>2. /\ DefinitionAt(x, r, NoId) \in DefinitionRow /\ d \in DefinitionId
      /\ i \in InstallationId \cup {NoId}
      /\ [product |-> x, definition |-> d, installation |-> i] \in ProfileRow
      /\ [definition |-> d, content |-> 0] \in InstallationRow
  <2>1. [definition |-> d, content |-> 0] \in InstallationRow
    BY Identities DEF InstallationRow
  <2> QED
    BY <2>1, RowsAreRecords, Identities
<1>6. /\ installations' \in [InstallationId -> {NoRecord} \cup InstallationRow]
      /\ \A j \in Installed : j \in Installed' /\ installations'[j] = installations[j]
  <2>1. installations \in [InstallationId -> {NoRecord} \cup InstallationRow]
    BY DEF ReferencesInv, ReferencesTypeOK
  <2>2. CASE UNCHANGED installations
    BY <2>1, <2>2 DEF Installed
  <2>3. CASE /\ i \notin Installed \cup {NoId}
             /\ installations' = [installations EXCEPT ![i] = [definition |-> d, content |-> 0]]
    BY <1>2, <2>1, <2>3 DEF Installed
  <2> QED
    BY <2>2, <2>3 DEF ImportConfiguration
<1>3. ReferencesTypeOK'
  BY <1>1, <1>2, <1>6 DEF ReferencesInv, ReferencesTypeOK, validationVars
<1>4. CheckStillHolds'
  BY <1>1 DEF CheckStillHolds, NoStep
<1>5. \A e \in Defined : definitions'[e] = definitions[e]
  BY <1>1 DEF ReferencesInv, ReferencesTypeOK, Defined
<1> QED
  BY <1>1, <1>3, <1>4, <1>5, <1>6 DEF ReferencesInv, StepsTypeOK, validationVars

LEMMA ReferencesInvNext == ReferencesInv /\ [ReferencesNext]_referenceVars => ReferencesInv'
<1> SUFFICES ASSUME ReferencesInv, [ReferencesNext]_referenceVars PROVE ReferencesInv'
  OBVIOUS
<1>1. CASE DefinitionStep \/ RegistryStep
  BY <1>1, ChecksKeep, WritesKeep DEF DefinitionStep, RegistryStep
<1>2. CASE ReplaceFile \/ UNCHANGED referenceVars
  <2>1. /\ UNCHANGED <<validationVars, adapter, definitions, installations, profiles, registrar,
                       binder, unchecked>>
        /\ files' \in 0..1
    BY <1>2 DEF ReplaceFile, referenceVars, ReferencesInv, ReferencesTypeOK
  <2>2. CheckStillHolds'
    BY <2>1 DEF ReferencesInv, CheckStillHolds, Seen, SavedProfiles, Defined
  <2> QED
    BY <2>1, <2>2 DEF ReferencesInv, ReferencesTypeOK, StepsTypeOK, validationVars, Installed
<1> QED
  BY <1>1, <1>2, ProfilesKeep, ValidationKeeps, PublishedKeeps, ImportedKeeps, ExplicitKeeps,
     LegacyKeeps, OverridingKeeps DEF ReferencesNext

\* What opens a connection: the references it names lead somewhere.
LEMMA OpensBy ==
  ASSUME NEW p \in SavedProfiles, Resolution(p) # NoRecord
  PROVE  /\ definitions[profiles[p].definition] # NoRecord
         /\ profiles[p].definition # NativeId =>
              profiles[p].installation \in Installed
BY DEF Resolution, SavedProfiles

\* A connection resolves to the same while what it refers to is the same.
LEMMA SameResolution ==
  ASSUME NEW p \in SavedProfiles, Resolution(p) # NoRecord,
         profiles'[p] = profiles[p], files' = files,
         definitions'[profiles[p].definition] # NoRecord,
         definitions'[profiles[p].definition].product = definitions[profiles[p].definition].product,
         definitions'[profiles[p].definition].runtime = definitions[profiles[p].definition].runtime,
         adapter'[profiles[p].product] = adapter[profiles[p].product],
         profiles[p].definition # NativeId =>
           /\ profiles[p].installation \in Installed'
           /\ installations'[profiles[p].installation] = installations[profiles[p].installation]
  PROVE  Resolution(p)' = Resolution(p)
<1> DEFINE c == profiles[p]
           d == definitions[c.definition]
           e == definitions'[c.definition]
<1>1. c # NoRecord /\ d # NoRecord /\ c.product = d.product
  BY DEF Resolution, SavedProfiles
<1>2. e # NoRecord /\ e.product = d.product /\ e.runtime = d.runtime
  BY <1>1
<1>3. profiles'[p] = c
  OBVIOUS
<1>4. CASE c.definition = NativeId
  <2>1. Resolution(p) = [runtime |-> "native", adapter |-> adapter[d.product], on |-> NoId]
    BY <1>1, <1>4 DEF Resolution
  <2>2. Resolution(p)' = [runtime |-> "native", adapter |-> adapter'[e.product], on |-> NoId]
    BY <1>1, <1>2, <1>3, <1>4 DEF Resolution
  <2> QED
    BY <1>1, <1>2, <2>1, <2>2
<1>5. CASE c.definition # NativeId
  <2>1. /\ c.installation \in Installed /\ installations[c.installation].definition = c.definition
        /\ c.installation \notin Imported => installations[c.installation].content = files
    BY <1>1, <1>5 DEF Resolution
  <2>2. Resolution(p) = [runtime |-> d.runtime, adapter |-> adapter[d.product],
                         on |-> c.installation]
    BY <1>1, <1>5, <2>1 DEF Resolution
  <2>3. /\ c.installation \in Installed'
        /\ installations'[c.installation] = installations[c.installation]
    BY <1>5
  <2>4. Resolution(p)' = [runtime |-> e.runtime, adapter |-> adapter'[e.product],
                          on |-> c.installation]
    BY <1>1, <1>2, <1>3, <1>5, <2>1, <2>3 DEF Resolution
  <2> QED
    BY <1>1, <1>2, <2>2, <2>4
<1> QED
  BY <1>4, <1>5

\* A connection that the commands under way have to leave alone.
LeftAlone(p) ==
  /\ p \in SavedProfiles \ unchecked
  /\ profiles[p].definition \in CustomId \cup {NativeId, Derived(p)}
  /\ files' = files /\ profiles'[p] = profiles[p] /\ Resolution(p) # NoRecord
  /\ binder' = NoStep \/ binder'.profile # p

LEMMA EditsKeepResolution ==
  ASSUME ReferencesInv, [ReferencesNext]_referenceVars, NEW p, LeftAlone(p)
  PROVE  Resolution(p)' = Resolution(p)
<1> DEFINE d == profiles[p].definition
           i == profiles[p].installation
<1>1. /\ p \in SavedProfiles /\ p \in Seen /\ p \in Profile /\ profiles[p] \in ProfileRow
      /\ Resolution(p) # NoRecord /\ profiles'[p] = profiles[p] /\ files' = files
  BY TablesHoldRows DEF LeftAlone, Seen, ReferencesInv
<1>2. d \in DefinitionId /\ d \in Defined /\ (d # NativeId => i \in Installed)
  BY <1>1, OpensBy, RowsAreRecords DEF Defined
<1>3. /\ CheckStillHolds /\ registrar \in Steps /\ ReferencesTypeOK
      /\ adapter \in [Product -> Adapter]
      /\ definitions \in [DefinitionId -> {NoRecord} \cup DefinitionRow]
      /\ installations \in [InstallationId -> {NoRecord} \cup InstallationRow]
  BY DEF ReferencesInv, StepsTypeOK, ReferencesTypeOK
<1>4. definitions[d] # NoRecord
  BY <1>2 DEF Defined
<1> HIDE DEF d, i
<1>5. CASE UNCHANGED <<adapter, definitions, installations>>
  BY <1>1, <1>2, <1>4, <1>5, SameResolution DEF Installed, d, i
<1>6. CASE WriteDefinition
  <2>1. /\ registrar.step = "definition" /\ UNCHANGED <<adapter, installations>>
        /\ definitions' = [definitions EXCEPT ![registrar.id] = registrar.value]
    BY <1>6 DEF WriteDefinition, Writes
  <2>2. registrar.id \in CustomId /\ registrar.value # NoRecord
    BY <1>3, <2>1, StepsByName, RowsAreRecords
  <2>3. d = registrar.id => /\ definitions[d].product = registrar.value.product
                            /\ definitions[d].runtime = registrar.value.runtime
    BY <1>1, <1>2, <1>3, <2>1 DEF CheckStillHolds, d
  <2>4. /\ definitions'[d] # NoRecord /\ definitions'[d].product = definitions[d].product
        /\ definitions'[d].runtime = definitions[d].runtime
    BY <1>2, <1>3, <1>4, <2>1, <2>2, <2>3, Identities
  <2> QED
    BY <1>1, <1>2, <2>1, <2>4, SameResolution DEF Installed, d, i
<1>7. CASE DeleteDefinition
  <2>1. /\ registrar.step = "deleteDefinition" /\ UNCHANGED <<adapter, installations>>
        /\ definitions' = [definitions EXCEPT ![registrar.id] = NoRecord]
    BY <1>7 DEF DeleteDefinition, Writes
  <2>2. d # registrar.id
    BY <1>1, <1>3, <2>1 DEF CheckStillHolds, d
  <2>3. definitions'[d] = definitions[d]
    BY <1>2, <1>3, <2>1, <2>2
  <2> QED
    BY <1>1, <1>2, <1>4, <2>1, <2>3, SameResolution DEF Installed, d, i
<1>8. CASE DeleteInstallation
  <2>1. /\ registrar.step = "deleteInstallation" /\ UNCHANGED adapter
        /\ installations' = [installations EXCEPT ![registrar.id] = NoRecord]
    BY <1>8 DEF DeleteInstallation, Writes
  <2>2. i # registrar.id
    BY <1>1, <1>3, <2>1 DEF CheckStillHolds, i
  <2>3. d # NativeId => i \in Installed' /\ installations'[i] = installations[i]
    BY <1>2, <1>3, <2>1, <2>2 DEF Installed
  <2>4. /\ d \in Defined' /\ definitions'[d].product = definitions[d].product
        /\ definitions'[d].runtime = definitions[d].runtime
    BY <1>2, <1>8, DefaultsTaken
  <2>5. definitions'[d] # NoRecord
    BY <2>4 DEF Defined
  <2> QED
    BY <1>1, <2>1, <2>3, <2>4, <2>5, SameResolution DEF d, i
<1>9. CASE WriteProduct
  <2>1. /\ registrar.step = "product" /\ UNCHANGED <<definitions, installations>>
        /\ adapter' = [adapter EXCEPT !["own"] = registrar.value]
    BY <1>9 DEF WriteProduct, Writes
  <2>2. profiles[p].product \in Product
    BY <1>1, RowsAreRecords
  <2>3. profiles[p].product = "own" => registrar.value = adapter["own"]
    BY <1>1, <1>3, <2>1 DEF CheckStillHolds
  <2>4. adapter'[profiles[p].product] = adapter[profiles[p].product]
    BY <1>3, <2>1, <2>2, <2>3
  <2> QED
    BY <1>1, <1>2, <1>4, <2>1, <2>4, SameResolution DEF Installed, d, i
<1>10. ASSUME NEW j \in Imported, NEW e \in DefinitionId, Publish(j, e)
       PROVE  Resolution(p)' = Resolution(p)
  <2>1. d \in Defined' /\ definitions'[d].product = definitions[d].product
        /\ definitions'[d].runtime = definitions[d].runtime
    BY <1>2, <1>10, PublishedKeeps
  <2>2. d # NativeId => /\ installations'[i] = installations[i] /\ i \in InstallationId
                        /\ installations[i] # NoRecord
    BY <1>2, <1>10, PublishedKeeps DEF Installed
  <2>3. /\ definitions'[d] # NoRecord /\ UNCHANGED adapter
        /\ d # NativeId => i \in Installed' /\ installations'[i] = installations[i]
    BY <1>10, <2>1, <2>2 DEF Publish, Defined, Installed
  <2> QED
    BY <1>1, <2>1, <2>3, SameResolution DEF d, i
<1>11. ASSUME NEW q \in Profile, NEW e \in CustomId, NEW j \in Imported \cup {NoId},
              NEW x \in Product, NEW r \in Runtime, ImportConfiguration(q, e, j, x, r)
       PROVE  Resolution(p)' = Resolution(p)
  <2>1. definitions'[d] = definitions[d] /\ UNCHANGED adapter
    BY <1>2, <1>11, ImportedKeeps DEF ImportConfiguration
  <2>2. d # NativeId => i \in Installed' /\ installations'[i] = installations[i]
    BY <1>2, <1>11, ImportedKeeps
  <2> QED
    BY <1>1, <1>4, <2>1, <2>2, SameResolution DEF d, i
<1>12. ASSUME NEW q \in Profile, NEW e \in DefinitionId, NEW own \in BOOLEAN, BindLegacy(q, e, own)
       PROVE  Resolution(p)' = Resolution(p)
  <2>1. UNCHANGED <<adapter, definitions>>
    BY <1>12 DEF BindLegacy
  <2>2. d # NativeId => i \in Installed' /\ installations'[i] = installations[i]
    BY <1>2, <1>12, LegacyKeeps
  <2> QED
    BY <1>1, <1>4, <2>1, <2>2, SameResolution DEF d, i
<1>13. ASSUME NEW q \in Profile, NEW e \in DefinitionId, NEW own \in BOOLEAN,
              BindOverriding(q, e, own)
       PROVE  Resolution(p)' = Resolution(p)
  <2>1. /\ \A k \in Installed : k \in Installed' /\ installations'[k] = installations[k]
        /\ \A k \in DefinitionId : k # Derived(q) => definitions'[k] = definitions[k]
        /\ binder'.profile = q /\ binder' # NoStep
    BY <1>13, OverridingKeeps
  <2>2. p # q /\ d \in CustomId \cup {NativeId, Derived(p)}
    BY <2>1 DEF LeftAlone, d
  <2>3. d # Derived(q)
    BY <1>1, <2>2, Identities
  <2>4. definitions'[d] = definitions[d] /\ UNCHANGED adapter
    BY <1>2, <1>13, <2>1, <2>3 DEF BindOverriding
  <2> QED
    BY <1>1, <1>2, <1>4, <2>1, <2>4, SameResolution DEF d, i
<1>14. CASE DefinitionStep \/ RegistryStep
  <2>1. \/ UNCHANGED <<adapter, definitions, installations>>
        \/ WriteDefinition \/ DeleteDefinition \/ DeleteInstallation \/ WriteProduct
    BY <1>14 DEF DefinitionStep, RegistryStep, CheckDeleteDefinition, CheckDefinition,
                 CheckDeleteInstallation, CheckProduct
  <2> QED
    BY <1>5, <1>6, <1>7, <1>8, <1>9, <2>1
<1>15. CASE \/ WriteProfile \/ ReplaceFile \/ RecordValidation
            \/ \E j \in InstallationId : BeginValidation(j)
            \/ \E q \in Profile : DeleteProfile(q)
            \/ UNCHANGED referenceVars
  BY <1>5, <1>15
     DEF WriteProfile, ReplaceFile, RecordValidation, BeginValidation, DeleteProfile, referenceVars
<1>16. CASE \E q \in Profile, e \in DefinitionId, x \in Product, j \in Installed \cup {NoId} :
              BindExplicit(q, x, e, j)
  BY <1>5, <1>16 DEF BindExplicit
<1> QED
  BY <1>10, <1>11, <1>12, <1>13, <1>14, <1>15, <1>16 DEF ReferencesNext

(* For every number of connections, definitions, installations and commands  *)
(* that interleave, a connection that could be opened goes on resolving to    *)
(* the same runtime, adapter and installation.                              *)
THEOREM EditsCorrect == ReferencesSpec => EditsLeaveConnectionsAlone
<1>1. ReferencesInv /\ [ReferencesNext]_referenceVars =>
        [\A p \in SavedProfiles \ unchecked :
           /\ profiles[p].definition \in CustomId \cup {NativeId, Derived(p)}
           /\ files' = files /\ profiles'[p] = profiles[p] /\ Resolution(p) # NoRecord
           /\ binder' = NoStep \/ binder'.profile # p
           => Resolution(p)' = Resolution(p)]_referenceVars
  BY EditsKeepResolution DEF LeftAlone
<1> QED
  BY <1>1, ReferencesInvInit, ReferencesInvNext, PTL DEF ReferencesSpec, EditsLeaveConnectionsAlone

-----------------------------------------------------------------------------
(* SQLite targets.                                                         *)

\* A command that is no creation opens a file it has found.
OpensWhatItFound ==
  \A c \in Command :
    doing[c].stage = "opening" /\ doing[c].target \in Target =>
      doing[c].task = "create" \/ doing[c].seen

Busy == [task : Task, target : Target \cup {Memory},
         stage : {"begun", "saving", "probing", "opening", "cleaning"}, seen : BOOLEAN]
Doing == Busy \cup {Idle}

TargetInv == doing \in [Command -> Doing] /\ OpensWhatItFound /\ OnlyCreatingMakesFiles

LEMMA DoingStays ==
  ASSUME TargetInv, NEW c \in Command, NEW d \in Doing, doing' = [doing EXCEPT ![c] = d],
         probes' \subseteq {o \in Command : doing'[o].stage = "cleaning"},
         d.stage = "opening" /\ d.target \in Target => d.task = "create" \/ d.seen,
         \A made \in created' : made[2] = "create" \/ made[3]
  PROVE  TargetInv'
BY DEF TargetInv, OpensWhatItFound, OnlyCreatingMakesFiles

LEMMA TargetInvNext == TargetInv /\ [TargetNext]_targetVars => TargetInv'
<1> SUFFICES ASSUME TargetInv, [TargetNext]_targetVars PROVE TargetInv'
  OBVIOUS
<1>a. /\ doing \in [Command -> Doing]
      /\ probes \subseteq {c \in Command : doing[c].stage = "cleaning"}
      /\ \A made \in created : made[2] = "create" \/ made[3]
  BY DEF TargetInv, OnlyCreatingMakesFiles
<1>b. Idle \in Doing /\ Idle.stage = "none"
  BY DEF Idle, Doing
<1>f. \A c \in Command : doing[c].stage # "none" => doing[c] \in Busy
  BY <1>a, <1>b DEF Doing
\* A step that touches neither a probe nor what was created.
<1>c. ASSUME NEW c \in Command, NEW d \in Doing, doing' = [doing EXCEPT ![c] = d],
             doing[c].stage # "cleaning", UNCHANGED <<probes, created>>,
             d.stage = "opening" /\ d.target \in Target => d.task = "create" \/ d.seen
      PROVE  TargetInv'
  BY <1>a, <1>c, DoingStays
<1>d. ASSUME NEW c \in Command, Done(c), doing[c].stage # "cleaning", UNCHANGED <<probes, created>>
      PROVE  TargetInv'
  BY <1>b, <1>c, <1>d DEF Done
<1>e. ASSUME NEW c \in Command, NEW stage \in {"saving", "probing"}, Becomes(c, stage),
             doing[c].stage \notin {"none", "cleaning"}, UNCHANGED <<probes, created>>
      PROVE  TargetInv'
  <2>1. [doing[c] EXCEPT !.stage = stage] \in Doing /\ [doing[c] EXCEPT !.stage = stage].stage = stage
    BY <1>e, <1>f DEF Doing, Busy
  <2>2. doing' = [doing EXCEPT ![c] = [doing[c] EXCEPT !.stage = stage]]
    BY <1>a, <1>e DEF Becomes
  <2> QED
    BY <1>c, <1>e, <2>1, <2>2
<1>1. ASSUME NEW c \in Command, NEW task \in Task, NEW target \in Target \cup {Memory},
             BeginCommand(c, task, target)
      PROVE  TargetInv'
  <2> DEFINE d == [task |-> task, target |-> target, stage |-> "begun", seen |-> FALSE]
  <2>1. d \in Doing /\ d.stage = "begun"
    BY DEF Doing, Busy
  <2>2. doing' = [doing EXCEPT ![c] = d] /\ doing[c].stage # "cleaning"
        /\ UNCHANGED <<probes, created>>
    BY <1>1, <1>b DEF BeginCommand
  <2> HIDE DEF d
  <2> QED
    BY <1>c, <2>1, <2>2
<1>2. ASSUME NEW c \in Command, Look(c) PROVE TargetInv'
  <2>1. doing[c].stage = "begun" /\ UNCHANGED <<probes, created>>
    BY <1>2 DEF Look
  <2>2. CASE Opens(c) /\ (doing[c].target \in Target \ exists => doing[c].task = "create")
    <3>0. PICK seen \in BOOLEAN : seen = (doing[c].target \in exists)
      <4>1. CASE doing[c].target \in exists
        <5>1. TRUE = (doing[c].target \in exists)
          BY <4>1
        <5> QED
          BY <5>1
      <4>2. CASE doing[c].target \notin exists
        <5>1. FALSE = (doing[c].target \in exists)
          BY <4>2
        <5> QED
          BY <5>1
      <4> QED
        BY <4>1, <4>2
    <3> DEFINE d == [doing[c] EXCEPT !.stage = "opening", !.seen = seen]
    <3>1. d \in Doing /\ d.target = doing[c].target /\ d.task = doing[c].task /\ d.seen = seen
      BY <1>f, <2>1 DEF Doing, Busy
    <3>2. d.seen <=> doing[c].target \in exists
      BY <3>0, <3>1
    <3>3. doing' = [doing EXCEPT ![c] = d]
      BY <1>a, <2>2, <3>0 DEF Opens
    <3> HIDE DEF d
    <3> QED
      BY <1>c, <2>1, <2>2, <3>1, <3>2, <3>3
  <2>3. doing[c].task \in Task
    BY <1>f, <2>1 DEF Busy
  <2>4. \/ Done(c) \/ Becomes(c, "saving") \/ Becomes(c, "probing")
        \/ Opens(c) /\ (doing[c].target \in Target \ exists => doing[c].task = "create")
    BY <1>2, <2>3 DEF Look, Task
  <2> QED
    BY <1>d, <1>e, <2>1, <2>2, <2>4
<1>3. ASSUME NEW c \in Command, Open(c) PROVE TargetInv'
  <2>1. doing[c].stage = "opening" /\ UNCHANGED probes /\ (Done(c) \/ Becomes(c, "saving"))
    BY <1>3 DEF Open
  <2>2. \A made \in created' : made[2] = "create" \/ made[3]
    <3>1. CASE UNCHANGED created
      BY <1>a, <3>1
    <3>2. CASE doing[c].target \in Target
               /\ created' = created \cup {<<doing[c].target, doing[c].task, doing[c].seen>>}
      <4>1. doing[c].task = "create" \/ doing[c].seen
        BY <2>1, <3>2 DEF TargetInv, OpensWhatItFound
      <4> QED
        BY <1>a, <3>2, <4>1
    <3> QED
      BY <1>3, <3>1, <3>2 DEF Open
  <2>3. PICK d \in Doing : doing' = [doing EXCEPT ![c] = d] /\ d.stage \in {"none", "saving"}
    <3>1. [doing[c] EXCEPT !.stage = "saving"] \in Doing
      BY <1>f, <2>1 DEF Doing, Busy
    <3>2. [doing[c] EXCEPT !.stage = "saving"].stage = "saving"
      BY <1>f, <2>1 DEF Busy
    <3> QED
      BY <1>a, <1>b, <2>1, <3>1, <3>2 DEF Done, Becomes
  <2>4. probes' \subseteq {o \in Command : doing'[o].stage = "cleaning"}
    BY <1>a, <2>1, <2>3
  <2> QED
    BY <2>2, <2>3, <2>4, DoingStays
<1>4. ASSUME NEW c \in Command, OpenFails(c) \/ SaveTarget(c) PROVE TargetInv'
  BY <1>4, <1>d DEF OpenFails, SaveTarget
<1>5. ASSUME NEW c \in Command, Probe(c) PROVE TargetInv'
  <2>1. CASE probes' = probes \cup {c} /\ Becomes(c, "cleaning")
    <3> DEFINE d == [doing[c] EXCEPT !.stage = "cleaning"]
    <3>0. doing[c] \in Busy
      BY <1>5, <1>f DEF Probe
    <3>1. d \in Doing /\ d.stage = "cleaning"
      BY <3>0 DEF Doing, Busy
    <3>4. doing' = [doing EXCEPT ![c] = d]
      BY <1>a, <2>1 DEF Becomes
    <3> HIDE DEF d
    <3>2. probes' \subseteq {o \in Command : doing'[o].stage = "cleaning"}
      BY <1>a, <2>1, <3>1, <3>4
    <3> QED
      BY <1>a, <1>5, <3>1, <3>2, <3>4, DoingStays DEF Probe
  <2>2. CASE Done(c) /\ UNCHANGED probes
    BY <1>5, <1>d, <2>2 DEF Probe
  <2> QED
    BY <1>5, <2>1, <2>2 DEF Probe
<1>6. ASSUME NEW c \in Command, RemoveProbe(c) PROVE TargetInv'
  <2>1. doing' = [doing EXCEPT ![c] = Idle] /\ probes' = probes \ {c} /\ UNCHANGED created
    BY <1>6 DEF RemoveProbe, Done
  <2>2. probes' \subseteq {o \in Command : doing'[o].stage = "cleaning"}
    BY <1>a, <2>1
  <2> QED
    BY <1>a, <1>b, <2>1, <2>2, DoingStays
<1>7. CASE OwnerMoves \/ UNCHANGED targetVars
  <2>1. UNCHANGED <<doing, probes>> /\ created' \subseteq created
    BY <1>7 DEF OwnerMoves, targetVars
  <2> QED
    BY <2>1 DEF TargetInv, OpensWhatItFound, OnlyCreatingMakesFiles
<1> QED
  BY <1>1, <1>2, <1>3, <1>4, <1>5, <1>6, <1>7 DEF TargetNext

(* For every number of files and commands, testing or connecting makes no    *)
(* database, and a test leaves no probe (OnlyCreatingMakesFiles).            *)
THEOREM TargetsCorrect == TargetSpec => []OnlyCreatingMakesFiles
<1>1. TargetInit => TargetInv
  BY DEF TargetInit, TargetInv, Doing, Idle, OpensWhatItFound, OnlyCreatingMakesFiles
<1>2. TargetInv => OnlyCreatingMakesFiles
  BY DEF TargetInv
<1> QED
  BY <1>1, <1>2, TargetInvNext, PTL DEF TargetSpec

-----------------------------------------------------------------------------
(* Connection forms.                                                       *)

\* A property goes with the driver of its form, in a form that is shown as in
\* one that is saved.
Fitting == {c \in Config : c.property \in PropertyOf(c.definition)}

\* A session that is there is what its row comes down to, but for the password.
SessionIsOfRow ==
  session # Nothing =>
    /\ row # Nothing /\ ~ Refuses(row)
    /\ \E p : session = [Effective(row) EXCEPT !.password = p]

FormInv == row \in Maybe(Fitting) /\ SessionIsOfRow

\* Records by their fields.
PropertyWith(there, secret) == [there |-> there, secret |-> secret]
ConfigWith(definition, mode, url, address, password, tunnel, property, tls) ==
  [definition |-> definition, mode |-> mode, url |-> url, host |-> address,
   password |-> password, tunnel |-> tunnel, property |-> property, tls |-> tls]
SessionWith(rejected, definition, server, options, through, property, tls, password) ==
  [refused |-> rejected, definition |-> definition, server |-> server, options |-> options,
   through |-> through, property |-> property, tls |-> tls, password |-> password]

LEMMA WithSecret ==
  ASSUME NEW a, NEW x, NEW y
  PROVE  [PropertyWith(a, x) EXCEPT !.secret = y] = PropertyWith(a, y)
<1>1. [PropertyWith(a, x) EXCEPT !.secret = y] \in [there : {a}, secret : {y}]
  BY DEF PropertyWith
<1>2. \A r \in [there : {a}, secret : {y}] : r = PropertyWith(a, y)
  BY DEF PropertyWith
<1> QED
  BY <1>1, <1>2

LEMMA WithSecrets ==
  ASSUME NEW c \in Config, NEW x, NEW y, NEW z
  PROVE  [c EXCEPT !.password = x, !.tunnel = y, !.property = z]
           = ConfigWith(c.definition, c.mode, c.url, c.host, x, y, z, c.tls)
<1> DEFINE S == [definition : {c.definition}, mode : {c.mode}, url : {c.url}, host : {c.host},
                 password : {x}, tunnel : {y}, property : {z}, tls : {c.tls}]
<1>1. [c EXCEPT !.password = x, !.tunnel = y, !.property = z] \in S
  BY DEF Config
<1>2. \A r \in S : r = ConfigWith(c.definition, c.mode, c.url, c.host, x, y, z, c.tls)
  BY DEF ConfigWith
<1> QED
  BY <1>1, <1>2

LEMMA WithPassword ==
  ASSUME NEW c \in Config, NEW x
  PROVE  [c EXCEPT !.password = x]
           = ConfigWith(c.definition, c.mode, c.url, c.host, x, c.tunnel, c.property, c.tls)
<1> DEFINE S == [definition : {c.definition}, mode : {c.mode}, url : {c.url}, host : {c.host},
                 password : {x}, tunnel : {c.tunnel}, property : {c.property}, tls : {c.tls}]
<1>1. [c EXCEPT !.password = x] \in S
  BY DEF Config
<1>2. \A r \in S :
        r = ConfigWith(c.definition, c.mode, c.url, c.host, x, c.tunnel, c.property, c.tls)
  BY DEF ConfigWith
<1> QED
  BY <1>1, <1>2

LEMMA SessionPassword ==
  ASSUME NEW a, NEW b, NEW d, NEW e, NEW f, NEW g, NEW h, NEW i, NEW x
  PROVE  [SessionWith(a, b, d, e, f, g, h, i) EXCEPT !.password = x]
           = SessionWith(a, b, d, e, f, g, h, x)
<1> DEFINE S == [refused : {a}, definition : {b}, server : {d}, options : {e},
                 through : {f}, property : {g}, tls : {h}, password : {x}]
<1>1. [SessionWith(a, b, d, e, f, g, h, i) EXCEPT !.password = x] \in S
  BY DEF SessionWith
<1>2. \A r \in S : r = SessionWith(a, b, d, e, f, g, h, x)
  BY DEF SessionWith
<1> QED
  BY <1>1, <1>2

LEMMA ConfigFields ==
  ASSUME NEW c \in Config
  PROVE  /\ c = [definition |-> c.definition, mode |-> c.mode, url |-> c.url, host |-> c.host,
                 password |-> c.password, tunnel |-> c.tunnel, property |-> c.property,
                 tls |-> c.tls]
         /\ c.definition \in Definition /\ c.mode \in {"fields", "url"} /\ c.url \in Maybe(Url)
         /\ c.host \in Maybe(Address) /\ c.password \in Maybe(Password) /\ c.tunnel \in Tunnel
         /\ c.property \in UNION {PropertyOf(d) : d \in Definition} /\ c.tls \in BOOLEAN
BY DEF Config

LEMMA SecretFields ==
  /\ \A t \in Tunnel : /\ t = [state |-> t.state, secret |-> t.secret]
                       /\ t.state \in {"absent", "off", "on"} /\ t.secret \in Maybe(Secret)
                       /\ t.state # "on" => t.secret = Nothing
                       /\ [t EXCEPT !.secret = Nothing] \in Tunnel
  /\ \A d : \A p \in PropertyOf(d) :
       /\ p = [there |-> p.there, secret |-> p.secret]
       /\ p.there \in BOOLEAN /\ p.secret \in Maybe({d} \X Secret)
       /\ ~ p.there => p.secret = Nothing
       /\ \A e : [p EXCEPT !.secret = Nothing] \in PropertyOf(e)
<1>1. ASSUME NEW t \in Tunnel
      PROVE  /\ t = [state |-> t.state, secret |-> t.secret]
             /\ t.state \in {"absent", "off", "on"} /\ t.secret \in Maybe(Secret)
             /\ t.state # "on" => t.secret = Nothing
             /\ [t EXCEPT !.secret = Nothing] \in Tunnel
  BY DEF Tunnel, Maybe
<1>2. ASSUME NEW d, NEW p \in PropertyOf(d)
      PROVE  /\ p = [there |-> p.there, secret |-> p.secret]
             /\ p.there \in BOOLEAN /\ p.secret \in Maybe({d} \X Secret)
             /\ ~ p.there => p.secret = Nothing
  <2>1. CASE p = [there |-> FALSE, secret |-> Nothing]
    BY <2>1 DEF Maybe
  <2>2. CASE p \in [there : {TRUE}, secret : Maybe({d} \X Secret)]
    BY <2>2
  <2> QED
    BY <2>1, <2>2 DEF PropertyOf
<1>3. ASSUME NEW d, NEW p \in PropertyOf(d), NEW e
      PROVE  [p EXCEPT !.secret = Nothing] \in PropertyOf(e)
  <2>1. CASE p = [there |-> FALSE, secret |-> Nothing]
    <3>1. [p EXCEPT !.secret = Nothing] = PropertyWith(FALSE, Nothing)
      BY <2>1, WithSecret DEF PropertyWith
    <3> QED
      BY <3>1 DEF PropertyOf, PropertyWith
  <2>2. CASE p \in [there : {TRUE}, secret : Maybe({d} \X Secret)]
    BY <2>2 DEF PropertyOf, Maybe
  <2> QED
    BY <2>1, <2>2 DEF PropertyOf
<1> QED
  BY <1>1, <1>2, <1>3

\* What a form can say is a form, and stays one that fits.
LEMMA ChangesFit ==
  ASSUME NEW c \in Fitting, NEW d \in Changes(c)
  PROVE  d \in Fitting
<1>a. c \in Config /\ c.property \in PropertyOf(c.definition)
  BY DEF Fitting
<1>1. ASSUME NEW def \in Definition, d = [c EXCEPT !.definition = def, !.property.secret = Nothing]
      PROVE  d \in Fitting
  <2>1. [c.property EXCEPT !.secret = Nothing] \in PropertyOf(def)
    BY <1>a, SecretFields
  <2>2. d = [c EXCEPT !.definition = def, !.property = [c.property EXCEPT !.secret = Nothing]]
    BY <1>1, <1>a, ConfigFields
  <2> QED
    BY <1>a, <2>1, <2>2 DEF Fitting, Config
<1>2. ASSUME NEW mode \in {"fields", "url"}, d = [c EXCEPT !.mode = mode] PROVE d \in Fitting
  BY <1>2, <1>a DEF Fitting, Config
<1>3. ASSUME NEW url \in Maybe(Url), d = [c EXCEPT !.url = url] PROVE d \in Fitting
  BY <1>3, <1>a DEF Fitting, Config
<1>4. ASSUME NEW address \in Maybe(Address), d = [c EXCEPT !.host = address] PROVE d \in Fitting
  BY <1>4, <1>a DEF Fitting, Config
<1>5. ASSUME NEW p \in Password, d = [c EXCEPT !.password = p] PROVE d \in Fitting
  BY <1>5, <1>a DEF Fitting, Config, Maybe
<1>6. ASSUME NEW tunnel \in Tunnel, d = [c EXCEPT !.tunnel = tunnel] PROVE d \in Fitting
  BY <1>6, <1>a DEF Fitting, Config
<1>7. ASSUME NEW property \in PropertyOf(c.definition), d = [c EXCEPT !.property = property]
      PROVE  d \in Fitting
  <2>1. property \in UNION {PropertyOf(e) : e \in Definition}
    BY <1>a, ConfigFields
  <2> QED
    BY <1>7, <1>a, <2>1 DEF Fitting, Config
<1>8. CASE d = [c EXCEPT !.tls = ~@]
  <2>1. (~ c.tls) \in BOOLEAN
    OBVIOUS
  <2> QED
    BY <1>8, <1>a, <2>1 DEF Fitting, Config
<1> QED
  BY <1>1, <1>2, <1>3, <1>4, <1>5, <1>6, <1>7, <1>8 DEF Changes

LEMMA FormsFit ==
  ASSUME row \in Maybe(Fitting), NEW c \in Forms
  PROVE  c \in Fitting
<1>1. ASSUME NEW d \in Definition PROVE BlankForm(d) \in Fitting
  <2> DEFINE none == [there |-> FALSE, secret |-> Nothing]
             off == [state |-> "absent", secret |-> Nothing]
  <2>1. none \in PropertyOf(d) /\ none \in UNION {PropertyOf(e) : e \in Definition}
    BY DEF PropertyOf
  <2>2. off \in Tunnel
    BY DEF Tunnel
  <2>3. BlankForm(d) = [definition |-> d, mode |-> "fields", url |-> Nothing, host |-> Nothing,
                        password |-> Nothing, tunnel |-> off, property |-> none, tls |-> FALSE]
    BY DEF BlankForm
  <2> HIDE DEF none, off
  <2> QED
    BY <2>1, <2>2, <2>3 DEF Fitting, Config, Maybe
<1>2. row # Nothing => Shown(row) \in Fitting
  <2> SUFFICES ASSUME row # Nothing PROVE Shown(row) \in Fitting
    OBVIOUS
  <2>1. row \in Config /\ row.property \in PropertyOf(row.definition)
    BY DEF Maybe, Fitting
  <2>2. /\ [row.tunnel EXCEPT !.secret = Nothing] \in Tunnel
        /\ [row.property EXCEPT !.secret = Nothing] \in PropertyOf(row.definition)
        /\ Nothing \in Maybe(Password)
    BY <2>1, ConfigFields, SecretFields DEF Maybe
  <2>3. Shown(row) = [row EXCEPT !.password = Nothing,
                                 !.tunnel = [row.tunnel EXCEPT !.secret = Nothing],
                                 !.property = [row.property EXCEPT !.secret = Nothing]]
    BY <2>1, ConfigFields DEF Shown
  <2>4. [row.property EXCEPT !.secret = Nothing] \in UNION {PropertyOf(d) : d \in Definition}
    BY <2>1, <2>2, ConfigFields
  <2> QED
    BY <2>1, <2>2, <2>3, <2>4 DEF Fitting, Config
<1>3. PICK s \in Fitting : \E changed \in Changes(s) : c \in Changes(changed)
  BY <1>1, <1>2 DEF Forms
<1> QED
  BY <1>3, ChangesFit

\* Saving a form that fits keeps a row that fits.
LEMMA SavedFits ==
  ASSUME row \in Maybe(Fitting), NEW c \in Fitting, NEW save \in BOOLEAN
  PROVE  Saved(row, c, save) \in Fitting
<1>a. c \in Config /\ c.property \in PropertyOf(c.definition)
  BY DEF Fitting
<1>b. row # Nothing => row \in Config /\ row.property \in PropertyOf(row.definition)
  BY DEF Fitting, Maybe
<1> DEFINE kept == Kept(row, c)
           p == IF save THEN Typed(c.password, kept.password) ELSE Nothing
           t == IF c.tunnel.state = "on" THEN Typed(c.tunnel.secret, kept.tunnel) ELSE Nothing
           q == IF c.property.there THEN Typed(c.property.secret, kept.property) ELSE Nothing
<1>1. kept.password \in Maybe(Password) /\ kept.tunnel \in Maybe(Secret)
      /\ kept.property \in Maybe({c.definition} \X Secret)
  BY <1>b, ConfigFields, SecretFields DEF Kept, Maybe
<1> HIDE DEF kept
<1>2. p \in Maybe(Password)
  BY <1>a, <1>1, ConfigFields DEF Typed, Maybe
<1>3. [c.tunnel EXCEPT !.secret = t] \in Tunnel
  <2>1. c.tunnel \in Tunnel
    BY <1>a, ConfigFields
  <2>2. t \in Maybe(Secret) /\ (c.tunnel.state # "on" => t = Nothing)
    BY <1>1, <2>1, SecretFields DEF Typed, Maybe
  <2> HIDE DEF t
  <2> QED
    BY <2>1, <2>2, SecretFields DEF Tunnel
<1>4. [c.property EXCEPT !.secret = q] \in PropertyOf(c.definition)
  <2>1. q \in Maybe({c.definition} \X Secret) /\ (~ c.property.there => q = Nothing)
    BY <1>a, <1>1, SecretFields DEF Typed, Maybe
  <2> HIDE DEF q
  <2> QED
    BY <1>a, <2>1, SecretFields DEF PropertyOf
<1>5. Saved(row, c, save) = [c EXCEPT !.password = p, !.tunnel = [c.tunnel EXCEPT !.secret = t],
                                      !.property = [c.property EXCEPT !.secret = q]]
  BY <1>a, ConfigFields DEF Saved, kept
<1>6. [c.property EXCEPT !.secret = q] \in UNION {PropertyOf(d) : d \in Definition}
  BY <1>a, <1>4, ConfigFields
<1> HIDE DEF p, t, q
<1> QED
  BY <1>a, <1>2, <1>3, <1>4, <1>5, <1>6 DEF Fitting, Config

\* The password changes nothing of what a configuration comes down to but itself.
LEMMA PasswordIsOnlyItself ==
  ASSUME NEW c \in Config, NEW p
  PROVE  /\ Refuses([c EXCEPT !.password = p]) <=> Refuses(c)
         /\ ~ Refuses(c) =>
              Effective([c EXCEPT !.password = p]) = [Effective(c) EXCEPT !.password = p]
<1> DEFINE d == [c EXCEPT !.password = p]
<1>1. /\ d.definition = c.definition /\ d.mode = c.mode /\ d.url = c.url /\ d.host = c.host
      /\ d.tunnel = c.tunnel /\ d.property = c.property /\ d.tls = c.tls /\ d.password = p
  BY DEF Config
<1> HIDE DEF d
<1>2. Resolved(d) = Resolved(c)
  BY <1>1 DEF Resolved
<1>3. Refuses(d) <=> Refuses(c)
  BY <1>1, <1>2 DEF Refuses, ResolveRefuses, TlsRefuses, TunnelRefuses, DriverRefuses
<1>4. ASSUME ~ Refuses(c) PROVE Effective(d) = [Effective(c) EXCEPT !.password = p]
  <2> DEFINE server == IF c.tunnel.state = "on" \/ Resolved(c) \notin Url
                       THEN c.host ELSE Resolved(c)
             no == FALSE
  <2>1. Effective(c) = SessionWith(no, c.definition, server, Resolved(c), c.tunnel, c.property,
                                   c.tls, c.password)
    BY <1>4 DEF Effective, SessionWith
  <2>2. Effective(d) = SessionWith(no, c.definition, server, Resolved(c), c.tunnel, c.property,
                                   c.tls, p)
    BY <1>1, <1>2, <1>3, <1>4 DEF Effective, SessionWith
  <2> HIDE DEF server, no
  <2>3. [SessionWith(no, c.definition, server, Resolved(c), c.tunnel, c.property, c.tls,
                     c.password) EXCEPT !.password = p]
          = SessionWith(no, c.definition, server, Resolved(c), c.tunnel, c.property, c.tls, p)
    BY SessionPassword
  <2> QED
    BY Zenon, <2>1, <2>2, <2>3
<1> QED
  BY <1>3, <1>4 DEF d

LEMMA EditsThatKeep ==
  ASSUME row \in Fitting, NEW c \in Fitting, ~ NeedsRefresh(row, c), NEW save \in BOOLEAN
  PROVE  \E p : Saved(row, c, save) = [row EXCEPT !.password = p]
<1>a. c \in Config /\ c.property \in PropertyOf(c.definition)
      /\ row \in Config /\ row.property \in PropertyOf(row.definition)
  BY DEF Fitting
<1>1. /\ c.definition = row.definition /\ c.mode = row.mode /\ c.url = row.url
      /\ c.host = row.host /\ c.tls = row.tls
  BY DEF NeedsRefresh
<1>2. /\ c.tunnel.state = row.tunnel.state /\ c.tunnel.secret = Nothing
      /\ c.property.there = row.property.there
      /\ row.property.secret = Nothing /\ c.property.secret = Nothing
  BY DEF NeedsRefresh
<1> DEFINE kept == Kept(row, c)
           p == IF save THEN Typed(c.password, kept.password) ELSE Nothing
           t == IF c.tunnel.state = "on" THEN Typed(c.tunnel.secret, kept.tunnel) ELSE Nothing
           q == IF c.property.there THEN Typed(c.property.secret, kept.property) ELSE Nothing
<1>3. row # Nothing
  BY <1>a, RowAssumption
<1>4. t = row.tunnel.secret
  BY <1>a, <1>2, <1>3, ConfigFields, SecretFields DEF Typed, Kept
<1>5. q = row.property.secret
  BY <1>a, <1>1, <1>2, <1>3 DEF Typed, Kept
<1>6. Saved(row, c, save) = [c EXCEPT !.password = p, !.tunnel = [c.tunnel EXCEPT !.secret = t],
                                      !.property = [c.property EXCEPT !.secret = q]]
  BY <1>a, ConfigFields DEF Saved
<1> HIDE DEF kept, p, t, q
<1>7. [c.tunnel EXCEPT !.secret = t] = row.tunnel
  <2>1. /\ c.tunnel = [state |-> c.tunnel.state, secret |-> c.tunnel.secret]
        /\ row.tunnel = [state |-> row.tunnel.state, secret |-> row.tunnel.secret]
    BY <1>a, SecretFields, ConfigFields
  <2>2. [c.tunnel EXCEPT !.secret = t] \in [state : {c.tunnel.state}, secret : {t}]
    BY <2>1
  <2>3. \A r \in [state : {c.tunnel.state}, secret : {t}] :
          r = [state |-> c.tunnel.state, secret |-> t]
    OBVIOUS
  <2> QED
    BY <1>2, <1>4, <2>1, <2>2, <2>3
<1>8. [c.property EXCEPT !.secret = q] = row.property
  <2>1. c.property = PropertyWith(c.property.there, c.property.secret)
        /\ row.property = PropertyWith(row.property.there, row.property.secret)
    BY <1>a, SecretFields DEF PropertyWith
  <2>2. [PropertyWith(c.property.there, c.property.secret) EXCEPT !.secret = q]
          = PropertyWith(c.property.there, q)
    BY WithSecret
  <2> QED
    BY Zenon, <1>2, <1>5, <2>1, <2>2
<1>9. Saved(row, c, save) = [row EXCEPT !.password = p]
  <2>1. Saved(row, c, save) = [c EXCEPT !.password = p, !.tunnel = row.tunnel,
                                        !.property = row.property]
    BY <1>6, <1>7, <1>8
  <2>2. [c EXCEPT !.password = p, !.tunnel = row.tunnel, !.property = row.property]
          = ConfigWith(c.definition, c.mode, c.url, c.host, p, row.tunnel, row.property, c.tls)
    BY <1>a, WithSecrets
  <2>3. [row EXCEPT !.password = p]
          = ConfigWith(row.definition, row.mode, row.url, row.host, p, row.tunnel, row.property,
                       row.tls)
    BY <1>a, WithPassword
  <2> QED
    BY Zenon, <1>1, <2>1, <2>2, <2>3
<1> QED
  BY <1>9

LEMMA FormInvNext == FormInv /\ [FormNext]_formVars => FormInv'
<1> SUFFICES ASSUME FormInv, [FormNext]_formVars PROVE FormInv'
  OBVIOUS
<1>a. row \in Maybe(Fitting) /\ (row # Nothing => row \in Config)
  BY DEF FormInv, Maybe, Fitting
<1>b. \A c \in Fitting : c \in Config /\ c # Nothing
  BY RowAssumption DEF Fitting
<1>1. ASSUME NEW c \in Forms, NEW save \in BOOLEAN, SaveForm(c, save) PROVE FormInv'
  <2>1. c \in Fitting /\ row' \in Fitting /\ row' = Saved(row, c, save)
    BY <1>a, <1>1, FormsFit, SavedFits DEF SaveForm
  <2>2. CASE session' # Nothing
    <3>1. session' = session /\ row # Nothing /\ ~ NeedsRefresh(row, c)
      BY <1>1, <2>2 DEF SaveForm, FormInv, SessionIsOfRow
    <3>2. PICK p : row' = [row EXCEPT !.password = p]
      BY <1>a, <2>1, <3>1, EditsThatKeep DEF Maybe
    <3>3. PICK q : session = [Effective(row) EXCEPT !.password = q]
      BY <2>2, <3>1 DEF FormInv, SessionIsOfRow
    <3>4. ~ Refuses(row)
      BY <2>2, <3>1 DEF FormInv, SessionIsOfRow
    <3>5. ~ Refuses(row') /\ Effective(row') = [Effective(row) EXCEPT !.password = p]
      BY <1>a, <3>1, <3>2, <3>4, PasswordIsOnlyItself
    <3>6. session' = [Effective(row') EXCEPT !.password = q]
      <4>1. [[Effective(row) EXCEPT !.password = p] EXCEPT !.password = q]
              = [Effective(row) EXCEPT !.password = q]
        BY <3>4 DEF Effective
      <4> QED
        BY Zenon, <3>1, <3>3, <3>5, <4>1
    <3> QED
      BY <1>b, <2>1, <3>5, <3>6 DEF FormInv, SessionIsOfRow, Maybe
  <2>3. CASE session' = Nothing
    BY <2>1, <2>3 DEF FormInv, SessionIsOfRow, Maybe
  <2> QED
    BY <2>2, <2>3
<1>2. ASSUME NEW password \in Maybe(Password), Connect(password) PROVE FormInv'
  <2> DEFINE p == Typed(password, row.password)
  <2>1. row \in Config /\ row' = row /\ row # Nothing
    BY <1>a, <1>2 DEF Connect
  <2>2. Credentials(password) = [row EXCEPT !.password = p]
    BY <2>1 DEF Credentials
  <2>3. session' = Effective(Credentials(password)) /\ ~ Effective(Credentials(password)).refused
    BY <1>2 DEF Connect
  <2> HIDE DEF p
  <2>4. ~ Refuses(row)
    <3>1. Refuses(row) => Refuses(Credentials(password))
      <4>1. Refuses([row EXCEPT !.password = p]) <=> Refuses(row)
        BY <2>1, PasswordIsOnlyItself
      <4> QED
        BY <2>2, <4>1
    <3>2. Refuses(Credentials(password)) => Effective(Credentials(password)) = NoConnection
      BY DEF Effective
    <3> QED
      BY <2>3, <3>1, <3>2 DEF NoConnection
  <2>5. session' = [Effective(row) EXCEPT !.password = p]
    BY <2>1, <2>2, <2>3, <2>4, PasswordIsOnlyItself
  <2> QED
    BY <1>a, <2>1, <2>4, <2>5 DEF FormInv, SessionIsOfRow
<1>3. CASE Disconnect \/ Delete
  <2>1. session' = Nothing /\ row' \in {row, Nothing}
    BY <1>3 DEF Disconnect, Delete
  <2> QED
    BY <1>a, <2>1 DEF FormInv, SessionIsOfRow, Maybe
<1>4. CASE UNCHANGED formVars
  BY <1>4 DEF formVars, FormInv, SessionIsOfRow
<1> QED
  BY <1>1, <1>2, <1>3, <1>4 DEF FormNext

(* Whatever forms are filled in, saved, tested and connected with: a test    *)
(* means what connecting does, a session that is kept is what its row says,  *)
(* and no saved secret outlives what it was for (FormsAreHonoured).          *)
THEOREM FormsCorrect == FormSpec => []FormsAreHonoured
<1>1. FormInit => FormInv
  BY DEF FormInit, FormInv, SessionIsOfRow, Maybe
<1>2. FormInv => FormsAreHonoured
  <2> SUFFICES ASSUME FormInv PROVE FormsAreHonoured
    OBVIOUS
  <2>1. TestMeansConnect
    BY DEF TestMeansConnect, Tested, Saved
  <2>2. KeptSessionIsCurrent
    <3> SUFFICES ASSUME session # Nothing
                 PROVE  [session EXCEPT !.password = Nothing]
                          = [Effective(row) EXCEPT !.password = Nothing]
      BY DEF KeptSessionIsCurrent
    <3>1. PICK p : session = [Effective(row) EXCEPT !.password = p]
      BY DEF FormInv, SessionIsOfRow
    <3>2. [[Effective(row) EXCEPT !.password = p] EXCEPT !.password = Nothing]
            = [Effective(row) EXCEPT !.password = Nothing]
      BY DEF Effective, FormInv, SessionIsOfRow
    <3> QED
      BY <3>1, <3>2
  <2>3. SecretsBelong
    <3> SUFFICES ASSUME row # Nothing
                 PROVE  /\ row.tunnel.state # "on" => row.tunnel.secret = Nothing
                        /\ row.property.secret \in Maybe({row.definition} \X Secret)
      BY DEF SecretsBelong
    <3>1. row \in Config /\ row.property \in PropertyOf(row.definition)
      BY DEF FormInv, Maybe, Fitting
    <3> QED
      BY <3>1, ConfigFields, SecretFields
  <2> QED
    BY <2>1, <2>2, <2>3 DEF FormsAreHonoured
<1> QED
  BY <1>1, <1>2, FormInvNext, PTL DEF FormSpec
-----------------------------------------------------------------------------
(* URLs and hosts.                                                         *)

Brace == {"{", "}", ";", "="}
MeantPair == [key : Key, value : Seq(Brace)]

\* What is written is a text of symbols.
UrlInv == pairs \in Seq(MeantPair) /\ host \in Seq(HostSymbol)

LEMMA BoundedIsSeq ==
  ASSUME NEW S, NEW n, NEW s \in BoundedSeq(S, n)
  PROVE  s \in Seq(S)
BY DEF BoundedSeq, SeqOf

LEMMA UrlInvHolds == UrlSpec => []UrlInv
<1>1. UrlInit => UrlInv
  BY DEF UrlInit, UrlInv
<1>2. UrlInv /\ [UrlNext]_urlVars => UrlInv'
  <2> SUFFICES ASSUME UrlInv, [UrlNext]_urlVars PROVE UrlInv'
    OBVIOUS
  <2>1. CASE UNCHANGED urlVars
    BY <2>1 DEF urlVars, UrlInv
  <2>2. ASSUME NEW key \in Key, NEW value \in PropertyText, WriteProperty(key, value) PROVE UrlInv'
    <3>1. value \in Seq(Brace)
      BY <2>2, BoundedIsSeq DEF PropertyText, Text, Brace
    <3>2. [key |-> key, value |-> value] \in MeantPair
      BY <3>1 DEF MeantPair
    <3> HIDE DEF MeantPair
    <3> QED
      BY <2>2, <3>2 DEF UrlInv, WriteProperty
  <2>3. ASSUME NEW symbol \in HostSymbol, TypeHost(symbol) PROVE UrlInv'
    BY <2>3 DEF UrlInv, TypeHost
  <2> QED
    BY <2>1, <2>2, <2>3 DEF UrlNext
<1> QED
  BY <1>1, <1>2, PTL DEF UrlSpec

\* A text without blanks at its ends.
IsTrimmed(t) == t \in Seq(HostSymbol) /\ (t # <<>> => t[1] # "blank" /\ t[Len(t)] # "blank")
Colons(t) == {i \in DOMAIN t : t[i] = ":"}

LEMMA Trimming ==
  ASSUME NEW h \in Seq(HostSymbol)
  PROVE  /\ IsTrimmed(TrimmedHost(h))
         /\ IsTrimmed(h) => TrimmedHost(h) = h
         /\ (\E x : Colons(TrimmedHost(h)) = {x}) => \E x : Colons(h) = {x}
<1> DEFINE full == {i \in DOMAIN h : h[i] # "blank"}
           a == Min(full)
           b == Max(full)
           t == TrimmedHost(h)
<1>0. Len(h) \in Nat /\ DOMAIN h = 1..Len(h) /\ full \in SUBSET (1..Len(h))
  OBVIOUS
<1>1. CASE full = {}
  <2>1. t = <<>>
    BY <1>1 DEF TrimmedHost
  <2>2. IsTrimmed(h) => h = <<>>
    <3> SUFFICES ASSUME IsTrimmed(h), h # <<>> PROVE FALSE
      OBVIOUS
    <3>1. 1 \in 1..Len(h) /\ h[1] # "blank"
      BY DEF IsTrimmed
    <3> QED
      BY <1>1, <3>1
  <2>3. Colons(t) = {} /\ IsTrimmed(t)
    BY <2>1 DEF Colons, IsTrimmed
  <2> QED
    BY <2>1, <2>2, <2>3
<1>2. CASE full # {}
  <2>1. /\ a \in full /\ b \in full /\ a \in 1..Len(h) /\ b \in 1..Len(h) /\ a <= b
        /\ \A i \in full : a <= i /\ i <= b
    <3> HIDE DEF full
    <3>1. /\ Min(full) \in full /\ \A x \in full : Min(full) <= x
          /\ Max(full) \in full /\ \A x \in full : x <= Max(full)
      <4>1. Len(h) \in Nat /\ full \in SUBSET (1..Len(h)) /\ full # {}
        BY <1>0, <1>2
      <4> QED
        BY <4>1, HaveEnds
    <3> QED
      BY <1>0, <3>1
  <2>2. t = SubSeq(h, a, b)
    BY <1>2 DEF TrimmedHost
  <2>3. h[a] # "blank" /\ h[b] # "blank"
    BY <2>1
  <2>4. \A i \in 1..Len(h) : i < a \/ b < i => h[i] = "blank"
    <3> SUFFICES ASSUME NEW i \in 1..Len(h), i < a \/ b < i, h[i] # "blank" PROVE FALSE
      OBVIOUS
    <3>1. i \in full
      OBVIOUS
    <3> HIDE DEF full, a, b
    <3> QED
      BY <2>1, <3>1
  <2> HIDE DEF full, a, b
  <2>5. /\ t \in Seq(HostSymbol) /\ Len(t) = b - a + 1 /\ Len(t) \in Nat /\ DOMAIN t = 1..Len(t)
        /\ \A j \in 1..Len(t) : t[j] = h[a + j - 1]
    BY <2>1, <2>2
  <2> HIDE DEF t
  <2>6. IsTrimmed(t)
    <3>1. t[1] = h[a] /\ t[Len(t)] = h[b]
      BY <2>1, <2>5
    <3> QED
      BY <2>3, <2>5, <3>1 DEF IsTrimmed
  <2>7. IsTrimmed(h) => t = h
    <3> SUFFICES ASSUME IsTrimmed(h) PROVE t = h
      OBVIOUS
    <3>1. h # <<>> /\ 1 \in 1..Len(h) /\ Len(h) \in 1..Len(h)
      BY <2>1
    <3>2. h[1] # "blank" /\ h[Len(h)] # "blank"
      BY <3>1 DEF IsTrimmed
    <3>3. a = 1 /\ b = Len(h)
      BY <2>1, <2>4, <3>1, <3>2
    <3> QED
      BY <2>5, <3>3
  <2>8. ASSUME NEW x, Colons(t) = {x} PROVE Colons(h) = {a + x - 1}
    <3>1. x \in 1..Len(t) /\ t[x] = ":" /\ \A j \in 1..Len(t) : t[j] = ":" => j = x
      BY <2>5, <2>8 DEF Colons
    <3>2. a + x - 1 \in 1..Len(h) /\ h[a + x - 1] = ":"
      BY <2>1, <2>5, <3>1
    <3>3. ASSUME NEW i \in 1..Len(h), h[i] = ":" PROVE i = a + x - 1
      <4>1. a <= i /\ i <= b
        BY <2>1, <2>4, <3>3
      <4>2. i - a + 1 \in 1..Len(t) /\ t[i - a + 1] = h[i]
        BY <2>1, <2>5, <4>1
      <4> QED
        BY <2>1, <3>1, <3>3, <4>1, <4>2
    <3> QED
      BY <1>0, <3>2, <3>3 DEF Colons
  <2> QED
    BY <2>6, <2>7, <2>8 DEF t
<1> QED
  BY <1>1, <1>2

\* Where a host and a port are taken apart.
LEMMA SplitAtColon ==
  ASSUME NEW t \in Seq(HostSymbol), NEW x \in 1..Len(t), t[x] = ":"
  PROVE  SubSeq(t, 1, x - 1) \o <<":">> \o SubSeq(t, x + 1, Len(t)) = t
<1> DEFINE u == SubSeq(t, 1, x - 1)
           v == SubSeq(t, x + 1, Len(t))
<1>1. /\ u \in Seq(HostSymbol) /\ Len(u) = x - 1 /\ \A i \in 1..(x - 1) : u[i] = t[i]
  OBVIOUS
<1>2. /\ v \in Seq(HostSymbol) /\ Len(v) = Len(t) - x
      /\ \A i \in 1..(Len(t) - x) : v[i] = t[x + i]
  OBVIOUS
<1> HIDE DEF u, v
<1>3. /\ u \o <<":">> \in Seq(HostSymbol) /\ Len(u \o <<":">>) = x
      /\ \A i \in 1..x : (u \o <<":">>)[i] = t[i]
  BY <1>1 DEF HostSymbol
<1> DEFINE y == u \o <<":">>
           w == y \o v
<1>4. w \in Seq(HostSymbol) /\ Len(w) = Len(t) /\ \A i \in 1..Len(t) : w[i] = t[i]
  <2> HIDE DEF y
  <2>1. y \in Seq(HostSymbol) /\ Len(y) = x /\ \A i \in 1..x : y[i] = t[i]
    BY <1>3 DEF y
  <2>2. /\ w \in Seq(HostSymbol) /\ Len(w) = Len(y) + Len(v)
        /\ \A i \in 1..Len(y) : w[i] = y[i]
        /\ \A i \in 1..Len(v) : w[Len(y) + i] = v[i]
    <3>1. y \in Seq(HostSymbol) /\ v \in Seq(HostSymbol)
      BY <1>2, <2>1
    <3> QED
      BY <3>1, Joining
  <2> HIDE DEF w
  <2>3. ASSUME NEW i \in 1..Len(t) PROVE w[i] = t[i]
    <3>1. CASE i <= x
      BY <2>1, <2>2, <3>1
    <3>2. CASE ~(i <= x)
      <4>1. i - x \in 1..Len(v) /\ Len(y) + (i - x) = i /\ x + (i - x) = i
        BY <1>2, <2>1, <3>2
      <4> DEFINE k == i - x
      <4>2. k \in 1..Len(v) /\ Len(y) + k = i /\ x + k = i /\ k \in 1..(Len(t) - x)
        BY <1>2, <4>1
      <4> HIDE DEF k
      <4>3. w[Len(y) + k] = v[k] /\ v[k] = t[x + k]
        BY <1>2, <2>2, <4>2
      <4> QED
        BY <4>2, <4>3, Zenon
    <3> QED
      BY <3>1, <3>2
  <2>4. Len(w) = Len(t)
    BY <1>2, <2>1, <2>2
  <2> QED
    BY ONLY <2>2, <2>3, <2>4
<1>5. w = t
  <2> HIDE DEF w
  <2> QED
    BY <1>4
<1> QED
  BY <1>5, Zenon DEF u, v, w, y

LEMMA NormalizingTrimmed ==
  ASSUME NEW t, IsTrimmed(t), NEW out, out = NormalizeTrimmed(t, Absent)
  PROVE  \/ out = [host |-> t, port |-> Absent]
         \/ /\ \E x : Colons(t) = {x}
            /\ out.host \o <<":">> \o out.port = t
            /\ \A p : Last(out.host) # "blank" =>
                 out = NormalizeTrimmed(TrimmedHost(out.host), out.port)
<1> DEFINE colons == {i \in DOMAIN t : t[i] = ":"}
           digits == SubSeq(t, Max(colons \cup {0}) + 1, Len(t))
           apart == Cardinality(colons) = 1 /\ colons # {1}
                      /\ digits # <<>> /\ ToSet(digits) \subseteq {"5", "0"} /\ "5" \in ToSet(digits)
                      /\ \A i \in 1..(Len(digits) - 5) : digits[i] = "0"
<1>0. t \in Seq(HostSymbol)
  BY DEF IsTrimmed
<1>1. out = IF apart THEN [host |-> SubSeq(t, 1, Max(colons) - 1), port |-> digits]
                     ELSE [host |-> t, port |-> Absent]
  BY DEF NormalizeTrimmed
<1>2. CASE ~apart
  BY <1>1, <1>2
<1>3. CASE apart
  <2>1. PICK x : colons = {x}
    <3>1. colons \in SUBSET (1..Len(t)) /\ Len(t) \in Nat
      BY <1>0
    <3>2. IsFiniteSet(colons) /\ Cardinality(colons) = 1
      <4> HIDE DEF colons
      <4>1. IsFiniteSet(1..Len(t))
        BY <3>1, FS_Interval
      <4> QED
        BY <1>3, <3>1, <4>1, FS_Subset
    <3> HIDE DEF colons
    <3> QED
      BY <3>2, FS_Singleton
  <2>2. x \in 1..Len(t) /\ t[x] = ":" /\ x # 1
    BY <1>0, <1>3, <2>1
  <2>3. Max(colons) = x /\ Max(colons \cup {0}) = x
    <3>1. colons \cup {0} = {0, x} /\ x >= 0 /\ x >= x /\ ~(0 >= x)
      BY <2>1, <2>2
    <3> HIDE DEF colons
    <3> QED
      BY <2>1, <3>1 DEF Max
  <2>4. out = [host |-> SubSeq(t, 1, x - 1), port |-> SubSeq(t, x + 1, Len(t))]
    BY <1>1, <1>3, <2>3
  <2>5. out.host \o <<":">> \o out.port = t
    <3>1. SubSeq(t, 1, x - 1) \o <<":">> \o SubSeq(t, x + 1, Len(t)) = t
      BY <1>0, <2>2, SplitAtColon
    <3> DEFINE u == SubSeq(t, 1, x - 1)
               v == SubSeq(t, x + 1, Len(t))
    <3>2. out = [host |-> u, port |-> v]
      BY <2>4
    <3> HIDE DEF u, v
    <3>3. out.host = u /\ out.port = v
      BY <3>2
    <3> QED
      BY <3>1, <3>3, Zenon DEF u, v
  <2>6. ASSUME Last(out.host) # "blank"
        PROVE  out = NormalizeTrimmed(TrimmedHost(out.host), out.port)
    <3> DEFINE h == out.host
    <3>1. /\ h \in Seq(HostSymbol) /\ Len(h) = x - 1 /\ \A i \in 1..(x - 1) : h[i] = t[i]
      BY <1>0, <2>2, <2>4
    <3> HIDE DEF h
    <3>2. t[1] # "blank" /\ 1 \in 1..(x - 1)
      BY <1>0, <2>2 DEF IsTrimmed
    <3>3. IsTrimmed(h)
      BY <2>6, <3>1, <3>2 DEF IsTrimmed, Last, h
    <3>4. TrimmedHost(h) = h
      BY <3>1, <3>3, Trimming
    <3>5. {i \in DOMAIN h : h[i] = ":"} = {}
      <4> SUFFICES ASSUME NEW i \in DOMAIN h, h[i] = ":" PROVE FALSE
        OBVIOUS
      <4>1. i \in 1..(x - 1) /\ t[i] = ":" /\ i \in 1..Len(t) /\ i # x
        BY <1>0, <2>2, <3>1
      <4> QED
        BY <1>0, <2>1, <4>1
    <3>6. NormalizeTrimmed(h, out.port) = [host |-> h, port |-> out.port]
      <4>1. Cardinality({i \in DOMAIN h : h[i] = ":"}) # 1
        BY <3>5, FS_EmptySet
      <4> QED
        BY <4>1 DEF NormalizeTrimmed
    <3>7. out = [host |-> h, port |-> out.port]
      BY <2>4 DEF h
    <3> QED
      BY <3>4, <3>6, <3>7 DEF h
  <2> QED
    BY <2>1, <2>5, <2>6 DEF Colons
<1> QED
  BY <1>2, <1>3

LEMMA HostsAreTakenApart == UrlInv => HostAndPortAreTakenApart
<1> SUFFICES ASSUME UrlInv PROVE HostAndPortAreTakenApart
  OBVIOUS
<1> DEFINE t == TrimmedHost(host)
           out == NormalizeHostPort(host, Absent)
<1>0. host \in Seq(HostSymbol)
  BY DEF UrlInv
<1>1. IsTrimmed(t) /\ TrimmedHost(t) = t
  <2>1. IsTrimmed(t)
    BY <1>0, Trimming
  <2>2. t \in Seq(HostSymbol)
    BY <2>1 DEF IsTrimmed
  <2> HIDE DEF t
  <2> QED
    BY <2>1, <2>2, Trimming
<1>2. out = NormalizeTrimmed(t, Absent)
  BY DEF NormalizeHostPort
<1> HIDE DEF out
<1>3. \/ out = [host |-> t, port |-> Absent]
      \/ /\ \E x : Colons(t) = {x}
         /\ out.host \o <<":">> \o out.port = t
         /\ Last(out.host) # "blank" => out = NormalizeHostPort(out.host, out.port)
  <2> HIDE DEF t
  <2> QED
    BY <1>1, <1>2, NormalizingTrimmed DEF NormalizeHostPort
<1>4. ASSUME \E x : Colons(t) = {x} PROVE Cardinality({i \in DOMAIN host : host[i] = ":"}) = 1
  <2>1. PICK x : Colons(host) = {x}
    BY <1>0, <1>4, Trimming
  <2> QED
    BY <2>1, FS_Singleton DEF Colons
<1>5. CASE out = [host |-> t, port |-> Absent]
  <2>1. out.host = t /\ out.port = Absent
    BY <1>5
  <2>2. NormalizeHostPort(out.host, out.port) = out
    BY <1>1, <1>2, <2>1 DEF NormalizeHostPort
  <2> QED
    BY <2>1, <2>2 DEF HostAndPortAreTakenApart, out
<1>6. CASE out # [host |-> t, port |-> Absent]
  BY <1>3, <1>4, <1>6 DEF HostAndPortAreTakenApart, out
<1> QED
  BY <1>5, <1>6

\* For every bound: a host and its port are taken apart as
\* normalize_host_port means to (HostAndPortAreTakenApart).
THEOREM HostsCorrect == UrlSpec => []HostAndPortAreTakenApart
BY UrlInvHolds, HostsAreTakenApart, PTL

-----------------------------------------------------------------------------
(* The properties of a URL.                                                *)

UrlSymbol == Key \cup Brace
ScanState == [parts : Seq(Seq(UrlSymbol)) \ {<<>>}, braced : BOOLEAN, skip : BOOLEAN]
Scanned(parts, braced, skip) == [parts |-> parts, braced |-> braced, skip |-> skip]
Fresh == Scanned(<<<<>>>>, FALSE, FALSE)

LEMMA ScanStays ==
  ASSUME NEW t \in Seq(UrlSymbol), NEW i \in 1..Len(t), NEW scan \in ScanState
  PROVE  Scan(t, scan, i) \in ScanState
<1> DEFINE parts == scan.parts
           n == Len(parts)
           doubled == /\ t[i] = "}" /\ scan.braced /\ ~scan.skip
                      /\ i < Len(t) /\ t[i + 1] = "}"
           braced == doubled \/ scan.skip \/ t[i] = "{" \/ (scan.braced /\ t[i] # "}")
           longer == Front(parts) \o <<Append(Last(parts), t[i])>>
<1>1. /\ parts \in Seq(Seq(UrlSymbol)) /\ parts # <<>>
      /\ scan = [parts |-> parts, braced |-> scan.braced, skip |-> scan.skip]
      /\ scan.braced \in BOOLEAN /\ scan.skip \in BOOLEAN
  BY DEF ScanState
<1>2. CASE t[i] = ";" /\ ~scan.braced
  <2>1. Scan(t, scan, i) = [scan EXCEPT !.parts = Append(parts, <<>>)]
    BY <1>2 DEF Scan
  <2>2. Append(parts, <<>>) \in Seq(Seq(UrlSymbol)) \ {<<>>}
    BY <1>1
  <2> HIDE DEF parts
  <2> QED
    BY <2>1, <2>2 DEF ScanState
<1>3. CASE ~(t[i] = ";" /\ ~scan.braced)
  <2>1. Scan(t, scan, i) = [parts |-> longer, braced |-> braced, skip |-> doubled]
    BY <1>3, Zenon DEF Scan
  <2>2. doubled \in BOOLEAN /\ braced \in BOOLEAN
    OBVIOUS
  <2>3. longer \in Seq(Seq(UrlSymbol)) \ {<<>>}
    <3> HIDE DEF parts
    <3>1. n \in Nat /\ n >= 1 /\ n \in 1..n
      BY <1>1
    <3>2. Front(parts) \in Seq(Seq(UrlSymbol)) /\ Last(parts) \in Seq(UrlSymbol)
      BY <1>1, <3>1 DEF Front, Last
    <3>3. Append(Last(parts), t[i]) \in Seq(UrlSymbol)
      BY <3>2
    <3> QED
      BY <3>2, <3>3
  <2> HIDE DEF longer, doubled, braced
  <2> QED
    BY <2>1, <2>2, <2>3 DEF ScanState
<1> QED
  BY <1>2, <1>3

\* The states of the scan of a text.
LEMMA SplitsByScanning ==
  ASSUME NEW t \in Seq(UrlSymbol)
  PROVE  \E scan \in [0..Len(t) -> ScanState] :
           /\ scan[0] = Fresh
           /\ \A k \in 1..Len(t) : scan[k] = Scan(t, scan[k - 1], k)
           /\ SplitConnectionProperties(t) = scan[Len(t)].parts
<1> DEFINE n == Len(t)
           F == [p \in ScanState \X (1..n) |-> Scan(t, p[1], p[2])]
           Finds(g, D) == g = [s \in SUBSET D |->
                                 IF s = {} THEN Fresh
                                 ELSE Scan(t, g[s \ {Max(s)}], [i \in DOMAIN t |-> i][Max(s)])]
           c == CHOOSE g : Finds(g, DOMAIN t)
<1>1. n \in Nat /\ DOMAIN t = 1..n
  OBVIOUS
<1>2. Fresh \in ScanState
  BY DEF ScanState, Fresh, Scanned
<1>3. F \in [ScanState \X (1..n) -> ScanState]
  BY ScanStays
<1>4. \A a \in ScanState : \A k \in 1..n : F[<<a, k>>] = Scan(t, a, k)
  OBVIOUS
<1> HIDE DEF F
<1>5. PICK g \in [SUBSET (1..n) -> ScanState] : Descends(g, F, Fresh, n)
  BY <1>1, <1>2, <1>3, FoldingExists
<1>6. ASSUME NEW s \in SUBSET (1..n), s # {}
      PROVE  Max(s) \in 1..n /\ s \ {Max(s)} \in SUBSET (1..n) /\ [i \in 1..n |-> i][Max(s)] = Max(s)
  <2>1. Max(s) \in s
    BY <1>1, <1>6, HaveEnds
  <2> QED
    BY <2>1
<1>7. Finds(g, DOMAIN t)
  <2>1. ASSUME NEW s \in SUBSET (1..n), s # {}
        PROVE  g[s] = Scan(t, g[s \ {Max(s)}], [i \in DOMAIN t |-> i][Max(s)])
    <3>1. g[s] = F[<<g[s \ {Max(s)}], Max(s)>>]
      BY <1>5, <2>1 DEF Descends
    <3>2. g[s \ {Max(s)}] \in ScanState /\ Max(s) \in 1..n /\ [i \in 1..n |-> i][Max(s)] = Max(s)
      BY <1>6, <2>1
    <3> QED
      BY <1>1, <1>4, <3>1, <3>2
  <2>2. g[{}] = Fresh
    BY <1>5 DEF Descends
  <2> QED
    BY <1>1, <2>1, <2>2
<1>8. Finds(c, DOMAIN t)
  <2> HIDE DEF Finds
  <2> QED
    BY <1>7
<1>9. SplitConnectionProperties(t) = c[1..n].parts
  BY <1>1, Zenon DEF SplitConnectionProperties, FoldLeftDomain, FoldLeft, MapThenFoldSet, Fresh, Scanned
<1> HIDE DEF c
<1>10. c = [s \in SUBSET (1..n) |-> c[s]] /\ c[{}] = Fresh
       /\ \A s \in SUBSET (1..n) : s # {} => c[s] = Scan(t, c[s \ {Max(s)}], Max(s))
  <2>1. c = [s \in SUBSET (1..n) |-> c[s]] /\ c[{}] = Fresh
    BY <1>1, <1>8
  <2>2. ASSUME NEW s \in SUBSET (1..n), s # {}
        PROVE  c[s] = Scan(t, c[s \ {Max(s)}], Max(s))
    <3>1. c[s] = Scan(t, c[s \ {Max(s)}], [i \in 1..n |-> i][Max(s)])
      BY <1>1, <1>8, <2>2
    <3> QED
      BY <1>6, <2>2, <3>1
  <2> QED
    BY <2>1, <2>2
<1> HIDE DEF Finds
<1> DEFINE scan == [k \in 0..n |-> c[1..k]]
           S == {k \in 0..n : scan[k] \in ScanState}
<1>11. scan[0] = Fresh /\ 0 \in S
  <2>1. 1..0 = {}
    OBVIOUS
  <2> QED
    BY <1>1, <1>2, <1>10, <2>1
<1>12. ASSUME NEW k \in 1..n PROVE scan[k] = Scan(t, scan[k - 1], k)
  <2>1. k \in Nat \ {0} /\ 1..k \in SUBSET (1..n) /\ k \in 0..n /\ k - 1 \in 0..n
    BY <1>1
  <2>2. 1..k # {} /\ Max(1..k) = k /\ (1..k) \ {k} = 1..(k - 1)
    BY <2>1, LastPlace
  <2>3. c[1..k] = Scan(t, c[1..(k - 1)], k)
    BY <1>10, <2>1, <2>2
  <2> QED
    BY <2>1, <2>3
<1>13. scan \in [0..n -> ScanState]
  <2>1. ASSUME NEW k \in 1..n, k - 1 \in S PROVE k \in S
    <3> HIDE DEF scan
    <3>1. scan[k - 1] \in ScanState /\ k \in 0..n
      BY <1>1, <2>1
    <3> QED
      BY <1>1, <1>12, <3>1, ScanStays
  <2>2. \A k \in 0..n : k \in S
    <3> HIDE DEF S, scan
    <3> QED
      BY <1>1, <1>11, <2>1, FromTheLeft
  <2> QED
    BY <2>2
<1>14. scan[n] = c[1..n]
  BY <1>1
<1> HIDE DEF scan
<1> QED
  BY <1>9, <1>11, <1>12, <1>13, <1>14

-----------------------------------------------------------------------------
(* Reading what is written.                                                *)

Doubling(v) == [i \in DOMAIN v |-> IF v[i] = "}" THEN <<"}", "}">> ELSE <<v[i]>>]
BracesDoubled(v) == FlattenSeq(Doubling(v))
IsPlain(v) == ToSet(v) \cap {"{", "}", ";"} = {}
Protected(v) == IF IsPlain(v) THEN v ELSE <<"{">> \o BracesDoubled(v) \o <<"}">>
Body(pair) == <<pair.key, "=">> \o Protected(pair.value)

LEMMA DoublingPieces ==
  ASSUME NEW v \in Seq(Brace)
  PROVE  /\ Doubling(v) \in Seq(Seq(Brace)) /\ Len(Doubling(v)) = Len(v) /\ Len(v) \in Nat
         /\ \A i \in 1..Len(v) :
              Doubling(v)[i] = IF v[i] = "}" THEN <<"}", "}">> ELSE <<v[i]>>
         /\ BracesDoubled(v) \in Seq(Brace)
<1>1. DOMAIN v = 1..Len(v) /\ Len(v) \in Nat
  OBVIOUS
<1>2. ASSUME NEW i \in 1..Len(v)
      PROVE  v[i] \in Brace /\ <<v[i]>> \in Seq(Brace) /\ <<"}", "}">> \in Seq(Brace)
  <2>1. v[i] \in Brace
    OBVIOUS
  <2>2. <<"}", "}">> \in Seq(Brace)
    <3> DEFINE c == "}"
    <3>1. c \in Brace
      BY DEF Brace
    <3> HIDE DEF c
    <3>2. <<c, c>> \in Seq(Brace)
      BY <3>1
    <3> QED
      BY <3>2 DEF c
  <2> HIDE DEF Brace
  <2>3. <<v[i]>> \in Seq(Brace)
    BY <2>1
  <2> QED
    BY <2>1, <2>2, <2>3
<1>3. Doubling(v) \in [1..Len(v) -> Seq(Brace)]
  BY <1>1, <1>2 DEF Doubling
<1>4. Doubling(v) \in Seq(Seq(Brace)) /\ Len(Doubling(v)) = Len(v)
  BY <1>1, <1>3
<1>5. \A i \in 1..Len(v) : Doubling(v)[i] = IF v[i] = "}" THEN <<"}", "}">> ELSE <<v[i]>>
  BY <1>1 DEF Doubling
<1>6. BracesDoubled(v) \in Seq(Brace)
  BY <1>4, Beginnings DEF BracesDoubled
<1> QED
  BY <1>1, <1>4, <1>5, <1>6

LEMMA ProtectedIs ==
  ASSUME NEW v \in Seq(Brace)
  PROVE  /\ Protected(v) \in Seq(Brace)
         /\ IsPlain(v) => Protected(v) = v /\ \A i \in 1..Len(v) : v[i] = "="
         /\ ~ IsPlain(v) =>
              /\ Len(Protected(v)) = Len(BracesDoubled(v)) + 2
              /\ Protected(v)[1] = "{" /\ Protected(v)[Len(BracesDoubled(v)) + 2] = "}"
              /\ \A j \in 1..Len(BracesDoubled(v)) : Protected(v)[1 + j] = BracesDoubled(v)[j]
<1>1. CASE IsPlain(v)
  <2>1. ASSUME NEW i \in 1..Len(v) PROVE v[i] = "="
    <3>1. v[i] \in ToSet(v) /\ v[i] \in Brace
      BY DEF ToSet
    <3> QED
      BY <1>1, <3>1 DEF IsPlain, Brace
  <2> QED
    BY <1>1, <2>1 DEF Protected
<1>2. CASE ~ IsPlain(v)
  <2> DEFINE d == BracesDoubled(v)
             w == Protected(v)
             a == "{"
             z == "}"
  <2>1. w = <<a>> \o d \o <<z>>
    BY <1>2 DEF Protected
  <2>2. d \in Seq(Brace) /\ a \in Brace /\ z \in Brace
    BY DoublingPieces DEF Brace
  <2> HIDE DEF d, w, a, z
  <2>3. /\ w \in Seq(Brace) /\ Len(w) = Len(d) + 2 /\ w[1] = a /\ w[Len(d) + 2] = z
        /\ \A j \in 1..Len(d) : w[1 + j] = d[j]
    BY <2>1, <2>2
  <2> QED
    BY <1>2, <2>3 DEF d, w, a, z
<1> QED
  BY <1>1, <1>2

LEMMA WrittenIs ==
  ASSUME NEW pair \in MeantPair
  PROVE  /\ pair.key \in Key /\ pair.value \in Seq(Brace) /\ Protected(pair.value) \in Seq(Brace)
         /\ Body(pair) \in Seq(UrlSymbol) /\ Len(Body(pair)) = 2 + Len(Protected(pair.value))
         /\ Body(pair)[1] = pair.key /\ Body(pair)[2] = "="
         /\ \A j \in 1..Len(Protected(pair.value)) :
              Body(pair)[2 + j] = Protected(pair.value)[j]
         /\ Written(pair) = <<";">> \o Body(pair)
         /\ Written(pair) \in Seq(UrlSymbol) /\ Len(Written(pair)) = 1 + Len(Body(pair))
         /\ Written(pair)[1] = ";"
         /\ \A j \in 1..Len(Body(pair)) : Written(pair)[1 + j] = Body(pair)[j]
<1> DEFINE v == pair.value
           k == pair.key
           p == Protected(v)
           body == Body(pair)
           full == Written(pair)
           e == "="
           c == ";"
<1>1. k \in Key /\ v \in Seq(Brace) /\ p \in Seq(Brace)
  BY ProtectedIs DEF MeantPair
<1>2. \A x \in Seq(Brace) : x \in Seq(UrlSymbol)
  BY DEF UrlSymbol
<1>3. k \in UrlSymbol /\ e \in UrlSymbol /\ c \in UrlSymbol /\ p \in Seq(UrlSymbol)
  BY <1>1, <1>2 DEF UrlSymbol, Brace
<1>4. full = <<c, k, e>> \o p
  BY DEF Written, Protected, BracesDoubled, Doubling, IsPlain
<1>5. body = <<k, e>> \o p
  BY DEF Body
<1> HIDE DEF v, k, p, body, full, e, c
<1>6. full = <<c>> \o (<<k, e>> \o p)
  <2>1. <<c, k, e>> \o p = <<c>> \o (<<k, e>> \o p)
    BY <1>3
  <2> QED
    BY <1>4, <2>1, Zenon
<1>7. full = <<c>> \o body
  BY <1>5, <1>6
<1>8. /\ body \in Seq(UrlSymbol) /\ Len(body) = 2 + Len(p) /\ body[1] = k /\ body[2] = e
      /\ \A j \in 1..Len(p) : body[2 + j] = p[j]
  BY <1>3, <1>5
<1>9. /\ full \in Seq(UrlSymbol) /\ Len(full) = 1 + Len(body) /\ full[1] = c
      /\ \A j \in 1..Len(body) : full[1 + j] = body[j]
  BY <1>3, <1>7, <1>8
<1> QED
  BY <1>1, <1>7, <1>8, <1>9 DEF v, k, p, body, full, e, c

Scans(scan, t) ==
  /\ t \in Seq(UrlSymbol)
  /\ scan \in [0..Len(t) -> ScanState]
  /\ scan[0] = Fresh
  /\ \A k \in 1..Len(t) : scan[k] = Scan(t, scan[k - 1], k)

\* body is in t after the place q.
Lies(body, t, q) ==
  /\ body \in Seq(UrlSymbol) /\ q \in Nat /\ q + Len(body) <= Len(t)
  /\ \A j \in 1..Len(body) : t[q + j] = body[j]

\* After parts, the first symbols of a further one have been read.
Reading(parts, word, braced, skip) == Scanned(Append(parts, word), braced, skip)
ReadTo(scan, q, parts, body, j, braced, skip) ==
  scan[q + j] = Reading(parts, SubSeq(body, 1, j), braced, skip)

LEMMA PartGrows ==
  ASSUME NEW S, NEW t \in Seq(S), NEW i \in 1..Len(t), NEW parts \in Seq(Seq(S)),
         NEW word \in Seq(S)
  PROVE  parts \o <<Append(word, t[i])>> = Append(parts, Append(word, t[i]))
<1> DEFINE x == Append(word, t[i])
<1>1. x \in Seq(S)
  OBVIOUS
<1> HIDE DEF x
<1>2. parts \o <<x>> = Append(parts, x)
  BY <1>1, Appending
<1> QED
  BY <1>2 DEF x

\* Whether a symbol does not begin a further part.
Continues(symbol, braced) == symbol # ";" \/ braced
Longer(word, symbol) == Append(word, symbol)

\* Whether the symbol at i is the first of a doubled brace, and whether the
\* scan is inside braces after it.
Doubles(t, i, symbol, braced, skip) ==
  symbol = "}" /\ braced /\ ~skip /\ i < Len(t) /\ t[i + 1] = "}"
Braces(t, i, symbol, braced, skip) ==
  Doubles(t, i, symbol, braced, skip) \/ skip \/ symbol = "{" \/ (braced /\ symbol # "}")

LEMMA ReadsOne ==
  ASSUME NEW t \in Seq(UrlSymbol), NEW i \in 1..Len(t),
         NEW parts \in Seq(Seq(UrlSymbol)), NEW word \in Seq(UrlSymbol),
         NEW braced \in BOOLEAN, NEW skip \in BOOLEAN, Continues(t[i], braced)
  PROVE  Scan(t, Reading(parts, word, braced, skip), i)
           = Reading(parts, Longer(word, t[i]),
                     Braces(t, i, t[i], braced, skip), Doubles(t, i, t[i], braced, skip))
<1> DEFINE scan == Reading(parts, word, braced, skip)
<1>1. scan.parts = Append(parts, word) /\ scan.braced = braced /\ scan.skip = skip
  BY DEF Reading, Scanned
<1>2. Front(Append(parts, word)) = parts /\ Last(Append(parts, word)) = word
  BY Appending
<1>4. parts \o <<Append(word, t[i])>> = Append(parts, Append(word, t[i]))
  BY PartGrows
<1> DEFINE doubled == t[i] = "}" /\ braced /\ ~skip /\ i < Len(t) /\ t[i + 1] = "}"
           B == doubled \/ skip \/ t[i] = "{" \/ (braced /\ t[i] # "}")
<1>5. Scan(t, scan, i) =
        [parts |-> Front(scan.parts) \o <<Append(Last(scan.parts), t[i])>>,
         braced |-> B, skip |-> doubled]
  <2> HIDE DEF scan
  <2>1. ~(t[i] = ";" /\ ~scan.braced)
    BY <1>1, Zenon DEF Continues
  <2>2. Scan(t, scan, i) =
          [parts |-> Front(scan.parts) \o <<Append(Last(scan.parts), t[i])>>,
           braced |-> (/\ t[i] = "}" /\ scan.braced /\ ~scan.skip
                       /\ i < Len(t) /\ t[i + 1] = "}")
                      \/ scan.skip \/ t[i] = "{" \/ (scan.braced /\ t[i] # "}"),
           skip |-> /\ t[i] = "}" /\ scan.braced /\ ~scan.skip
                    /\ i < Len(t) /\ t[i + 1] = "}"]
    BY <2>1, Zenon DEF Scan
  <2> QED
    BY <1>1, <2>2, Zenon
<1> HIDE DEF scan
<1> QED
  BY <1>1, <1>2, <1>4, <1>5, Zenon DEF Reading, Scanned, scan, Braces, Doubles, Longer

\* The places of body in t.
LEMMA LyingThere ==
  ASSUME NEW t, NEW scan, Scans(scan, t), NEW body, NEW q, Lies(body, t, q), NEW j \in 1..Len(body)
  PROVE  /\ t \in Seq(UrlSymbol) /\ body \in Seq(UrlSymbol) /\ q \in Nat
         /\ q + j \in 1..Len(t) /\ t[q + j] = body[j] /\ (q + j) - 1 = q + (j - 1)
         /\ scan[q + j] = Scan(t, scan[q + (j - 1)], q + j)
         /\ SubSeq(body, 1, j - 1) \in Seq(UrlSymbol)
         /\ Append(SubSeq(body, 1, j - 1), body[j]) = SubSeq(body, 1, j)
<1>1. /\ t \in Seq(UrlSymbol) /\ body \in Seq(UrlSymbol) /\ q \in Nat
      /\ q + Len(body) <= Len(t) /\ t[q + j] = body[j]
  BY DEF Scans, Lies
<1>2. q + j \in 1..Len(t) /\ (q + j) - 1 = q + (j - 1)
  BY <1>1
<1>3. scan[q + j] = Scan(t, scan[(q + j) - 1], q + j)
  BY <1>2 DEF Scans
<1>4. SubSeq(body, 1, j - 1) \in Seq(UrlSymbol)
  BY <1>1
<1>5. Append(SubSeq(body, 1, j - 1), body[j]) = SubSeq(body, 1, j)
  BY <1>1
<1> QED
  BY <1>1, <1>2, <1>3, <1>4, <1>5

LEMMA ReadsOn ==
  ASSUME NEW t, NEW scan, Scans(scan, t), NEW body, NEW q, Lies(body, t, q),
         NEW parts \in Seq(Seq(UrlSymbol)), NEW j \in 1..Len(body),
         NEW braced \in BOOLEAN, NEW skip \in BOOLEAN, ReadTo(scan, q, parts, body, j - 1, braced, skip),
         Continues(body[j], braced)
  PROVE  ReadTo(scan, q, parts, body, j, Braces(t, q + j, body[j], braced, skip),
                Doubles(t, q + j, body[j], braced, skip))
<1> DEFINE i == q + j
           word == SubSeq(body, 1, j - 1)
<1>1. /\ t \in Seq(UrlSymbol) /\ i \in 1..Len(t) /\ t[i] = body[j]
      /\ scan[i] = Scan(t, scan[q + (j - 1)], i)
      /\ word \in Seq(UrlSymbol) /\ Append(word, body[j]) = SubSeq(body, 1, j)
  BY ONLY Scans(scan, t), Lies(body, t, q), j \in 1..Len(body), LyingThere
<1>2. scan[q + (j - 1)] = Reading(parts, word, braced, skip)
  BY DEF ReadTo
<1> HIDE DEF i, word
<1> DEFINE symbol == body[j]
           longer == SubSeq(body, 1, j)
<1>3. Continues(t[i], braced) /\ symbol = t[i] /\ longer = Longer(word, symbol)
  BY <1>1 DEF Longer
<1> HIDE DEF symbol, longer
<1>4. Scan(t, Reading(parts, word, braced, skip), i)
        = Reading(parts, Longer(word, t[i]),
                  Braces(t, i, t[i], braced, skip), Doubles(t, i, t[i], braced, skip))
  BY <1>1, <1>3, ReadsOne
<1>5. scan[i] = Reading(parts, longer,
                        Braces(t, i, symbol, braced, skip), Doubles(t, i, symbol, braced, skip))
  BY <1>1, <1>2, <1>3, <1>4, Zenon
<1> QED
  BY <1>5, Zenon DEF ReadTo, i, symbol, longer

\* What each symbol does to the scan.
LEMMA ScanSteps ==
  ASSUME NEW t, NEW scan, Scans(scan, t), NEW body, NEW q, Lies(body, t, q),
         NEW parts \in Seq(Seq(UrlSymbol)), NEW j \in 1..Len(body)
  PROVE  /\ ReadTo(scan, q, parts, body, j - 1, FALSE, FALSE) =>
              /\ body[j] \notin {";", "{", "}"} => ReadTo(scan, q, parts, body, j, FALSE, FALSE)
              /\ body[j] = "{" => ReadTo(scan, q, parts, body, j, TRUE, FALSE)
         /\ ReadTo(scan, q, parts, body, j - 1, TRUE, FALSE) =>
              /\ body[j] # "}" => ReadTo(scan, q, parts, body, j, TRUE, FALSE)
              /\ body[j] = "}" /\ q + j < Len(t) /\ t[(q + j) + 1] = "}" =>
                   ReadTo(scan, q, parts, body, j, TRUE, TRUE)
              /\ body[j] = "}" /\ ~(q + j < Len(t) /\ t[(q + j) + 1] = "}") =>
                   ReadTo(scan, q, parts, body, j, FALSE, FALSE)
         /\ ReadTo(scan, q, parts, body, j - 1, TRUE, TRUE) =>
              (body[j] = "}" => ReadTo(scan, q, parts, body, j, TRUE, FALSE))
<1> DEFINE s == body[j]
           i == q + j
           twice == i < Len(t) /\ t[i + 1] = "}"
<1>1. \A b, k \in BOOLEAN :
        ReadTo(scan, q, parts, body, j - 1, b, k) /\ Continues(s, b) =>
          ReadTo(scan, q, parts, body, j, Braces(t, i, s, b, k), Doubles(t, i, s, b, k))
  BY ReadsOn
<1>2. /\ s \notin {";", "{", "}"} => /\ Continues(s, FALSE) /\ ~ Braces(t, i, s, FALSE, FALSE)
                                     /\ ~ Doubles(t, i, s, FALSE, FALSE)
      /\ s = "{" => /\ Continues(s, FALSE) /\ Braces(t, i, s, FALSE, FALSE)
                    /\ ~ Doubles(t, i, s, FALSE, FALSE)
      /\ s # "}" => /\ Continues(s, TRUE) /\ Braces(t, i, s, TRUE, FALSE)
                    /\ ~ Doubles(t, i, s, TRUE, FALSE)
      /\ s = "}" /\ twice => /\ Continues(s, TRUE) /\ Braces(t, i, s, TRUE, FALSE)
                             /\ Doubles(t, i, s, TRUE, FALSE)
      /\ s = "}" /\ ~twice => /\ Continues(s, TRUE) /\ ~ Braces(t, i, s, TRUE, FALSE)
                              /\ ~ Doubles(t, i, s, TRUE, FALSE)
      /\ s = "}" => /\ Continues(s, TRUE) /\ Braces(t, i, s, TRUE, TRUE)
                    /\ ~ Doubles(t, i, s, TRUE, TRUE)
  BY DEF Continues, Braces, Doubles
<1>3. \A b, k : /\ Braces(t, i, s, b, k) \in BOOLEAN /\ Doubles(t, i, s, b, k) \in BOOLEAN
  BY DEF Braces, Doubles
<1>4. \A x \in BOOLEAN : (x => x = TRUE) /\ (~x => x = FALSE)
  OBVIOUS
<1>5. TRUE \in BOOLEAN /\ FALSE \in BOOLEAN
  OBVIOUS
<1> HIDE DEF s, i
<1>6. ASSUME ReadTo(scan, q, parts, body, j - 1, FALSE, FALSE), s = "{"
      PROVE  ReadTo(scan, q, parts, body, j, TRUE, FALSE)
  <2>1. Continues(s, FALSE) /\ Braces(t, i, s, FALSE, FALSE) /\ ~ Doubles(t, i, s, FALSE, FALSE)
    BY <1>2, <1>6, Zenon
  <2>2. Braces(t, i, s, FALSE, FALSE) = TRUE /\ Doubles(t, i, s, FALSE, FALSE) = FALSE
    BY <1>3, <1>4, <2>1, Zenon
  <2>3. ReadTo(scan, q, parts, body, j, Braces(t, i, s, FALSE, FALSE), Doubles(t, i, s, FALSE, FALSE))
    BY <1>1, <1>5, <1>6, <2>1, Zenon
  <2> QED
    BY <2>2, <2>3, Zenon
<1>7. ASSUME ReadTo(scan, q, parts, body, j - 1, FALSE, FALSE), s \notin {";", "{", "}"}
      PROVE  ReadTo(scan, q, parts, body, j, FALSE, FALSE)
  <2>1. Continues(s, FALSE) /\ ~ Braces(t, i, s, FALSE, FALSE) /\ ~ Doubles(t, i, s, FALSE, FALSE)
    BY <1>2, <1>7, Zenon
  <2>2. Braces(t, i, s, FALSE, FALSE) = FALSE /\ Doubles(t, i, s, FALSE, FALSE) = FALSE
    BY <1>3, <1>4, <2>1, Zenon
  <2>3. ReadTo(scan, q, parts, body, j, Braces(t, i, s, FALSE, FALSE), Doubles(t, i, s, FALSE, FALSE))
    BY <1>1, <1>5, <1>7, <2>1, Zenon
  <2> QED
    BY <2>2, <2>3, Zenon
<1>8. ASSUME ReadTo(scan, q, parts, body, j - 1, TRUE, FALSE), s # "}"
      PROVE  ReadTo(scan, q, parts, body, j, TRUE, FALSE)
  <2>1. Continues(s, TRUE) /\ Braces(t, i, s, TRUE, FALSE) /\ ~ Doubles(t, i, s, TRUE, FALSE)
    BY <1>2, <1>8, Zenon
  <2>2. Braces(t, i, s, TRUE, FALSE) = TRUE /\ Doubles(t, i, s, TRUE, FALSE) = FALSE
    BY <1>3, <1>4, <2>1, Zenon
  <2>3. ReadTo(scan, q, parts, body, j, Braces(t, i, s, TRUE, FALSE), Doubles(t, i, s, TRUE, FALSE))
    BY <1>1, <1>5, <1>8, <2>1, Zenon
  <2> QED
    BY <2>2, <2>3, Zenon
<1>9. ASSUME ReadTo(scan, q, parts, body, j - 1, TRUE, FALSE), s = "}", twice
      PROVE  ReadTo(scan, q, parts, body, j, TRUE, TRUE)
  <2>1. Continues(s, TRUE) /\ Braces(t, i, s, TRUE, FALSE) /\ Doubles(t, i, s, TRUE, FALSE)
    BY <1>2, <1>9, Zenon
  <2>2. Braces(t, i, s, TRUE, FALSE) = TRUE /\ Doubles(t, i, s, TRUE, FALSE) = TRUE
    BY <1>3, <1>4, <2>1, Zenon
  <2>3. ReadTo(scan, q, parts, body, j, Braces(t, i, s, TRUE, FALSE), Doubles(t, i, s, TRUE, FALSE))
    BY <1>1, <1>5, <1>9, <2>1, Zenon
  <2> QED
    BY <2>2, <2>3, Zenon
<1>10. ASSUME ReadTo(scan, q, parts, body, j - 1, TRUE, FALSE), s = "}", ~twice
      PROVE  ReadTo(scan, q, parts, body, j, FALSE, FALSE)
  <2>1. Continues(s, TRUE) /\ ~ Braces(t, i, s, TRUE, FALSE) /\ ~ Doubles(t, i, s, TRUE, FALSE)
    BY <1>2, <1>10, Zenon
  <2>2. Braces(t, i, s, TRUE, FALSE) = FALSE /\ Doubles(t, i, s, TRUE, FALSE) = FALSE
    BY <1>3, <1>4, <2>1, Zenon
  <2>3. ReadTo(scan, q, parts, body, j, Braces(t, i, s, TRUE, FALSE), Doubles(t, i, s, TRUE, FALSE))
    BY <1>1, <1>5, <1>10, <2>1, Zenon
  <2> QED
    BY <2>2, <2>3, Zenon
<1>11. ASSUME ReadTo(scan, q, parts, body, j - 1, TRUE, TRUE), s = "}"
      PROVE  ReadTo(scan, q, parts, body, j, TRUE, FALSE)
  <2>1. Continues(s, TRUE) /\ Braces(t, i, s, TRUE, TRUE) /\ ~ Doubles(t, i, s, TRUE, TRUE)
    BY <1>2, <1>11, Zenon
  <2>2. Braces(t, i, s, TRUE, TRUE) = TRUE /\ Doubles(t, i, s, TRUE, TRUE) = FALSE
    BY <1>3, <1>4, <2>1, Zenon
  <2>3. ReadTo(scan, q, parts, body, j, Braces(t, i, s, TRUE, TRUE), Doubles(t, i, s, TRUE, TRUE))
    BY <1>1, <1>5, <1>11, <2>1, Zenon
  <2> QED
    BY <2>2, <2>3, Zenon
<1> QED
  BY <1>6, <1>7, <1>8, <1>9, <1>10, <1>11, Zenon DEF s, i

\* The three states of the scan in a body: outside braces, inside them, and
\* between the two symbols of a doubled brace.
Outside(scan, q, parts, body, j) == ReadTo(scan, q, parts, body, j, FALSE, FALSE)
Inside(scan, q, parts, body, j) == ReadTo(scan, q, parts, body, j, TRUE, FALSE)
Between(scan, q, parts, body, j) == ReadTo(scan, q, parts, body, j, TRUE, TRUE)
AnotherBrace(t, i) == i < Len(t) /\ t[i + 1] = "}"
PlainSymbol(x) == x \notin {";", "{", "}"}

LEMMA BodySteps ==
  ASSUME NEW t, NEW scan, Scans(scan, t), NEW body, NEW q, Lies(body, t, q),
         NEW parts \in Seq(Seq(UrlSymbol)), NEW j \in 1..Len(body)
  PROVE  /\ Outside(scan, q, parts, body, j - 1) /\ PlainSymbol(body[j]) =>
              Outside(scan, q, parts, body, j)
         /\ Outside(scan, q, parts, body, j - 1) /\ body[j] = "{" => Inside(scan, q, parts, body, j)
         /\ Inside(scan, q, parts, body, j - 1) /\ body[j] # "}" => Inside(scan, q, parts, body, j)
         /\ Inside(scan, q, parts, body, j - 1) /\ body[j] = "}" =>
              IF AnotherBrace(t, q + j) THEN Between(scan, q, parts, body, j)
                                        ELSE Outside(scan, q, parts, body, j)
         /\ Between(scan, q, parts, body, j - 1) /\ body[j] = "}" => Inside(scan, q, parts, body, j)
BY ScanSteps, ZenonT(40) DEF Outside, Inside, Between, AnotherBrace, PlainSymbol

LEMMA PlainBody ==
  ASSUME NEW pair \in MeantPair, IsPlain(pair.value)
  PROVE  \A j \in 1..Len(Body(pair)) : PlainSymbol(Body(pair)[j])
<1> DEFINE body == Body(pair)
           n == Len(body)
           v == pair.value
           e == "="
<1>1. /\ body[1] \in Key /\ body[2] = e /\ n = 2 + Len(v) /\ v \in Seq(Brace)
      /\ \A i \in 1..Len(v) : body[2 + i] = v[i] /\ v[i] = e
  <2>1. /\ v \in Seq(Brace) /\ body[1] \in Key /\ body[2] = e /\ n = 2 + Len(Protected(v))
        /\ \A i \in 1..Len(Protected(v)) : body[2 + i] = Protected(v)[i]
    BY WrittenIs
  <2>2. Protected(v) = v /\ \A i \in 1..Len(v) : v[i] = e
    BY <2>1, ProtectedIs
  <2> HIDE DEF v, body, n, e
  <2> QED
    BY <2>1, <2>2
<1>3. PlainSymbol(e) /\ \A x \in Key : PlainSymbol(x)
  BY DEF PlainSymbol, Key
<1> SUFFICES ASSUME NEW j \in 1..n PROVE PlainSymbol(body[j])
  OBVIOUS
<1>2. j = 1 \/ j = 2 \/ (j - 2 \in 1..Len(v) /\ 2 + (j - 2) = j)
  <2> HIDE DEF n, v, body, e
  <2> QED
    BY <1>1
<1> HIDE DEF body, n, v, e
<1> QED
  BY <1>1, <1>2, <1>3

\* A protected value d inside its braces o and c.
Encloses(body, d, o, c) ==
  /\ PlainSymbol(body[1]) /\ PlainSymbol(body[2]) /\ body[3] = o
  /\ d \in Seq(Brace) /\ Len(body) = 4 + Len(d) /\ body[4 + Len(d)] = c
  /\ \A j \in 1..Len(d) : body[3 + j] = d[j]

LEMMA ProtectedBody ==
  ASSUME NEW pair \in MeantPair, ~ IsPlain(pair.value),
         NEW body, body = Body(pair), NEW d, d = BracesDoubled(pair.value)
  PROVE  Encloses(body, d, "{", "}")
<1> DEFINE v == pair.value
           p == Protected(v)
           l == Len(p)
           o == "{"
           c == "}"
<1>1. /\ body[1] \in Key /\ body[2] = "=" /\ Len(body) = 2 + l
      /\ \A i \in 1..l : body[2 + i] = p[i]
      /\ v \in Seq(Brace)
  BY WrittenIs
<1>2. /\ l = Len(d) + 2 /\ p[1] = o /\ p[Len(d) + 2] = c
      /\ \A j \in 1..Len(d) : p[1 + j] = d[j]
  <2>1. v \in Seq(Brace) /\ ~ IsPlain(v) /\ d = BracesDoubled(v)
    BY <1>1
  <2>2. l = Len(d) + 2 /\ \A j \in 1..Len(d) : p[1 + j] = d[j]
    <3>1. Len(Protected(v)) = Len(BracesDoubled(v)) + 2
      BY <2>1, ProtectedIs, Zenon
    <3>2. \A j \in 1..Len(BracesDoubled(v)) : Protected(v)[1 + j] = BracesDoubled(v)[j]
      BY <2>1, ProtectedIs, Zenon
    <3> QED
      BY <2>1, <3>1, <3>2, Zenon
  <2>3. p[1] = o /\ p[Len(d) + 2] = c
    <3>1. Protected(v)[1] = "{" /\ Protected(v)[Len(BracesDoubled(v)) + 2] = "}"
      BY <2>1, ProtectedIs, Zenon
    <3> QED
      BY <2>1, <3>1, Zenon
  <2> QED
    BY <2>2, <2>3
<1>3. d \in Seq(Brace)
  BY <1>1, DoublingPieces
<1>4. PlainSymbol(body[1]) /\ PlainSymbol(body[2])
  BY <1>1 DEF PlainSymbol, Key
<1>5. Len(d) \in Nat /\ Len(body) = 2 + l /\ \A i \in 1..l : body[2 + i] = p[i]
  BY <1>1, <1>3
<1> HIDE DEF p, v, l, o, c
<1>6. /\ Len(body) = 4 + Len(d) /\ body[3] = o /\ body[4 + Len(d)] = c
      /\ \A j \in 1..Len(d) : body[3 + j] = d[j]
  <2> DEFINE k == Len(d)
  <2>1. /\ k \in Nat /\ Len(body) = 2 + l /\ l = k + 2 /\ p[1] = o /\ p[k + 2] = c
        /\ \A i \in 1..l : body[2 + i] = p[i]
        /\ \A j \in 1..k : p[1 + j] = d[j]
    BY <1>2, <1>5
  <2> HIDE DEF k
  <2>2. /\ Len(body) = 4 + k /\ 1 \in 1..l /\ k + 2 \in 1..l
        /\ 2 + 1 = 3 /\ 2 + (k + 2) = 4 + k
    BY ONLY <2>1
  <2>3. body[3] = o /\ body[4 + k] = c
    BY ONLY <2>1, <2>2
  <2>4. ASSUME NEW j \in 1..k PROVE body[3 + j] = d[j]
    <3>1. 1 + j \in 1..l /\ 2 + (1 + j) = 3 + j
      BY ONLY <2>1, j \in 1..k
    <3>2. body[2 + (1 + j)] = p[1 + j] /\ p[1 + j] = d[j]
      BY ONLY <2>1, <3>1, j \in 1..k
    <3> QED
      BY ONLY <3>1, <3>2
  <2> QED
    BY <2>2, <2>3, <2>4 DEF k
<1> QED
  BY <1>3, <1>4, <1>6 DEF Encloses, o, c

\* Walking through a body of n symbols: out, inner and between are the places
\* the scan reaches in each state, plain, opens and closes the places of the
\* symbols, another those a closing brace follows, b those of the value.
Walk(n, len, m, b, plain, opens, closes, out, inner, between, another) ==
  /\ len \in Nat /\ n = 4 + len /\ m \in Nat
  /\ b \in [0..m -> 0..len] /\ b[0] = 0 /\ b[m] = len
  /\ \A k \in 1..m :
       \/ /\ b[k] = b[k - 1] + 2
          /\ 3 + (b[k - 1] + 1) \in closes /\ 3 + (b[k - 1] + 2) \in closes
       \/ b[k] = b[k - 1] + 1 /\ 3 + (b[k - 1] + 1) \notin closes
  /\ 1 \in plain /\ 2 \in plain /\ 3 \in opens /\ n \in closes /\ 0 \in out /\ n \notin another
  /\ \A j \in 1..n : j + 1 \in 1..n /\ j + 1 \in closes => j \in another
  /\ \A j \in 1..n : /\ j - 1 \in out /\ j \in plain => j \in out
                     /\ j - 1 \in out /\ j \in opens => j \in inner
                     /\ j - 1 \in inner /\ j \notin closes => j \in inner
                     /\ j - 1 \in inner /\ j \in closes /\ j \in another => j \in between
                     /\ j - 1 \in inner /\ j \in closes /\ j \notin another => j \in out
                     /\ j - 1 \in between /\ j \in closes => j \in inner

LEMMA WalksThrough ==
  ASSUME NEW n, NEW len, NEW m, NEW b, NEW plain, NEW opens, NEW closes,
         NEW out, NEW inner, NEW between, NEW another,
         Walk(n, len, m, b, plain, opens, closes, out, inner, between, another)
  PROVE  n \in out
<1> USE DEF Walk
<1> DEFINE S == {k \in 0..m : 3 + b[k] \in inner}
<1>1. 3 + b[0] \in inner
  <2>1. /\ 1 \in 1..n /\ 1 - 1 = 0 /\ 2 \in 1..n /\ 2 - 1 = 1 /\ 3 \in 1..n /\ 3 - 1 = 2
        /\ 3 + b[0] = 3
    OBVIOUS
  <2>2. 1 \in out
    BY <2>1
  <2>3. 2 \in out
    BY <2>1, <2>2
  <2>4. 3 \in inner
    BY <2>1, <2>3
  <2> QED
    BY <2>1, <2>4
<1>2. ASSUME NEW k \in 1..m, k - 1 \in S PROVE k \in S
  <2> DEFINE x == b[k - 1]
             y == b[k]
  <2>1. x \in 0..len /\ y \in 0..len /\ k \in 0..m /\ 3 + x \in inner
    BY <1>2
  <2>2. \/ y = x + 2 /\ 3 + (x + 1) \in closes /\ 3 + (x + 2) \in closes
        \/ y = x + 1 /\ 3 + (x + 1) \notin closes
    OBVIOUS
  <2>3. 3 + y \in inner
    <3> HIDE DEF x, y
    <3>1. CASE y = x + 2 /\ 3 + (x + 1) \in closes /\ 3 + (x + 2) \in closes
      <4>1. /\ 3 + (x + 1) \in 1..n /\ 3 + (x + 2) \in 1..n /\ (3 + (x + 1)) - 1 = 3 + x
            /\ (3 + (x + 2)) - 1 = 3 + (x + 1) /\ (3 + (x + 1)) + 1 = 3 + (x + 2)
            /\ 3 + (x + 2) = 3 + y
        BY <2>1, <3>1
      <4>2. 3 + (x + 1) \in another
        BY <3>1, <4>1
      <4>3. 3 + (x + 1) \in between
        BY <2>1, <3>1, <4>1, <4>2
      <4>4. 3 + (x + 2) \in inner
        BY <3>1, <4>1, <4>3
      <4> QED
        BY <4>1, <4>4
    <3>2. CASE y = x + 1 /\ 3 + (x + 1) \notin closes
      <4>1. 3 + (x + 1) \in 1..n /\ (3 + (x + 1)) - 1 = 3 + x /\ 3 + (x + 1) = 3 + y
        BY <2>1, <3>2
      <4> QED
        BY <2>1, <3>2, <4>1
    <3> QED
      BY <2>2, <3>1, <3>2
  <2> QED
    BY <2>1, <2>3
<1>3. 3 + len \in inner
  <2>1. 0 \in S /\ m \in 0..m
    BY <1>1
  <2>2. m \in S
    <3> HIDE DEF S
    <3> QED
      BY <1>2, <2>1, FromTheLeft
  <2> QED
    BY <2>2
<1>4. n \in 1..n /\ n - 1 = 3 + len
  OBVIOUS
<1> QED
  BY <1>3, <1>4

\* Where the symbols of a value are when its closing braces are doubled.
DoubledPlaces(v) == [k \in 0..Len(v) |-> Len(Beginning(Doubling(v), k))]

\* b gives the places in d, where each c of v stands twice.
Placed(v, d, b, c) ==
  /\ b \in [0..Len(v) -> 0..Len(d)] /\ b[0] = 0 /\ b[Len(v)] = Len(d)
  /\ \A k \in 1..Len(v) :
       /\ d[b[k - 1] + 1] = v[k]
       /\ \/ v[k] = c /\ b[k] = b[k - 1] + 2 /\ d[b[k - 1] + 2] = c
          \/ v[k] # c /\ b[k] = b[k - 1] + 1

LEMMA DoubledPlacesAre ==
  ASSUME NEW v \in Seq(Brace), NEW d, d = BracesDoubled(v), NEW b, b = DoubledPlaces(v)
  PROVE  Placed(v, d, b, "}")
<1> DEFINE m == Len(v)
           len == Len(d)
           c == "}"
           s == Doubling(v)
<1>1. /\ s \in Seq(Seq(Brace)) /\ Len(s) = m /\ m \in Nat /\ d \in Seq(Brace) /\ len \in Nat
      /\ d = FlattenSeq(s) /\ \A i \in 1..m : s[i] = IF v[i] = c THEN <<c, c>> ELSE <<v[i]>>
  BY DoublingPieces DEF BracesDoubled
<1> HIDE DEF m, len, c, s
<1>2. m = Len(v) /\ len = Len(d)
  BY DEF m, len
<1>3. \A k \in 0..m : b[k] = Len(Beginning(s, k))
  BY <1>2 DEF DoubledPlaces, s
<1>4. ASSUME NEW k \in 1..m
      PROVE  /\ b[k - 1] \in 0..len /\ b[k] \in 0..len
             /\ b[k] = b[k - 1] + Len(s[k]) /\ Len(s[k]) \in Nat
             /\ \A j \in 1..Len(s[k]) : d[b[k - 1] + j] = s[k][j]
  <2> DEFINE p == Beginning(s, k - 1)
             u == Beginning(s, k)
             w == s[k]
             f == FlattenSeq(s)
             x == b[k - 1]
             y == b[k]
  <2>1. /\ Len(p) \in Nat /\ Len(p) + Len(w) <= Len(f)
        /\ \A j \in 1..Len(w) : f[Len(p) + j] = w[j]
    BY <1>1, PieceIsThere
  <2>2. Len(u) = Len(p) + Len(w)
    BY <1>1, OnePieceMore
  <2>3. k \in 0..m /\ k - 1 \in 0..m
    BY <1>1
  <2>4. y = Len(u) /\ x = Len(p) /\ f = d
    BY <1>1, <1>3, <2>3
  <2>5. w \in Seq(Brace)
    BY <1>1
  <2> HIDE DEF p, u, w, f, x, y
  <2>6. /\ x \in Nat /\ x + Len(w) <= len /\ y = x + Len(w) /\ Len(w) \in Nat
        /\ \A j \in 1..Len(w) : d[x + j] = w[j]
    <3>1. Len(w) \in Nat
      BY ONLY <2>5
    <3> QED
      BY ONLY <1>2, <2>1, <2>2, <2>4, <3>1
  <2>7. x \in 0..len /\ y \in 0..len
    BY <1>1, <2>6
  <2> QED
    BY <2>6, <2>7 DEF x, y, w
<1>5. b[0] = 0
  <2>1. SubSeq(s, 1, 0) = <<>>
    BY <1>1
  <2>2. FlattenSeq(<<>>) = <<>> /\ Len(<<>>) = 0
    BY DEF FlattenSeq
  <2>3. 0 \in 0..m
    BY <1>1
  <2>4. b[0] = Len(Beginning(s, 0))
    BY ONLY <1>3, <2>3
  <2> QED
    BY ONLY <2>1, <2>2, <2>4 DEF Beginning
<1>6. b[m] = len
  <2>1. FlattenSeq(s) = Beginning(s, Len(s))
    BY <1>1, Beginnings
  <2>2. m \in 0..m /\ b[m] = Len(Beginning(s, m)) /\ Beginning(s, m) = d
    BY ONLY <1>1, <1>3, <2>1
  <2> QED
    BY <1>2, <2>2
<1>7. b \in [0..m -> 0..len]
  <2>1. b = [k \in 0..m |-> b[k]]
    BY <1>2 DEF DoubledPlaces
  <2>2. ASSUME NEW k \in 0..m PROVE b[k] \in 0..len
    <3>1. k = 0 \/ k \in 1..m
      BY <1>1
    <3> QED
      BY <1>1, <1>4, <1>5, <3>1
  <2> QED
    BY <2>1, <2>2
<1>8. ASSUME NEW k \in 1..m
      PROVE  /\ d[b[k - 1] + 1] = v[k]
             /\ \/ v[k] = c /\ b[k] = b[k - 1] + 2 /\ d[b[k - 1] + 2] = c
                \/ v[k] # c /\ b[k] = b[k - 1] + 1
  <2> DEFINE w == s[k]
             x == b[k - 1]
             y == b[k]
  <2>1. /\ x \in 0..len /\ y = x + Len(w) /\ \A j \in 1..Len(w) : d[x + j] = w[j]
    BY <1>4
  <2>2. CASE v[k] = c
    <3>1. w = <<c, c>>
      BY <1>1, <2>2
    <3>2. Len(w) = 2 /\ w[1] = c /\ w[2] = c
      BY <3>1
    <3> HIDE DEF w, x, y
    <3>3. y = x + 2 /\ d[x + 1] = c /\ d[x + 2] = c
      BY <2>1, <3>2
    <3> QED
      BY <2>2, <3>3 DEF x, y
  <2>3. CASE v[k] # c
    <3>1. w = <<v[k]>>
      BY <1>1, <2>3
    <3>2. Len(w) = 1 /\ w[1] = v[k]
      BY <3>1
    <3> HIDE DEF w, x, y
    <3>3. y = x + 1 /\ d[x + 1] = v[k]
      BY <2>1, <3>2
    <3> QED
      BY <2>3, <3>3 DEF x, y
  <2> QED
    BY <2>2, <2>3
<1> QED
  BY <1>5, <1>6, <1>7, <1>8 DEF Placed, m, len, c

\* The scan reads what a pair is written as into one part.
LEMMA ReadsPlainBody ==
  ASSUME NEW t, NEW scan, Scans(scan, t), NEW pair \in MeantPair, IsPlain(pair.value), NEW q,
         NEW body, body = Body(pair), Lies(body, t, q), NEW parts \in Seq(Seq(UrlSymbol)),
         Outside(scan, q, parts, body, 0)
  PROVE  Outside(scan, q, parts, body, Len(body))
<1> DEFINE n == Len(body)
           S == {j \in 0..n : Outside(scan, q, parts, body, j)}
<1>1. \A j \in 1..n : PlainSymbol(body[j])
  BY PlainBody
<1>2. n \in Nat
  BY DEF Lies
<1>3. ASSUME NEW j \in 1..n, j - 1 \in S PROVE j \in S
  <2>1. Outside(scan, q, parts, body, j)
    BY <1>1, <1>3, BodySteps
  <2> QED
    BY <1>2, <2>1
<1>4. n \in S
  <2>1. 0 \in S /\ n \in 0..n
    BY <1>2
  <2> HIDE DEF S
  <2> QED
    BY <1>2, <1>3, <2>1, FromTheLeft
<1> QED
  BY <1>4

LEMMA ReadsProtectedBody ==
  ASSUME NEW t, NEW scan, Scans(scan, t), NEW pair \in MeantPair, ~ IsPlain(pair.value), NEW q,
         NEW body, body = Body(pair), Lies(body, t, q), NEW parts \in Seq(Seq(UrlSymbol)),
         ~ AnotherBrace(t, q + Len(body)), Outside(scan, q, parts, body, 0)
  PROVE  Outside(scan, q, parts, body, Len(body))
<1> DEFINE n == Len(body)
           v == pair.value
           d == BracesDoubled(v)
           len == Len(d)
           m == Len(v)
           b == DoubledPlaces(v)
           c == "}"
           o == "{"
           plain == {j \in 1..n : PlainSymbol(body[j])}
           opens == {j \in 1..n : body[j] = o}
           closes == {j \in 1..n : body[j] = c}
           out == {j \in 0..n : Outside(scan, q, parts, body, j)}
           inner == {j \in 0..n : Inside(scan, q, parts, body, j)}
           between == {j \in 0..n : Between(scan, q, parts, body, j)}
           another == {j \in 1..n : AnotherBrace(t, q + j)}
<1>1. v \in Seq(Brace) /\ m \in Nat
  BY ONLY pair \in MeantPair DEF MeantPair
<1> HIDE DEF c, o
<1>2. /\ PlainSymbol(body[1]) /\ PlainSymbol(body[2]) /\ body[3] = o
      /\ d \in Seq(Brace) /\ n = 4 + len /\ body[4 + len] = c
      /\ \A j \in 1..len : body[3 + j] = d[j]
  <2>1. Encloses(body, d, o, c)
    BY ProtectedBody, Zenon DEF o, c
  <2> HIDE DEF d
  <2> QED
    BY ONLY <2>1 DEF Encloses
<1>3. len \in Nat /\ n \in Nat
  <2> HIDE DEF d
  <2> QED
    BY ONLY <1>2
<1>4. /\ b \in [0..m -> 0..len] /\ b[0] = 0 /\ b[m] = len
      /\ \A k \in 1..m :
           /\ d[b[k - 1] + 1] = v[k]
           /\ \/ v[k] = c /\ b[k] = b[k - 1] + 2 /\ d[b[k - 1] + 2] = c
              \/ v[k] # c /\ b[k] = b[k - 1] + 1
  <2>1. Placed(v, d, b, c)
    BY <1>1, DoubledPlacesAre, Zenon DEF c
  <2> HIDE DEF v, d, b
  <2> QED
    BY ONLY <2>1 DEF Placed
<1>5. /\ q \in Nat /\ q + n <= Len(t) /\ Len(t) \in Nat
      /\ \A j \in 1..n : t[q + j] = body[j]
  <2>1. t \in Seq(UrlSymbol)
    BY DEF Scans
  <2> QED
    BY <2>1 DEF Lies
<1>6. n \notin another /\ 0 \in out
  BY <1>3
<1>7. \A j \in 1..n :
        /\ j - 1 \in out /\ j \in plain => j \in out
        /\ j - 1 \in out /\ j \in opens => j \in inner
        /\ j - 1 \in inner /\ j \notin closes => j \in inner
        /\ j - 1 \in inner /\ j \in closes /\ j \in another => j \in between
        /\ j - 1 \in inner /\ j \in closes /\ j \notin another => j \in out
        /\ j - 1 \in between /\ j \in closes => j \in inner
  <2> SUFFICES ASSUME NEW j \in 1..n
               PROVE  /\ j - 1 \in out /\ j \in plain => j \in out
                      /\ j - 1 \in out /\ j \in opens => j \in inner
                      /\ j - 1 \in inner /\ j \notin closes => j \in inner
                      /\ j - 1 \in inner /\ j \in closes /\ j \in another => j \in between
                      /\ j - 1 \in inner /\ j \in closes /\ j \notin another => j \in out
                      /\ j - 1 \in between /\ j \in closes => j \in inner
    OBVIOUS
  <2>1. j \in 0..n
    BY <1>3
  <2> HIDE DEF n
  <2> QED
    BY <2>1, BodySteps, ZenonT(40) DEF n, c, o
<1>8. 1 \in plain /\ 2 \in plain /\ 3 \in opens /\ n \in closes
  <2> HIDE DEF n, len, c, o
  <2>1. 1 \in 1..n /\ 2 \in 1..n /\ 3 \in 1..n /\ n \in 1..n
    BY <1>2, <1>3
  <2> QED
    BY <1>2, <2>1
<1>9. \A j \in 1..n : j + 1 \in 1..n /\ j + 1 \in closes => j \in another
  <2> SUFFICES ASSUME NEW j \in 1..n, j + 1 \in 1..n, j + 1 \in closes PROVE AnotherBrace(t, q + j)
    OBVIOUS
  <2> DEFINE l == Len(t)
  <2>1. q \in Nat /\ q + n <= l /\ l \in Nat /\ n \in Nat /\ t[q + (j + 1)] = c
    BY <1>3, <1>5
  <2> HIDE DEF l, n, c
  <2>2. q + j < l /\ (q + j) + 1 = q + (j + 1)
    BY <2>1
  <2> QED
    BY <2>1, <2>2 DEF AnotherBrace, l, c
<1>10. \A k \in 1..m :
         \/ /\ b[k] = b[k - 1] + 2
            /\ 3 + (b[k - 1] + 1) \in closes /\ 3 + (b[k - 1] + 2) \in closes
         \/ b[k] = b[k - 1] + 1 /\ 3 + (b[k - 1] + 1) \notin closes
  <2> SUFFICES ASSUME NEW k \in 1..m
               PROVE  \/ /\ b[k] = b[k - 1] + 2
                         /\ 3 + (b[k - 1] + 1) \in closes /\ 3 + (b[k - 1] + 2) \in closes
                      \/ b[k] = b[k - 1] + 1 /\ 3 + (b[k - 1] + 1) \notin closes
    OBVIOUS
  <2> DEFINE x == b[k - 1]
             y == b[k]
             u == v[k]
  <2>1. /\ d[x + 1] = u
        /\ \/ u = c /\ y = x + 2 /\ d[x + 2] = c
           \/ u # c /\ y = x + 1
    BY <1>4
  <2>2. x \in 0..len /\ y \in 0..len
    <3>1. b \in [0..m -> 0..len] /\ k - 1 \in 0..m /\ k \in 0..m
      BY ONLY <1>1, <1>4, k \in 1..m
    <3> HIDE DEF b, len, m
    <3> QED
      BY ONLY <3>1
  <2> HIDE DEF x, y, u, n, len, d, c
  <2>3. \A j \in 1..len : 3 + j \in 1..n /\ body[3 + j] = d[j]
    BY ONLY <1>2, <1>3
  <2>4. CASE u = c /\ y = x + 2 /\ d[x + 2] = c
    <3>1. x + 1 \in 1..len /\ x + 2 \in 1..len
      BY <1>3, <2>2, <2>4
    <3>2. 3 + (x + 1) \in closes /\ 3 + (x + 2) \in closes
      BY <2>1, <2>3, <2>4, <3>1
    <3> QED
      BY <2>4, <3>2 DEF x, y
  <2>5. CASE u # c /\ y = x + 1
    <3>1. x + 1 \in 1..len
      BY <1>3, <2>2, <2>5
    <3>2. 3 + (x + 1) \notin closes
      BY <2>1, <2>3, <2>5, <3>1
    <3> QED
      BY <2>5, <3>2 DEF x, y
  <2> QED
    BY <2>1, <2>4, <2>5
<1> HIDE DEF n, v, d, len, m, b, c, o, plain, opens, closes, inner, between, another, out
<1>11. n = 4 + len
  BY <1>2
<1>12. n \in out
  <2>1. Walk(n, len, m, b, plain, opens, closes, out, inner, between, another)
    BY <1>1, <1>3, <1>4, <1>6, <1>7, <1>8, <1>9, <1>10, <1>11, Zenon DEF Walk
  <2> QED
    BY <2>1, WalksThrough, Zenon
<1> QED
  BY <1>12 DEF out, n

-----------------------------------------------------------------------------
(* The text of a URL and its parts.                                        *)

WrittenPairs(ps) == [i \in DOMAIN ps |-> Written(ps[i])]
TextOf(ps) == <<"other">> \o FlattenSeq(WrittenPairs(ps))
Bodies(ps) == [i \in 1..(Len(ps) + 1) |-> IF i = 1 THEN <<"other">> ELSE Body(ps[i - 1])]

\* A pair stands in a text as its body after a c.
Introduces(w, body, c) ==
  /\ w \in Seq(UrlSymbol) /\ body \in Seq(UrlSymbol) /\ Len(w) = 1 + Len(body) /\ w[1] = c
  /\ \A j \in 1..Len(body) : w[1 + j] = body[j]

LEMMA WrittenIntroduces ==
  ASSUME NEW pair \in MeantPair
  PROVE  Introduces(Written(pair), Body(pair), ";")
BY WrittenIs DEF Introduces

LEMMA PiecesAre ==
  ASSUME NEW ps \in Seq(MeantPair)
  PROVE  /\ WrittenPairs(ps) \in Seq(Seq(UrlSymbol)) /\ Len(WrittenPairs(ps)) = Len(ps)
         /\ \A k \in 1..Len(ps) : Introduces(WrittenPairs(ps)[k], Body(ps[k]), ";")
<1>1. DOMAIN ps = 1..Len(ps) /\ Len(ps) \in Nat
  OBVIOUS
<1>2. ASSUME NEW k \in 1..Len(ps) PROVE Introduces(Written(ps[k]), Body(ps[k]), ";")
  <2>1. ps[k] \in MeantPair
    OBVIOUS
  <2> QED
    BY <2>1, WrittenIntroduces
<1>3. \A k \in 1..Len(ps) : Written(ps[k]) \in Seq(UrlSymbol)
  BY <1>2 DEF Introduces
<1>4. WrittenPairs(ps) = [k \in 1..Len(ps) |-> Written(ps[k])]
  BY <1>1 DEF WrittenPairs
<1>5. WrittenPairs(ps) \in Seq(Seq(UrlSymbol)) /\ Len(WrittenPairs(ps)) = Len(ps)
  BY <1>1, <1>3, <1>4
<1> QED
  BY <1>2, <1>4, <1>5

\* Where the pairs are in their text.
PairPlaces(ps) == [k \in 0..Len(ps) |-> 1 + Len(Beginning(WrittenPairs(ps), k))]

\* In t, after one symbol, the bodies follow, each after a c and at b.
Follow(ps, t, b, c) ==
  /\ t \in Seq(UrlSymbol) /\ b \in [0..Len(ps) -> 1..Len(t)] /\ b[0] = 1 /\ b[Len(ps)] = Len(t)
  /\ \A k \in 1..Len(ps) :
       /\ b[k - 1] + 1 \in 1..Len(t) /\ t[b[k - 1] + 1] = c
       /\ Lies(Body(ps[k]), t, b[k - 1] + 1)
       /\ b[k] = (b[k - 1] + 1) + Len(Body(ps[k]))

LEMMA TextIs ==
  ASSUME NEW ps \in Seq(MeantPair)
  PROVE  Follow(ps, TextOf(ps), PairPlaces(ps), ";") /\ TextOf(ps)[1] = "other"
<1> DEFINE s == WrittenPairs(ps)
           n == Len(ps)
           f == FlattenSeq(s)
           t == TextOf(ps)
           b == PairPlaces(ps)
           a == "other"
           c == ";"
<1>1. s \in Seq(Seq(UrlSymbol)) /\ Len(s) = n /\ n \in Nat
  <2>1. n \in Nat
    OBVIOUS
  <2> QED
    BY <2>1, PiecesAre
<1>2. \A k \in 1..n : Introduces(s[k], Body(ps[k]), c)
  BY PiecesAre
<1>3. f \in Seq(UrlSymbol)
  BY <1>1, Beginnings
<1>4. a \in UrlSymbol
  BY DEF UrlSymbol, Key
<1>5. t = <<a>> \o f
  BY DEF TextOf
<1> HIDE DEF s, f, t, a, c, n
<1>6. /\ t \in Seq(UrlSymbol) /\ Len(t) = 1 + Len(f) /\ t[1] = a /\ Len(f) \in Nat
      /\ \A j \in 1..Len(f) : t[1 + j] = f[j]
  BY <1>3, <1>4, <1>5
<1>7. b = [k \in 0..n |-> 1 + Len(Beginning(s, k))]
  BY DEF PairPlaces, n, s
<1>8. ASSUME NEW k \in 1..n
      PROVE  /\ b[k - 1] \in 1..Len(t) /\ b[k] \in 1..Len(t)
             /\ b[k - 1] + 1 \in 1..Len(t) /\ t[b[k - 1] + 1] = c
             /\ Lies(Body(ps[k]), t, b[k - 1] + 1)
             /\ b[k] = (b[k - 1] + 1) + Len(Body(ps[k]))
  <2> DEFINE p == Beginning(s, k - 1)
             u == Beginning(s, k)
             w == s[k]
             x == Len(p)
             y == b[k - 1]
             z == b[k]
             body == Body(ps[k])
  <2>1. /\ x \in Nat /\ x + Len(w) <= Len(f)
        /\ \A j \in 1..Len(w) : f[x + j] = w[j]
    BY <1>1, PieceIsThere DEF f
  <2>2. Len(u) = x + Len(w)
    BY <1>1, OnePieceMore
  <2>3. k \in 0..n /\ k - 1 \in 0..n
    BY <1>1
  <2>4. y = 1 + x /\ z = 1 + Len(u)
    BY <1>7, <2>3
  <2>5. Introduces(w, body, c)
    BY <1>2
  <2> HIDE DEF p, u, w, x, y, z, body
  <2>6. /\ w \in Seq(UrlSymbol) /\ body \in Seq(UrlSymbol) /\ Len(w) = 1 + Len(body) /\ w[1] = c
        /\ \A j \in 1..Len(body) : w[1 + j] = body[j]
    BY <2>5 DEF Introduces
  <2> DEFINE l == Len(body)
             m == Len(t)
  <2>7. l \in Nat /\ m \in Nat
    BY <1>6, <2>6
  <2>8. Len(w) = 1 + l /\ m = 1 + Len(f) /\ Len(f) \in Nat
    BY <1>6, <2>6
  <2> HIDE DEF l, m
  <2>9. /\ y \in 1..m /\ z \in 1..m /\ y + 1 \in 1..m /\ z = (y + 1) + l
        /\ y + 1 \in Nat /\ (y + 1) + l <= m
    BY ONLY <2>1, <2>2, <2>4, <2>7, <2>8
  <2>10. t[y + 1] = c
    <3>1. 1 \in 1..Len(w) /\ x + 1 \in 1..Len(f) /\ y + 1 = 1 + (x + 1)
      BY ONLY <2>1, <2>4, <2>7, <2>8
    <3> QED
      BY ONLY <1>6, <2>1, <2>6, <3>1
  <2>11. ASSUME NEW j \in 1..l PROVE t[(y + 1) + j] = body[j]
    <3>1. /\ 1 + j \in 1..Len(w) /\ x + (1 + j) \in 1..Len(f)
          /\ (y + 1) + j = 1 + (x + (1 + j))
      BY ONLY <2>1, <2>4, <2>7, <2>8, j \in 1..l
    <3>2. w[1 + j] = body[j]
      BY ONLY <2>6, j \in 1..l DEF l
    <3> QED
      BY ONLY <1>6, <2>1, <3>1, <3>2
  <2>12. Lies(body, t, y + 1)
    BY <2>6, <2>9, <2>11 DEF Lies, l, m
  <2> QED
    BY <2>9, <2>10, <2>12 DEF y, z, body, l, m
<1>9. b[0] = 1
  <2>1. SubSeq(s, 1, 0) = <<>>
    BY <1>1
  <2>2. FlattenSeq(<<>>) = <<>> /\ Len(<<>>) = 0
    BY DEF FlattenSeq
  <2>3. 0 \in 0..n
    BY <1>1
  <2>4. b[0] = 1 + Len(Beginning(s, 0))
    BY ONLY <1>7, <2>3
  <2>5. Len(Beginning(s, 0)) = 0
    BY ONLY <2>1, <2>2 DEF Beginning
  <2> QED
    BY ONLY <2>4, <2>5
<1>10. b[n] = Len(t)
  <2>1. f = Beginning(s, Len(s))
    BY <1>1, Beginnings DEF f
  <2>2. n \in 0..n /\ Beginning(s, n) = f
    BY ONLY <1>1, <2>1
  <2>3. b[n] = 1 + Len(f)
    BY ONLY <1>7, <2>2
  <2> QED
    BY <1>6, <2>3
<1>11. b \in [0..n -> 1..Len(t)]
  <2>1. ASSUME NEW k \in 0..n PROVE b[k] \in 1..Len(t)
    <3>1. k = 0 \/ k \in 1..n
      BY <1>1
    <3>2. 1 \in 1..Len(t)
      BY <1>6
    <3> QED
      BY <1>8, <1>9, <3>1, <3>2
  <2>2. b = [k \in 0..n |-> b[k]]
    BY <1>7
  <2> QED
    BY <2>1, <2>2
<1> QED
  BY <1>6, <1>8, <1>9, <1>10, <1>11 DEF Follow, n, t, a, c

LEMMA OtherParts ==
  ASSUME NEW p, NEW b, NEW k, NEW scan, scan = Scanned(p, b, k), NEW more
  PROVE  [scan EXCEPT !.parts = more] = Scanned(more, b, k)
<1> DEFINE R == [parts : {more}, braced : {b}, skip : {k}]
<1>1. [scan EXCEPT !.parts = more] \in R
  BY DEF Scanned
<1>2. \A r \in R : r = [parts |-> more, braced |-> b, skip |-> k]
  OBVIOUS
<1> HIDE DEF R
<1> QED
  BY <1>1, <1>2 DEF Scanned

\* A part ends where the next one begins.
LEMMA CutsAt ==
  ASSUME NEW t \in Seq(UrlSymbol), NEW i \in 1..Len(t), t[i] = ";",
         NEW parts \in Seq(Seq(UrlSymbol)), NEW scan, scan = Scanned(parts, FALSE, FALSE)
  PROVE  Scan(t, scan, i) = Reading(parts, <<>>, FALSE, FALSE)
<1>1. scan.parts = parts /\ scan.braced = FALSE /\ scan.skip = FALSE
  BY DEF Scanned
<1>2. Scan(t, scan, i) = [scan EXCEPT !.parts = Append(parts, <<>>)]
  BY <1>1, Zenon DEF Scan
<1>3. [scan EXCEPT !.parts = Append(parts, <<>>)] = Scanned(Append(parts, <<>>), FALSE, FALSE)
  <2> DEFINE no == FALSE
             more == Append(parts, <<>>)
  <2>1. scan = Scanned(parts, no, no)
    OBVIOUS
  <2> HIDE DEF no, more
  <2>2. [scan EXCEPT !.parts = more] = Scanned(more, no, no)
    BY ONLY <2>1, OtherParts
  <2> QED
    BY <2>2 DEF no, more
<1> QED
  BY <1>2, <1>3, Zenon DEF Reading

\* The scan of what pairs are written as: at q the parts are read.
HasRead(scan, q, parts) == scan[q] = Scanned(parts, FALSE, FALSE)

LEMMA ReadsPair ==
  ASSUME NEW t, NEW scan, Scans(scan, t), NEW pair \in MeantPair, NEW q \in Nat,
         q + 1 \in 1..Len(t), t[q + 1] = ";",
         Lies(Body(pair), t, q + 1), ~ AnotherBrace(t, (q + 1) + Len(Body(pair))),
         NEW parts \in Seq(Seq(UrlSymbol)), HasRead(scan, q, parts)
  PROVE  HasRead(scan, (q + 1) + Len(Body(pair)), Longer(parts, Body(pair)))
<1> USE DEF HasRead, Longer
<1> DEFINE body == Body(pair)
           n == Len(body)
<1>1. t \in Seq(UrlSymbol) /\ scan[q + 1] = Scan(t, scan[(q + 1) - 1], q + 1) /\ (q + 1) - 1 = q
  <2>1. q \in Nat /\ (q + 1) - 1 = q
    BY ONLY q \in Nat
  <2> QED
    BY ONLY <2>1, q + 1 \in 1..Len(t), Scans(scan, t) DEF Scans
<1>2. scan[q + 1] = Reading(parts, <<>>, FALSE, FALSE)
  <2>1. scan[(q + 1) - 1] = Scanned(parts, FALSE, FALSE)
    BY <1>1, Zenon
  <2> QED
    BY <1>1, <2>1, CutsAt, Zenon
<1>3. body \in Seq(UrlSymbol) /\ n \in Nat
  <2>1. Lies(body, t, q + 1)
    OBVIOUS
  <2> HIDE DEF body
  <2> QED
    BY ONLY <2>1 DEF Lies
<1>4. SubSeq(body, 1, 0) = <<>> /\ SubSeq(body, 1, n) = body /\ (q + 1) + 0 = q + 1
  <2> HIDE DEF body
  <2> QED
    BY ONLY <1>3, q \in Nat
<1>5. Outside(scan, q + 1, parts, body, 0)
  BY <1>2, <1>4, Zenon DEF Outside, ReadTo
<1>6. Outside(scan, q + 1, parts, body, n)
  BY <1>5, ReadsPlainBody, ReadsProtectedBody, Zenon
<1> QED
  BY <1>4, <1>6, Zenon DEF Outside, ReadTo, Reading

\* Splitting gives back the bodies.
LEMMA SplitsIntoBodies ==
  ASSUME NEW ps \in Seq(MeantPair)
  PROVE  SplitConnectionProperties(TextOf(ps)) = Bodies(ps)
<1> DEFINE t == TextOf(ps)
           b == PairPlaces(ps)
           n == Len(ps)
           parts == Bodies(ps)
           a == "other"
           c == ";"
<1>1. Follow(ps, t, b, c) /\ t[1] = a
  BY TextIs
<1>2. n \in Nat /\ \A k \in 1..n : ps[k] \in MeantPair
  OBVIOUS
<1>3. a \in UrlSymbol /\ PlainSymbol(a)
  BY DEF UrlSymbol, Key, PlainSymbol
<1>4. parts \in Seq(Seq(UrlSymbol)) /\ Len(parts) = n + 1 /\ parts[1] = <<a>>
      /\ \A k \in 1..n : parts[k + 1] = Body(ps[k])
  <2>1. \A k \in 1..n : Body(ps[k]) \in Seq(UrlSymbol)
    BY <1>2, WrittenIs
  <2>2. <<a>> \in Seq(UrlSymbol)
    BY <1>3
  <2>3. parts = [i \in 1..(n + 1) |-> IF i = 1 THEN <<a>> ELSE Body(ps[i - 1])]
    BY DEF Bodies
  <2> HIDE DEF a, n, parts
  <2>4. ASSUME NEW i \in 1..(n + 1) PROVE parts[i] \in Seq(UrlSymbol)
    <3>1. i = 1 \/ (i # 1 /\ i - 1 \in 1..n)
      BY <1>2
    <3> QED
      BY <2>1, <2>2, <2>3, <3>1
  <2>5. parts \in [1..(n + 1) -> Seq(UrlSymbol)] /\ n + 1 \in Nat
    BY <1>2, <2>3, <2>4
  <2>6. \A k \in 1..n : k + 1 \in 1..(n + 1) /\ k + 1 # 1 /\ (k + 1) - 1 = k
    BY <1>2
  <2>7. 1 \in 1..(n + 1)
    BY <1>2
  <2>8. parts \in Seq(Seq(UrlSymbol)) /\ Len(parts) = n + 1
    BY ONLY <2>5
  <2>9. \A k \in 1..n : parts[k + 1] = Body(ps[k])
    BY ONLY <2>3, <2>6
  <2>10. parts[1] = <<a>>
    BY ONLY <2>3, <2>7
  <2> QED
    BY <2>8, <2>9, <2>10
<1>5. t \in Seq(UrlSymbol)
  BY <1>1 DEF Follow
<1>6. PICK scan \in [0..Len(t) -> ScanState] :
        /\ scan[0] = Fresh
        /\ \A k \in 1..Len(t) : scan[k] = Scan(t, scan[k - 1], k)
        /\ SplitConnectionProperties(t) = scan[Len(t)].parts
  BY <1>5, SplitsByScanning
<1>7. Scans(scan, t)
  BY <1>5, <1>6 DEF Scans
<1>8. SplitConnectionProperties(t) = scan[Len(t)].parts
  BY <1>6
<1> DEFINE ReadTill(k) == HasRead(scan, b[k], SubSeq(parts, 1, k + 1))
           S == {k \in 0..n : ReadTill(k)}
<1> HIDE DEF t, b, n, parts, a
<1>9. /\ b \in [0..n -> 1..Len(t)] /\ b[0] = 1 /\ b[n] = Len(t) /\ n = Len(ps)
      /\ \A k \in 1..n :
           /\ b[k - 1] + 1 \in 1..Len(t) /\ t[b[k - 1] + 1] = c
           /\ Lies(Body(ps[k]), t, b[k - 1] + 1)
           /\ b[k] = (b[k - 1] + 1) + Len(Body(ps[k]))
  <2> HIDE DEF c
  <2> QED
    BY ONLY <1>1 DEF Follow, n
<1>10. SubSeq(parts, 1, 1) = <<<<a>>>> /\ SubSeq(parts, 1, n + 1) = parts
       /\ \A k \in 1..n : /\ SubSeq(parts, 1, k) \in Seq(Seq(UrlSymbol))
                          /\ Append(SubSeq(parts, 1, k), Body(ps[k])) = SubSeq(parts, 1, k + 1)
  <2>1. SubSeq(parts, 1, 1) = <<parts[1]>>
    <3>1. parts \in Seq(Seq(UrlSymbol)) /\ Len(parts) = n + 1 /\ n \in Nat
      BY <1>2, <1>4
    <3> DEFINE u == SubSeq(parts, 1, 1)
    <3>2. u \in Seq(Seq(UrlSymbol)) /\ Len(u) = 1 /\ u[1] = parts[1]
      BY ONLY <3>1
    <3> HIDE DEF u
    <3>3. u = <<u[1]>>
      BY ONLY <3>2
    <3> QED
      BY <3>2, <3>3 DEF u
  <2>2. SubSeq(parts, 1, n + 1) = parts
    BY ONLY <1>2, <1>4
  <2>3. ASSUME NEW k \in 1..n
        PROVE  /\ SubSeq(parts, 1, k) \in Seq(Seq(UrlSymbol))
               /\ Append(SubSeq(parts, 1, k), parts[k + 1]) = SubSeq(parts, 1, k + 1)
    BY ONLY <1>2, <1>4, k \in 1..n
  <2> QED
    BY <1>4, <2>1, <2>2, <2>3
<1>11. ReadTill(0)
  <2> DEFINE u == <<a>>
             no == <<>>
  <2>1. u \in Seq(UrlSymbol) /\ Len(u) = 1 /\ u[1] = a /\ SubSeq(u, 1, 0) = no
        /\ SubSeq(u, 1, 1) = u /\ 1 \in 1..Len(u) /\ 1 - 1 = 0 /\ 0 \in Nat
    BY <1>3
  <2>2. no \in Seq(Seq(UrlSymbol)) /\ Append(no, no) = <<no>> /\ Append(no, u) = <<u>>
    OBVIOUS
  <2>3. Lies(u, t, 0)
    <3>1. Len(t) \in Nat /\ 1 \in 1..Len(t)
      <4>1. 0 \in 0..n
        BY ONLY <1>2
      <4>2. b[0] \in 1..Len(t) /\ b[0] = 1
        BY ONLY <1>9, <4>1
      <4> QED
        BY ONLY <1>5, <4>2
    <3>2. t[1] = a
      BY <1>1
    <3> HIDE DEF u
    <3>3. 0 + Len(u) <= Len(t) /\ \A j \in 1..Len(u) : t[0 + j] = u[j]
      BY ONLY <2>1, <3>1, <3>2
    <3> QED
      BY ONLY <2>1, <3>3 DEF Lies
  <2> HIDE DEF u
  <2>4. Outside(scan, 0, no, u, 0)
    <3>1. scan[0 + 0] = Scanned(<<no>>, FALSE, FALSE)
      <4>1. scan[0] = Fresh /\ 0 + 0 = 0
        BY ONLY <1>6
      <4> QED
        BY <4>1, Zenon DEF Fresh
    <3> QED
      BY <2>1, <2>2, <3>1, Zenon DEF Outside, ReadTo, Reading
  <2>5. Outside(scan, 0, no, u, 1)
    <3>1. Outside(scan, 0, no, u, 1 - 1) /\ PlainSymbol(u[1])
      BY <1>3, <2>1, <2>4, Zenon
    <3> HIDE DEF no
    <3> QED
      BY ONLY <1>7, <2>1, <2>2, <2>3, <3>1, BodySteps, Zenon
  <2>6. scan[1] = Scanned(<<u>>, FALSE, FALSE)
    <3>1. 0 + 1 = 1
      OBVIOUS
    <3> QED
      BY <2>1, <2>2, <2>5, <3>1, Zenon DEF Outside, ReadTo, Reading
  <2>7. 0 + 1 = 1
    OBVIOUS
  <2> QED
    BY <1>9, <1>10, <2>6, <2>7, Zenon DEF u, HasRead
<1>12. ASSUME NEW k \in 1..n, ReadTill(k - 1) PROVE ReadTill(k)
  <2> DEFINE q == b[k - 1]
             body == Body(ps[k])
             l == Len(body)
             m == Len(t)
             so == SubSeq(parts, 1, k)
  <2>1. HasRead(scan, q, so)
    <3>1. (k - 1) + 1 = k
      BY ONLY <1>2, k \in 1..n
    <3> QED
      BY <1>12, <3>1, Zenon
  <2>2. /\ q \in Nat /\ q + 1 \in 1..m /\ t[q + 1] = c /\ Lies(body, t, q + 1)
        /\ b[k] = (q + 1) + l
    <3>1. k - 1 \in 0..n
      BY ONLY <1>2, k \in 1..n
    <3>2. q \in 1..m
      BY ONLY <1>9, <3>1
    <3> HIDE DEF q, m
    <3>3. q \in Nat
      BY ONLY <3>2
    <3> QED
      BY <1>9, <3>3 DEF q, m
  <2>3. ~ AnotherBrace(t, b[k])
    <3> SUFFICES ASSUME b[k] < Len(t) PROVE t[b[k] + 1] # "}"
      BY DEF AnotherBrace
    <3>1. k # n
      <4>1. b[k] < Len(t) /\ b[n] = Len(t) /\ Len(t) \in Nat
        <5>1. b[n] = Len(t)
          BY ONLY <1>9
        <5>2. Len(t) \in Nat
          BY ONLY <1>5
        <5> QED
          BY <5>1, <5>2, Zenon
      <4> QED
        BY ONLY <4>1
    <3>2. k + 1 \in 1..n /\ (k + 1) - 1 = k
      BY ONLY <1>2, k \in 1..n, <3>1
    <3>3. t[b[k] + 1] = c
      BY ONLY <1>9, <3>2
    <3> QED
      BY <3>3
  <2>4. HasRead(scan, (q + 1) + l, Longer(so, body))
    <3>1. ps[k] \in MeantPair /\ so \in Seq(Seq(UrlSymbol))
      BY <1>2, <1>10
    <3>2. ~ AnotherBrace(t, (q + 1) + l) /\ Lies(body, t, q + 1) /\ q + 1 \in 1..Len(t)
      BY <2>2, <2>3, Zenon
    <3> HIDE DEF q, so
    <3> QED
      BY ONLY <1>7, <2>1, <2>2, <3>1, <3>2, ReadsPair
  <2> QED
    BY <1>10, <2>2, <2>4, Zenon DEF Longer
<1>13. ReadTill(n)
  <2> HIDE DEF ReadTill
  <2>1. 0 \in S /\ n \in 0..n /\ \A k \in 1..n : k - 1 \in S => k \in S
    BY <1>2, <1>11, <1>12
  <2>2. n \in S
    <3> HIDE DEF S
    <3> QED
      BY <1>2, <2>1, FromTheLeft
  <2> QED
    BY <2>2
<1>14. scan[Len(t)].parts = parts
  <2>1. scan[Len(t)] = Scanned(parts, FALSE, FALSE)
    BY <1>9, <1>10, <1>13, Zenon DEF HasRead
  <2> QED
    BY <2>1 DEF Scanned
<1> QED
  BY <1>8, <1>14 DEF t, parts

-----------------------------------------------------------------------------
(* Values without their braces.                                            *)

UndoneState == [value : Seq(Brace), open : BOOLEAN]
Undone(value, open) == [value |-> value, open |-> open]
Untold == Undone(<<>>, FALSE)
UndoStep(done, symbol) ==
  IF symbol = "}" /\ done.open
  THEN [done EXCEPT !.open = FALSE]
  ELSE [value |-> Append(done.value, symbol), open |-> symbol = "}"]

LEMMA UndoStays ==
  ASSUME NEW x \in Brace, NEW done \in UndoneState
  PROVE  UndoStep(done, x) \in UndoneState
<1>1. CASE x = "}" /\ done.open
  <2>1. UndoStep(done, x) = [done EXCEPT !.open = FALSE]
    BY <1>1 DEF UndoStep
  <2> QED
    BY <2>1 DEF UndoneState
<1>2. CASE ~(x = "}" /\ done.open)
  <2> DEFINE o == x = "}"
  <2>1. UndoStep(done, x) = [value |-> Append(done.value, x), open |-> o]
    BY <1>2, Zenon DEF UndoStep
  <2>2. o \in BOOLEAN
    OBVIOUS
  <2> HIDE DEF o
  <2> QED
    BY <2>1, <2>2 DEF UndoneState
<1> QED
  BY <1>1, <1>2

LEMMA UndoubledByScanning ==
  ASSUME NEW t \in Seq(Brace)
  PROVE  \E undo \in [0..Len(t) -> UndoneState] :
           /\ undo[0] = Untold
           /\ \A k \in 1..Len(t) : undo[k] = UndoStep(undo[k - 1], t[k])
           /\ Undoubled(t) = undo[Len(t)].value
<1> DEFINE n == Len(t)
           F == [p \in UndoneState \X (1..n) |-> UndoStep(p[1], t[p[2]])]
           Finds(g, D) == g = [s \in SUBSET D |->
                                 IF s = {} THEN Untold
                                 ELSE UndoStep(g[s \ {Max(s)}], t[Max(s)])]
           c == CHOOSE g : Finds(g, DOMAIN t)
<1>1. n \in Nat /\ DOMAIN t = 1..n
  OBVIOUS
<1>2. Untold \in UndoneState
  BY DEF UndoneState, Untold, Undone
<1>3. F \in [UndoneState \X (1..n) -> UndoneState]
  BY UndoStays
<1>4. \A a \in UndoneState : \A k \in 1..n : F[<<a, k>>] = UndoStep(a, t[k])
  OBVIOUS
<1> HIDE DEF F
<1>5. PICK g \in [SUBSET (1..n) -> UndoneState] : Descends(g, F, Untold, n)
  BY <1>1, <1>2, <1>3, FoldingExists
<1>6. ASSUME NEW s \in SUBSET (1..n), s # {}
      PROVE  Max(s) \in 1..n /\ s \ {Max(s)} \in SUBSET (1..n)
  <2>1. Max(s) \in s
    BY <1>1, <1>6, HaveEnds
  <2> QED
    BY <2>1
<1>7. Finds(g, DOMAIN t)
  <2>1. ASSUME NEW s \in SUBSET (1..n), s # {}
        PROVE  g[s] = UndoStep(g[s \ {Max(s)}], t[Max(s)])
    <3>1. g[s] = F[<<g[s \ {Max(s)}], Max(s)>>]
      BY <1>5, <2>1 DEF Descends
    <3>2. g[s \ {Max(s)}] \in UndoneState /\ Max(s) \in 1..n
      BY <1>6, <2>1
    <3> QED
      BY <1>1, <1>4, <3>1, <3>2
  <2>2. g[{}] = Untold
    BY <1>5 DEF Descends
  <2> QED
    BY <1>1, <2>1, <2>2
<1>8. Finds(c, DOMAIN t)
  <2> HIDE DEF Finds
  <2> QED
    BY <1>7
<1>9. Undoubled(t) = c[1..n].value
  BY <1>1, Zenon DEF Undoubled, FoldLeft, MapThenFoldSet, Untold, Undone, UndoStep
<1> HIDE DEF c
<1>10. c = [s \in SUBSET (1..n) |-> c[s]] /\ c[{}] = Untold
       /\ \A s \in SUBSET (1..n) : s # {} => c[s] = UndoStep(c[s \ {Max(s)}], t[Max(s)])
  <2>1. c = [s \in SUBSET (1..n) |-> c[s]] /\ c[{}] = Untold
    BY <1>1, <1>8
  <2>2. ASSUME NEW s \in SUBSET (1..n), s # {}
        PROVE  c[s] = UndoStep(c[s \ {Max(s)}], t[Max(s)])
    <3>1. c[s] = UndoStep(c[s \ {Max(s)}], t[Max(s)])
      BY <1>1, <1>8, <2>2
    <3> QED
      BY <1>6, <2>2, <3>1
  <2> QED
    BY <2>1, <2>2
<1> HIDE DEF Finds
<1> DEFINE undo == [k \in 0..n |-> c[1..k]]
           S == {k \in 0..n : undo[k] \in UndoneState}
<1>11. undo[0] = Untold /\ 0 \in S
  <2>1. 1..0 = {}
    OBVIOUS
  <2> QED
    BY <1>1, <1>2, <1>10, <2>1
<1>12. ASSUME NEW k \in 1..n PROVE undo[k] = UndoStep(undo[k - 1], t[k])
  <2>1. k \in Nat \ {0} /\ 1..k \in SUBSET (1..n) /\ k \in 0..n /\ k - 1 \in 0..n
    BY <1>1
  <2>2. 1..k # {} /\ Max(1..k) = k /\ (1..k) \ {k} = 1..(k - 1)
    BY <2>1, LastPlace
  <2>3. c[1..k] = UndoStep(c[1..(k - 1)], t[k])
    BY <1>10, <2>1, <2>2
  <2> QED
    BY <2>1, <2>3
<1>13. undo \in [0..n -> UndoneState]
  <2>1. ASSUME NEW k \in 1..n, k - 1 \in S PROVE k \in S
    <3> HIDE DEF undo
    <3>1. undo[k - 1] \in UndoneState /\ k \in 0..n
      BY <1>1, <2>1
    <3> QED
      BY <1>1, <1>12, <3>1, UndoStays
  <2>2. \A k \in 0..n : k \in S
    <3> HIDE DEF S, undo
    <3> QED
      BY <1>1, <1>11, <2>1, FromTheLeft
  <2> QED
    BY <2>2
<1>14. undo[n] = c[1..n]
  BY <1>1
<1> HIDE DEF undo
<1> QED
  BY <1>9, <1>11, <1>12, <1>13, <1>14

\* What is undone up to k, between two closing braces or not.
Undoing(undo, d) == \A k \in 1..Len(d) : undo[k] = UndoStep(undo[k - 1], d[k])
Halfway(undo, k, w) == undo[k] = Undone(w, TRUE)
Ended(undo, k, w) == undo[k] = Undone(w, FALSE)

LEMMA UndoesOne ==
  ASSUME NEW d, NEW undo, Undoing(undo, d), NEW k \in 1..Len(d), NEW w
  PROVE  /\ Ended(undo, k - 1, w) /\ d[k] # "}" => Ended(undo, k, Longer(w, d[k]))
         /\ Ended(undo, k - 1, w) /\ d[k] = "}" => Halfway(undo, k, Longer(w, d[k]))
         /\ Halfway(undo, k - 1, w) /\ d[k] = "}" => Ended(undo, k, w)
<1> DEFINE x == d[k]
           was == undo[k - 1]
<1>1. undo[k] = UndoStep(was, x)
  BY DEF Undoing
<1> HIDE DEF was
<1>2. ASSUME was = Undone(w, FALSE)
      PROVE  undo[k] = [value |-> Append(w, x), open |-> x = "}"]
  <2>1. was.value = w /\ was.open = FALSE
    BY <1>2 DEF Undone
  <2> QED
    BY <1>1, <2>1, Zenon DEF UndoStep
<1>3. ASSUME was = Undone(w, TRUE), x = "}" PROVE undo[k] = Undone(w, FALSE)
  <2>1. was.open = TRUE
    BY <1>3 DEF Undone
  <2>2. undo[k] = [was EXCEPT !.open = FALSE]
    BY <1>1, <1>3, <2>1, Zenon DEF UndoStep
  <2> DEFINE yes == TRUE
             no == FALSE
  <2>3. was = [value |-> w, open |-> yes] /\ undo[k] = [was EXCEPT !.open = no]
    BY <1>3, <2>2 DEF Undone
  <2> HIDE DEF yes, no
  <2> DEFINE R == [value : {w}, open : {no}]
  <2>4. undo[k] \in R
    BY ONLY <2>3
  <2>5. \A r \in R : r = [value |-> w, open |-> no]
    OBVIOUS
  <2> HIDE DEF R
  <2>6. undo[k] = [value |-> w, open |-> no]
    BY ONLY <2>4, <2>5
  <2> QED
    BY <2>6 DEF Undone, no
<1>4. (x = "}") \in BOOLEAN /\ (x # "}" => (x = "}") = FALSE) /\ (x = "}" => (x = "}") = TRUE)
  BY Zenon
<1> HIDE DEF x
<1>5. ASSUME was = Undone(w, FALSE), x # "}" PROVE undo[k] = Undone(Longer(w, x), FALSE)
  BY <1>2, <1>4, <1>5, Zenon DEF Undone, Longer
<1>6. ASSUME was = Undone(w, FALSE), x = "}" PROVE undo[k] = Undone(Longer(w, x), TRUE)
  BY <1>2, <1>4, <1>6, Zenon DEF Undone, Longer
<1> QED
  BY <1>3, <1>5, <1>6, Zenon DEF Halfway, Ended, was, x

\* Braces that were doubled become single again.
LEMMA BracesComeOff ==
  ASSUME NEW v \in Seq(Brace)
  PROVE  Undoubled(BracesDoubled(v)) = v
<1> DEFINE d == BracesDoubled(v)
           b == DoubledPlaces(v)
           m == Len(v)
           len == Len(d)
           c == "}"
<1>1. m \in Nat /\ d \in Seq(Brace)
  BY DoublingPieces
<1>2. PICK undo \in [0..len -> UndoneState] :
        /\ undo[0] = Untold
        /\ \A k \in 1..len : undo[k] = UndoStep(undo[k - 1], d[k])
        /\ Undoubled(d) = undo[len].value
  BY <1>1, UndoubledByScanning
<1>3. Undoing(undo, d)
  BY <1>2 DEF Undoing
<1>4. Placed(v, d, b, c)
  BY <1>1, DoubledPlacesAre, Zenon
<1> DEFINE S == {k \in 0..m : Ended(undo, b[k], SubSeq(v, 1, k))}
<1> HIDE DEF d, b, m, len, c
<1>5. /\ b \in [0..m -> 0..len] /\ b[0] = 0 /\ b[m] = len
      /\ \A k \in 1..m :
           /\ d[b[k - 1] + 1] = v[k]
           /\ \/ v[k] = c /\ b[k] = b[k - 1] + 2 /\ d[b[k - 1] + 2] = c
              \/ v[k] # c /\ b[k] = b[k - 1] + 1
  BY ONLY <1>4 DEF Placed, m, len
<1>6. len \in Nat
  BY ONLY <1>1 DEF len
<1>7. SubSeq(v, 1, 0) = <<>> /\ SubSeq(v, 1, m) = v
      /\ \A k \in 1..m : Longer(SubSeq(v, 1, k - 1), v[k]) = SubSeq(v, 1, k)
  BY DEF m, Longer
<1>8. \A w : \A k \in 1..len :
        /\ Ended(undo, k - 1, w) /\ d[k] # c => Ended(undo, k, Longer(w, d[k]))
        /\ Ended(undo, k - 1, w) /\ d[k] = c => Halfway(undo, k, Longer(w, d[k]))
        /\ Halfway(undo, k - 1, w) /\ d[k] = c => Ended(undo, k, w)
  BY <1>3, UndoesOne DEF len, c
<1>9. 0 \in S
  <2>1. undo[0] = Undone(<<>>, FALSE)
    BY <1>2 DEF Untold
  <2>2. Ended(undo, 0, <<>>)
    BY <2>1, Zenon DEF Ended
  <2>3. 0 \in 0..m
    BY <1>1
  <2> QED
    BY <1>5, <1>7, <2>2, <2>3, Zenon
<1>10. ASSUME NEW k \in 1..m, k - 1 \in S PROVE k \in S
  <2> DEFINE x == b[k - 1]
             y == b[k]
             w == SubSeq(v, 1, k - 1)
             u == SubSeq(v, 1, k)
  <2>1. x \in 0..len /\ y \in 0..len /\ k \in 0..m
    <3>1. k \in 0..m /\ k - 1 \in 0..m
      BY ONLY <1>1, k \in 1..m
    <3> QED
      BY ONLY <1>5, <3>1
  <2>2. Ended(undo, x, w) /\ u = Longer(w, v[k])
    BY <1>7, <1>10
  <2>3. /\ d[x + 1] = v[k]
        /\ \/ v[k] = c /\ y = x + 2 /\ d[x + 2] = c
           \/ v[k] # c /\ y = x + 1
    BY ONLY <1>5, k \in 1..m
  <2>4. Ended(undo, y, u)
    <3> HIDE DEF x, y, w, u
    <3>1. CASE v[k] = c /\ y = x + 2 /\ d[x + 2] = c
      <4>1. x + 1 \in 1..len /\ (x + 1) - 1 = x /\ x + 2 \in 1..len /\ (x + 2) - 1 = x + 1
        BY ONLY <1>6, <2>1, <3>1
      <4>2. Halfway(undo, x + 1, u)
        BY ONLY <1>8, <2>2, <2>3, <3>1, <4>1
      <4> QED
        BY ONLY <1>8, <3>1, <4>1, <4>2
    <3>2. CASE v[k] # c /\ y = x + 1
      <4>1. x + 1 \in 1..len /\ (x + 1) - 1 = x
        BY ONLY <1>6, <2>1, <3>2
      <4> QED
        BY ONLY <1>8, <2>2, <2>3, <3>2, <4>1
    <3> QED
      BY <2>3, <3>1, <3>2
  <2> QED
    BY <2>1, <2>4
<1>11. Ended(undo, len, v)
  <2>1. m \in 0..m
    BY <1>1
  <2>2. m \in S
    <3> HIDE DEF S
    <3> QED
      BY <1>1, <1>9, <1>10, <2>1, FromTheLeft
  <2> QED
    BY <1>5, <1>7, <2>2
<1>12. undo[len].value = v
  <2>1. undo[len] = Undone(v, FALSE)
    BY <1>11 DEF Ended
  <2> QED
    BY <2>1 DEF Undone
<1> QED
  BY <1>2, <1>12 DEF d, len

LEMMA OpensAndCloses ==
  ASSUME NEW v \in Seq(Brace), NEW d, d = BracesDoubled(v), NEW w, w = Protected(v), ~ IsPlain(v)
  PROVE  /\ Len(w) >= 2 /\ Head(w) = "{" /\ Last(w) = "}" /\ SubSeq(w, 2, Len(w) - 1) = d
<1> DEFINE o == "{"
           c == "}"
           n == Len(w)
           m == Len(d)
<1>1. w \in Seq(Brace) /\ d \in Seq(Brace)
  BY ProtectedIs, DoublingPieces
<1>2. /\ n = m + 2 /\ w[1] = o /\ w[m + 2] = c
      /\ \A j \in 1..m : w[1 + j] = d[j]
  <2> DEFINE x == Protected(v)
             y == BracesDoubled(v)
  <2>1. /\ Len(x) = Len(y) + 2 /\ x[1] = o /\ x[Len(y) + 2] = c
        /\ \A j \in 1..Len(y) : x[1 + j] = y[j]
    BY ProtectedIs
  <2>2. w = x /\ d = y
    OBVIOUS
  <2> HIDE DEF x, y
  <2> QED
    BY ONLY <2>1, <2>2
<1> HIDE DEF o, c
<1>3. m \in Nat /\ n \in Nat
  BY ONLY <1>1
<1>4. n >= 2 /\ w[n] = c /\ n - 1 = m + 1 /\ n - 1 \in Nat /\ n - 1 <= n
  <2> HIDE DEF n, m
  <2> QED
    BY ONLY <1>2, <1>3
<1>5. Head(w) = o /\ Last(w) = c
  <2>1. w # <<>>
    BY ONLY <1>1, <1>4
  <2>2. Head(w) = w[1]
    BY ONLY <1>1, <2>1
  <2> QED
    BY ONLY <1>2, <1>4, <2>2 DEF Last
<1> DEFINE u == SubSeq(w, 2, n - 1)
<1>6. u \in Seq(Brace) /\ Len(u) = m /\ \A j \in 1..m : u[j] = w[1 + j]
  <2> DEFINE k == n - 1
  <2>1. k \in Nat /\ k = m + 1 /\ k <= Len(w) /\ m \in Nat
    BY ONLY <1>3, <1>4
  <2> HIDE DEF k, m
  <2>2. /\ SubSeq(w, 2, k) \in Seq(Brace) /\ Len(SubSeq(w, 2, k)) = m
        /\ \A j \in 1..m : SubSeq(w, 2, k)[j] = w[1 + j]
    BY ONLY <1>1, <2>1
  <2> QED
    BY <2>2 DEF k
<1>7. u = d
  <2> HIDE DEF u
  <2>1. \A j \in 1..m : u[j] = d[j]
    BY ONLY <1>2, <1>6
  <2> QED
    BY ONLY <1>1, <1>6, <2>1
<1> QED
  BY <1>4, <1>5, <1>7 DEF o, c

LEMMA Decoding ==
  ASSUME NEW v \in Seq(Brace)
  PROVE  DecodePropertyCredential(Protected(v)) = v
<1>1. CASE IsPlain(v)
  <2>1. Protected(v) = v /\ \A i \in 1..Len(v) : v[i] = "="
    BY <1>1, ProtectedIs
  <2>2. ~(Len(v) >= 2 /\ Head(v) = "{")
    <3> SUFFICES ASSUME Len(v) >= 2, Head(v) = "{" PROVE FALSE
      OBVIOUS
    <3>1. 1 \in 1..Len(v) /\ v # <<>>
      BY ONLY v \in Seq(Brace), Len(v) >= 2
    <3>2. Head(v) = v[1]
      BY ONLY v \in Seq(Brace), <3>1
    <3> QED
      BY <2>1, <3>1, <3>2
  <2> QED
    BY <2>1, <2>2, Zenon DEF DecodePropertyCredential
<1>2. CASE ~ IsPlain(v)
  BY <1>2, OpensAndCloses, BracesComeOff, Zenon DEF DecodePropertyCredential
<1> QED
  BY <1>1, <1>2

LEMMA KeysOfParts ==
  /\ \A pair \in MeantPair : KeyOf(Body(pair)) = pair.key
  /\ KeyOf(<<"other">>) = "other"
<1>1. ASSUME NEW pair \in MeantPair PROVE KeyOf(Body(pair)) = pair.key
  <2> DEFINE body == Body(pair)
             p == Protected(pair.value)
  <2>1. Len(body) = 2 + Len(p) /\ body[1] = pair.key /\ body[2] = "=" /\ p \in Seq(Brace)
    BY WrittenIs
  <2> HIDE DEF body, p
  <2>2. Len(body) >= 2
    <3>1. Len(p) \in Nat /\ Len(body) = 2 + Len(p)
      BY <2>1
    <3> QED
      BY ONLY <3>1
  <2>3. KeyOf(body) = pair.key
    BY <2>1, <2>2, Zenon DEF KeyOf, IsKeyed
  <2> QED
    BY <2>3 DEF body
<1>2. KeyOf(<<"other">>) = "other"
  <2>1. ~(Len(<<"other">>) >= 2)
    OBVIOUS
  <2> QED
    BY <2>1, Zenon DEF KeyOf, IsKeyed
<1> QED
  BY <1>1, <1>2

\* The value of a pair, in its body.
LEMMA ValuesOfParts ==
  ASSUME NEW pair \in MeantPair
  PROVE  DecodePropertyCredential(SubSeq(Body(pair), 3, Len(Body(pair)))) = pair.value
<1> DEFINE body == Body(pair)
           v == pair.value
           p == Protected(v)
           n == Len(body)
           u == SubSeq(body, 3, n)
<1>1. /\ body \in Seq(UrlSymbol) /\ n = 2 + Len(p) /\ p \in Seq(Brace) /\ v \in Seq(Brace)
      /\ \A j \in 1..Len(p) : body[2 + j] = p[j]
  BY WrittenIs
<1> HIDE DEF body, v, p
<1>2. Len(p) \in Nat
  BY <1>1
<1>3. u \in Seq(UrlSymbol) /\ Len(u) = Len(p) /\ \A j \in 1..Len(p) : u[j] = body[2 + j]
  <2> DEFINE m == Len(p)
  <2> HIDE DEF m
  <2>1. body \in Seq(UrlSymbol) /\ m \in Nat /\ Len(body) = 2 + m
    BY <1>1, <1>2 DEF m
  <2>2. /\ SubSeq(body, 3, 2 + m) \in Seq(UrlSymbol) /\ Len(SubSeq(body, 3, 2 + m)) = m
        /\ \A j \in 1..m : SubSeq(body, 3, 2 + m)[j] = body[2 + j]
    BY ONLY <2>1
  <2> QED
    BY <2>1, <2>2 DEF m
<1> HIDE DEF u
<1>4. u = p
  <2>1. \A j \in 1..Len(p) : u[j] = p[j]
    BY <1>1, <1>3
  <2>2. u \in Seq(UrlSymbol \cup Brace) /\ p \in Seq(UrlSymbol \cup Brace)
    BY <1>1, <1>3
  <2> QED
    BY ONLY <1>3, <2>1, <2>2
<1> QED
  BY <1>1, <1>4, Decoding, Zenon DEF u, p, v, body

-----------------------------------------------------------------------------
(* The parts of a URL that stay.                                           *)

OtherPart == {part \in Seq(UrlSymbol) : KeyOf(part) = "other"}
OtherPair == {pair \in MeantPair : pair.key = "other"}
OtherPairs(ps) ==
  FlattenSeq([i \in DOMAIN ps |-> IF ps[i].key = "other" THEN <<ps[i]>> ELSE <<>>])

LEMMA OthersAreAmong ==
  /\ \A parts \in Seq(Seq(UrlSymbol)) : Others(parts) = Among(parts, OtherPart)
  /\ \A ps \in Seq(MeantPair) : OtherPairs(ps) = Among(ps, OtherPair)
<1>1. ASSUME NEW parts \in Seq(Seq(UrlSymbol)) PROVE Others(parts) = Among(parts, OtherPart)
  <2>1. \A i \in DOMAIN parts : parts[i] \in OtherPart <=> KeyOf(parts[i]) = "other"
    <3>1. \A i \in DOMAIN parts : parts[i] \in Seq(UrlSymbol)
      OBVIOUS
    <3> QED
      BY <3>1, Zenon DEF OtherPart
  <2>2. [i \in DOMAIN parts |-> IF KeyOf(parts[i]) = "other" THEN <<parts[i]>> ELSE <<>>]
          = [i \in DOMAIN parts |-> IF parts[i] \in OtherPart THEN <<parts[i]>> ELSE <<>>]
    BY <2>1, Zenon
  <2> QED
    BY <2>2, Zenon DEF Others, Among
<1>2. ASSUME NEW ps \in Seq(MeantPair) PROVE OtherPairs(ps) = Among(ps, OtherPair)
  <2>1. \A i \in DOMAIN ps : ps[i] \in OtherPair <=> ps[i].key = "other"
    <3>1. \A i \in DOMAIN ps : ps[i] \in MeantPair
      OBVIOUS
    <3> QED
      BY <3>1, Zenon DEF OtherPair
  <2>2. [i \in DOMAIN ps |-> IF ps[i].key = "other" THEN <<ps[i]>> ELSE <<>>]
          = [i \in DOMAIN ps |-> IF ps[i] \in OtherPair THEN <<ps[i]>> ELSE <<>>]
    BY <2>1, Zenon
  <2> QED
    BY <2>2, Zenon DEF OtherPairs, Among
<1> QED
  BY <1>1, <1>2

LEMMA BodiesGrow ==
  ASSUME NEW ps \in Seq(MeantPair), NEW p \in MeantPair
  PROVE  /\ Bodies(<<>>) = <<<<"other">>>> /\ Bodies(ps) \in Seq(Seq(UrlSymbol))
         /\ Len(Bodies(ps)) = Len(ps) + 1 /\ Bodies(ps)[1] = <<"other">>
         /\ Body(p) \in Seq(UrlSymbol) /\ Bodies(Append(ps, p)) = Append(Bodies(ps), Body(p))
<1> DEFINE a == <<"other">>
           n == Len(ps)
           x == Body(p)
           u == Bodies(ps)
           q == Append(ps, p)
           v == Bodies(q)
<1>1. x \in Seq(UrlSymbol) /\ \A i \in 1..n : Body(ps[i]) \in Seq(UrlSymbol)
  <2>1. \A i \in 1..n : ps[i] \in MeantPair
    OBVIOUS
  <2>2. \A pair \in MeantPair : Body(pair) \in Seq(UrlSymbol)
    BY WrittenIs
  <2> QED
    BY <2>1, <2>2
<1>2. a \in Seq(UrlSymbol)
  <2> DEFINE o == "other"
  <2>1. o \in UrlSymbol
    BY DEF UrlSymbol, Key
  <2> HIDE DEF o
  <2>2. <<o>> \in Seq(UrlSymbol)
    BY <2>1
  <2> QED
    BY <2>2 DEF o
<1>3. /\ n \in Nat /\ Len(q) = n + 1 /\ q[n + 1] = p /\ \A i \in 1..n : q[i] = ps[i]
  OBVIOUS
<1>4. /\ u = [i \in 1..(n + 1) |-> IF i = 1 THEN a ELSE Body(ps[i - 1])]
      /\ v = [i \in 1..(Len(q) + 1) |-> IF i = 1 THEN a ELSE Body(q[i - 1])]
  BY DEF Bodies
<1>5. Bodies(<<>>) = <<a>>
  <2>1. Len(<<>>) = 0 /\ 0 + 1 = 1
    OBVIOUS
  <2>2. Bodies(<<>>) = [i \in 1..1 |-> a]
    BY <2>1 DEF Bodies
  <2> HIDE DEF a
  <2>3. [i \in 1..1 |-> a] = <<a>>
    OBVIOUS
  <2> QED
    BY <2>2, <2>3
<1> HIDE DEF a, n, x, u, q, v
<1>6. u \in Seq(Seq(UrlSymbol)) /\ Len(u) = n + 1 /\ u[1] = a
  <2>1. \A i \in 1..(n + 1) : i = 1 \/ (i # 1 /\ i - 1 \in 1..n)
    BY <1>3
  <2>2. u \in [1..(n + 1) -> Seq(UrlSymbol)] /\ n + 1 \in Nat /\ 1 \in 1..(n + 1)
    BY <1>1, <1>2, <1>3, <1>4, <2>1
  <2>3. u \in Seq(Seq(UrlSymbol)) /\ Len(u) = n + 1
    BY ONLY <2>2
  <2>4. u[1] = a
    BY ONLY <1>4, <2>2
  <2> QED
    BY <2>3, <2>4
<1>7. v = Append(u, x)
  <2> DEFINE w == Append(u, x)
             m == n + 1
  <2>1. m \in Nat /\ Len(q) = m /\ u \in Seq(Seq(UrlSymbol)) /\ Len(u) = m
    BY <1>3, <1>6
  <2> HIDE DEF m
  <2>2. /\ w \in Seq(Seq(UrlSymbol)) /\ Len(w) = m + 1 /\ w[m + 1] = x
        /\ \A i \in 1..m : w[i] = u[i]
    BY <1>1, <2>1
  <2>3. v[m + 1] = x
    <3>1. m + 1 \in 1..(m + 1) /\ m + 1 # 1 /\ (m + 1) - 1 = n + 1
      BY <1>3, <2>1 DEF m
    <3> QED
      BY <1>3, <1>4, <2>1, <3>1 DEF x
  <2>4. ASSUME NEW i \in 1..m PROVE v[i] = u[i]
    <3>1. i \in 1..(m + 1) /\ (i = 1 \/ (i # 1 /\ i - 1 \in 1..n))
      BY <1>3, <2>1 DEF m
    <3>2. q[i - 1] = ps[i - 1] \/ i = 1
      BY <1>3, <3>1
    <3>3. u[i] = (IF i = 1 THEN a ELSE Body(ps[i - 1]))
      BY <1>4 DEF m
    <3>4. v[i] = (IF i = 1 THEN a ELSE Body(q[i - 1]))
      BY <1>4, <2>1, <3>1
    <3> QED
      BY <3>2, <3>3, <3>4
  <2> HIDE DEF w
  <2>5. \A i \in 1..(m + 1) : v[i] = w[i]
    <3> SUFFICES ASSUME NEW i \in 1..(m + 1) PROVE v[i] = w[i]
      OBVIOUS
    <3>1. i \in 1..m \/ i = m + 1
      BY <2>1
    <3> QED
      BY <2>2, <2>3, <2>4, <3>1
  <2>6. v = [i \in 1..(m + 1) |-> v[i]]
    BY <1>4, <2>1
  <2>7. w = [i \in 1..(m + 1) |-> w[i]]
    BY <2>1, <2>2
  <2>8. v = w
    BY <2>5, <2>6, <2>7
  <2> QED
    BY <2>8 DEF w
<1> QED
  BY <1>1, <1>3, <1>5, <1>6, <1>7 DEF a, u, q, v, x, n

\* The parts of a URL that are not credentials are those of its other pairs.
LEMMA OthersStay ==
  ASSUME NEW ps \in Seq(MeantPair)
  PROVE  /\ Others(Bodies(ps)) = Bodies(OtherPairs(ps)) /\ OtherPairs(ps) \in Seq(OtherPair)
         /\ ps \in Seq(OtherPair) => OtherPairs(ps) = ps
<1> DEFINE a == <<"other">>
           T == {s \in Seq(MeantPair) :
                   /\ Among(Bodies(s), OtherPart) = Bodies(Among(s, OtherPair))
                   /\ Among(s, OtherPair) \in Seq(OtherPair)
                   /\ (\A i \in 1..Len(s) : s[i] \in OtherPair) => Among(s, OtherPair) = s}
<1>1. a \in OtherPart /\ a \in Seq(UrlSymbol) /\ Bodies(<<>>) = <<a>>
  <2> DEFINE o == "other"
  <2>1. o \in UrlSymbol
    BY DEF UrlSymbol, Key
  <2> HIDE DEF o
  <2>2. <<o>> \in Seq(UrlSymbol)
    BY <2>1
  <2>3. a \in Seq(UrlSymbol)
    BY <2>2 DEF o
  <2>4. Bodies(<<>>) = <<a>>
    BY BodiesGrow DEF Bodies
  <2> QED
    BY <2>3, <2>4, KeysOfParts, Zenon DEF OtherPart
<1>2. <<>> \in T
  <2> DEFINE no == <<>>
  <2> HIDE DEF a
  <2>1. no \in Seq(Seq(UrlSymbol)) /\ no \in Seq(MeantPair) /\ no \in Seq(OtherPair)
        /\ Append(no, a) = <<a>> /\ Append(no, a) = <<a>>
    BY <1>1
  <2>2. Among(no, OtherPart) = no /\ Among(no, OtherPair) = no
    <3>1. FlattenSeq(<<>>) = <<>>
      BY DEF FlattenSeq
    <3>2. [i \in DOMAIN no |-> IF no[i] \in OtherPart THEN <<no[i]>> ELSE <<>>] = no
      OBVIOUS
    <3>3. [i \in DOMAIN no |-> IF no[i] \in OtherPair THEN <<no[i]>> ELSE <<>>] = no
      OBVIOUS
    <3> QED
      BY ONLY <3>1, <3>2, <3>3 DEF Among
  <2>3. Among(Append(no, a), OtherPart) = Append(no, a)
    <3>1. Among(no, OtherPart) = no /\ a \in OtherPart
      BY <1>1, <2>2
    <3>2. no \in Seq(Seq(UrlSymbol)) /\ a \in Seq(UrlSymbol)
      BY <1>1, <2>1
    <3> HIDE DEF no
    <3>3. Among(Append(no, a), OtherPart) =
            IF a \in OtherPart THEN Append(Among(no, OtherPart), a) ELSE Among(no, OtherPart)
      BY ONLY <3>2, AmongGrows
    <3> QED
      BY ONLY <3>1, <3>3, Zenon
  <2>4. Among(Bodies(no), OtherPart) = Bodies(Among(no, OtherPair))
    BY <1>1, <2>1, <2>2, <2>3
  <2> QED
    BY <2>1, <2>2, <2>4
<1>3. ASSUME NEW s \in Seq(MeantPair), NEW x \in MeantPair, s \in T PROVE Append(s, x) \in T
  <2> DEFINE q == Append(s, x)
             b == Body(x)
             w == Among(s, OtherPair)
             u == Bodies(s)
  <2>1. /\ Bodies(q) = Append(u, b) /\ u \in Seq(Seq(UrlSymbol)) /\ b \in Seq(UrlSymbol)
    BY BodiesGrow
  <2>2. Among(Append(u, b), OtherPart) =
          IF b \in OtherPart THEN Append(Among(u, OtherPart), b) ELSE Among(u, OtherPart)
    BY <2>1, AmongGrows
  <2>3. Among(q, OtherPair) = (IF x \in OtherPair THEN Append(w, x) ELSE w)
    BY AmongGrows
  <2>4. b \in OtherPart <=> x \in OtherPair
    BY <2>1, KeysOfParts, Zenon DEF OtherPart, OtherPair
  <2>5. /\ Among(u, OtherPart) = Bodies(w) /\ w \in Seq(OtherPair)
        /\ (\A i \in 1..Len(s) : s[i] \in OtherPair) => w = s
    BY <1>3
  <2>6. \A r \in Seq(OtherPair) : r \in Seq(MeantPair)
    BY DEF OtherPair
  <2>7. x \in OtherPair => Bodies(Append(w, x)) = Append(Bodies(w), b)
    BY <2>5, <2>6, BodiesGrow
  <2>8. Among(Bodies(q), OtherPart) = Bodies(Among(q, OtherPair))
    BY <2>1, <2>2, <2>3, <2>4, <2>5, <2>7, Zenon
  <2>9. Among(q, OtherPair) \in Seq(OtherPair)
    <3>1. x \in OtherPair => Append(w, x) \in Seq(OtherPair)
      BY <2>5
    <3> QED
      BY <2>3, <2>5, <3>1, Zenon
  <2>10. /\ q \in Seq(MeantPair) /\ Len(q) = Len(s) + 1 /\ Len(s) \in Nat
         /\ q[Len(s) + 1] = x /\ \A i \in 1..Len(s) : q[i] = s[i]
    OBVIOUS
  <2>11. (\A i \in 1..Len(q) : q[i] \in OtherPair) => Among(q, OtherPair) = q
    <3> SUFFICES ASSUME \A i \in 1..Len(q) : q[i] \in OtherPair PROVE Among(q, OtherPair) = q
      OBVIOUS
    <3>1. Len(s) + 1 \in 1..Len(q) /\ \A i \in 1..Len(s) : i \in 1..Len(q)
      BY ONLY <2>10
    <3>2. x \in OtherPair /\ \A i \in 1..Len(s) : s[i] \in OtherPair
      BY <2>10, <3>1
    <3> QED
      BY <2>3, <2>5, <3>2
  <2> QED
    BY <2>8, <2>9, <2>10, <2>11
<1>4. ps \in T
  <2> HIDE DEF T
  <2> QED
    BY <1>2, <1>3, GrowingSequences
<1>5. Bodies(ps) \in Seq(Seq(UrlSymbol))
  <2>1. ASSUME NEW pair \in MeantPair PROVE Bodies(ps) \in Seq(Seq(UrlSymbol))
    BY BodiesGrow
  <2>2. [key |-> "other", value |-> <<>>] \in MeantPair
    BY DEF MeantPair, Key
  <2> QED
    BY <2>1, <2>2
<1>6. ps \in Seq(OtherPair) => \A i \in 1..Len(ps) : ps[i] \in OtherPair
  OBVIOUS
<1> QED
  BY <1>4, <1>5, <1>6, OthersAreAmong

\* What is joined is the text of the pairs.
LEMMA JoinsAgain ==
  ASSUME NEW ps \in Seq(MeantPair)
  PROVE  Joined(Bodies(ps)) = TextOf(ps)
<1> DEFINE a == <<"other">>
           c == <<";">>
           Join(s) == [i \in DOMAIN s |-> IF i = 1 THEN s[i] ELSE c \o s[i]]
           T == {s \in Seq(MeantPair) : FlattenSeq(Join(Bodies(s))) = TextOf(s)
                                        /\ Join(Bodies(s)) \in Seq(Seq(UrlSymbol))}
<1>1. a \in Seq(UrlSymbol) /\ Bodies(<<>>) = <<a>>
  <2> DEFINE o == "other"
  <2>1. o \in UrlSymbol
    BY DEF UrlSymbol, Key
  <2> HIDE DEF o
  <2>2. <<o>> \in Seq(UrlSymbol)
    BY <2>1
  <2>3. a \in Seq(UrlSymbol)
    BY <2>2 DEF o
  <2>4. Bodies(<<>>) = <<a>>
    BY BodiesGrow DEF Bodies
  <2> QED
    BY <2>3, <2>4
<1>2. c \in Seq(UrlSymbol)
  <2> DEFINE o == ";"
  <2>1. o \in UrlSymbol
    BY DEF UrlSymbol, Brace
  <2> HIDE DEF o
  <2>2. <<o>> \in Seq(UrlSymbol)
    BY <2>1
  <2> QED
    BY <2>2 DEF o
<1>3. \A s : TextOf(s) = a \o FlattenSeq(WrittenPairs(s))
  BY DEF TextOf
<1> HIDE DEF a, c
<1>4. <<>> \in T
  <2>1. FlattenSeq(<<>>) = <<>>
    BY DEF FlattenSeq
  <2>2. WrittenPairs(<<>>) = <<>>
    BY DEF WrittenPairs
  <2>3. TextOf(<<>>) = a
    <3>1. TextOf(<<>>) = a \o <<>>
      BY <1>3, <2>1, <2>2
    <3> QED
      BY <1>1, <3>1
  <2>4. Join(<<a>>) = <<a>>
    OBVIOUS
  <2>5. FlattenSeq(<<a>>) = a
    <3> DEFINE no == <<>>
    <3>1. no \in Seq(Seq(UrlSymbol)) /\ Append(no, a) = <<a>> /\ no \o a = a
      BY <1>1
    <3>2. FlattenSeq(no) = no
      BY <2>1
    <3> HIDE DEF no
    <3>3. FlattenSeq(Append(no, a)) = FlattenSeq(no) \o a
      BY <1>1, <3>1, PieceAppended
    <3> QED
      BY <3>1, <3>2, <3>3
  <2>6. <<>> \in Seq(MeantPair) /\ <<a>> \in Seq(Seq(UrlSymbol))
    BY <1>1
  <2> HIDE DEF Join
  <2> QED
    BY <1>1, <2>3, <2>4, <2>5, <2>6
<1>5. ASSUME NEW s \in Seq(MeantPair), NEW x \in MeantPair, s \in T PROVE Append(s, x) \in T
  <2> DEFINE q == Append(s, x)
             b == Body(x)
             w == Written(x)
             u == Bodies(s)
             j == Join(u)
             f == WrittenPairs(s)
  <2>1. /\ Bodies(q) = Append(u, b) /\ u \in Seq(Seq(UrlSymbol)) /\ b \in Seq(UrlSymbol)
        /\ Len(u) = Len(s) + 1 /\ Len(s) \in Nat
    <3>1. Len(s) \in Nat
      OBVIOUS
    <3> QED
      BY <3>1, BodiesGrow
  <2>2. w = c \o b /\ w \in Seq(UrlSymbol)
    BY WrittenIs DEF c
  <2>3. FlattenSeq(j) = TextOf(s) /\ j \in Seq(Seq(UrlSymbol))
    BY <1>5
  <2>4. f \in Seq(Seq(UrlSymbol)) /\ WrittenPairs(q) = Append(f, w)
    <3>1. f \in Seq(Seq(UrlSymbol)) /\ WrittenPairs(q) \in Seq(Seq(UrlSymbol))
      <4>1. q \in Seq(MeantPair)
        OBVIOUS
      <4> QED
        BY <4>1, PiecesAre
    <3>2. WrittenPairs(q) = [i \in DOMAIN q |-> Written(q[i])] /\ f = [i \in DOMAIN s |-> Written(s[i])]
      BY DEF WrittenPairs
    <3> DEFINE g == WrittenPairs(q)
               n == Len(s)
    <3>3. /\ n \in Nat /\ DOMAIN q = 1..(n + 1) /\ DOMAIN s = 1..n
          /\ q[n + 1] = x /\ \A i \in 1..n : q[i] = s[i]
      OBVIOUS
    <3> HIDE DEF f, w, q, g, n
    <3>4. f \in Seq(Seq(UrlSymbol)) /\ g \in Seq(Seq(UrlSymbol))
      BY <3>1 DEF g
    <3>5. g = [i \in 1..(n + 1) |-> Written(q[i])] /\ f = [i \in 1..n |-> Written(s[i])]
      BY <3>2, <3>3 DEF g
    <3>6. Len(g) = n + 1 /\ Len(f) = n /\ g[n + 1] = w /\ \A i \in 1..n : g[i] = f[i]
      <4>1. g[n + 1] = w
        <5>1. n + 1 \in 1..(n + 1)
          BY ONLY <3>3
        <5> QED
          BY <3>3, <3>5, <5>1 DEF w
      <4>2. \A i \in 1..n : g[i] = f[i]
        <5>1. \A i \in 1..n : i \in 1..(n + 1)
          BY ONLY <3>3
        <5> QED
          BY <3>3, <3>5, <5>1
      <4>3. Len(g) = n + 1 /\ Len(f) = n
        BY ONLY <3>3, <3>4, <3>5
      <4> QED
        BY <4>1, <4>2, <4>3
    <3> DEFINE h == Append(f, w)
    <3>7. /\ h \in Seq(Seq(UrlSymbol)) /\ Len(h) = n + 1 /\ h[n + 1] = w
          /\ \A i \in 1..n : h[i] = f[i]
      BY ONLY <2>2, <3>3, <3>4, <3>6
    <3> HIDE DEF h
    <3>8. \A i \in 1..(n + 1) : g[i] = h[i]
      <4> SUFFICES ASSUME NEW i \in 1..(n + 1) PROVE g[i] = h[i]
        OBVIOUS
      <4>1. i \in 1..n \/ i = n + 1
        BY ONLY <3>3, i \in 1..(n + 1)
      <4> QED
        BY ONLY <3>6, <3>7, <4>1
    <3>9. g = h
      BY ONLY <3>4, <3>6, <3>7, <3>8
    <3> QED
      BY <3>4, <3>9 DEF g, h
  <2>5. Join(Append(u, b)) = Append(j, w)
    <3> DEFINE g == Join(Append(u, b))
               h == Append(j, w)
               p == Append(u, b)
               n == Len(u)
    <3>1. /\ n \in Nat /\ n >= 1 /\ DOMAIN p = 1..(n + 1) /\ DOMAIN u = 1..n
          /\ p[n + 1] = b /\ \A i \in 1..n : p[i] = u[i]
      <4>1. u \in Seq(Seq(UrlSymbol)) /\ n = Len(s) + 1 /\ Len(s) \in Nat /\ b \in Seq(UrlSymbol)
        BY <2>1
      <4> HIDE DEF u, b
      <4> QED
        BY ONLY <4>1
    <3>2. /\ g = [i \in 1..(n + 1) |-> IF i = 1 THEN p[i] ELSE c \o p[i]]
          /\ j = [i \in 1..n |-> IF i = 1 THEN u[i] ELSE c \o u[i]]
      BY <3>1
    <3>3. j \in Seq(Seq(UrlSymbol)) /\ w \in Seq(UrlSymbol)
      BY <2>2, <2>3
    <3>4. w = c \o b
      BY <2>2
    <3> HIDE DEF u, b, w, j, g, p, n, Join
    <3>5. Len(j) = n
      BY ONLY <3>1, <3>2, <3>3
    <3>6. /\ h \in Seq(Seq(UrlSymbol)) /\ Len(h) = n + 1 /\ h[n + 1] = w
          /\ \A i \in 1..n : h[i] = j[i]
      BY ONLY <3>1, <3>3, <3>5
    <3> HIDE DEF h
    <3>7. g[n + 1] = w
      <4>1. n + 1 \in 1..(n + 1) /\ n + 1 # 1
        BY ONLY <3>1
      <4> QED
        BY ONLY <3>1, <3>2, <3>4, <4>1
    <3>8. ASSUME NEW i \in 1..n PROVE g[i] = j[i]
      <4>1. i \in 1..(n + 1) /\ p[i] = u[i]
        BY ONLY <3>1, i \in 1..n
      <4> QED
        BY ONLY <3>2, <4>1, i \in 1..n
    <3>9. \A i \in 1..(n + 1) : g[i] = h[i]
      <4> SUFFICES ASSUME NEW i \in 1..(n + 1) PROVE g[i] = h[i]
        OBVIOUS
      <4>1. i \in 1..n \/ i = n + 1
        BY ONLY <3>1, i \in 1..(n + 1)
      <4> QED
        BY <3>6, <3>7, <3>8, <4>1
    <3>10. g = [i \in 1..(n + 1) |-> g[i]]
      BY ONLY <3>2
    <3>11. h = [i \in 1..(n + 1) |-> h[i]]
      BY ONLY <3>1, <3>6
    <3>12. g = h
      BY ONLY <3>9, <3>10, <3>11
    <3> QED
      BY <3>12 DEF g, h, p
  <2> HIDE DEF Join
  <2>6. FlattenSeq(Append(j, w)) = FlattenSeq(j) \o w
    BY <2>2, <2>3, PieceAppended
  <2>7. FlattenSeq(Append(f, w)) = FlattenSeq(f) \o w /\ FlattenSeq(f) \in Seq(UrlSymbol)
    BY <2>2, <2>4, PieceAppended
  <2>8. (a \o FlattenSeq(f)) \o w = a \o (FlattenSeq(f) \o w)
    <3> DEFINE y == FlattenSeq(f)
    <3>1. a \in Seq(UrlSymbol) /\ y \in Seq(UrlSymbol) /\ w \in Seq(UrlSymbol)
      BY <1>1, <2>2, <2>7
    <3> HIDE DEF y, w
    <3> QED
      BY ONLY <3>1
  <2>9. FlattenSeq(Join(Bodies(q))) = TextOf(q)
    BY <1>3, <2>1, <2>3, <2>4, <2>5, <2>6, <2>7, <2>8, Zenon
  <2>10. Join(Bodies(q)) \in Seq(Seq(UrlSymbol)) /\ q \in Seq(MeantPair)
    <3>1. q \in Seq(MeantPair)
      OBVIOUS
    <3>2. Append(j, w) \in Seq(Seq(UrlSymbol))
      <4> HIDE DEF j, w
      <4> QED
        BY ONLY <2>2, <2>3
    <3> QED
      BY <2>1, <2>5, <3>1, <3>2, Zenon
  <2> QED
    BY <2>9, <2>10
<1>6. ps \in T
  <2> HIDE DEF T
  <2> QED
    BY <1>4, <1>5, GrowingSequences
<1> QED
  BY <1>6, Zenon DEF Joined, c

\* What the first pair with a key means.
MeantIn(ps, key) ==
  LET those == {i \in DOMAIN ps : ps[i].key = key} IN
    IF those = {} THEN Absent ELSE ps[Min(those)].value

LEMMA FirstOfEach ==
  ASSUME NEW n \in Nat, NEW A \in SUBSET (1..n), A # {},
         NEW B, B = {i + 1 : i \in A}
  PROVE  Min(A) \in 1..n /\ Min(A) \in A /\ Min(B) = Min(A) + 1 /\ Min(B) \in 1..(n + 1)
<1> DEFINE x == Min(A)
           y == Min(B)
<1>1. x \in A /\ \A i \in A : x <= i
  BY HaveEnds
<1>2. B \in SUBSET (1..(n + 1)) /\ B # {} /\ n + 1 \in Nat
  <2>1. \A i \in A : i + 1 \in 1..(n + 1)
    OBVIOUS
  <2>2. B # {} /\ B \in SUBSET (1..(n + 1))
    BY <2>1
  <2>3. n + 1 \in Nat
    BY ONLY n \in Nat
  <2> QED
    BY <2>2, <2>3
<1>3. y \in B /\ \A i \in B : y <= i
  BY <1>2, HaveEnds
<1> HIDE DEF x, y
<1>4. PICK z \in A : y = z + 1
  BY <1>3
<1>5. y <= x + 1 /\ x <= z
  BY <1>1, <1>3
<1>6. x \in Nat /\ z \in Nat /\ x \in 1..n /\ y \in 1..(n + 1)
  BY <1>1, <1>2, <1>3
<1>7. y = x + 1
  BY <1>4, <1>5, <1>6
<1> QED
  BY <1>1, <1>6, <1>7 DEF x, y

LEMMA CredentialsAsMeant ==
  ASSUME NEW ps \in Seq(MeantPair), NEW key \in {"user", "password"}
  PROVE  Property(Bodies(ps), key) = MeantIn(ps, key)
<1> DEFINE n == Len(ps)
           parts == Bodies(ps)
           a == <<"other">>
           A == {i \in DOMAIN ps : ps[i].key = key}
           B == {i \in DOMAIN parts : KeyOf(parts[i]) = key}
<1>1. /\ n \in Nat /\ DOMAIN ps = 1..n /\ \A i \in 1..n : ps[i] \in MeantPair
  OBVIOUS
<1>2. parts = [i \in 1..(n + 1) |-> IF i = 1 THEN a ELSE Body(ps[i - 1])]
  BY DEF Bodies
<1>3. KeyOf(a) # key /\ \A pair \in MeantPair : KeyOf(Body(pair)) = pair.key
  BY KeysOfParts
<1> HIDE DEF a, n, parts
<1>4. DOMAIN parts = 1..(n + 1) /\ parts[1] = a
  <2>1. 1 \in 1..(n + 1)
    BY ONLY <1>1
  <2> QED
    BY ONLY <1>2, <2>1
<1>5. ASSUME NEW i \in 1..n PROVE i + 1 \in 1..(n + 1) /\ parts[i + 1] = Body(ps[i])
  <2>1. i + 1 \in 1..(n + 1) /\ i + 1 # 1 /\ (i + 1) - 1 = i
    BY ONLY <1>1, i \in 1..n
  <2> QED
    BY ONLY <1>2, <2>1
<1>6. B = {i + 1 : i \in A}
  <2>1. \A i \in A : i \in 1..n /\ ps[i].key = key
    BY <1>1
  <2>2. ASSUME NEW i \in A PROVE i + 1 \in B
    <3>1. KeyOf(parts[i + 1]) = key
      BY <1>1, <1>3, <1>5, <2>1
    <3> QED
      BY <1>4, <1>5, <2>1, <3>1
  <2>3. ASSUME NEW j \in B PROVE \E i \in A : j = i + 1
    <3>1. j \in 1..(n + 1) /\ KeyOf(parts[j]) = key
      BY <1>4
    <3>2. j # 1
      BY <1>3, <1>4, <3>1
    <3>3. j - 1 \in 1..n /\ (j - 1) + 1 = j
      BY ONLY <1>1, <3>1, <3>2
    <3>4. j - 1 \in A
      BY <1>1, <1>3, <1>5, <3>1, <3>3
    <3> QED
      BY <3>3, <3>4
  <2> HIDE DEF A, B
  <2> QED
    BY <2>2, <2>3
<1>7. CASE A = {}
  <2>1. B = {}
    BY <1>6, <1>7
  <2> QED
    BY <1>7, <2>1, Zenon DEF Property, MeantIn, parts
<1>8. CASE A # {}
  <2> DEFINE x == Min(A)
             y == Min(B)
  <2>1. x \in 1..n /\ x \in A /\ y = x + 1
    <3>1. A \in SUBSET (1..n)
      BY <1>1
    <3> HIDE DEF A, B
    <3> QED
      BY <1>1, <1>6, <1>8, <3>1, FirstOfEach
  <2>2. parts[y] = Body(ps[x]) /\ ps[x] \in MeantPair
    BY <1>1, <1>5, <2>1
  <2>3. B # {}
    BY <1>6, <1>8
  <2>4. Property(parts, key) = DecodePropertyCredential(SubSeq(parts[y], 3, Len(parts[y])))
    BY <2>3, Zenon DEF Property
  <2>5. MeantIn(ps, key) = ps[x].value
    BY <1>8, Zenon DEF MeantIn
  <2>6. DecodePropertyCredential(SubSeq(Body(ps[x]), 3, Len(Body(ps[x])))) = ps[x].value
    BY <2>2, ValuesOfParts
  <2> QED
    BY <2>2, <2>4, <2>5, <2>6, Zenon DEF parts
<1> QED
  BY <1>7, <1>8

\* No credential is meant by other pairs.
LEMMA OthersMeanNone ==
  ASSUME NEW ps \in Seq(OtherPair), NEW key \in {"user", "password"}
  PROVE  MeantIn(ps, key) = Absent
<1>1. \A i \in DOMAIN ps : ps[i].key # key
  BY DEF OtherPair
<1>2. {i \in DOMAIN ps : ps[i].key = key} = {}
  BY <1>1
<1> QED
  BY <1>2, Zenon DEF MeantIn

\* Where neither is meant every pair is another.
LEMMA NoneMeant ==
  ASSUME NEW ps \in Seq(MeantPair), MeantIn(ps, "user") = Absent, MeantIn(ps, "password") = Absent
  PROVE  ps \in Seq(OtherPair)
<1>1. ASSUME NEW key \in {"user", "password"}, NEW i \in DOMAIN ps, ps[i].key = key PROVE FALSE
  <2> DEFINE A == {j \in DOMAIN ps : ps[j].key = key}
             x == Min(A)
  <2>1. A # {} /\ A \in SUBSET (1..Len(ps)) /\ Len(ps) \in Nat
    BY <1>1
  <2>2. x \in A
    <3> HIDE DEF A
    <3> QED
      BY <2>1, HaveEnds
  <2>3. ps[x] \in MeantPair
    BY <2>2
  <2>4. MeantIn(ps, key) = ps[x].value
    BY <2>1, Zenon DEF MeantIn
  <2>5. ps[x].value \in Seq(Brace)
    BY <2>3 DEF MeantPair
  <2>6. Absent \notin Seq(Brace)
    <3> DEFINE z == "absent"
    <3>1. z \notin Brace
      BY DEF Brace
    <3> HIDE DEF z
    <3>2. <<z>> \notin Seq(Brace)
      <4> SUFFICES ASSUME <<z>> \in Seq(Brace) PROVE FALSE
        OBVIOUS
      <4>1. <<z>>[1] \in Brace
        OBVIOUS
      <4> QED
        BY <3>1, <4>1
    <3> QED
      BY <3>2 DEF Absent, z
  <2>7. MeantIn(ps, key) = Absent
    BY <1>1
  <2> QED
    BY <2>4, <2>5, <2>6, <2>7, Zenon
<1>2. \A i \in 1..Len(ps) : ps[i] \in OtherPair
  <2>1. \A i \in 1..Len(ps) : i \in DOMAIN ps /\ ps[i] \in MeantPair
    OBVIOUS
  <2>2. \A i \in 1..Len(ps) : ps[i].key \in Key
    BY <2>1 DEF MeantPair
  <2> QED
    BY <1>1, <2>1, <2>2 DEF OtherPair, Key
<1> QED
  BY <1>2

-----------------------------------------------------------------------------
(* Cleaning a form.                                                        *)

Cred(a, b) == [user |-> a, password |-> b]
Filled(p, u, q, t, i, k, r) ==
  [properties |-> p, userinfo |-> u, query |-> q, typed |-> t,
   isUri |-> i, taken |-> k, refused |-> r]

LEMMA CredIs ==
  ASSUME NEW a, NEW b
  PROVE  /\ DOMAIN Cred(a, b) = {"user", "password"}
         /\ Cred(a, b).user = a /\ Cred(a, b).password = b
         /\ Cred(a, b)["user"] = a /\ Cred(a, b)["password"] = b
BY DEF Cred

LEMMA HeldIs ==
  ASSUME NEW a, NEW b
  PROVE  Held(Cred(a, b)) <=> a # Absent \/ b # Absent
BY CredIs DEF Held

LEMMA CredFrom ==
  ASSUME NEW F
  PROVE  [x \in {"user", "password"} |-> F[x]] = Cred(F["user"], F["password"])
BY DEF Cred

LEMMA OrElseIs ==
  ASSUME NEW a, NEW b
  PROVE  /\ OrElse(Absent, b) = b /\ (a # Absent => OrElse(a, b) = a)
         /\ OrElse(a, b) = Absent => a = Absent /\ b = Absent
BY DEF OrElse

LEMMA FormFields ==
  ASSUME NEW p, NEW u, NEW q, NEW t, NEW i, NEW k, NEW r
  PROVE  LET f == Filled(p, u, q, t, i, k, r) IN
           /\ f.properties = p /\ f.userinfo = u /\ f.query = q /\ f.typed = t
           /\ f.isUri = i /\ f.taken = k /\ f.refused = r
BY DEF Filled

LEMMA FormIs ==
  ASSUME NEW p, NEW u, NEW q, NEW t, NEW i, NEW k, NEW r,
         NEW f \in [properties : {p}, userinfo : {u}, query : {q}, typed : {t},
                    isUri : {i}, taken : {k}, refused : {r}]
  PROVE  f = Filled(p, u, q, t, i, k, r)
BY DEF Filled

TakenFrom(f, p, t, k) == [f EXCEPT !.properties = p, !.typed = t, !.taken = k]
Refusing(f, r) == [f EXCEPT !.refused = r]
Emptied(f, t, u, q) == [f EXCEPT !.typed = t, !.userinfo = u, !.query = q]
Taking(f, k) == [f EXCEPT !.taken = k]

LEMMA FormTakenOut ==
  ASSUME NEW p, NEW u, NEW q, NEW t, NEW i, NEW k, NEW r, NEW p2, NEW t2, NEW k2
  PROVE  TakenFrom(Filled(p, u, q, t, i, k, r), p2, t2, k2) = Filled(p2, u, q, t2, i, k2, r)
<1> DEFINE f == Filled(p, u, q, t, i, k, r)
           g == [f EXCEPT !.properties = p2, !.typed = t2, !.taken = k2]
<1>1. f \in [properties : {p}, userinfo : {u}, query : {q}, typed : {t},
             isUri : {i}, taken : {k}, refused : {r}]
  BY DEF Filled
<1> HIDE DEF f
<1>2. g \in [properties : {p2}, userinfo : {u}, query : {q}, typed : {t2},
             isUri : {i}, taken : {k2}, refused : {r}]
  BY ONLY <1>1
<1> HIDE DEF g
<1>3. g = Filled(p2, u, q, t2, i, k2, r)
  BY ONLY <1>2, FormIs
<1> QED
  BY <1>3, Zenon DEF f, g, TakenFrom

LEMMA FormRefused ==
  ASSUME NEW p, NEW u, NEW q, NEW t, NEW i, NEW k, NEW r, NEW r2
  PROVE  Refusing(Filled(p, u, q, t, i, k, r), r2) = Filled(p, u, q, t, i, k, r2)
<1> DEFINE f == Filled(p, u, q, t, i, k, r)
           g == [f EXCEPT !.refused = r2]
<1>1. f \in [properties : {p}, userinfo : {u}, query : {q}, typed : {t},
             isUri : {i}, taken : {k}, refused : {r}]
  BY DEF Filled
<1> HIDE DEF f
<1>2. g \in [properties : {p}, userinfo : {u}, query : {q}, typed : {t},
             isUri : {i}, taken : {k}, refused : {r2}]
  BY ONLY <1>1
<1> HIDE DEF g
<1>3. g = Filled(p, u, q, t, i, k, r2)
  BY ONLY <1>2, FormIs
<1> QED
  BY <1>3, Zenon DEF f, g, Refusing

LEMMA FormEmptied ==
  ASSUME NEW p, NEW u, NEW q, NEW t, NEW i, NEW k, NEW r, NEW t2, NEW u2, NEW q2
  PROVE  Emptied(Filled(p, u, q, t, i, k, r), t2, u2, q2) = Filled(p, u2, q2, t2, i, k, r)
<1> DEFINE f == Filled(p, u, q, t, i, k, r)
           g == [f EXCEPT !.typed = t2, !.userinfo = u2, !.query = q2]
<1>1. f \in [properties : {p}, userinfo : {u}, query : {q}, typed : {t},
             isUri : {i}, taken : {k}, refused : {r}]
  BY DEF Filled
<1> HIDE DEF f
<1>2. g \in [properties : {p}, userinfo : {u2}, query : {q2}, typed : {t2},
             isUri : {i}, taken : {k}, refused : {r}]
  BY ONLY <1>1
<1> HIDE DEF g
<1>3. g = Filled(p, u2, q2, t2, i, k, r)
  BY ONLY <1>2, FormIs
<1> QED
  BY <1>3, Zenon DEF f, g, Emptied

LEMMA FormUntaken ==
  ASSUME NEW p, NEW u, NEW q, NEW t, NEW i, NEW k, NEW r, NEW k2
  PROVE  Taking(Filled(p, u, q, t, i, k, r), k2) = Filled(p, u, q, t, i, k2, r)
<1> DEFINE f == Filled(p, u, q, t, i, k, r)
           g == [f EXCEPT !.taken = k2]
<1>1. f \in [properties : {p}, userinfo : {u}, query : {q}, typed : {t},
             isUri : {i}, taken : {k}, refused : {r}]
  BY DEF Filled
<1> HIDE DEF f
<1>2. g \in [properties : {p}, userinfo : {u}, query : {q}, typed : {t},
             isUri : {i}, taken : {k2}, refused : {r}]
  BY ONLY <1>1
<1> HIDE DEF g
<1>3. g = Filled(p, u, q, t, i, k2, r)
  BY ONLY <1>2, FormIs
<1> QED
  BY <1>3, Zenon DEF f, g, Taking

\* Whether credentials have been taken out of the properties.
Kind(m, w, k) == IF m = Absent /\ w = Absent THEN k ELSE TRUE

\* What extract_sql_server_url_credentials makes of a form.
LEMMA TakesOut ==
  ASSUME NEW ps \in Seq(MeantPair), NEW u, NEW q, NEW a, NEW b, NEW i, NEW k, NEW r,
         NEW m, m = MeantIn(ps, "user"), NEW w, w = MeantIn(ps, "password")
  PROVE  ExtractProperties(Filled(TextOf(ps), u, q, Cred(a, b), i, k, r)) =
           Filled(TextOf(OtherPairs(ps)), u, q, Cred(OrElse(m, a), OrElse(w, b)), i,
                  Kind(m, w, k), r)
<1> DEFINE f == Filled(TextOf(ps), u, q, Cred(a, b), i, k, r)
           parts == Bodies(ps)
           others == OtherPairs(ps)
           t == Cred(OrElse(m, a), OrElse(w, b))
<1>1. f.properties = TextOf(ps) /\ f.typed = Cred(a, b)
  BY FormFields
<1>2. SplitConnectionProperties(TextOf(ps)) = parts
  BY SplitsIntoBodies
<1>3. Property(parts, "user") = m /\ Property(parts, "password") = w
  BY CredentialsAsMeant
<1>4. Others(parts) = Bodies(others) /\ others \in Seq(OtherPair)
  BY OthersStay
<1>5. Joined(Bodies(others)) = TextOf(others)
  <2>1. others \in Seq(MeantPair)
    BY <1>4 DEF OtherPair
  <2> QED
    BY <2>1, JoinsAgain
<1>6. f.typed.user = a /\ f.typed.password = b
  BY <1>1, CredIs
<1> HIDE DEF f, parts, others, t
<1>7. ExtractProperties(f) = TakeOut(f, Bodies(others), m, w)
  BY <1>1, <1>2, <1>3, <1>4, Zenon DEF ExtractProperties, ExtractParts
<1>8. CASE m = Absent /\ w = Absent
  <2>1. ExtractProperties(f) = f
    BY <1>7, <1>8, Zenon DEF TakeOut
  <2>2. t = Cred(a, b)
    BY <1>8, OrElseIs, Zenon DEF t
  <2>3. others = ps
    <3>1. ps \in Seq(OtherPair)
      BY <1>8, NoneMeant
    <3> QED
      BY <3>1, OthersStay DEF others
  <2> QED
    BY <1>8, <2>1, <2>2, <2>3, Zenon DEF f, t, others, Kind
<1>9. CASE ~(m = Absent /\ w = Absent)
  <2>1. ExtractProperties(f) = [f EXCEPT !.properties = Joined(Bodies(others)),
                                         !.typed = [user     |-> OrElse(m, f.typed.user),
                                                    password |-> OrElse(w, f.typed.password)],
                                         !.taken = TRUE]
    BY <1>7, <1>9, Zenon DEF TakeOut
  <2>2. t = [user |-> OrElse(m, f.typed.user), password |-> OrElse(w, f.typed.password)]
    BY <1>6 DEF t, Cred
  <2> DEFINE yes == TRUE
             text2 == TextOf(others)
  <2>3. ExtractProperties(f) = [f EXCEPT !.properties = text2, !.typed = t, !.taken = yes]
    BY <1>5, <2>1, <2>2, Zenon
  <2> HIDE DEF yes, text2
  <2>4. TakenFrom(f, text2, t, yes) = Filled(text2, u, q, t, i, yes, r)
    <3> DEFINE given == TextOf(ps)
               typed == Cred(a, b)
    <3>1. f = Filled(given, u, q, typed, i, k, r)
      BY DEF f
    <3> HIDE DEF given, typed
    <3>2. TakenFrom(Filled(given, u, q, typed, i, k, r), text2, t, yes)
            = Filled(text2, u, q, t, i, yes, r)
      BY ONLY FormTakenOut
    <3> QED
      BY ONLY <3>1, <3>2
  <2>5. [f EXCEPT !.properties = text2, !.typed = t, !.taken = yes] = TakenFrom(f, text2, t, yes)
    BY DEF TakenFrom
  <2>6. yes = Kind(m, w, k)
    BY <1>9, Zenon DEF yes, Kind
  <2>7. ExtractProperties(f) = Filled(text2, u, q, t, i, yes, r)
    BY <2>3, <2>4, <2>5, Zenon
  <2> QED
    BY <2>6, <2>7, Zenon DEF f, t, text2, others
<1> QED
  BY <1>8, <1>9

\* What the rest of the URL leaves in a field that holds x after the properties.
Field(u, tk, x, q) == OrElse(OrElse(u, IF tk /\ x # Absent THEN x ELSE q), x)
Empty == Cred(Absent, Absent)

LEMMA RestRefused ==
  ASSUME NEW P, NEW p, NEW U, NEW Q, NEW T, NEW x, NEW i, NEW k, NEW tk, NEW r, ~i
  PROVE  ExtractRest(Filled(P, U, Q, T, i, k, r), Filled(p, U, Q, x, i, tk, r))
           = Filled(p, U, Q, x, i, tk, Held(U) \/ Held(Q))
<1> DEFINE form == Filled(P, U, Q, T, i, k, r)
           cut == Filled(p, U, Q, x, i, tk, r)
           held == Held(U) \/ Held(Q)
<1>1. form.userinfo = U /\ form.query = Q /\ form.isUri = i
  BY FormFields
<1>2. Refusing(cut, held) = Filled(p, U, Q, x, i, tk, held)
  <2> HIDE DEF held
  <2> QED
    BY ONLY FormRefused DEF cut
<1> HIDE DEF form, cut
<1>3. ExtractRest(form, cut) = [cut EXCEPT !.refused = Held(form.userinfo) \/ Held(form.query)]
  BY <1>1, Zenon DEF ExtractRest
<1>4. ExtractRest(form, cut) = Refusing(cut, held)
  BY <1>1, <1>3, Zenon DEF Refusing
<1> QED
  BY <1>2, <1>4, Zenon DEF form, cut

Uri(i) == i

\* The fields of a form with the userinfo U, the query Q and the fields X.
FieldsOf(U, tk, X, Q) == Cred(Field(U["user"], tk, X["user"], Q["user"]),
                              Field(U["password"], tk, X["password"], Q["password"]))

LEMMA RestEmptied ==
  ASSUME NEW P, NEW p, NEW U, NEW Q, NEW T, NEW X, NEW i, NEW k, NEW tk, NEW r, Uri(i)
  PROVE  ExtractRest(Filled(P, U, Q, T, i, k, r), Filled(p, U, Q, X, i, tk, r))
           = Filled(p, Empty, Empty, FieldsOf(U, tk, X, Q), i, tk, r)
<1> DEFINE form == Filled(P, U, Q, T, i, k, r)
           cut == Filled(p, U, Q, X, i, tk, r)
           typed == FieldsOf(U, tk, X, Q)
           none == Empty
           F(f) == OrElse(OrElse(form.userinfo[f],
                                 IF cut.taken /\ cut.typed[f] # Absent
                                 THEN cut.typed[f] ELSE form.query[f]), cut.typed[f])
<1>0. i
  BY DEF Uri
<1>1. form.userinfo = U /\ form.query = Q /\ form.isUri = i
  BY ONLY FormFields DEF form
<1>2. cut.taken = tk /\ cut.typed = X
  BY ONLY FormFields DEF cut
<1>3. F("user") = Field(U["user"], tk, X["user"], Q["user"])
  <2> HIDE DEF form, cut
  <2> QED
    BY <1>1, <1>2, Zenon DEF Field
<1>4. F("password") = Field(U["password"], tk, X["password"], Q["password"])
  <2> HIDE DEF form, cut
  <2> QED
    BY <1>1, <1>2, Zenon DEF Field
<1>5. [f \in {"user", "password"} |-> F(f)] = typed
  <2>1. [f \in {"user", "password"} |-> F(f)] = Cred(F("user"), F("password"))
    <3> HIDE DEF F
    <3> QED
      BY DEF Cred
  <2> HIDE DEF F
  <2> QED
    BY <1>3, <1>4, <2>1, Zenon DEF FieldsOf
<1>6. none = Nowhere
  BY DEF Empty, Cred, Nowhere
<1>7. Emptied(cut, typed, none, none) = Filled(p, none, none, typed, i, tk, r)
  <2> HIDE DEF typed, none
  <2> QED
    BY ONLY FormEmptied DEF cut
<1> HIDE DEF form, cut, typed, none
<1>8. ExtractRest(form, cut) = [cut EXCEPT !.typed = [f \in {"user", "password"} |-> F(f)],
                                           !.userinfo = Nowhere, !.query = Nowhere]
  BY <1>0, <1>1, Zenon DEF ExtractRest
<1>9. ExtractRest(form, cut) = Emptied(cut, typed, none, none)
  <2> HIDE DEF F
  <2>1. ExtractRest(form, cut) = [cut EXCEPT !.typed = typed, !.userinfo = none, !.query = none]
    BY <1>5, <1>6, <1>8, Zenon
  <2> QED
    BY <2>1, Zenon DEF Emptied
<1> QED
  BY <1>7, <1>9, Zenon DEF form, cut, typed, none

\* What extract_url_credentials makes of a form, whole.
LEMMA CleaningIs ==
  ASSUME NEW ps \in Seq(MeantPair), NEW u1, NEW u2, NEW q1, NEW q2, NEW t1, NEW t2,
         NEW i, NEW k, NEW r,
         NEW m, m = MeantIn(ps, "user"), NEW w, w = MeantIn(ps, "password"),
         NEW form, form = Filled(TextOf(ps), Cred(u1, u2), Cred(q1, q2), Cred(t1, t2), i, k, r),
         NEW p, p = TextOf(OtherPairs(ps)), NEW tk, tk = Kind(m, w, k),
         NEW x1, x1 = OrElse(m, t1), NEW x2, x2 = OrElse(w, t2)
  PROVE  /\ ~i => Extract(form) = Filled(p, Cred(u1, u2), Cred(q1, q2), Cred(x1, x2), i, tk,
                                         Held(Cred(u1, u2)) \/ Held(Cred(q1, q2)))
         /\ i => Extract(form) = Filled(p, Empty, Empty,
                                        Cred(Field(u1, tk, x1, q1), Field(u2, tk, x2, q2)), i, tk, r)
<1> DEFINE U == Cred(u1, u2)
           Q == Cred(q1, q2)
           T == Cred(t1, t2)
           P == TextOf(ps)
           cut == Filled(p, U, Q, Cred(x1, x2), i, tk, r)
<1>1. form = Filled(P, U, Q, T, i, k, r)
  OBVIOUS
<1>2. ExtractProperties(form) = cut
  <2> DEFINE o1 == OtherPairs(ps)
  <2>1. ExtractProperties(Filled(P, U, Q, T, i, k, r)) =
          Filled(TextOf(o1), U, Q, Cred(OrElse(m, t1), OrElse(w, t2)), i, Kind(m, w, k), r)
    <3> HIDE DEF U, Q
    <3> QED
      BY TakesOut
  <2> HIDE DEF P, U, Q, T, o1
  <2> QED
    BY <1>1, <2>1, Zenon DEF o1
<1>3. Extract(form) = ExtractRest(form, cut)
  BY <1>2, Zenon DEF Extract
<1>4. ASSUME ~i
      PROVE  Extract(form) = Filled(p, U, Q, Cred(x1, x2), i, tk, Held(U) \/ Held(Q))
  <2> HIDE DEF P, U, Q, T
  <2>1. ExtractRest(Filled(P, U, Q, T, i, k, r), Filled(p, U, Q, Cred(x1, x2), i, tk, r))
           = Filled(p, U, Q, Cred(x1, x2), i, tk, Held(U) \/ Held(Q))
    BY ONLY <1>4, RestRefused
  <2> QED
    BY <1>1, <1>3, <2>1, Zenon
<1>5. ASSUME i
      PROVE  Extract(form) = Filled(p, Empty, Empty,
                                    Cred(Field(u1, tk, x1, q1), Field(u2, tk, x2, q2)), i, tk, r)
  <2> DEFINE X == Cred(x1, x2)
  <2>1. FieldsOf(U, tk, X, Q) = Cred(Field(u1, tk, x1, q1), Field(u2, tk, x2, q2))
    <3>1. /\ U["user"] = u1 /\ Q["user"] = q1 /\ X["user"] = x1
          /\ U["password"] = u2 /\ Q["password"] = q2 /\ X["password"] = x2
      BY CredIs
    <3> HIDE DEF U, Q, X
    <3> QED
      BY <3>1, Zenon DEF FieldsOf
  <2>2. cut = Filled(p, U, Q, X, i, tk, r)
    OBVIOUS
  <2> HIDE DEF P, U, Q, T, X, cut
  <2>3. ExtractRest(Filled(P, U, Q, T, i, k, r), Filled(p, U, Q, X, i, tk, r))
           = Filled(p, Empty, Empty, FieldsOf(U, tk, X, Q), i, tk, r)
    <3>1. Uri(i)
      BY <1>5 DEF Uri
    <3> QED
      BY ONLY <3>1, RestEmptied
  <2> QED
    BY <1>1, <1>3, <2>1, <2>2, <2>3, Zenon
<1> QED
  <2> HIDE DEF cut, P
  <2> QED
    BY <1>4, <1>5, Zenon

LEMMA FieldIs ==
  ASSUME NEW u, NEW tk, NEW x, NEW q, NEW m, NEW t, x = OrElse(m, t)
  PROVE  /\ m # Absent /\ tk /\ u = Absent => Field(u, tk, x, q) = m
         /\ m # Absent \/ u # Absent \/ q # Absent => Field(u, tk, x, q) # Absent
         /\ ~tk => Field(Absent, tk, x, Absent) = x
<1>1. /\ \A a, b : OrElse(Absent, b) = b /\ (a # Absent => OrElse(a, b) = a)
      /\ \A a, b : OrElse(a, b) = Absent => a = Absent /\ b = Absent
  BY OrElseIs
<1>2. m # Absent => x = m
  BY <1>1, Zenon
<1>3. ASSUME m # Absent, tk, u = Absent
      PROVE  Field(u, tk, x, q) = m
  <2>1. (IF tk /\ x # Absent THEN x ELSE q) = m
    BY <1>2, <1>3, Zenon
  <2> QED
    BY <1>1, <1>2, <1>3, <2>1, Zenon DEF Field
<1>4. ASSUME m # Absent \/ u # Absent \/ q # Absent, Field(u, tk, x, q) = Absent
      PROVE  FALSE
  <2> DEFINE c == IF tk /\ x # Absent THEN x ELSE q
  <2>1. x = Absent /\ OrElse(u, c) = Absent
    BY <1>1, <1>4, Zenon DEF Field
  <2>2. c = q
    BY <2>1, Zenon
  <2> HIDE DEF c
  <2>3. u = Absent /\ q = Absent
    BY <1>1, <2>1, <2>2, Zenon
  <2>4. m = Absent
    BY <1>2, <2>1, Zenon
  <2> QED
    BY <1>4, <2>3, <2>4, Zenon
<1>5. ASSUME ~tk
      PROVE  Field(Absent, tk, x, Absent) = x
  <2>1. (IF tk /\ x # Absent THEN x ELSE Absent) = Absent
    BY <1>5, Zenon
  <2> QED
    BY <1>1, <2>1, Zenon DEF Field
<1> QED
  BY <1>3, <1>4, <1>5, Zenon

LEMMA CredChanges ==
  ASSUME NEW a, NEW b, NEW c
  PROVE  /\ [Cred(a, b) EXCEPT !["user"] = c] = Cred(c, b)
         /\ [Cred(a, b) EXCEPT !["password"] = c] = Cred(a, c)
<1>1. [Cred(a, b) EXCEPT !["user"] = c] = Cred(c, b)
  BY DEF Cred
<1>2. [Cred(a, b) EXCEPT !["password"] = c] = Cred(a, c)
  BY DEF Cred
<1> QED
  BY <1>1, <1>2

Settled(out) == Extract([out EXCEPT !.taken = FALSE]) = [out EXCEPT !.taken = FALSE]
Arrives(m, u, y) == (m # Absent /\ u = Absent) => y = m
Bare(m, w, a, b, c, d) ==
  m = Absent /\ w = Absent /\ a = Absent /\ b = Absent /\ c = Absent /\ d = Absent

LEMMA SettledWhen ==
  ASSUME NEW out, NEW no, no = FALSE, Extract(Taking(out, no)) = Taking(out, no)
  PROVE  Settled(out)
<1>1. Taking(out, no) = [out EXCEPT !.taken = FALSE]
  BY Zenon DEF Taking
<1> QED
  BY <1>1, Zenon DEF Settled

\* What makes a form clean that is not refused.
LEMMA CleanWhen ==
  ASSUME NEW u1, NEW u2, NEW q1, NEW q2, NEW m, m = Meant("user"), NEW w, w = Meant("password"),
         NEW form, form.userinfo = Cred(u1, u2), form.query = Cred(q1, q2),
         NEW out, NEW y1, NEW y2, out.typed = Cred(y1, y2),
         ~Held(out.userinfo), ~Held(out.query), out.properties = TextOf(OtherPairs(pairs)),
         Arrives(m, u1, y1), Arrives(w, u2, y2),
         Bare(m, w, u1, u2, q1, q2) \/ Held(out.typed), Settled(out)
  PROVE  IsClean(form, out)
<1> DEFINE kept == FlattenSeq([i \in DOMAIN pairs |->
                                 IF pairs[i].key = "other" THEN <<pairs[i]>> ELSE <<>>])
<1>1. out.properties = <<"other">> \o FlattenSeq([i \in DOMAIN kept |-> Written(kept[i])])
  <2>1. kept = OtherPairs(pairs)
    BY Zenon DEF OtherPairs
  <2> HIDE DEF kept
  <2> QED
    BY <2>1, Zenon DEF TextOf, WrittenPairs
<1>2. Extract([out EXCEPT !.taken = FALSE]) = [out EXCEPT !.taken = FALSE]
  BY Zenon DEF Settled
<1>3. /\ form.userinfo["user"] = u1 /\ form.userinfo["password"] = u2
      /\ out.typed["user"] = y1 /\ out.typed["password"] = y2
      /\ form.query["user"] = q1 /\ form.query["password"] = q2
  BY CredIs
<1>4. /\ (m # Absent /\ u1 = Absent) => y1 = m
      /\ (w # Absent /\ u2 = Absent) => y2 = w
      /\ m # Absent \/ w # Absent \/ u1 # Absent \/ u2 # Absent \/ q1 # Absent \/ q2 # Absent
           => Held(out.typed)
  BY Zenon DEF Arrives, Bare
<1>5. /\ [form.userinfo EXCEPT !["user"] = form.query["user"]] = Cred(q1, u2)
      /\ [form.userinfo EXCEPT !["password"] = form.query["password"]] = Cred(u1, q2)
  <2>1. form.userinfo = Cred(u1, u2) /\ form.query["user"] = q1 /\ form.query["password"] = q2
    BY <1>3
  <2> QED
    BY ONLY <2>1, CredChanges
<1>6. ASSUME NEW key \in {"user", "password"}
      PROVE  /\ Meant(key) # Absent /\ form.userinfo[key] = Absent => out.typed[key] = Meant(key)
             /\ Meant(key) # Absent \/ Held([form.userinfo EXCEPT ![key] = form.query[key]])
                  => Held(out.typed)
  <2>1. CASE key = "user"
    <3>1. Held(Cred(q1, u2)) <=> q1 # Absent \/ u2 # Absent
      BY HeldIs
    <3> QED
      BY <1>3, <1>4, <1>5, <2>1, <3>1
  <2>2. CASE key = "password"
    <3>1. Held(Cred(u1, q2)) <=> u1 # Absent \/ q2 # Absent
      BY HeldIs
    <3> QED
      BY <1>3, <1>4, <1>5, <2>2, <3>1
  <2> QED
    BY <2>1, <2>2
<1> HIDE DEF kept
<1>7. /\ ~Held(out.userinfo) /\ ~Held(out.query)
      /\ out.properties = <<"other">> \o FlattenSeq([i \in DOMAIN kept |-> Written(kept[i])])
      /\ \A key \in {"user", "password"} :
           /\ Meant(key) # Absent /\ form.userinfo[key] = Absent => out.typed[key] = Meant(key)
           /\ Meant(key) # Absent \/ Held([form.userinfo EXCEPT ![key] = form.query[key]])
                => Held(out.typed)
      /\ Extract([out EXCEPT !.taken = FALSE]) = [out EXCEPT !.taken = FALSE]
  <2>1. \A key \in {"user", "password"} :
           /\ Meant(key) # Absent /\ form.userinfo[key] = Absent => out.typed[key] = Meant(key)
           /\ Meant(key) # Absent \/ Held([form.userinfo EXCEPT ![key] = form.query[key]])
                => Held(out.typed)
    BY <1>6, Zenon
  <2> QED
    BY <1>1, <1>2, <2>1, Zenon
<1> QED
  BY <1>7, Zenon DEF IsClean, kept

\* A form without credentials in its URL is left alone.
LEMMA CleanStays ==
  ASSUME NEW ps \in Seq(OtherPair), NEW a, NEW b, NEW x1, NEW x2, NEW c, NEW d, NEW i,
         NEW no, ~no,
         NEW r, i \/ r = (Held(Cred(a, b)) \/ Held(Cred(c, d))),
         a = Absent, b = Absent, c = Absent, d = Absent,
         NEW f, f = Filled(TextOf(ps), Cred(a, b), Cred(c, d), Cred(x1, x2), i, no, r)
  PROVE  Extract(f) = f
<1>0. ps \in Seq(MeantPair)
  BY DEF OtherPair
<1> DEFINE m == MeantIn(ps, "user")
           w == MeantIn(ps, "password")
           tk == Kind(m, w, no)
           y1 == OrElse(m, x1)
           y2 == OrElse(w, x2)
           p == TextOf(OtherPairs(ps))
<1>1. m = Absent /\ w = Absent
  BY OthersMeanNone
<1>2. p = TextOf(ps)
  BY <1>0, OthersStay
<1>3. tk = no /\ ~tk
  <2> HIDE DEF m, w
  <2> QED
    BY <1>1, Zenon DEF Kind
<1>4. y1 = x1 /\ y2 = x2
  <2> HIDE DEF m, w
  <2> QED
    BY <1>1, OrElseIs, Zenon
<1>5. /\ ~i => Extract(f) = Filled(p, Cred(a, b), Cred(c, d), Cred(y1, y2), i, tk,
                                   Held(Cred(a, b)) \/ Held(Cred(c, d)))
      /\ i => Extract(f) = Filled(p, Empty, Empty,
                                  Cred(Field(a, tk, y1, c), Field(b, tk, y2, d)), i, tk, r)
  <2>1. m = MeantIn(ps, "user") /\ w = MeantIn(ps, "password") /\ p = TextOf(OtherPairs(ps))
    OBVIOUS
  <2>2. tk = Kind(m, w, no) /\ y1 = OrElse(m, x1) /\ y2 = OrElse(w, x2)
    OBVIOUS
  <2>3. f = Filled(TextOf(ps), Cred(a, b), Cred(c, d), Cred(x1, x2), i, no, r)
    OBVIOUS
  <2> HIDE DEF m, w, tk, y1, y2, p
  <2> QED
    BY ONLY <1>0, <2>1, <2>2, <2>3, CleaningIs
<1> HIDE DEF m, w, tk, y1, y2, p
<1>6. ASSUME ~i PROVE Extract(f) = f
  <2>1. Extract(f) = Filled(p, Cred(a, b), Cred(c, d), Cred(y1, y2), i, tk,
                            Held(Cred(a, b)) \/ Held(Cred(c, d)))
    BY <1>5, <1>6, Zenon
  <2>2. r = (Held(Cred(a, b)) \/ Held(Cred(c, d)))
    BY <1>6, Zenon
  <2> QED
    BY <1>2, <1>3, <1>4, <2>1, <2>2, Zenon
<1>7. ASSUME i PROVE Extract(f) = f
  <2>1. Extract(f) = Filled(p, Empty, Empty,
                            Cred(Field(a, tk, y1, c), Field(b, tk, y2, d)), i, tk, r)
    BY <1>5, <1>7, Zenon
  <2>2. Field(Absent, tk, y1, Absent) = y1 /\ Field(Absent, tk, y2, Absent) = y2
    <3>1. y1 = OrElse(m, x1) /\ y2 = OrElse(w, x2)
      BY DEF y1, y2
    <3> QED
      BY <1>3, <3>1, FieldIs, Zenon
  <2> QED
    BY <1>2, <1>3, <1>4, <2>1, <2>2, Zenon DEF Empty
<1> QED
  BY <1>6, <1>7, Zenon

LEMMA CleanForm ==
  ASSUME UrlInv, NEW u1, NEW u2, NEW q1, NEW q2, NEW t1, NEW t2, NEW i, NEW no, no = FALSE
  PROVE  LET form == Filled(TextOf(pairs), Cred(u1, u2), Cred(q1, q2), Cred(t1, t2), i, no, no)
         IN IsClean(form, Extract(form))
<1> DEFINE form == Filled(TextOf(pairs), Cred(u1, u2), Cred(q1, q2), Cred(t1, t2), i, no, no)
           others == OtherPairs(pairs)
           p == TextOf(others)
           m == MeantIn(pairs, "user")
           w == MeantIn(pairs, "password")
           tk == Kind(m, w, no)
           x1 == OrElse(m, t1)
           x2 == OrElse(w, t2)
           f1 == Field(u1, tk, x1, q1)
           f2 == Field(u2, tk, x2, q2)
           U == Cred(u1, u2)
           Q == Cred(q1, q2)
           held == Held(U) \/ Held(Q)
           out == Extract(form)
<1>0. pairs \in Seq(MeantPair)
  BY DEF UrlInv
<1>1. m = Meant("user") /\ w = Meant("password")
  BY Zenon DEF Meant, MeantIn
<1>2. /\ ~i => out = Filled(p, U, Q, Cred(x1, x2), i, tk, held)
      /\ i => out = Filled(p, Empty, Empty, Cred(f1, f2), i, tk, no)
  <2>1. m = MeantIn(pairs, "user") /\ w = MeantIn(pairs, "password") /\ p = TextOf(OtherPairs(pairs))
    OBVIOUS
  <2>2. tk = Kind(m, w, no) /\ x1 = OrElse(m, t1) /\ x2 = OrElse(w, t2)
    OBVIOUS
  <2>3. form = Filled(TextOf(pairs), Cred(u1, u2), Cred(q1, q2), Cred(t1, t2), i, no, no)
    OBVIOUS
  <2> HIDE DEF m, w, tk, x1, x2, p, form
  <2> QED
    BY ONLY <1>0, <2>1, <2>2, <2>3, CleaningIs
<1>3. form.userinfo = U /\ form.query = Q
  BY ONLY FormFields DEF form
<1>4. others \in Seq(OtherPair) /\ OtherPairs(others) = others
  <2>1. others \in Seq(OtherPair)
    BY <1>0, OthersStay
  <2>2. others \in Seq(MeantPair)
    BY <2>1 DEF OtherPair
  <2> HIDE DEF others
  <2> QED
    BY <2>1, <2>2, OthersStay
<1>5. (Held(U) <=> u1 # Absent \/ u2 # Absent) /\ (Held(Q) <=> q1 # Absent \/ q2 # Absent)
  BY HeldIs
<1>6. m # Absent \/ w # Absent => tk
  <2> HIDE DEF m, w
  <2> QED
    BY Zenon DEF Kind
<1>7. (m # Absent => x1 = m) /\ (w # Absent => x2 = w)
  <2> HIDE DEF m, w
  <2> QED
    BY OrElseIs, Zenon
<1>8. ASSUME ~i PROVE IsClean(form, out)
  <2>1. out = Filled(p, U, Q, Cred(x1, x2), i, tk, held)
    BY <1>2, <1>8, Zenon
  <2>2. /\ out.properties = p /\ out.userinfo = U /\ out.query = Q /\ out.typed = Cred(x1, x2)
        /\ out.refused = held
    <3> DEFINE X == Cred(x1, x2)
    <3>1. out = Filled(p, U, Q, X, i, tk, held)
      BY <2>1
    <3> HIDE DEF p, U, Q, X, tk, held, out
    <3>2. /\ out.properties = p /\ out.userinfo = U /\ out.query = Q /\ out.typed = X
          /\ out.refused = held
      BY ONLY <3>1, FormFields
    <3> QED
      BY <3>2, Zenon DEF X
  <2>3. CASE held
    BY <2>2, <2>3, Zenon DEF IsClean
  <2>4. CASE ~held
    <3>1. u1 = Absent /\ u2 = Absent /\ q1 = Absent /\ q2 = Absent
      BY <1>5, <2>4, Zenon
    <3> DEFINE f == Taking(out, no)
               r == held
    <3>2. f = Filled(TextOf(others), Cred(u1, u2), Cred(q1, q2), Cred(x1, x2), i, no, r)
      <4> DEFINE X == Cred(x1, x2)
      <4>1. out = Filled(p, U, Q, X, i, tk, r)
        BY <2>1
      <4> HIDE DEF p, U, Q, X, tk, r, out
      <4>2. Taking(Filled(p, U, Q, X, i, tk, r), no) = Filled(p, U, Q, X, i, no, r)
        BY ONLY FormUntaken
      <4> QED
        BY <4>1, <4>2, Zenon DEF f, X, U, Q, p
    <3>3. r = (Held(Cred(u1, u2)) \/ Held(Cred(q1, q2)))
      BY Zenon
    <3>4. Extract(f) = f
      <4>1. ~no /\ (i \/ r = (Held(Cred(u1, u2)) \/ Held(Cred(q1, q2))))
        BY <3>3
      <4> HIDE DEF f, r, others, x1, x2
      <4> QED
        BY ONLY <1>4, <3>1, <3>2, <4>1, CleanStays
    <3>5. /\ Arrives(m, u1, x1) /\ Arrives(w, u2, x2)
          /\ Bare(m, w, u1, u2, q1, q2) \/ Held(out.typed)
      <4>1. Held(Cred(x1, x2)) <=> x1 # Absent \/ x2 # Absent
        BY HeldIs
      <4> HIDE DEF m, w, x1, x2, tk, out
      <4> QED
        BY <1>7, <2>2, <3>1, <4>1, Zenon DEF Arrives, Bare
    <3>6. ~Held(out.userinfo) /\ ~Held(out.query)
      BY <2>2, <2>4, Zenon
    <3>7. out.properties = TextOf(OtherPairs(pairs))
      BY <2>2, Zenon
    <3>8. Settled(out)
      BY <3>4, SettledWhen, Zenon
    <3>9. form.userinfo = Cred(u1, u2) /\ form.query = Cred(q1, q2)
      BY <1>3
    <3>10. out.typed = Cred(x1, x2)
      BY <2>2
    <3> HIDE DEF m, w, x1, x2, tk, out, form, held, U, Q
    <3> QED
      BY ONLY <1>1, <3>9, <3>10, <3>5, <3>6, <3>7, <3>8, CleanWhen
  <2> QED
    BY <2>3, <2>4
<1>9. ASSUME i PROVE IsClean(form, out)
  <2>1. out = Filled(p, Empty, Empty, Cred(f1, f2), i, tk, no)
    BY <1>2, <1>9, Zenon
  <2>2. out.properties = p /\ out.userinfo = Empty /\ out.query = Empty /\ out.typed = Cred(f1, f2)
    <3> DEFINE X == Cred(f1, f2)
    <3>1. out = Filled(p, Empty, Empty, X, i, tk, no)
      BY <2>1
    <3> HIDE DEF p, X, tk, out
    <3>2. out.properties = p /\ out.userinfo = Empty /\ out.query = Empty /\ out.typed = X
      BY ONLY <3>1, FormFields
    <3> QED
      BY <3>2, Zenon DEF X
  <2>3. /\ m # Absent /\ u1 = Absent => f1 = m
        /\ w # Absent /\ u2 = Absent => f2 = w
        /\ m # Absent \/ u1 # Absent \/ q1 # Absent => f1 # Absent
        /\ w # Absent \/ u2 # Absent \/ q2 # Absent => f2 # Absent
    <3>1. x1 = OrElse(m, t1) /\ x2 = OrElse(w, t2)
      OBVIOUS
    <3> HIDE DEF m, w, tk, x1, x2
    <3>2. /\ m # Absent /\ tk /\ u1 = Absent => f1 = m
          /\ m # Absent \/ u1 # Absent \/ q1 # Absent => f1 # Absent
      BY ONLY <3>1, FieldIs
    <3>3. /\ w # Absent /\ tk /\ u2 = Absent => f2 = w
          /\ w # Absent \/ u2 # Absent \/ q2 # Absent => f2 # Absent
      BY ONLY <3>1, FieldIs
    <3> HIDE DEF f1, f2
    <3> QED
      BY <1>6, <3>2, <3>3, Zenon
  <2>4. ~Held(Empty)
    BY HeldIs DEF Empty
  <2> DEFINE f == Taking(out, no)
             a == Absent
  <2>5. f = Filled(TextOf(others), Cred(a, a), Cred(a, a), Cred(f1, f2), i, no, no)
    <3> DEFINE X == Cred(f1, f2)
    <3>1. out = Filled(p, Empty, Empty, X, i, tk, no)
      BY <2>1
    <3> HIDE DEF p, X, tk, out
    <3>2. Taking(Filled(p, Empty, Empty, X, i, tk, no), no) = Filled(p, Empty, Empty, X, i, no, no)
      BY ONLY FormUntaken
    <3> QED
      BY <3>1, <3>2, Zenon DEF f, X, p, Empty, a
  <2>6. Extract(f) = f
    <3>1. a = Absent /\ ~no
      OBVIOUS
    <3>2. i \/ no = (Held(Cred(a, a)) \/ Held(Cred(a, a)))
      BY <1>9
    <3> HIDE DEF f, a, others, f1, f2
    <3> QED
      BY ONLY <1>4, <2>5, <3>1, <3>2, CleanStays
  <2>7. /\ Arrives(m, u1, f1) /\ Arrives(w, u2, f2)
        /\ Bare(m, w, u1, u2, q1, q2) \/ Held(out.typed)
    <3>1. Held(Cred(f1, f2)) <=> f1 # Absent \/ f2 # Absent
      BY HeldIs
    <3> HIDE DEF m, w, f1, f2, tk, out
    <3> QED
      BY <2>2, <2>3, <3>1, Zenon DEF Arrives, Bare
  <2>8. ~Held(out.userinfo) /\ ~Held(out.query)
    BY <2>2, <2>4, Zenon
  <2>9. out.properties = TextOf(OtherPairs(pairs))
    BY <2>2, Zenon
  <2>10. Settled(out)
    BY <2>6, SettledWhen, Zenon
  <2>11. form.userinfo = Cred(u1, u2) /\ form.query = Cred(q1, q2)
    BY <1>3
  <2>12. out.typed = Cred(f1, f2)
    BY <2>2
  <2> HIDE DEF m, w, f1, f2, tk, out, form, U, Q
  <2> QED
    BY ONLY <1>1, <2>7, <2>8, <2>9, <2>10, <2>11, <2>12, CleanWhen
<1> QED
  <2> HIDE DEF form, out
  <2>1. IsClean(form, out)
    BY <1>8, <1>9, Zenon
  <2> QED
    BY <2>1, Zenon DEF form, out

LEMMA CredentialsLeave == UrlInv => CredentialsLeaveTheUrl
<1> SUFFICES ASSUME UrlInv, NEW form \in UrlForms PROVE IsClean(form, Extract(form))
  BY Zenon DEF CredentialsLeaveTheUrl
<1> DEFINE no == FALSE
           text0 == TextOf(pairs)
           U == form.userinfo
           Q == form.query
           T == form.typed
<1>1. /\ form.properties = text0 /\ form.taken = no /\ form.refused = no
      /\ U \in Place("info") /\ Q \in Place("query")
      /\ T \in {Nowhere, [user |-> <<"form">>, password |-> <<"form">>]}
  BY DEF UrlForms, TextOf, WrittenPairs
<1>2. \A name : \A P \in Place(name) : P = Cred(P.user, P.password)
  BY DEF Place, Cred
<1>3. T = Cred(T.user, T.password)
  BY <1>1 DEF Nowhere, Cred
<1>4. form = Filled(text0, U, Q, T, form.isUri, no, no)
  BY <1>1 DEF UrlForms, Filled
<1>5. form = Filled(text0, Cred(U.user, U.password), Cred(Q.user, Q.password),
                    Cred(T.user, T.password), form.isUri, no, no)
  <2> HIDE DEF text0, no, U, Q, T
  <2> QED
    BY <1>1, <1>2, <1>3, <1>4, Zenon
<1> HIDE DEF U, Q, T
<1> QED
  BY <1>5, CleanForm, Zenon

\* For every bound: the credentials of a URL leave it, as
\* extract_sql_server_url_credentials and extract_url_credentials mean to.
THEOREM UrlsCorrect == UrlSpec => []CredentialsLeaveTheUrl
BY UrlInvHolds, CredentialsLeave, PTL

-----------------------------------------------------------------------------
(* The parts side by side.                                                 *)

LEMMA EachPartIsItself ==
  InputsSpec =>
    /\ ImportSpec /\ PreviewSpec /\ CsvSpec
    /\ UrlSpec /\ FormSpec /\ TargetSpec /\ ReferencesSpec
<1>1. InputsInit =>
        /\ ImportInit /\ PreviewInit /\ CsvInit
        /\ UrlInit /\ FormInit /\ TargetInit /\ ReferencesInit
  BY DEF InputsInit
<1>2. [InputsNext]_inputsVars =>
        /\ [ImportNext]_importVars /\ [PreviewNext]_previewVars /\ [CsvNext]_csvVars
        /\ [UrlNext]_urlVars /\ [FormNext]_formVars /\ [TargetNext]_targetVars
        /\ [ReferencesNext]_referenceVars
  <2>1. InputsNext =>
          /\ [ImportNext]_importVars /\ [PreviewNext]_previewVars /\ [CsvNext]_csvVars
          /\ [UrlNext]_urlVars /\ [FormNext]_formVars /\ [TargetNext]_targetVars
          /\ [ReferencesNext]_referenceVars
    BY DEF InputsNext
  <2>2. UNCHANGED inputsVars =>
          /\ UNCHANGED importVars /\ UNCHANGED previewVars /\ UNCHANGED csvVars
          /\ UNCHANGED urlVars /\ UNCHANGED formVars /\ UNCHANGED targetVars /\ UNCHANGED referenceVars
    BY DEF inputsVars
  <2> QED
    BY <2>1, <2>2
<1> QED
  BY <1>1, <1>2, PTL
     DEF InputsSpec, ImportSpec, PreviewSpec, CsvSpec, UrlSpec, FormSpec, TargetSpec,
         ReferencesSpec

(* The run's invariant of imports and previews, among the other parts.       *)
THEOREM ImportsCorrect == InputsSpec => []ImportsAreTrue
<1>1. ImportSafety /\ PreviewsAreCurrent /\ ReaderAgreesWithParser /\ RoundTrip
        /\ PreviewAgreesWithImport => ImportsAreTrue
  BY DEF ImportsAreTrue
<1> QED
  BY <1>1, EachPartIsItself, ImportCorrect, PreviewsCorrect, ReaderCorrect, ExportsAreReadBack,
     PreviewsAgree, PTL

(* Its invariant of connections: what a form, a URL or a file says is honoured. *)
THEOREM ConnectionsCorrect == InputsSpec => []ConnectionsAreUnderstood
<1>1. CredentialsLeaveTheUrl /\ HostAndPortAreTakenApart /\ FormsAreHonoured
        /\ OnlyCreatingMakesFiles => ConnectionsAreUnderstood
  BY DEF ConnectionsAreUnderstood
<1> QED
  BY <1>1, EachPartIsItself, UrlsCorrect, HostsCorrect, FormsCorrect, TargetsCorrect, PTL

(* And its action property of the references.                               *)
THEOREM ReferencesCorrect == InputsSpec => EditsLeaveConnectionsAlone
BY EachPartIsItself, EditsCorrect, PTL
=============================================================================
